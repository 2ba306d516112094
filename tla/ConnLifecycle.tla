---------------------------- MODULE ConnLifecycle ----------------------------
(***************************************************************************)
(* The life of a WebSocket connection, from the upgrade request to the end *)
(* of conn.Run, against the three things that end it from outside: an      *)
(* administrator revoking its API key, the server draining on shutdown,    *)
(* and a crash of the process.                                             *)
(*                                                                         *)
(* Per connection there is the HTTP handler goroutine (UpgradeHandler.     *)
(* ServeHTTP and then conn.Run on the same stack), its readPump and its    *)
(* writePump, and the CloseFrame goroutines the hub starts.  The hub's     *)
(* Add, Remove, CloseKey and Drain are critical sections of Hub.mu; Drain  *)
(* sets draining in one and takes its snapshot in a second.                *)
(*                                                                         *)
(* External: the peer, which may vanish, stall or answer at any time; the  *)
(* WebSocket library, used through Read, Write, Close and CloseNow; and    *)
(* the SQLite file, whose revocations survive a crash.                     *)
(***************************************************************************)
EXTENDS FiniteSets, Naturals

CONSTANTS
    Conns,          \* connections (slots: a finished one may be used again)
    Keys,           \* API keys
    IPs,            \* per-IP cap buckets (ipCapKey)
    KeyOf,          \* [Conns -> Keys], the key of the upgrade request
    IpOf,           \* [Conns -> IPs], its bucket
    IpCap           \* UpgradeHandler.ipCap

ASSUME LifecycleAssumption ==
    /\ IsFiniteSet(Conns)
    /\ KeyOf \in [Conns -> Keys]
    /\ IpOf \in [Conns -> IPs]
    /\ IpCap \in Nat \ {0}

VARIABLES
    revoked,        \* keys with revoked_at set in the store (persistent)
    revoking,       \* revoke requests between RevokeKey and CloseKey
    srv,            \* where Server.Run stands
    draining,       \* Hub.draining
    closedKeys,     \* DOMAIN of Hub.closedKeys
    tracked,        \* Hub.conns
    ipCount,        \* UpgradeHandler.ipCount
    pc,             \* where the handler goroutine of each connection stands
    rp,             \* its readPump: reading, inside handle, inside a publish, or off
    wp,             \* its writePump: on or off
    canceled,       \* runCtx canceled
    sock,           \* the TCP connection
    closing,        \* a CloseFrame handshake is in progress
    closeReq        \* Conn.closeReq holds a token

connVars == <<pc, rp, wp, canceled, sock, closing, closeReq>>
hubVars == <<draining, closedKeys, tracked>>
vars == <<revoked, revoking, srv, hubVars, ipCount, connVars>>

(* The listeners still take requests; from SetDraining on, /v1/connect     *)
(* answers 503.                                                            *)
Listening == srv \in {"up", "health", "mark", "wait", "stopped"}
HealthDraining == srv # "up"

(* States of ServeHTTP in which the request is counted against its IP.     *)
Counted(u) == pc[u] \in {"accept", "add", "refused", "running", "closing", "join",
                         "remove", "release"}

Init ==
    /\ revoked = {}
    /\ srv = "up"
    /\ draining = FALSE
    /\ closedKeys = {}
    /\ tracked = {}
    /\ revoking = {}
    /\ ipCount = [ip \in IPs |-> 0]
    /\ pc = [u \in Conns |-> "none"]
    /\ rp = [u \in Conns |-> "off"]
    /\ wp = [u \in Conns |-> "off"]
    /\ canceled = [u \in Conns |-> FALSE]
    /\ sock = [u \in Conns |-> "closed"]
    /\ closing = [u \in Conns |-> FALSE]
    /\ closeReq = [u \in Conns |-> FALSE]

Go(u, to) == pc' = [pc EXCEPT ![u] = to]

(* CloseFrame on each of us: a handshake starts, or one already running    *)
(* goes on; on a dead socket ws.Close returns at once.                     *)
CloseFrame(us) ==
    closing' = [u \in Conns |-> closing[u] \/ (u \in us /\ sock[u] = "open")]

-----------------------------------------------------------------------------
(* UpgradeHandler.ServeHTTP.                                               *)

UpgradeStart(u) ==
    /\ pc[u] = "none"
    /\ ~ HealthDraining
    /\ Go(u, "lookup")
    /\ UNCHANGED <<revoked, revoking, srv, hubVars, ipCount, rp, wp, canceled, sock, closing, closeReq>>

(* Seeded fault: the upgrade looks the key up and ignores RevokedAt.       *)
FaultyLookupKey(u) ==
    /\ pc[u] = "lookup"
    /\ Go(u, "ipcap")
    /\ UNCHANGED <<revoked, revoking, srv, hubVars, ipCount, rp, wp, canceled, sock, closing, closeReq>>

(* The store answers with a key that is not revoked, or the request gets   *)
(* 401: the key is revoked, or the query failed.                           *)
LookupKey(u) ==
    /\ pc[u] = "lookup"
    /\ \/ KeyOf[u] \notin revoked /\ Go(u, "ipcap")
       \/ Go(u, "none")
    /\ UNCHANGED <<revoked, revoking, srv, hubVars, ipCount, rp, wp, canceled, sock, closing, closeReq>>

IpCapReached(u) ==
    /\ pc[u] = "ipcap"
    /\ ipCount[IpOf[u]] >= IpCap
    /\ Go(u, "none")
    /\ UNCHANGED <<revoked, revoking, srv, hubVars, ipCount, rp, wp, canceled, sock, closing, closeReq>>

CountIP(u) ==
    /\ pc[u] = "ipcap"
    /\ ipCount[IpOf[u]] < IpCap
    /\ ipCount' = [ipCount EXCEPT ![IpOf[u]] = @ + 1]
    /\ Go(u, "accept")
    /\ UNCHANGED <<revoked, revoking, srv, hubVars, rp, wp, canceled, sock, closing, closeReq>>

(* Seeded fault: the decrement is not deferred, so a failed Accept skips   *)
(* it.                                                                     *)
FaultyAccept(u) ==
    /\ pc[u] = "accept"
    /\ \/ Go(u, "add") /\ sock' = [sock EXCEPT ![u] = "open"]
       \/ Go(u, "done") /\ UNCHANGED sock
    /\ UNCHANGED <<revoked, revoking, srv, hubVars, ipCount, rp, wp, canceled, closing, closeReq>>

(* websocket.Accept: the upgrade succeeds, or the peer or origin fails it. *)
Accept(u) ==
    /\ pc[u] = "accept"
    /\ \/ Go(u, "add") /\ sock' = [sock EXCEPT ![u] = "open"]
       \/ Go(u, "release") /\ UNCHANGED sock
    /\ UNCHANGED <<revoked, revoking, srv, hubVars, ipCount, rp, wp, canceled, closing, closeReq>>

(* Seeded fault: the decrement runs on the error path and again deferred.  *)
FaultyRelease(u) ==
    /\ pc[u] = "release"
    /\ ipCount' = [ipCount EXCEPT ![IpOf[u]] = @ - 2]
    /\ Go(u, "done")
    /\ UNCHANGED <<revoked, revoking, srv, hubVars, rp, wp, canceled, sock, closing, closeReq>>

(* The deferred decrement, when conn.Run (or a failed Accept) returns.     *)
Release(u) ==
    /\ pc[u] = "release"
    /\ ipCount' = [ipCount EXCEPT ![IpOf[u]] = @ - 1]
    /\ Go(u, "done")
    /\ UNCHANGED <<revoked, revoking, srv, hubVars, rp, wp, canceled, sock, closing, closeReq>>

(* The slot stands for a new connection once nothing refers to the old one.*)
Recycle(u) ==
    /\ pc[u] = "done"
    /\ ~ closing[u]
    /\ Go(u, "none")
    /\ canceled' = [canceled EXCEPT ![u] = FALSE]
    /\ sock' = [sock EXCEPT ![u] = "closed"]
    /\ closeReq' = [closeReq EXCEPT ![u] = FALSE]
    /\ UNCHANGED <<revoked, revoking, srv, hubVars, ipCount, rp, wp, closing>>

-----------------------------------------------------------------------------
(* conn.Run.                                                               *)

(* Hub.Add refuses: Run closes the socket itself and returns.              *)
AddRefused(u) ==
    /\ pc[u] = "add"
    /\ draining \/ KeyOf[u] \in closedKeys
    /\ CloseFrame({u})
    /\ Go(u, "refused")
    /\ UNCHANGED <<revoked, revoking, srv, hubVars, ipCount, rp, wp, canceled, sock, closeReq>>

(* Seeded faults: Hub.Add does not look at closedKeys, or at draining.     *)
FaultyAddRevoked(u) ==
    /\ pc[u] = "add"
    /\ ~ draining
    /\ tracked' = tracked \cup {u}
    /\ rp' = [rp EXCEPT ![u] = "read"]
    /\ wp' = [wp EXCEPT ![u] = "on"]
    /\ Go(u, "running")
    /\ UNCHANGED <<revoked, revoking, srv, draining, closedKeys, ipCount, canceled, sock, closing, closeReq>>

FaultyAddDraining(u) ==
    /\ pc[u] = "add"
    /\ KeyOf[u] \notin closedKeys
    /\ tracked' = tracked \cup {u}
    /\ rp' = [rp EXCEPT ![u] = "read"]
    /\ wp' = [wp EXCEPT ![u] = "on"]
    /\ Go(u, "running")
    /\ UNCHANGED <<revoked, revoking, srv, draining, closedKeys, ipCount, canceled, sock, closing, closeReq>>

(* Hub.Add tracks the connection and Run starts the pumps.                 *)
Add(u) ==
    /\ pc[u] = "add"
    /\ ~ draining
    /\ KeyOf[u] \notin closedKeys
    /\ tracked' = tracked \cup {u}
    /\ rp' = [rp EXCEPT ![u] = "read"]
    /\ wp' = [wp EXCEPT ![u] = "on"]
    /\ Go(u, "running")
    /\ UNCHANGED <<revoked, revoking, srv, draining, closedKeys, ipCount, canceled, sock, closing, closeReq>>

RefusedEnd(u) ==
    /\ pc[u] = "refused"
    /\ ~ closing[u]
    /\ Go(u, "release")
    /\ UNCHANGED <<revoked, revoking, srv, hubVars, ipCount, rp, wp, canceled, sock, closing, closeReq>>

(* Seeded fault: Run waits for the other pump without canceling it.        *)
FaultyPumpReturned(u) ==
    /\ pc[u] = "running"
    /\ rp[u] = "off" \/ wp[u] = "off"
    /\ Go(u, "join")
    /\ UNCHANGED <<revoked, revoking, srv, hubVars, ipCount, rp, wp, canceled, sock, closing, closeReq>>

(* Run's select: a pump returned, or Send asked for a close.               *)
PumpReturned(u) ==
    /\ pc[u] = "running"
    /\ rp[u] = "off" \/ wp[u] = "off"
    /\ canceled' = [canceled EXCEPT ![u] = TRUE]
    /\ Go(u, "join")
    /\ UNCHANGED <<revoked, revoking, srv, hubVars, ipCount, rp, wp, sock, closing, closeReq>>

CloseRequested(u) ==
    /\ pc[u] = "running"
    /\ closeReq[u]
    /\ closeReq' = [closeReq EXCEPT ![u] = FALSE]
    /\ CloseFrame({u})
    /\ Go(u, "closing")
    /\ UNCHANGED <<revoked, revoking, srv, hubVars, ipCount, rp, wp, canceled, sock>>

CloseRequestEnd(u) ==
    /\ pc[u] = "closing"
    /\ ~ closing[u]
    /\ canceled' = [canceled EXCEPT ![u] = TRUE]
    /\ Go(u, "join")
    /\ UNCHANGED <<revoked, revoking, srv, hubVars, ipCount, rp, wp, sock, closing, closeReq>>

(* Seeded fault: Run returns and leaves the socket to the library.         *)
FaultyTeardown(u) ==
    /\ pc[u] = "join"
    /\ rp[u] = "off"
    /\ wp[u] = "off"
    /\ ~ closing[u]
    /\ Go(u, "remove")
    /\ UNCHANGED <<revoked, revoking, srv, hubVars, ipCount, rp, wp, canceled, sock, closing, closeReq>>

(* Both pumps have returned: release the socket whatever state it is in    *)
(* (ws.CloseNow waits for a close handshake that is still running), then   *)
(* clean up the subscriptions (ChannelRegistry's TeardownStart).           *)
Teardown(u) ==
    /\ pc[u] = "join"
    /\ rp[u] = "off"
    /\ wp[u] = "off"
    /\ ~ closing[u]
    /\ sock' = [sock EXCEPT ![u] = "closed"]
    /\ Go(u, "remove")
    /\ UNCHANGED <<revoked, revoking, srv, hubVars, ipCount, rp, wp, canceled, closing, closeReq>>

(* The deferred Hub.Remove.                                                *)
Remove(u) ==
    /\ pc[u] = "remove"
    /\ tracked' = tracked \ {u}
    /\ Go(u, "release")
    /\ UNCHANGED <<revoked, revoking, srv, draining, closedKeys, ipCount, rp, wp, canceled, sock, closing, closeReq>>

-----------------------------------------------------------------------------
(* The pumps, the peer and the WebSocket library.                          *)

ReadFrame(u) ==
    /\ rp[u] = "read"
    /\ sock[u] = "open"
    /\ ~ canceled[u]
    /\ rp' \in {[rp EXCEPT ![u] = h] : h \in {"handle", "publish"}}
    /\ UNCHANGED <<revoked, revoking, srv, hubVars, ipCount, pc, wp, canceled, sock, closing, closeReq>>

Handled(u) ==
    /\ rp[u] \in {"handle", "publish"}
    /\ rp' = [rp EXCEPT ![u] = "read"]
    /\ UNCHANGED <<revoked, revoking, srv, hubVars, ipCount, pc, wp, canceled, sock, closing, closeReq>>

ReadFailed(u) ==
    /\ rp[u] = "read"
    /\ canceled[u] \/ sock[u] = "closed"
    /\ rp' = [rp EXCEPT ![u] = "off"]
    /\ UNCHANGED <<revoked, revoking, srv, hubVars, ipCount, pc, wp, canceled, sock, closing, closeReq>>

(* An oversize message or a protocol error: Read fails, the library has    *)
(* written a close frame, and the TCP connection stays open.               *)
ReadRefused(u) ==
    /\ rp[u] = "read"
    /\ sock[u] = "open"
    /\ rp' = [rp EXCEPT ![u] = "off"]
    /\ UNCHANGED <<revoked, revoking, srv, hubVars, ipCount, pc, wp, canceled, sock, closing, closeReq>>

(* writePump returns on a canceled context or a dead socket, and a write   *)
(* or ping deadline that passes kills the socket.                          *)
WriteFailed(u) ==
    /\ wp[u] = "on"
    /\ canceled[u] \/ sock[u] = "closed"
    /\ wp' = [wp EXCEPT ![u] = "off"]
    /\ UNCHANGED <<revoked, revoking, srv, hubVars, ipCount, pc, rp, canceled, sock, closing, closeReq>>

WriteTimeout(u) ==
    /\ wp[u] = "on"
    /\ sock[u] = "open"
    /\ wp' = [wp EXCEPT ![u] = "off"]
    /\ sock' = [sock EXCEPT ![u] = "closed"]
    /\ UNCHANGED <<revoked, revoking, srv, hubVars, ipCount, pc, rp, canceled, closing, closeReq>>

PeerGone(u) ==
    /\ sock[u] = "open"
    /\ sock' = [sock EXCEPT ![u] = "closed"]
    /\ UNCHANGED <<revoked, revoking, srv, hubVars, ipCount, pc, rp, wp, canceled, closing, closeReq>>

(* Send met a full buffer under PolicyDisconnect.                          *)
SlowConsumer(u) ==
    /\ pc[u] = "running"
    /\ closeReq' = [closeReq EXCEPT ![u] = TRUE]
    /\ UNCHANGED <<revoked, revoking, srv, hubVars, ipCount, pc, rp, wp, canceled, sock, closing>>

(* CloseFrame ends: the peer answered, or closeTimeout closed the TCP      *)
(* connection under the handshake.                                         *)
CloseFrameEnd(u) ==
    /\ closing[u]
    /\ closing' = [closing EXCEPT ![u] = FALSE]
    /\ sock' = [sock EXCEPT ![u] = "closed"]
    /\ UNCHANGED <<revoked, revoking, srv, hubVars, ipCount, pc, rp, wp, canceled, closeReq>>

-----------------------------------------------------------------------------
(* RestHandler.revoke: the store first, then Hub.CloseKey.  The store may  *)
(* apply the update and still report an error; the handler then stops.     *)

RevokeKey(k) ==
    /\ Listening
    /\ k \notin revoking
    /\ revoked' = revoked \cup {k}
    /\ \/ revoking' = revoking \cup {k}
       \/ UNCHANGED revoking
    /\ UNCHANGED <<srv, hubVars, ipCount, connVars>>

CloseKey(k) ==
    /\ k \in revoking
    /\ revoking' = revoking \ {k}
    /\ closedKeys' = closedKeys \cup {k}
    /\ CloseFrame({u \in tracked : KeyOf[u] = k})
    /\ UNCHANGED <<revoked, srv, draining, tracked, ipCount, pc, rp, wp, canceled, sock, closeReq>>

-----------------------------------------------------------------------------
(* Server.Run after its context is canceled.                               *)

SetDraining ==
    /\ srv = "up"
    /\ srv' = "health"
    /\ UNCHANGED <<revoked, revoking, hubVars, ipCount, connVars>>

DrainMark ==
    /\ srv = "health"
    /\ srv' = "mark"
    /\ draining' = TRUE
    /\ UNCHANGED <<revoked, revoking, closedKeys, tracked, ipCount, connVars>>

DrainSnapshot ==
    /\ srv = "mark"
    /\ srv' = "wait"
    /\ CloseFrame(tracked)
    /\ UNCHANGED <<revoked, revoking, hubVars, ipCount, pc, rp, wp, canceled, sock, closeReq>>

DrainEmpty ==
    /\ srv = "wait"
    /\ tracked = {}
    /\ srv' = "stopped"
    /\ UNCHANGED <<revoked, revoking, hubVars, ipCount, connVars>>

(* The grace period is over: CloseNow on whatever is still tracked.        *)
DrainForce ==
    /\ srv = "wait"
    /\ tracked # {}
    /\ srv' = "stopped"
    /\ canceled' = [u \in Conns |-> canceled[u] \/ u \in tracked]
    /\ sock' = [u \in Conns |-> IF u \in tracked THEN "closed" ELSE sock[u]]
    /\ UNCHANGED <<revoked, revoking, hubVars, ipCount, pc, rp, wp, closing, closeReq>>

(* Both listeners are shut down, then the fan-out pool is closed.          *)
ClosePool ==
    /\ srv = "stopped"
    /\ srv' = "poolclosed"
    /\ UNCHANGED <<revoked, revoking, hubVars, ipCount, connVars>>

(* The process ends, by returning from Run (at once when a listener fails, *)
(* which is a crash to everything below) or by a crash: everything but     *)
(* the store is gone.                                                      *)
ProcessEnds ==
    /\ srv' = "down"
    /\ draining' = FALSE
    /\ closedKeys' = {}
    /\ tracked' = {}
    /\ revoking' = {}
    /\ ipCount' = [ip \in IPs |-> 0]
    /\ pc' = [u \in Conns |-> "none"]
    /\ rp' = [u \in Conns |-> "off"]
    /\ wp' = [u \in Conns |-> "off"]
    /\ canceled' = [u \in Conns |-> FALSE]
    /\ sock' = [u \in Conns |-> "closed"]
    /\ closing' = [u \in Conns |-> FALSE]
    /\ closeReq' = [u \in Conns |-> FALSE]
    /\ UNCHANGED revoked

Exit == srv = "poolclosed" /\ ProcessEnds
Crash == srv # "down" /\ ProcessEnds

Restart ==
    /\ srv = "down"
    /\ srv' = "up"
    /\ UNCHANGED <<revoked, revoking, hubVars, ipCount, connVars>>

-----------------------------------------------------------------------------
HandlerStep(u) ==
    \/ LookupKey(u) \/ IpCapReached(u) \/ CountIP(u) \/ Accept(u) \/ Release(u)
    \/ AddRefused(u) \/ Add(u) \/ RefusedEnd(u)
    \/ PumpReturned(u) \/ CloseRequested(u) \/ CloseRequestEnd(u)
    \/ Teardown(u) \/ Remove(u)

ReadStep(u) == Handled(u) \/ ReadFailed(u)

Environment(u) ==
    \/ UpgradeStart(u) \/ Recycle(u) \/ ReadFrame(u) \/ ReadRefused(u) \/ PeerGone(u) \/ SlowConsumer(u)
    \/ WriteTimeout(u)

ServerStep ==
    DrainMark \/ DrainSnapshot \/ DrainEmpty \/ DrainForce \/ ClosePool \/ Exit

Next ==
    \/ \E u \in Conns : HandlerStep(u) \/ ReadStep(u) \/ WriteFailed(u) \/ CloseFrameEnd(u)
    \/ \E u \in Conns : Environment(u)
    \/ \E k \in Keys : RevokeKey(k) \/ CloseKey(k)
    \/ ServerStep \/ SetDraining \/ Crash \/ Restart

Spec == Init /\ [][Next]_vars

(* Goroutines are scheduled, handlers and deadlines come to an end, the    *)
(* drain's ticker and grace timer fire.  Nothing is assumed of the peer    *)
(* (CloseFrame's timer ends a handshake it ignores), of the administrator, *)
(* or of when a shutdown begins.                                           *)
Fairness ==
    /\ \A u \in Conns : /\ WF_vars(HandlerStep(u))
                        /\ WF_vars(ReadStep(u))
                        /\ WF_vars(WriteFailed(u))
                        /\ WF_vars(CloseFrameEnd(u))
    /\ \A k \in Keys : WF_vars(CloseKey(k))
    /\ WF_vars(ServerStep)

FairSpec == Spec /\ Fairness

-----------------------------------------------------------------------------
(* The shape of the state.                                                 *)
TypeOK ==
    /\ revoked \subseteq Keys /\ revoking \subseteq Keys /\ closedKeys \subseteq Keys
    /\ srv \in {"up", "health", "mark", "wait", "stopped", "poolclosed", "down"}
    /\ draining \in BOOLEAN
    /\ tracked \subseteq Conns
    /\ ipCount \in [IPs -> Nat]
    /\ pc \in [Conns -> {"none", "lookup", "ipcap", "accept", "add", "refused", "running",
                         "closing", "join", "remove", "release", "done"}]
    /\ rp \in [Conns -> {"off", "read", "handle", "publish"}]
    /\ wp \in [Conns -> {"off", "on"}]
    /\ sock \in [Conns -> {"open", "closed"}]
    /\ canceled \in [Conns -> BOOLEAN]
    /\ closing \in [Conns -> BOOLEAN]
    /\ closeReq \in [Conns -> BOOLEAN]

(* Something that cannot be undone is already ending the connection.       *)
Doomed(u) == closing[u] \/ canceled[u] \/ sock[u] = "closed"

(* Once Hub.CloseKey has run for a key, no connection of that key slips    *)
(* through: an upgrade that read the key before the revoke and reaches     *)
(* Hub.Add after it is refused, one that was tracked is being closed.      *)
RevokedIsDoomed ==
    \A u \in tracked : KeyOf[u] \in closedKeys => Doomed(u)

(* Once Drain has taken its snapshot, every tracked connection was in it,  *)
(* although draining and the snapshot are two critical sections.           *)
DrainCoversAll ==
    srv \in {"wait", "stopped", "poolclosed"} => \A u \in tracked : Doomed(u)

(* ipCount[ip] is the number of requests of ip between the increment and   *)
(* the deferred decrement, on every path out of ServeHTTP, so it never     *)
(* exceeds the cap and never sticks above zero.                            *)
IpCountExact ==
    \A ip \in IPs :
        /\ ipCount[ip] = Cardinality({u \in Conns : IpOf[u] = ip /\ Counted(u)})
        /\ ipCount[ip] <= IpCap

(* No socket escapes the cap: while a connection's socket is open, it is   *)
(* counted, also after an oversize frame or a protocol error made readPump *)
(* return with the TCP connection open.                                    *)
OpenIsCounted ==
    \A u \in Conns : sock[u] = "open" => Counted(u)

(* After a key's CloseKey, its connections end and none ever runs again,   *)
(* across a crash and restart too (the store was written first); and a     *)
(* crash between the store and CloseKey does not lose the revocation: the  *)
(* process that dies takes the connections with it, and no later one lets  *)
(* the key in.                                                             *)
RevokedEndsForGood ==
    \A k \in Keys :
        k \in closedKeys \/ (k \in revoked /\ srv = "down")
            ~> [](\A u \in Conns : KeyOf[u] = k => u \notin tracked)

(* A connection that is being closed, or one of whose pumps has returned,  *)
(* gets through Run's teardown and is removed, whatever its peer does: a   *)
(* peer that ignores the close handshake, or that stalls after an oversize *)
(* frame with its TCP connection open, pins neither Run nor the IP's slot. *)
DoomedEnds ==
    \A u \in Conns :
        (u \in tracked /\ (Doomed(u) \/ rp[u] = "off" \/ wp[u] = "off")) ~> pc[u] \in {"none", "done"}

(* What the comment on Server.Run's last step says: once the listeners are *)
(* down and Drain has returned, no new broadcast can arrive at the pool.   *)
NoBroadcastAfterDrain ==
    srv = "poolclosed" => \A u \in Conns : rp[u] # "publish"
=============================================================================
