-------------------------------- MODULE Client --------------------------------
(***************************************************************************)
(* The browser client's handling of one private channel, composed with the *)
(* server's answers: subscribe() calls that share a record and a wire      *)
(* attempt, their handles, authorize() round trips that span a drop, acks  *)
(* that time out, come late or never come, drops and reconnects, and the   *)
(* resubscribe with its retries.                                           *)
(*                                                                         *)
(* One action is one macrotask of the client (a call, a frame, a timer)    *)
(* together with the promise reactions it causes, which JavaScript runs    *)
(* before the next one.  Of the channel records only the one in #channels  *)
(* matters; it is named after the call that created it.  Channels share    *)
(* nothing but the socket, so one is modelled.                             *)
(*                                                                         *)
(* Frames travel in order and, while the connection lasts, are not lost;   *)
(* but the server's sendAck and sendError drop an answer when the send     *)
(* buffer is full.                                                         *)
(***************************************************************************)
EXTENDS Naturals, FiniteSets, SequencesExt

CONSTANTS
    Calls,          \* subscribe() calls; a handler is named after its call
    Attempts,       \* wire attempts (promises of #sendSubscribe); their number is a bound
    None,
    MaxEpochs,      \* bound: connections
    MaxLost,        \* bound: answers dropped on a full buffer
    MaxFrames       \* bound: frames under way before the client sends another

ASSUME ClientAssumption ==
    /\ None \notin Calls \union Attempts
    /\ MaxEpochs \in Nat \ {0} /\ MaxLost \in Nat /\ MaxFrames \in Nat \ {0}

VARIABLES
    state,          \* #state
    epoch,          \* #epoch
    cl,             \* the channel's record, attempts and calls, see Init
    pending,        \* #pending
    up, down,       \* frames on their way to the server and back; a frame's
                    \* epoch and rec are history and not on the wire
    held,           \* the server's Conn.subs has the channel
    lost,           \* answers dropped so far
    odd             \* history of this connection: "mixed" (an ack taken for a
                    \* later record's), "kept" (an unsubscribe refused), "lost"

vars == <<state, epoch, cl, pending, up, down, held, lost, odd>>

NoAttempt == [st |-> "free", epoch |-> 0, rec |-> None]

Init ==
    /\ state = "connecting" /\ epoch = 0
    /\ cl = [rec |-> None, handlers |-> {}, confirmed |-> FALSE, inflight |-> None,
             retryTimer |-> FALSE,
             restoring |-> None,    \* the attempt that #resubscribe awaits
             att |-> [a \in Attempts |-> NoAttempt],
             call |-> [k \in Calls |-> [pc |-> "new", rec |-> None, att |-> None]]]
    /\ pending = <<>> /\ up = <<>> /\ down = <<>>
    /\ held = FALSE /\ lost = 0 /\ odd = {}

-----------------------------------------------------------------------------
(* Changes of the channel's state.                                         *)

(* The bound on frames under way.                                          *)
Room == Len(up) + Len(down) < MaxFrames

(* The bound on attempts under way.                                        *)
Spare == \E a \in Attempts : cl.att[a].st = "free"

(* A bug: the retry outlives the record.                                   *)
FaultyForget(c) ==
    [c EXCEPT !.rec = None, !.handlers = {}, !.confirmed = FALSE, !.inflight = None]

(* The record leaves #channels, its retry cancelled.                       *)
Forget(c) ==
    [c EXCEPT !.rec = None, !.handlers = {}, !.confirmed = FALSE, !.inflight = None,
              !.retryTimer = FALSE]

Waiters(c, a) == {k \in Calls : c.call[k].pc = "wait" /\ c.call[k].att = a}

Ended(c, ks, pc) ==
    [c EXCEPT !.call = [k \in Calls |-> IF k \in ks THEN [@[k] EXCEPT !.pc = pc, !.att = None] ELSE @[k]]]

(* The calls ks, or #resubscribe, await the record's attempt on connection *)
(* e: the one in flight, or a new one that starts with authorize().        *)
ensureSubscribed(c, ks, resubscribe, e) ==
    LET a == IF c.inflight = None THEN CHOOSE x \in Attempts : c.att[x].st = "free" ELSE c.inflight
    IN  [c EXCEPT
            !.inflight = a,
            !.att[a] = IF c.inflight = None THEN [st |-> "auth", epoch |-> e, rec |-> c.rec] ELSE @,
            !.call = [k \in Calls |-> IF k \in ks THEN [pc |-> "wait", rec |-> c.rec, att |-> a] ELSE @[k]],
            !.restoring = IF resubscribe THEN a ELSE @]

(* An attempt is over; its slot in the record is cleared if it is its own. *)
Settled(c, a) ==
    [c EXCEPT !.att[a] = NoAttempt,
              !.inflight = IF @ = a THEN None ELSE @,
              !.restoring = IF @ = a THEN None ELSE @]

Resolve(c, a) == Ended(Settled(c, a), Waiters(c, a), "handle")

(* The calls ks fail: their handlers go, and an unconfirmed record that is *)
(* left without a handler goes with them.                                  *)
Fail(c, ks) ==
    LET mine == {k \in ks : c.call[k].rec = c.rec}
        left == c.handlers \ mine
        d == [Ended(c, ks, "failed") EXCEPT !.handlers = left]
    IN  IF mine # {} /\ left = {} /\ ~c.confirmed THEN Forget(d) ELSE d

(* A bug: #resubscribe does not retry.                                     *)
FaultyRejectTransient(c, a) ==
    Fail(Settled(c, a), Waiters(c, a))

(* A failure that may pass (a timeout, a rate limit, authorize() throws):  *)
(* subscribe() gives up, #resubscribe keeps the record and tries again.    *)
RejectTransient(c, a) ==
    LET d == Fail(Settled(c, a), Waiters(c, a))
    IN  IF c.restoring = a /\ d.rec # None /\ d.rec = c.att[a].rec
          THEN [d EXCEPT !.retryTimer = TRUE]
          ELSE d

(* A definitive refusal drops an unconfirmed record before anyone resumes. *)
RejectDefinitive(c, a) ==
    LET d == IF c.confirmed THEN c ELSE Forget(c)
    IN  Fail(Settled(d, a), Waiters(d, a))

-----------------------------------------------------------------------------
(* The caller.                                                             *)

(* The call may come with a handler or without.                            *)
subscribe(k) ==
    /\ state = "connected" /\ Spare
    /\ cl.call[k].pc = "new"
    /\ \E handler \in {{}, {k}} :
       LET c == IF cl.rec = None THEN [cl EXCEPT !.rec = k] ELSE cl
           d == [c EXCEPT !.handlers = @ \union handler]
       IN  cl' = IF d.confirmed
                   THEN [d EXCEPT !.call[k] = [pc |-> "handle", rec |-> d.rec, att |-> None]]
                   ELSE ensureSubscribed(d, {k}, FALSE, epoch)
    /\ UNCHANGED <<state, epoch, pending, up, down, held, lost, odd>>

(* The server is told when no handler is left, whatever handles without    *)
(* one there are.                                                          *)
unsubscribe(k) ==
    /\ cl.call[k].pc = "handle" /\ Room
    /\ LET c == [cl EXCEPT !.call[k].pc = "done"]
           d == [c EXCEPT !.handlers = @ \ {k}]
           last == cl.rec = cl.call[k].rec /\ d.handlers = {}
       IN  /\ cl' = IF cl.rec # cl.call[k].rec THEN c ELSE IF last THEN Forget(d) ELSE d
           /\ IF last /\ state = "connected"
                THEN /\ pending' = Append(pending, [kind |-> "unsubscribe", att |-> None])
                     /\ up' = Append(up, [type |-> "unsubscribe", epoch |-> epoch, rec |-> None])
                ELSE UNCHANGED <<pending, up>>
    /\ UNCHANGED <<state, epoch, down, held, lost, odd>>

(* close(), and a drop after which no attempt is left.  An authorize() in  *)
(* progress still returns.                                                 *)
Closed(c) ==
    LET sent == {a \in Attempts : c.att[a].st = "sent"}
        d == Fail(c, {k \in Calls : \E a \in sent : k \in Waiters(c, a)})
    IN  [Forget(d) EXCEPT !.restoring = None,
                          !.att = [a \in Attempts |-> IF a \in sent THEN NoAttempt ELSE @[a]]]

Disconnect ==
    /\ pending' = <<>> /\ up' = <<>> /\ down' = <<>>
    /\ held' = FALSE /\ odd' = {}

close ==
    /\ state # "closed"
    /\ state' = "closed"
    /\ cl' = Closed(cl)
    /\ Disconnect
    /\ UNCHANGED <<epoch, lost>>

-----------------------------------------------------------------------------
(* The connection.                                                         *)

(* A bug: the confirmation survives the drop.                              *)
FaultyDropped(c) ==
    LET sent == {a \in Attempts : c.att[a].st = "sent"}
        d == [c EXCEPT !.inflight = None, !.retryTimer = FALSE, !.restoring = None]
        e == Fail(d, {k \in Calls : \E a \in sent : k \in Waiters(c, a)})
    IN  [e EXCEPT !.att = [a \in Attempts |-> IF a \in sent THEN NoAttempt ELSE @[a]]]

(* #onDrop: what was sent fails now; what awaits authorize() fails when it *)
(* returns, and is no longer the record's attempt.                         *)
Dropped(c) ==
    LET sent == {a \in Attempts : c.att[a].st = "sent"}
        d == [c EXCEPT !.confirmed = FALSE, !.inflight = None, !.retryTimer = FALSE, !.restoring = None]
        e == Fail(d, {k \in Calls : \E a \in sent : k \in Waiters(c, a)})
    IN  [e EXCEPT !.att = [a \in Attempts |-> IF a \in sent THEN NoAttempt ELSE @[a]]]

onDrop ==
    /\ state = "connected" /\ epoch < MaxEpochs
    /\ state' = "reconnecting"
    /\ cl' = Dropped(cl)
    /\ Disconnect
    /\ UNCHANGED <<epoch, lost>>

(* The connected frame, after any number of failed dials; on a reconnect   *)
(* it starts #resubscribeAll.                                              *)
onConnected ==
    /\ state \in {"connecting", "reconnecting"} /\ Spare
    /\ state' = "connected"
    /\ epoch' = epoch + 1
    /\ cl' = IF cl.rec = None THEN cl ELSE ensureSubscribed(cl, {}, TRUE, epoch + 1)
    /\ UNCHANGED <<pending, up, down, held, lost, odd>>

RetryFires ==
    /\ cl.retryTimer /\ Spare
    /\ LET c == [cl EXCEPT !.retryTimer = FALSE]
       IN  cl' = IF c.confirmed THEN c ELSE ensureSubscribed(c, {}, TRUE, epoch)
    /\ UNCHANGED <<state, epoch, pending, up, down, held, lost, odd>>

-----------------------------------------------------------------------------
(* Attempts.                                                               *)

(* A bug: only #state is checked after the round trip.                     *)
FaultyStillCurrent(a) ==
    state = "connected"

StillCurrent(a) ==
    state = "connected" /\ cl.att[a].epoch = epoch

(* authorize() returned a token for the socket it was asked for.           *)
Authorized(a) ==
    /\ cl.att[a].st = "auth" /\ StillCurrent(a) /\ Room
    /\ cl' = [cl EXCEPT !.att[a].st = "sent"]
    /\ pending' = Append(pending, [kind |-> "subscribe", att |-> a])
    /\ up' = Append(up, [type |-> "subscribe", epoch |-> cl.att[a].epoch, rec |-> cl.att[a].rec])
    /\ UNCHANGED <<state, epoch, down, held, lost, odd>>

AuthorizeThrows(a) ==
    /\ cl.att[a].st = "auth"
    /\ cl' = RejectTransient(cl, a)
    /\ UNCHANGED <<state, epoch, pending, up, down, held, lost, odd>>

(* The connection of the attempt is gone.  If there is a new one and the   *)
(* record is still there, its callers adopt the attempt made on it (or the *)
(* confirmation, or a fresh one); otherwise they fail.                     *)
AuthorizedTooLate(a) ==
    /\ cl.att[a].st = "auth" /\ ~StillCurrent(a)
    /\ LET c == Settled(cl, a)
           ks == Waiters(cl, a)
           adopt == state = "connected" /\ cl.rec # None /\ cl.rec = cl.att[a].rec
       IN  cl' = IF ~adopt THEN Fail(c, ks)
                 ELSE IF cl.confirmed THEN Ended(c, ks, "handle")
                 ELSE IF ks = {} THEN c ELSE ensureSubscribed(c, ks, FALSE, epoch)
    /\ UNCHANGED <<state, epoch, pending, up, down, held, lost, odd>>

(* A bug: the timer removes the operation and rejects nobody.              *)
FaultyAckTimeout ==
    /\ pending # <<>>
    /\ pending' = Tail(pending)
    /\ UNCHANGED <<state, epoch, cl, up, down, held, lost, odd>>

(* The ack timer of the oldest operation.                                  *)
AckTimeout ==
    /\ pending # <<>>
    /\ pending' = Tail(pending)
    /\ cl' = IF Head(pending).kind = "subscribe" THEN RejectTransient(cl, Head(pending).att) ELSE cl
    /\ UNCHANGED <<state, epoch, up, down, held, lost, odd>>

-----------------------------------------------------------------------------
(* Frames from the server.                                                 *)

Pending(kind) == {i \in DOMAIN pending : pending[i].kind = kind}
Oldest(S) == CHOOSE i \in S : \A j \in S : i <= j

(* A bug: an ack that nobody wants any more is ignored.                    *)
FaultyUndo(undoneLater) == UNCHANGED up

(* The server holds a channel that nobody wants: tell it, unless an        *)
(* unsubscribe is on its way.                                              *)
Undo(undoneLater) ==
    up' = IF undoneLater THEN up ELSE Append(up, [type |-> "unsubscribe", epoch |-> epoch, rec |-> None])

onSubscribed ==
    /\ down # <<>> /\ Head(down).type = "subscribed"
    /\ down' = Tail(down)
    /\ LET found == Pending("subscribe") # {}
           i == Oldest(Pending("subscribe"))
           c == IF cl.rec = None THEN cl ELSE [cl EXCEPT !.confirmed = TRUE]
       IN  /\ pending' = IF found THEN RemoveAt(pending, i) ELSE pending
           /\ cl' = IF found THEN Resolve(c, pending[i].att) ELSE c
           /\ IF cl.rec = None
                THEN Undo(found /\ \E j \in Pending("unsubscribe") : j > i)
                ELSE UNCHANGED up
    /\ odd' = IF cl.rec \in {None, Head(down).rec} THEN odd ELSE odd \union {"mixed"}
    /\ UNCHANGED <<state, epoch, held, lost>>

onUnsubscribed ==
    /\ down # <<>> /\ Head(down).type \in {"unsubscribed", "unsubscribe refused"}
    /\ down' = Tail(down)
    /\ pending' = IF Pending("unsubscribe") = {} THEN pending
                  ELSE RemoveAt(pending, Oldest(Pending("unsubscribe")))
    /\ UNCHANGED <<state, epoch, cl, up, held, lost, odd>>

onErrorFrame ==
    /\ down # <<>> /\ Head(down).type \in {"limited", "refused"}
    /\ down' = Tail(down)
    /\ IF Pending("subscribe") = {}
         THEN UNCHANGED <<pending, cl>>
         ELSE LET i == Oldest(Pending("subscribe"))
              IN  /\ pending' = RemoveAt(pending, i)
                  /\ cl' = IF Head(down).type = "refused" THEN RejectDefinitive(cl, pending[i].att)
                                                     ELSE RejectTransient(cl, pending[i].att)
    /\ UNCHANGED <<state, epoch, up, held, lost, odd>>

-----------------------------------------------------------------------------
(* The server's handler, one frame at a time, and its answer, which a full *)
(* send buffer drops.                                                      *)
Answer(type, frame, o) ==
    /\ up # <<>> /\ Head(up).type = type
    /\ up' = Tail(up)
    /\ \/ /\ down' = Append(down, [type |-> frame, rec |-> Head(up).rec])
          /\ odd' = odd \union o
          /\ UNCHANGED lost
       \/ /\ lost < MaxLost
          /\ lost' = lost + 1
          /\ odd' = odd \union o \union {"lost"}
          /\ UNCHANGED down
    /\ UNCHANGED <<state, epoch, cl, pending>>

ServerAccepts ==
    /\ Answer("subscribe", "subscribed", {})
    /\ held' = TRUE

(* RATE_LIMITED, before anything else; or a definitive refusal, which      *)
(* cannot meet a channel that is held.                                     *)
ServerRefuses ==
    /\ \/ Answer("subscribe", "limited", {})
       \/ ~held /\ Answer("subscribe", "refused", {})
    /\ UNCHANGED held

ServerUnsubscribes ==
    \/ /\ Answer("unsubscribe", "unsubscribed", {})
       /\ held' = FALSE
    \/ /\ Answer("unsubscribe", "unsubscribe refused", {"kept"})    \* RATE_LIMITED
       /\ UNCHANGED held

-----------------------------------------------------------------------------
Receive == onSubscribed \/ onUnsubscribed \/ onErrorFrame
Authorize(a) == Authorized(a) \/ AuthorizeThrows(a) \/ AuthorizedTooLate(a)

Next ==
    \/ \E k \in Calls : subscribe(k) \/ unsubscribe(k)
    \/ close \/ onDrop \/ onConnected \/ RetryFires
    \/ \E a \in Attempts : Authorize(a)
    \/ AckTimeout \/ Receive
    \/ ServerAccepts \/ ServerRefuses \/ ServerUnsubscribes

(* Timers fire, frames arrive and are handled, authorize() returns; a dial *)
(* succeeds in the end; and neither the server nor authorize() turns the   *)
(* client away for ever.  Nothing is assumed of the caller.                *)
Spec ==
    /\ Init /\ [][Next]_vars
    /\ WF_vars(onConnected) /\ WF_vars(RetryFires) /\ WF_vars(AckTimeout)
    /\ WF_vars(Receive)
    /\ WF_vars(ServerAccepts \/ ServerRefuses \/ ServerUnsubscribes)
    /\ SF_vars(ServerAccepts /\ lost' = lost)
    /\ \A a \in Attempts : WF_vars(Authorize(a)) /\ SF_vars(Authorized(a))

-----------------------------------------------------------------------------
(* The shape of the state; a pending subscribe has a live attempt, and a   *)
(* record that is gone leaves nothing behind, no retry timer in particular.*)
TypeOK ==
    /\ state \in {"connecting", "connected", "reconnecting", "closed"}
    /\ epoch \in 0..MaxEpochs
    /\ cl \in [rec : Calls \union {None}, handlers : SUBSET Calls, confirmed : BOOLEAN,
               inflight : Attempts \union {None}, retryTimer : BOOLEAN,
               restoring : Attempts \union {None},
               att : [Attempts -> [st : {"free", "auth", "sent"}, epoch : 0..MaxEpochs,
                                   rec : Calls \union {None}]],
               call : [Calls -> [pc : {"new", "wait", "handle", "failed", "done"},
                                 rec : Calls \union {None}, att : Attempts \union {None}]]]
    /\ \A i \in DOMAIN pending :
         pending[i].kind = "subscribe" => cl.att[pending[i].att].st = "sent"
    /\ cl.rec = None => cl.handlers = {} /\ ~cl.confirmed /\ ~cl.retryTimer
    /\ held \in BOOLEAN /\ lost \in 0..MaxLost
    /\ odd \subseteq {"mixed", "kept", "lost"}

(* Nothing is under way between client and server.                         *)
Quiet ==
    /\ state = "connected"
    /\ pending = <<>> /\ up = <<>> /\ down = <<>>
    /\ \A a \in Attempts : cl.att[a].st = "free"

(* A channel the client takes for subscribed is held by the server,        *)
(* whatever timed out, came late or was lost on this connection: what      *)
(* subscribe() promises when it resolves at once for a confirmed channel   *)
(* (#settleOp, #onDrop).  The exception is an ack for an earlier record of *)
(* the channel that #settleOp gave to a later one.                         *)
ConfirmedIsHeld ==
    cl.confirmed /\ "mixed" \notin odd => held

(* When things have settled, the server does not fan events out to a       *)
(* client that has no record of the channel, even if the subscribe timed   *)
(* out or was abandoned before its ack (the undo of #settleOp); unless the *)
(* server dropped the ack, or refused the unsubscribe.                     *)
NoGhost ==
    Quiet /\ held /\ odd \intersect {"lost", "kept"} = {} => cl.rec # None

(* A token reaches the server only on the connection it was issued for,    *)
(* though authorize() may span a drop and a reconnect (#sendSubscribe).    *)
NoStaleToken ==
    \A i \in DOMAIN up : up[i].epoch = epoch

(* Every subscribe() resolves or rejects: through drops, adopted attempts, *)
(* lost acks and close(), the loop of subscribe() ends.                    *)
CallSettles ==
    \A k \in Calls : cl.call[k].pc = "wait" ~> cl.call[k].pc # "wait"

(* What the comment on subscribe()'s loop and the client's README say: a   *)
(* call whose attempt a drop cut short, and that fails after the client    *)
(* has reconnected, adopts the resubscribe rather than reject while the    *)
(* channel lives on without the caller's handler.                          *)
InterruptedAdopts ==
    [][\A k \in Calls :
        /\ k \in cl.handlers /\ cl.call[k].pc = "wait" /\ state = "connected"
        /\ cl.att[cl.call[k].att].epoch < epoch
        /\ cl'.call[k].pc = "failed"
        => cl'.rec # cl.call[k].rec]_vars

(* A channel somebody wants is subscribed in the end, or given up: a       *)
(* transient failure after a reconnect is retried, a drop starts over      *)
(* (#resubscribe, #scheduleResubscribe).                                   *)
WantedIsRestored ==
    cl.rec # None ~> (cl.rec = None \/ cl.confirmed)
=============================================================================
