-------------------------------- MODULE Fanout --------------------------------
(***************************************************************************)
(* The path of a published event: handlePublish calls Fanout.Broadcast,    *)
(* which either runs hub.Broadcast itself (PerConn) or queues a job for a  *)
(* worker that does (ShardedPool); hub.Broadcast snapshots the channel's   *)
(* subscribers and calls Conn.Send on each; Send puts the event into the   *)
(* subscriber's buffered send channel, by the backpressure policy; and     *)
(* that connection's writePump takes it out.                               *)
(*                                                                         *)
(* Concurrent here: the readPumps that publish, the pool's workers, the    *)
(* goroutine that closes the pool, and of each subscriber its Run, its     *)
(* writePump and the sendAck calls of its readPump.                        *)
(*                                                                         *)
(* Subscriptions only shrink in this module (a connection that ends leaves *)
(* its channels); ChannelRegistry is about how they come and go.           *)
(***************************************************************************)
EXTENDS FiniteSets, Naturals, SequencesExt

CONSTANTS
    Pubs,           \* goroutines that publish: readPumps
    Subs,           \* subscribed connections
    Chans,          \* channels
    Workers,        \* workers of the sharded pool
    WorkerOf,       \* [Chans -> Workers], shardFor
    Strategies,     \* fan-out strategies the server may boot with
    Policies,       \* backpressure policies it may boot with
    Ack,            \* what sendAck and sendErrorFrame put into a buffer
    NoSub,
    QueueCap,       \* capacity of a worker's queue
    BufCap,         \* capacity of Conn.send
    MaxMsgs         \* bound: events each publisher publishes

Procs == Pubs \cup Workers

(* The n-th event of a publisher on a channel.                             *)
Msgs == [pub : Pubs, ch : Chans, n : 1 .. MaxMsgs]

ASSUME FanoutAssumption ==
    /\ IsFiniteSet(Chans)
    /\ WorkerOf \in [Chans -> Workers]
    /\ Strategies \subseteq {"perconn", "sharded"}
    /\ Policies \subseteq {"disconnect", "drop-oldest", "drop-newest"}
    /\ Pubs \cap Workers = {}
    /\ NoSub \notin Subs /\ Ack \notin Msgs
    /\ {QueueCap, BufCap} \subseteq Nat \ {0}
    /\ MaxMsgs \in Nat

VARIABLES
    strategy, policy,
    sent,           \* events published so far, by publisher and channel
    closer,         \* where ShardedPool.Close stands
    queue,          \* ShardedPool.queues
    pc,             \* where each publisher and worker stands
    job,            \* the event it carries (<<>> or <<event>>)
    todo,           \* rest of its subscriber snapshot
    target,         \* the connection whose Send it is in
    members,        \* Channel.Subscribers
    st,             \* running, closing (Run is in CloseFrame, the pumps go on),
                    \* ending (pumps returned) or closed
    buf,            \* Conn.send
    closeReq,       \* Conn.closeReq holds a token
    got             \* events the peer was sent, in order

poolVars == <<closer, queue>>
procVars == <<pc, job, todo, target>>
connVars == <<members, st, buf, closeReq, got>>
vars == <<strategy, policy, sent, poolVars, procVars, connVars>>

Init ==
    /\ strategy \in Strategies
    /\ policy \in Policies
    /\ sent = [p \in Pubs |-> [c \in Chans |-> 0]]
    /\ closer = "idle"
    /\ queue = [w \in Workers |-> <<>>]
    /\ pc = [b \in Procs |->
                IF b \in Workers /\ strategy = "perconn" THEN "exited" ELSE "idle"]
    /\ job = [b \in Procs |-> <<>>]
    /\ todo = [b \in Procs |-> {}]
    /\ target = [b \in Procs |-> NoSub]
    /\ members = [c \in Chans |-> Subs]
    /\ st = [s \in Subs |-> "running"]
    /\ buf = [s \in Subs |-> <<>>]
    /\ closeReq = [s \in Subs |-> FALSE]
    /\ got = [s \in Subs |-> <<>>]

Go(b, to) == pc' = [pc EXCEPT ![b] = to]
Room(s) == Len(buf[s]) < BufCap
PumpsRun(s) == st[s] \in {"running", "closing"}
Put(s, m) == buf' = [buf EXCEPT ![s] = Append(@, m)]

(* The pool's queues are closed.                                           *)
Closed == closer \in {"closed", "returned"}

-----------------------------------------------------------------------------
(* handlePublish, up to the fan-out strategy.                              *)
Publish(p, c) ==
    /\ pc[p] = "idle"
    /\ Cardinality({x \in Chans \X (1 .. MaxMsgs) : x[2] <= sent[p][x[1]]}) < MaxMsgs
    /\ sent' = [sent EXCEPT ![p][c] = @ + 1]
    /\ job' = [job EXCEPT ![p] = <<[pub |-> p, ch |-> c, n |-> sent[p][c] + 1]>>]
    /\ Go(p, IF strategy = "perconn" THEN "snap" ELSE "rlock")
    /\ UNCHANGED <<strategy, policy, poolVars, todo, target, connVars>>

(* ShardedPool.Broadcast.  RLock waits while Close waits for the lock.     *)
BroadcastClosed(p) ==
    /\ pc[p] = "rlock"
    /\ Closed
    /\ job' = [job EXCEPT ![p] = <<>>]
    /\ Go(p, "idle")
    /\ UNCHANGED <<strategy, policy, sent, poolVars, todo, target, connVars>>

BroadcastOpen(p) ==
    /\ pc[p] = "rlock"
    /\ closer = "idle"
    /\ Go(p, "enqueue")
    /\ UNCHANGED <<strategy, policy, sent, poolVars, job, todo, target, connVars>>

(* Seeded faults: a queue without a bound; jobs spread over the workers    *)
(* whatever their channel.                                                 *)
FaultyEnqueueUnbounded(p) ==
    /\ pc[p] = "enqueue"
    /\ queue' = [queue EXCEPT ![WorkerOf[Head(job[p]).ch]] = @ \o job[p]]
    /\ job' = [job EXCEPT ![p] = <<>>]
    /\ Go(p, "idle")
    /\ UNCHANGED <<strategy, policy, sent, closer, todo, target, connVars>>

FaultyEnqueueAnywhere(p) ==
    /\ pc[p] = "enqueue"
    /\ \E w \in Workers :
        /\ Len(queue[w]) < QueueCap
        /\ queue' = [queue EXCEPT ![w] = @ \o job[p]]
    /\ job' = [job EXCEPT ![p] = <<>>]
    /\ Go(p, "idle")
    /\ UNCHANGED <<strategy, policy, sent, closer, todo, target, connVars>>

(* The send on the queue, which blocks while it is full.                   *)
Enqueue(p) ==
    /\ pc[p] = "enqueue"
    /\ LET w == WorkerOf[Head(job[p]).ch] IN
        /\ Len(queue[w]) < QueueCap
        /\ queue' = [queue EXCEPT ![w] = @ \o job[p]]
    /\ job' = [job EXCEPT ![p] = <<>>]
    /\ Go(p, "idle")
    /\ UNCHANGED <<strategy, policy, sent, closer, todo, target, connVars>>

(* ShardedPool.run.                                                        *)
Dequeue(w) ==
    /\ pc[w] = "idle"
    /\ queue[w] # <<>>
    /\ job' = [job EXCEPT ![w] = <<Head(queue[w])>>]
    /\ queue' = [queue EXCEPT ![w] = Tail(@)]
    /\ Go(w, "snap")
    /\ UNCHANGED <<strategy, policy, sent, closer, todo, target, connVars>>

(* Seeded fault: the worker leaves as soon as it is told to stop.          *)
FaultyWorkerExit(w) ==
    /\ pc[w] = "idle"
    /\ closer # "idle"
    /\ Go(w, "exited")
    /\ UNCHANGED <<strategy, policy, sent, poolVars, job, todo, target, connVars>>

WorkerExit(w) ==
    /\ pc[w] = "idle"
    /\ queue[w] = <<>>
    /\ Closed
    /\ Go(w, "exited")
    /\ UNCHANGED <<strategy, policy, sent, poolVars, job, todo, target, connVars>>

(* ShardedPool.Close: wait for the lock, close the queues, wait for the    *)
(* workers.                                                                *)
CloseCall ==
    /\ strategy = "sharded"
    /\ closer = "idle"
    /\ closer' = "locking"
    /\ UNCHANGED <<strategy, policy, sent, queue, procVars, connVars>>

(* Seeded fault: the queues are closed under the read side of the lock.    *)
FaultyCloseQueues ==
    /\ closer = "locking"
    /\ closer' = "closed"
    /\ UNCHANGED <<strategy, policy, sent, queue, procVars, connVars>>

CloseQueues ==
    /\ closer = "locking"
    /\ \A p \in Pubs : pc[p] # "enqueue"
    /\ closer' = "closed"
    /\ UNCHANGED <<strategy, policy, sent, queue, procVars, connVars>>

CloseReturn ==
    /\ closer = "closed"
    /\ \A w \in Workers : pc[w] = "exited"
    /\ closer' = "returned"
    /\ UNCHANGED <<strategy, policy, sent, queue, procVars, connVars>>

-----------------------------------------------------------------------------
(* hub.Broadcast by b: the snapshot under SubsMu.RLock, then Conn.Send to  *)
(* each of its members in any order.                                       *)
Snapshot(b) ==
    /\ pc[b] = "snap"
    /\ todo' = [todo EXCEPT ![b] = members[Head(job[b]).ch]]
    /\ Go(b, "next")
    /\ UNCHANGED <<strategy, policy, sent, poolVars, job, target, connVars>>

BroadcastEnd(b) ==
    /\ pc[b] = "next"
    /\ todo[b] = {}
    /\ job' = [job EXCEPT ![b] = <<>>]
    /\ Go(b, "idle")
    /\ UNCHANGED <<strategy, policy, sent, poolVars, todo, target, connVars>>

(* Conn.Send: the closed flag is read first, without the lock.             *)
SendClosed(b, s) ==
    /\ pc[b] = "next"
    /\ s \in todo[b]
    /\ st[s] = "closed"
    /\ todo' = [todo EXCEPT ![b] = @ \ {s}]
    /\ UNCHANGED <<strategy, policy, sent, poolVars, pc, job, target, connVars>>

SendStart(b, s) ==
    /\ pc[b] = "next"
    /\ s \in todo[b]
    /\ st[s] # "closed"
    /\ todo' = [todo EXCEPT ![b] = @ \ {s}]
    /\ target' = [target EXCEPT ![b] = s]
    /\ Go(b, "send")
    /\ UNCHANGED <<strategy, policy, sent, poolVars, job, connVars>>

(* Nobody is inside Apply on s: sendMu is free.                            *)
SendMuFree(s) ==
    \A b \in Procs : target[b] = s => pc[b] \notin {"evict", "retry"}

(* Back in hub.Broadcast's loop.                                           *)
SendReturns(b) ==
    /\ target' = [target EXCEPT ![b] = NoSub]
    /\ Go(b, "next")

(* Policy.Apply finds room.                                                *)
Apply(b) ==
    /\ pc[b] = "send"
    /\ SendMuFree(target[b])
    /\ Room(target[b])
    /\ Put(target[b], Head(job[b]))
    /\ SendReturns(b)
    /\ UNCHANGED <<strategy, policy, sent, poolVars, job, todo, members, st, closeReq, got>>

(* Seeded fault: a full buffer drops the event and nobody is told.         *)
FaultyApplyDisconnect(b) ==
    /\ pc[b] = "send"
    /\ policy = "disconnect"
    /\ SendMuFree(target[b])
    /\ ~ Room(target[b])
    /\ SendReturns(b)
    /\ UNCHANGED <<strategy, policy, sent, poolVars, job, todo, connVars>>

(* PolicyDisconnect on a full buffer: Run is asked to close.               *)
ApplyDisconnect(b) ==
    /\ pc[b] = "send"
    /\ policy = "disconnect"
    /\ SendMuFree(target[b])
    /\ ~ Room(target[b])
    /\ closeReq' = [closeReq EXCEPT ![target[b]] = TRUE]
    /\ SendReturns(b)
    /\ UNCHANGED <<strategy, policy, sent, poolVars, job, todo, members, st, buf, got>>

ApplyDropNewest(b) ==
    /\ pc[b] = "send"
    /\ policy = "drop-newest"
    /\ SendMuFree(target[b])
    /\ ~ Room(target[b])
    /\ SendReturns(b)
    /\ UNCHANGED <<strategy, policy, sent, poolVars, job, todo, connVars>>

(* PolicyDropOldest on a full buffer: evict one, try again, give up.       *)
ApplyDropOldest(b) ==
    /\ pc[b] = "send"
    /\ policy = "drop-oldest"
    /\ SendMuFree(target[b])
    /\ ~ Room(target[b])
    /\ Go(b, "evict")
    /\ UNCHANGED <<strategy, policy, sent, poolVars, job, todo, target, connVars>>

Evict(b) ==
    /\ pc[b] = "evict"
    /\ buf' = [buf EXCEPT ![target[b]] = IF @ = <<>> THEN @ ELSE Tail(@)]
    /\ Go(b, "retry")
    /\ UNCHANGED <<strategy, policy, sent, poolVars, job, todo, target, members, st, closeReq, got>>

(* Seeded fault: the second attempt blocks.                                *)
FaultyRetry(b) ==
    /\ pc[b] = "retry"
    /\ Room(target[b])
    /\ Put(target[b], Head(job[b]))
    /\ SendReturns(b)
    /\ UNCHANGED <<strategy, policy, sent, poolVars, job, todo, members, st, closeReq, got>>

Retry(b) ==
    /\ pc[b] = "retry"
    /\ IF Room(target[b]) THEN Put(target[b], Head(job[b])) ELSE UNCHANGED buf
    /\ SendReturns(b)
    /\ UNCHANGED <<strategy, policy, sent, poolVars, job, todo, members, st, closeReq, got>>

-----------------------------------------------------------------------------
(* The subscriber's side.                                                  *)

(* writePump takes the oldest frame; the peer may read slowly or never.    *)
WriteNext(s) ==
    /\ PumpsRun(s)
    /\ buf[s] # <<>>
    /\ buf' = [buf EXCEPT ![s] = Tail(@)]
    /\ got' = IF Head(buf[s]) = Ack THEN got
              ELSE [got EXCEPT ![s] = Append(@, Head(buf[s]))]
    /\ UNCHANGED <<strategy, policy, sent, poolVars, procVars, members, st, closeReq>>

(* sendAck and sendErrorFrame, from the connection's readPump, without     *)
(* sendMu; a full buffer drops the frame.                                  *)
SendAck(s) ==
    /\ PumpsRun(s)
    /\ Room(s)
    /\ Put(s, Ack)
    /\ UNCHANGED <<strategy, policy, sent, poolVars, procVars, members, st, closeReq, got>>

(* Run: a close request starts CloseFrame, under which the pumps go on     *)
(* until the frame is out or the context is canceled; that or anything     *)
(* else ends the pumps; then the closed flag is set; then the              *)
(* subscriptions go.                                                       *)
CloseRequested(s) ==
    /\ st[s] = "running"
    /\ closeReq[s]
    /\ closeReq' = [closeReq EXCEPT ![s] = FALSE]
    /\ st' = [st EXCEPT ![s] = "closing"]
    /\ UNCHANGED <<strategy, policy, sent, poolVars, procVars, members, buf, got>>

PumpReturned(s) ==
    /\ PumpsRun(s)
    /\ st' = [st EXCEPT ![s] = "ending"]
    /\ UNCHANGED <<strategy, policy, sent, poolVars, procVars, members, buf, closeReq, got>>

MarkClosed(s) ==
    /\ st[s] = "ending"
    /\ st' = [st EXCEPT ![s] = "closed"]
    /\ UNCHANGED <<strategy, policy, sent, poolVars, procVars, members, buf, closeReq, got>>

Unsubscribe(s, c) ==
    /\ st[s] = "closed"
    /\ s \in members[c]
    /\ members' = [members EXCEPT ![c] = @ \ {s}]
    /\ UNCHANGED <<strategy, policy, sent, poolVars, procVars, st, buf, closeReq, got>>

-----------------------------------------------------------------------------
BroadcastStep(b) ==
    \/ Snapshot(b) \/ BroadcastEnd(b)
    \/ \E s \in Subs : SendClosed(b, s) \/ SendStart(b, s)
    \/ Apply(b) \/ ApplyDisconnect(b) \/ ApplyDropNewest(b) \/ ApplyDropOldest(b)
    \/ Evict(b) \/ Retry(b)

PublisherStep(p) ==
    BroadcastClosed(p) \/ BroadcastOpen(p) \/ Enqueue(p) \/ BroadcastStep(p)

WorkerStep(w) == Dequeue(w) \/ WorkerExit(w) \/ BroadcastStep(w)

Next ==
    \/ \E p \in Pubs : PublisherStep(p) \/ \E c \in Chans : Publish(p, c)
    \/ \E w \in Workers : WorkerStep(w)
    \/ CloseCall \/ CloseQueues \/ CloseReturn
    \/ \E s \in Subs :
        \/ WriteNext(s) \/ SendAck(s)
        \/ CloseRequested(s) \/ PumpReturned(s) \/ MarkClosed(s)
        \/ \E c \in Chans : Unsubscribe(s, c)

Spec == Init /\ [][Next]_vars

(* Goroutines that can run do.  Nothing is assumed of the peers: no        *)
(* writePump ever has to take a frame.                                     *)
Fairness ==
    /\ \A p \in Pubs : WF_vars(PublisherStep(p))
    /\ \A w \in Workers : WF_vars(WorkerStep(w))
    /\ WF_vars(CloseQueues)
    /\ WF_vars(CloseReturn)

FairSpec == Spec /\ Fairness

-----------------------------------------------------------------------------
(* The shape of the state.                                                 *)
TypeOK ==
    /\ strategy \in Strategies /\ policy \in Policies
    /\ sent \in [Pubs -> [Chans -> 0 .. MaxMsgs]]
    /\ closer \in {"idle", "locking", "closed", "returned"}
    /\ queue \in [Workers -> Seq(Msgs)] /\ \A w \in Workers : Len(queue[w]) <= QueueCap
    /\ pc \in [Procs -> {"idle", "rlock", "enqueue", "snap", "next", "send", "evict", "retry",
                         "exited"}]
    /\ job \in [Procs -> {<<>>} \cup {<<m>> : m \in Msgs}]
    /\ todo \in [Procs -> SUBSET Subs]
    /\ target \in [Procs -> Subs \cup {NoSub}]
    /\ members \in [Chans -> SUBSET Subs]
    /\ st \in [Subs -> {"running", "closing", "ending", "closed"}]
    /\ buf \in [Subs -> Seq(Msgs \cup {Ack})] /\ \A s \in Subs : Len(buf[s]) <= BufCap
    /\ closeReq \in [Subs -> BOOLEAN]
    /\ got \in [Subs -> Seq(Msgs)]

(* What s was sent and will be sent.                                       *)
Stream(s) == got[s] \o buf[s]

(* Two events of one publisher on one channel.                             *)
SameSource(m, x) == m # Ack /\ x # Ack /\ m.pub = x.pub /\ m.ch = x.ch

(* FIFO: under every strategy and policy, what a subscriber gets of one    *)
(* publisher on one channel is in publishing order, nothing twice, though  *)
(* several goroutines, and evictions, work on its buffer at once.          *)
InOrder ==
    \A s \in Subs : \A i, j \in DOMAIN Stream(s) :
        i < j /\ SameSource(Stream(s)[i], Stream(s)[j]) => Stream(s)[i].n < Stream(s)[j].n

(* Under PolicyDisconnect, the one the server uses, a connection that goes *)
(* on without a pending close has missed nothing in the middle: before     *)
(* each event, but the first of its publisher on its channel, it is sent   *)
(* the one published before.                                               *)
NoSilentLoss ==
    policy = "disconnect" =>
        \A s \in Subs : st[s] = "running" /\ ~ closeReq[s] =>
            \A i \in DOMAIN Stream(s) :
                Stream(s)[i] # Ack /\ Stream(s)[i].n > 1 =>
                    \E j \in 1 .. i - 1 : /\ SameSource(Stream(s)[j], Stream(s)[i])
                                          /\ Stream(s)[j].n + 1 = Stream(s)[i].n

(* A Broadcast that races Close never sends on a closed queue, and once    *)
(* Close has returned nothing it accepted is left unsent.                  *)
CloseLosesNothing ==
    /\ Closed => \A p \in Pubs : pc[p] # "enqueue"
    /\ closer = "returned" => \A w \in Workers : queue[w] = <<>> /\ job[w] = <<>>

(* Publishing never waits on a peer: Broadcast returns although no         *)
(* subscriber's writePump may ever take a frame, the queues are full and   *)
(* the pool is being closed.                                               *)
BroadcastReturns == \A p \in Pubs : pc[p] # "idle" ~> pc[p] = "idle"

(* Close returns, although publishers may be blocked on full queues.       *)
CloseReturns == closer = "locking" ~> closer = "returned"

(* What the comment on Run's closed.Store(true) says: from then on an      *)
(* in-flight Broadcast gets ErrSlowConsumer from Send and does not enqueue *)
(* into the dead channel.                                                  *)
NoEnqueueIntoDeadChan ==
    [][\A s \in Subs : st[s] = "closed" => Len(buf'[s]) <= Len(buf[s])]_vars
=============================================================================
