---------------------------- MODULE Fanout_proofs ----------------------------
(***************************************************************************)
(* Proofs about Fanout, for any number of publishers, subscribers,         *)
(* channels and workers, any capacity of the queues and buffers, both      *)
(* strategies and all three policies.                                      *)
(*                                                                         *)
(* InOrder is not inductive: that the next Send keeps it depends on what   *)
(* is on its way.  OrderInv orders an event among all the places it        *)
(* passes, from its publisher over the queue and the worker to the buffer  *)
(* and the peer.  PlayInv does the same for NoSilentLoss: what is still in *)
(* play for a subscriber, wherever it is, has no gap.                      *)
(***************************************************************************)
EXTENDS Fanout, FiniteSetTheorems, SequenceTheorems, TLAPS

(* b is publishing or broadcasting, and what.                              *)
Busy(b) == pc[b] \notin {"idle", "exited"}
Event(b) == Head(job[b])

(* b has yet to put its event into the buffer of s.                        *)
Ahead(b, s) == pc[b] \in {"rlock", "enqueue", "snap"} \/ s \in todo[b] \/ target[b] = s

(* The frames that s was and will be sent.                                 *)
Frames(s) == ToSet(got[s]) \cup ToSet(buf[s])

(* If both are events of one publisher on one channel, m is the earlier.   *)
Precedes(m, x) == m \in Msgs /\ x \in Msgs /\ m.pub = x.pub /\ m.ch = x.ch => m.n < x.n
Sorted(q) == \A i, j \in DOMAIN q : i < j => Precedes(q[i], q[j])

(* What the place of a goroutine says of its job, its snapshot and its     *)
(* target, and further of a publisher and of a worker.                     *)
AnyAt(b) ==
    /\ Busy(b) <=> job[b] # <<>>
    /\ pc[b] \in {"send", "evict", "retry"} <=> target[b] # NoSub
    /\ pc[b] \in {"idle", "exited", "rlock", "enqueue", "snap"} => todo[b] = {}
    /\ target[b] \notin todo[b]
    /\ pc[b] \in {"evict", "retry"} => policy = "drop-oldest"
PublisherAt(p) ==
    /\ pc[p] # "exited"
    /\ Busy(p) => Event(p).pub = p /\ Event(p).n = sent[p][Event(p).ch]
    /\ pc[p] \in {"rlock", "enqueue"} => strategy = "sharded"
    /\ pc[p] \in {"snap", "next", "send", "evict", "retry"} => strategy = "perconn"
WorkerAt(w) ==
    /\ pc[w] \notin {"rlock", "enqueue"}
    /\ Busy(w) => WorkerOf[Event(w).ch] = w
    /\ \A x \in ToSet(queue[w]) : WorkerOf[x.ch] = w
PlaceInv ==
    /\ \A b \in Procs : AnyAt(b)
    /\ \A p \in Pubs : PublisherAt(p)
    /\ \A w \in Workers : WorkerAt(w)

(* The lock of the pool, and the workers at its end.                       *)
PoolInv ==
    /\ strategy = "perconn" =>
        closer = "idle" /\ \A w \in Workers : pc[w] = "exited" /\ queue[w] = <<>>
    /\ Closed => \A p \in Pubs : pc[p] # "enqueue"
    /\ strategy = "sharded" =>
        \A w \in Workers : pc[w] = "exited" => Closed /\ queue[w] = <<>>
    /\ closer = "returned" => \A w \in Workers : pc[w] = "exited"

(* No event is numbered above what its publisher has published.            *)
SentInv ==
    /\ \A b \in Procs : Busy(b) => Event(b).n <= sent[Event(b).pub][Event(b).ch]
    /\ \A w \in Workers : \A x \in ToSet(queue[w]) : x.n <= sent[x.pub][x.ch]
    /\ \A s \in Subs : \A x \in Frames(s) \ {Ack} : x.n <= sent[x.pub][x.ch]

(* An event is behind everything of its source that is further on: in the  *)
(* hands of the publisher, in the queue, in the hands of the worker, and   *)
(* with the subscriber.                                                    *)
InLine(s) ==
    /\ Sorted(got[s]) /\ Sorted(buf[s])
    /\ \A x \in ToSet(got[s]), y \in ToSet(buf[s]) : Precedes(x, y)
OrderInv ==
    /\ \A w \in Workers :
        /\ Sorted(queue[w])
        /\ Busy(w) => \A x \in ToSet(queue[w]) : Precedes(Event(w), x)
        /\ \A p \in Pubs : Busy(p) =>
            /\ \A x \in ToSet(queue[w]) : Precedes(x, Event(p))
            /\ Busy(w) => Precedes(Event(w), Event(p))
    /\ \A s \in Subs :
        /\ InLine(s)
        /\ \A x \in Frames(s) :
            /\ \A w \in Workers : \A y \in ToSet(queue[w]) : Precedes(x, y)
            /\ \A b \in Procs : Busy(b) /\ Ahead(b, s) => Precedes(x, Event(b))

(* b is to send its event to s: a publisher that finds the pool closed     *)
(* will drop it instead.                                                   *)
Coming(b, s) == Busy(b) /\ Ahead(b, s) /\ ~ (pc[b] = "rlock" /\ Closed)

(* An event has reached s, or is on its way.                               *)
InPlay(s, m) ==
    \/ m \in Frames(s)
    \/ \E w \in Workers : m \in ToSet(queue[w])
    \/ \E b \in Procs : Coming(b, s) /\ Event(b) = m

(* The subscriber nothing may be kept from.                                *)
Healthy(s) == policy = "disconnect" /\ st[s] = "running" /\ ~ closeReq[s]

(* Of a source, what is in play for s has no gap, and until the pool is    *)
(* closed it reaches up to what was published.                             *)
NoGap(s) ==
    /\ \A m \in Msgs : InPlay(s, m) /\ m.n > 1 => InPlay(s, [m EXCEPT !.n = m.n - 1])
    /\ ~ Closed => \A p \in Pubs, c \in Chans :
           sent[p][c] > 0 => InPlay(s, [pub |-> p, ch |-> c, n |-> sent[p][c]])

(* Which is so as long as s is healthy and in its channels.                *)
PlayInv ==
    \A s \in Subs :
        /\ st[s] # "closed" => \A c \in Chans : s \in members[c]
        /\ Healthy(s) => NoGap(s)

IInv == TypeOK /\ PlaceInv /\ PoolInv /\ SentInv /\ OrderInv /\ PlayInv

-----------------------------------------------------------------------------
(* Sequences.                                                              *)

(* What appending does to the elements of a sequence and to their order.   *)
LEMMA AppendFacts ==
    ASSUME NEW S, NEW q \in Seq(S), NEW m \in S
    PROVE  /\ Append(q, m) \in Seq(S) /\ Len(Append(q, m)) = Len(q) + 1
           /\ ToSet(Append(q, m)) = ToSet(q) \cup {m}
           /\ Sorted(q) /\ (\A x \in ToSet(q) : Precedes(x, m)) => Sorted(Append(q, m))
  <1> DEFINE r == Append(q, m)
  <1>1. /\ r \in Seq(S) /\ Len(r) = Len(q) + 1 /\ Len(q) \in Nat
        /\ DOMAIN r = 1 .. Len(q) + 1 /\ DOMAIN q = 1 .. Len(q)
        /\ \A i \in 1 .. Len(q) : r[i] = q[i]
        /\ r[Len(q) + 1] = m
    BY AppendProperties, LenProperties
  <1> HIDE DEF r
  <1>2. ToSet(r) = ToSet(q) \cup {m}
    <2>1. ASSUME NEW x \in ToSet(r) PROVE x \in ToSet(q) \cup {m}
      BY <1>1, <2>1 DEF ToSet
    <2>2. ASSUME NEW x \in ToSet(q) \cup {m} PROVE x \in ToSet(r)
      BY <1>1, <2>2 DEF ToSet
    <2> QED BY <2>1, <2>2
  <1>3. ASSUME Sorted(q), \A x \in ToSet(q) : Precedes(x, m) PROVE Sorted(r)
    <2> SUFFICES ASSUME NEW i \in DOMAIN r, NEW j \in DOMAIN r, i < j PROVE Precedes(r[i], r[j])
      BY DEF Sorted
    <2>1. i \in DOMAIN q /\ r[i] = q[i]
      BY <1>1
    <2>2. CASE j \in DOMAIN q
      BY <1>1, <1>3, <2>1, <2>2 DEF Sorted
    <2>3. CASE j = Len(q) + 1
      BY <1>1, <1>3, <2>1, <2>3 DEF ToSet
    <2> QED BY <1>1, <2>2, <2>3
  <1> QED BY <1>1, <1>2, <1>3 DEF r

(* What taking the first does.                                             *)
LEMMA TailFacts ==
    ASSUME NEW S, NEW q \in Seq(S), q # <<>>
    PROVE  /\ Head(q) \in S /\ Head(q) \in ToSet(q)
           /\ Tail(q) \in Seq(S) /\ Len(q) \in Nat /\ Len(Tail(q)) = Len(q) - 1
           /\ ToSet(q) = {Head(q)} \cup ToSet(Tail(q))
           /\ Sorted(q) => /\ Sorted(Tail(q))
                           /\ \A x \in ToSet(Tail(q)) : Precedes(Head(q), x)
  <1> DEFINE r == Tail(q)
  <1>1. /\ r \in Seq(S) /\ Len(q) \in Nat \ {0} /\ Len(r) = Len(q) - 1
        /\ DOMAIN r = 1 .. Len(q) - 1 /\ DOMAIN q = 1 .. Len(q)
        /\ \A i \in 1 .. Len(q) - 1 : r[i] = q[i + 1]
        /\ Head(q) = q[1] /\ q[1] \in S
    BY HeadTailProperties, LenProperties, EmptySeq
  <1> HIDE DEF r
  <1>2. Head(q) \in ToSet(q)
    BY <1>1 DEF ToSet
  <1>3. \A x \in ToSet(r) : x \in ToSet(q)
    BY <1>1 DEF ToSet
  <1>4. ASSUME NEW x \in ToSet(q), x # Head(q) PROVE x \in ToSet(r)
    <2>1. PICK i \in 1 .. Len(q) : x = q[i]
      BY <1>1 DEF ToSet
    <2>2. i - 1 \in 1 .. Len(q) - 1 /\ r[i - 1] = q[i]
      BY <1>1, <1>4, <2>1
    <2> QED BY <1>1, <2>1, <2>2 DEF ToSet
  <1>5. ASSUME Sorted(q) PROVE Sorted(r) /\ \A x \in ToSet(r) : Precedes(Head(q), x)
    <2>1. ASSUME NEW i \in DOMAIN r, NEW j \in DOMAIN r, i < j PROVE Precedes(r[i], r[j])
      <3>1. i + 1 \in DOMAIN q /\ j + 1 \in DOMAIN q /\ i + 1 < j + 1
        BY <1>1, <2>1
      <3>2. r[i] = q[i + 1] /\ r[j] = q[j + 1]
        BY <1>1
      <3> QED BY <1>5, <3>1, <3>2 DEF Sorted
    <2>2. ASSUME NEW i \in DOMAIN r PROVE Precedes(Head(q), r[i])
      <3>1. 1 \in DOMAIN q /\ i + 1 \in DOMAIN q /\ 1 < i + 1 /\ r[i] = q[i + 1]
        BY <1>1
      <3> QED BY <1>1, <1>5, <3>1 DEF Sorted
    <2> QED BY <2>1, <2>2 DEF Sorted, ToSet
  <1> QED BY <1>1, <1>2, <1>3, <1>4, <1>5 DEF r

(* Nothing is in the empty sequence.                                       *)
LEMMA EmptyFacts == <<>> \in Seq({}) /\ ToSet(<<>>) = {} /\ Sorted(<<>>)
  <1>1. <<>> \in Seq({}) /\ DOMAIN <<>> = {}
    BY EmptySeq, LenProperties
  <1> QED BY <1>1 DEF ToSet, Sorted

-----------------------------------------------------------------------------
(* Steps.                                                                  *)

(* What a goroutine that is under way holds.                               *)
LEMMA Holding ==
    ASSUME TypeOK, PlaceInv, NEW b \in Procs
    PROVE  /\ Busy(b) => Event(b) \in Msgs /\ job[b] = <<Event(b)>>
           /\ pc[b] \in {"send", "evict", "retry"} => target[b] \in Subs
  <1>1. job[b] \in {<<>>} \cup {<<m>> : m \in Msgs} /\ target[b] \in Subs \cup {NoSub}
    BY DEF TypeOK
  <1>2. Busy(b) => job[b] # <<>>
    BY DEF PlaceInv, AnyAt
  <1>3. pc[b] \in {"send", "evict", "retry"} => target[b] # NoSub
    BY DEF PlaceInv, AnyAt
  <1>4. ASSUME NEW m \in Msgs, job[b] = <<m>> PROVE Event(b) = m
    BY <1>4 DEF Event
  <1> QED BY <1>1, <1>2, <1>3, <1>4

(* Every step is one of these.                                             *)
LEMMA NextCases ==
    ASSUME [Next]_vars
    PROVE  \/ \E p \in Pubs, c \in Chans : Publish(p, c)
           \/ \E p \in Pubs : BroadcastClosed(p) \/ BroadcastOpen(p) \/ Enqueue(p)
           \/ \E w \in Workers : Dequeue(w) \/ WorkerExit(w)
           \/ CloseCall \/ CloseQueues \/ CloseReturn
           \/ \E b \in Procs :
                  \/ Snapshot(b) \/ BroadcastEnd(b) \/ Apply(b) \/ ApplyDisconnect(b)
                  \/ ApplyDropNewest(b) \/ ApplyDropOldest(b) \/ Evict(b) \/ Retry(b)
           \/ \E b \in Procs, s \in Subs : SendClosed(b, s) \/ SendStart(b, s)
           \/ \E s \in Subs :
                  \/ WriteNext(s) \/ SendAck(s) \/ CloseRequested(s) \/ PumpReturned(s)
                  \/ MarkClosed(s)
           \/ \E s \in Subs, c \in Chans : Unsubscribe(s, c)
           \/ UNCHANGED vars
  BY DEF Next, PublisherStep, WorkerStep, BroadcastStep, Procs

(* The bound on events is a bound on their numbers.                        *)
LEMMA PublishBound ==
    ASSUME TypeOK, NEW p \in Pubs, NEW c \in Chans, Publish(p, c)
    PROVE  sent[p][c] \in Nat /\ sent[p][c] < MaxMsgs
  <1> DEFINE D == Chans \X (1 .. MaxMsgs)
             K == {x \in D : x[2] <= sent[p][x[1]]}
             L == {c} \X (1 .. MaxMsgs)
  <1>1. MaxMsgs \in Nat /\ IsFiniteSet(Chans) /\ sent[p][c] \in 0 .. MaxMsgs
    BY FanoutAssumption DEF TypeOK
  <1> SUFFICES ASSUME sent[p][c] = MaxMsgs PROVE FALSE
    BY <1>1
  <1>2. L \in SUBSET K
    BY <1>1
  <1>3. IsFiniteSet(1 .. MaxMsgs) /\ Cardinality(1 .. MaxMsgs) = MaxMsgs
    BY <1>1, FS_Interval
  <1>4. IsFiniteSet(D) /\ K \in SUBSET D
    BY <1>1, <1>3, FS_Product
  <1>5. IsFiniteSet(K)
    BY <1>4, FS_Subset
  <1>6. Cardinality(K) < MaxMsgs
    BY DEF Publish
  <1>7. IsFiniteSet({c}) /\ Cardinality({c}) = 1
    BY FS_Singleton
  <1>8. Cardinality(L) = 1 * MaxMsgs
    BY <1>3, <1>7, FS_Product
  <1> HIDE DEF K, L
  <1>9. Cardinality(L) <= Cardinality(K) /\ Cardinality(K) \in Nat
    BY <1>2, <1>5, FS_Subset, FS_CardinalityType
  <1> QED BY <1>1, <1>6, <1>8, <1>9

(* Every step keeps the types: no queue, and no buffer, holds more than    *)
(* its capacity.                                                           *)
LEMMA TypeStep == IInv /\ [Next]_vars => TypeOK'
  <1> SUFFICES ASSUME IInv, [Next]_vars PROVE TypeOK'
    OBVIOUS
  <1>0. /\ TypeOK /\ PlaceInv
        /\ QueueCap \in Nat \ {0} /\ BufCap \in Nat \ {0} /\ MaxMsgs \in Nat
        /\ WorkerOf \in [Chans -> Workers] /\ Pubs \subseteq Procs /\ Workers \subseteq Procs
    BY FanoutAssumption DEF IInv, Procs
  <1> USE <1>0 DEF TypeOK, poolVars, procVars, connVars, Go
  <1>1. ASSUME NEW p \in Pubs, NEW c \in Chans, Publish(p, c) PROVE TypeOK'
    <2>1. sent[p][c] \in Nat /\ sent[p][c] < MaxMsgs
      BY <1>1, PublishBound
    <2>2. [pub |-> p, ch |-> c, n |-> sent[p][c] + 1] \in Msgs
      BY <2>1 DEF Msgs
    <2>3. job' \in [Procs -> {<<>>} \cup {<<m>> : m \in Msgs}]
      BY <1>1, <2>2 DEF Publish
    <2>4. sent' \in [Pubs -> [Chans -> 0 .. MaxMsgs]]
      BY <1>1, <2>1 DEF Publish
    <2> QED BY <1>1, <2>3, <2>4 DEF Publish
  <1>2. ASSUME NEW p \in Pubs, BroadcastClosed(p) PROVE TypeOK'
    BY <1>2 DEF BroadcastClosed
  <1>3. ASSUME NEW p \in Pubs, BroadcastOpen(p) PROVE TypeOK'
    BY <1>3 DEF BroadcastOpen
  <1>4. ASSUME NEW p \in Pubs, Enqueue(p) PROVE TypeOK'
    <2> DEFINE w == WorkerOf[Event(p).ch]
    <2>1. Event(p) \in Msgs /\ job[p] = <<Event(p)>>
      BY <1>4, Holding DEF Enqueue, Busy
    <2>2. w \in Workers
      BY <2>1 DEF Msgs
    <2>3. Len(queue[w]) < QueueCap /\ queue' = [queue EXCEPT ![w] = queue[w] \o <<Event(p)>>]
      BY <1>4, <2>1 DEF Enqueue, Event
    <2>4. queue[w] \o <<Event(p)>> = Append(queue[w], Event(p))
      BY <2>1, <2>2, AppendIsConcat
    <2> HIDE DEF w
    <2>5. Append(queue[w], Event(p)) \in Seq(Msgs) /\ Len(Append(queue[w], Event(p))) = Len(queue[w]) + 1
      BY <2>1, <2>2, AppendFacts
    <2>6. Len(queue[w]) \in Nat
      BY <2>2, LenProperties
    <2>7. queue' \in [Workers -> Seq(Msgs)] /\ \A v \in Workers : Len(queue'[v]) <= QueueCap
      BY <2>2, <2>3, <2>4, <2>5, <2>6
    <2> QED BY <1>4, <2>7 DEF Enqueue
  <1>5. ASSUME NEW w \in Workers, Dequeue(w) PROVE TypeOK'
    <2>1. /\ Head(queue[w]) \in Msgs /\ Tail(queue[w]) \in Seq(Msgs)
          /\ Len(queue[w]) \in Nat /\ Len(Tail(queue[w])) = Len(queue[w]) - 1
      BY <1>5, TailFacts DEF Dequeue
    <2>2. queue' \in [Workers -> Seq(Msgs)] /\ \A v \in Workers : Len(queue'[v]) <= QueueCap
      BY <1>5, <2>1 DEF Dequeue
    <2> QED BY <1>5, <2>1, <2>2 DEF Dequeue
  <1>6. ASSUME NEW w \in Workers, WorkerExit(w) PROVE TypeOK'
    BY <1>6 DEF WorkerExit
  <1>7. CASE CloseCall
    BY <1>7 DEF CloseCall
  <1>8. CASE CloseQueues
    BY <1>8 DEF CloseQueues
  <1>9. CASE CloseReturn
    BY <1>9 DEF CloseReturn
  <1>10. ASSUME NEW b \in Procs, Snapshot(b) PROVE TypeOK'
    <2>1. Event(b).ch \in Chans
      BY <1>10, Holding DEF Snapshot, Busy, Msgs
    <2> QED BY <1>10, <2>1 DEF Snapshot, Event
  <1>11. ASSUME NEW b \in Procs, BroadcastEnd(b) PROVE TypeOK'
    BY <1>11 DEF BroadcastEnd
  <1>12. ASSUME NEW b \in Procs, NEW s \in Subs, SendClosed(b, s) PROVE TypeOK'
    BY <1>12 DEF SendClosed
  <1>13. ASSUME NEW b \in Procs, NEW s \in Subs, SendStart(b, s) PROVE TypeOK'
    BY <1>13 DEF SendStart
  <1>14. ASSUME NEW b \in Procs, Apply(b) PROVE TypeOK'
    <2>0. b \in Procs /\ target[b] \in Subs /\ Event(b) \in Msgs
      BY <1>14, Holding DEF Apply, Busy, Procs
    <2>1. buf' \in [Subs -> Seq(Msgs \cup {Ack})] /\ \A r \in Subs : Len(buf'[r]) <= BufCap

      <3>1. Append(buf[target[b]], Event(b)) \in Seq(Msgs \cup {Ack})
            /\ Len(Append(buf[target[b]], Event(b))) = Len(buf[target[b]]) + 1
        BY <2>0, AppendFacts
      <3>2. Len(buf[target[b]]) \in Nat
        BY <2>0, LenProperties
      <3> QED BY <1>14, <2>0, <3>1, <3>2 DEF Apply, Room, Put, Event
    <2> QED BY <1>14, <2>1 DEF Apply, SendReturns
  <1>15. ASSUME NEW b \in Procs, ApplyDisconnect(b) PROVE TypeOK'
    <2>1. closeReq' \in [Subs -> BOOLEAN]
      BY <1>15 DEF ApplyDisconnect
    <2> QED BY <1>15, <2>1 DEF ApplyDisconnect, SendReturns
  <1>16. ASSUME NEW b \in Procs, ApplyDropNewest(b) PROVE TypeOK'
    BY <1>16 DEF ApplyDropNewest, SendReturns
  <1>17. ASSUME NEW b \in Procs, ApplyDropOldest(b) PROVE TypeOK'
    BY <1>17 DEF ApplyDropOldest
  <1>18. ASSUME NEW b \in Procs, Evict(b) PROVE TypeOK'
    <2>0. b \in Procs /\ target[b] \in Subs /\ Event(b) \in Msgs
      BY <1>18, Holding DEF Evict, Busy, Procs
    <2>1. buf' \in [Subs -> Seq(Msgs \cup {Ack})] /\ \A r \in Subs : Len(buf'[r]) <= BufCap

      <3>1. CASE buf[target[b]] = <<>>
        BY <1>18, <2>0, <3>1 DEF Evict
      <3>2. CASE buf[target[b]] # <<>>
        <4>1. Tail(buf[target[b]]) \in Seq(Msgs \cup {Ack}) /\ Len(buf[target[b]]) \in Nat
              /\ Len(Tail(buf[target[b]])) = Len(buf[target[b]]) - 1
          BY <2>0, <3>2, TailFacts
        <4> QED BY <1>18, <2>0, <3>2, <4>1 DEF Evict
      <3> QED BY <3>1, <3>2
    <2> QED BY <1>18, <2>1 DEF Evict
  <1>19. ASSUME NEW b \in Procs, Retry(b) PROVE TypeOK'
    <2>0. b \in Procs /\ target[b] \in Subs /\ Event(b) \in Msgs
      BY <1>19, Holding DEF Retry, Busy, Procs
    <2>1. buf' \in [Subs -> Seq(Msgs \cup {Ack})] /\ \A r \in Subs : Len(buf'[r]) <= BufCap

      <3>1. Append(buf[target[b]], Event(b)) \in Seq(Msgs \cup {Ack})
            /\ Len(Append(buf[target[b]], Event(b))) = Len(buf[target[b]]) + 1
        BY <2>0, AppendFacts
      <3>2. Len(buf[target[b]]) \in Nat
        BY <2>0, LenProperties
      <3>3. CASE Room(target[b])
        <4>1. /\ Len(buf[target[b]]) < BufCap
              /\ buf' = [buf EXCEPT ![target[b]] = Append(buf[target[b]], Event(b))]
          BY <1>19, <3>3 DEF Retry, Room, Put, Event
        <4> QED BY <2>0, <3>1, <3>2, <4>1
      <3>4. CASE ~ Room(target[b])
        BY <1>19, <3>4 DEF Retry
      <3> QED BY <3>3, <3>4
    <2> QED BY <1>19, <2>1 DEF Retry, SendReturns
  <1>20. ASSUME NEW s \in Subs, WriteNext(s) PROVE TypeOK'
    <2>1. /\ Head(buf[s]) \in Msgs \cup {Ack} /\ Tail(buf[s]) \in Seq(Msgs \cup {Ack})
          /\ Len(buf[s]) \in Nat /\ Len(Tail(buf[s])) = Len(buf[s]) - 1
      BY <1>20, TailFacts DEF WriteNext
    <2>2. buf' \in [Subs -> Seq(Msgs \cup {Ack})] /\ \A r \in Subs : Len(buf'[r]) <= BufCap
      BY <1>20, <2>1 DEF WriteNext
    <2>3. got' \in [Subs -> Seq(Msgs)]
      <3>1. CASE Head(buf[s]) = Ack
        BY <1>20, <3>1 DEF WriteNext
      <3>2. CASE Head(buf[s]) # Ack
        <4>1. Append(got[s], Head(buf[s])) \in Seq(Msgs)
          BY <2>1, <3>2, AppendFacts
        <4> QED BY <1>20, <3>2, <4>1 DEF WriteNext
      <3> QED BY <3>1, <3>2
    <2> QED BY <1>20, <2>2, <2>3 DEF WriteNext
  <1>21. ASSUME NEW s \in Subs, SendAck(s) PROVE TypeOK'
    <2>1. Append(buf[s], Ack) \in Seq(Msgs \cup {Ack}) /\ Len(Append(buf[s], Ack)) = Len(buf[s]) + 1
      BY AppendFacts
    <2>2. Len(buf[s]) \in Nat
      BY LenProperties
    <2>3. buf' \in [Subs -> Seq(Msgs \cup {Ack})] /\ \A r \in Subs : Len(buf'[r]) <= BufCap
      BY <1>21, <2>1, <2>2 DEF SendAck, Room, Put
    <2> QED BY <1>21, <2>3 DEF SendAck
  <1>22. ASSUME NEW s \in Subs, CloseRequested(s) PROVE TypeOK'
    BY <1>22 DEF CloseRequested
  <1>23. ASSUME NEW s \in Subs, PumpReturned(s) PROVE TypeOK'
    BY <1>23 DEF PumpReturned
  <1>24. ASSUME NEW s \in Subs, MarkClosed(s) PROVE TypeOK'
    BY <1>24 DEF MarkClosed
  <1>25. ASSUME NEW s \in Subs, NEW c \in Chans, Unsubscribe(s, c) PROVE TypeOK'
    BY <1>25 DEF Unsubscribe
  <1>26. CASE UNCHANGED vars
    BY <1>26 DEF vars, poolVars, procVars, connVars, Busy, Event, TypeOK
  <1> QED BY <1>1, <1>2, <1>3, <1>4, <1>5, <1>6, <1>7, <1>8, <1>9, <1>10, <1>11, <1>12, <1>13,
     <1>14, <1>15, <1>16, <1>17, <1>18, <1>19, <1>20, <1>21, <1>22, <1>23, <1>24, <1>25, <1>26,
     NextCases

(* A publish, field by field.                                              *)
LEMMA PublishStep ==
    ASSUME TypeOK, NEW p \in Pubs, NEW c \in Chans, Publish(p, c)
    PROVE  \E e \in Msgs :
             /\ e.pub = p /\ e.ch = c /\ e.n = sent[p][c] + 1 /\ sent[p][c] \in Nat
             /\ e = [pub |-> p, ch |-> c, n |-> sent[p][c] + 1]
             /\ pc[p] = "idle"
             /\ pc' = [pc EXCEPT ![p] = IF strategy = "perconn" THEN "snap" ELSE "rlock"]
             /\ job' = [job EXCEPT ![p] = <<e>>] /\ job'[p] = <<e>> /\ Event(p)' = e
             /\ \A b \in Procs \ {p} : job'[b] = job[b] /\ pc'[b] = pc[b]
             /\ sent'[p][c] = sent[p][c] + 1
             /\ \A q \in Pubs, d \in Chans : q # p \/ d # c => sent'[q][d] = sent[q][d]
             /\ UNCHANGED <<strategy, policy, poolVars, todo, target, connVars>>
  <1> DEFINE e == [pub |-> p, ch |-> c, n |-> sent[p][c] + 1]
  <1>1. sent[p][c] \in Nat /\ sent[p][c] < MaxMsgs /\ MaxMsgs \in Nat
    BY PublishBound, FanoutAssumption
  <1>2. e \in Msgs /\ e.pub = p /\ e.ch = c /\ e.n = sent[p][c] + 1
    BY <1>1 DEF Msgs
  <1>3. job' = [job EXCEPT ![p] = <<e>>]
    BY DEF Publish
  <1>4. sent' = [sent EXCEPT ![p][c] = sent[p][c] + 1]
    BY DEF Publish
  <1>5. /\ sent'[p][c] = sent[p][c] + 1
        /\ \A q \in Pubs, d \in Chans : q # p \/ d # c => sent'[q][d] = sent[q][d]
    BY <1>4 DEF TypeOK
  <1>6. job'[p] = <<e>> /\ \A b \in Procs \ {p} : job'[b] = job[b] /\ pc'[b] = pc[b]
    BY <1>3 DEF TypeOK, Procs, Publish, Go
  <1> HIDE DEF e
  <1>7. Event(p)' = e
    BY <1>6 DEF Event
  <1> QED BY <1>1, <1>2, <1>3, <1>5, <1>6, <1>7 DEF Publish, Go, e

(* An event goes to the end of its channel's queue.                        *)
LEMMA EnqueueStep ==
    ASSUME TypeOK, PlaceInv, NEW p \in Pubs, Enqueue(p)
    PROVE  \E w \in Workers :
             /\ w = WorkerOf[Event(p).ch] /\ Event(p) \in Msgs /\ job'[p] = <<>>
             /\ ToSet(queue'[w]) = ToSet(queue[w]) \cup {Event(p)}
             /\ Sorted(queue[w]) /\ (\A x \in ToSet(queue[w]) : Precedes(x, Event(p))) =>
                    Sorted(queue'[w])
             /\ \A v \in Workers \ {w} : queue'[v] = queue[v]
             /\ \A b \in Procs \ {p} : job'[b] = job[b] /\ pc'[b] = pc[b]
             /\ pc[p] = "enqueue" /\ pc'[p] = "idle"
             /\ UNCHANGED <<strategy, policy, sent, closer, todo, target, connVars>>
  <1> DEFINE w == WorkerOf[Event(p).ch]
  <1>0. WorkerOf \in [Chans -> Workers] /\ p \in Procs
    BY FanoutAssumption DEF Procs
  <1>1. Event(p) \in Msgs /\ job[p] = <<Event(p)>>
    BY <1>0, Holding DEF Enqueue, Busy
  <1>2. w \in Workers /\ queue[w] \in Seq(Msgs)
    BY <1>0, <1>1 DEF Msgs, TypeOK
  <1>3. queue' = [queue EXCEPT ![w] = queue[w] \o <<Event(p)>>]
    BY <1>1 DEF Enqueue, Event
  <1>4. queue[w] \o <<Event(p)>> = Append(queue[w], Event(p))
    BY <1>1, <1>2, AppendIsConcat
  <1> HIDE DEF w
  <1>5. queue'[w] = Append(queue[w], Event(p)) /\ \A v \in Workers \ {w} : queue'[v] = queue[v]
    BY <1>2, <1>3, <1>4 DEF TypeOK
  <1>6. /\ ToSet(queue'[w]) = ToSet(queue[w]) \cup {Event(p)}
        /\ Sorted(queue[w]) /\ (\A x \in ToSet(queue[w]) : Precedes(x, Event(p))) => Sorted(queue'[w])
    BY <1>1, <1>2, <1>5, AppendFacts
  <1>7. /\ job'[p] = <<>> /\ pc[p] = "enqueue" /\ pc'[p] = "idle"
        /\ \A b \in Procs \ {p} : job'[b] = job[b] /\ pc'[b] = pc[b]
    BY <1>0 DEF Enqueue, Go, TypeOK
  <1> QED BY <1>1, <1>2, <1>5, <1>6, <1>7 DEF Enqueue, w

(* A worker takes the oldest event of its queue.                           *)
LEMMA DequeueStep ==
    ASSUME TypeOK, NEW w \in Workers, Dequeue(w)
    PROVE  \E e \in Msgs :
             /\ e \in ToSet(queue[w]) /\ job'[w] = <<e>> /\ Event(w)' = e
             /\ ToSet(queue[w]) = {e} \cup ToSet(queue'[w])
             /\ Sorted(queue[w]) => /\ Sorted(queue'[w])
                                    /\ \A x \in ToSet(queue'[w]) : Precedes(e, x)
             /\ \A v \in Workers \ {w} : queue'[v] = queue[v]
             /\ \A b \in Procs \ {w} : job'[b] = job[b] /\ pc'[b] = pc[b]
             /\ pc[w] = "idle" /\ pc'[w] = "snap"
             /\ UNCHANGED <<strategy, policy, sent, closer, todo, target, connVars>>
  <1> DEFINE e == Head(queue[w])
  <1>0. w \in Procs /\ queue[w] \in Seq(Msgs) /\ queue[w] # <<>>
    BY DEF Procs, TypeOK, Dequeue
  <1>1. queue'[w] = Tail(queue[w]) /\ \A v \in Workers \ {w} : queue'[v] = queue[v]
    BY DEF Dequeue, TypeOK
  <1>2. /\ e \in Msgs /\ e \in ToSet(queue[w])
        /\ ToSet(queue[w]) = {e} \cup ToSet(queue'[w])
        /\ Sorted(queue[w]) => /\ Sorted(queue'[w])
                               /\ \A x \in ToSet(queue'[w]) : Precedes(e, x)
    BY <1>0, <1>1, TailFacts
  <1>3. /\ job'[w] = <<e>> /\ pc[w] = "idle" /\ pc'[w] = "snap"
        /\ \A b \in Procs \ {w} : job'[b] = job[b] /\ pc'[b] = pc[b]
    BY <1>0 DEF Dequeue, Go, TypeOK
  <1> HIDE DEF e
  <1>4. Event(w)' = e
    BY <1>3 DEF Event
  <1> QED BY <1>1, <1>2, <1>3, <1>4 DEF Dequeue

(* Every step leaves a goroutine with what its place says.                 *)
LEMMA PlaceStep == IInv /\ [Next]_vars => PlaceInv'
  <1> SUFFICES ASSUME IInv, [Next]_vars PROVE PlaceInv'
    OBVIOUS
  <1>0. /\ TypeOK /\ PlaceInv /\ Pubs \subseteq Procs /\ Workers \subseteq Procs
        /\ NoSub \notin Subs /\ Pubs \cap Workers = {} /\ Procs = Pubs \cup Workers
        /\ pc \in [Procs -> {"idle", "rlock", "enqueue", "snap", "next", "send", "evict", "retry",
                             "exited"}]
        /\ todo \in [Procs -> SUBSET Subs] /\ target \in [Procs -> Subs \cup {NoSub}]
        /\ DOMAIN job = Procs /\ strategy \in {"perconn", "sharded"}
    BY FanoutAssumption DEF IInv, Procs, TypeOK
  <1> USE <1>0 DEF poolVars, procVars, connVars, Go
  <1>1. ASSUME NEW p \in Pubs, NEW c \in Chans, Publish(p, c) PROVE PlaceInv'
    <2>1. PICK e \in Msgs :
             /\ e.pub = p /\ e.ch = c /\ e.n = sent[p][c] + 1
             /\ pc' = [pc EXCEPT ![p] = IF strategy = "perconn" THEN "snap" ELSE "rlock"]
             /\ pc[p] = "idle" /\ job'[p] = <<e>> /\ Event(p)' = e
             /\ \A b \in Procs \ {p} : job'[b] = job[b] /\ pc'[b] = pc[b]
             /\ sent'[p][c] = sent[p][c] + 1
             /\ \A q \in Pubs, d \in Chans : q # p \/ d # c => sent'[q][d] = sent[q][d]
             /\ UNCHANGED <<strategy, policy, poolVars, todo, target, connVars>>
      BY <1>1, PublishStep
    <2>2. pc'[p] = (IF strategy = "perconn" THEN "snap" ELSE "rlock") /\ job'[p] # <<>>
      BY <2>1
    <2>3. \A q \in Pubs : Busy(q) => Event(q).ch \in Chans
      BY Holding DEF Msgs
    <2>4. \A b \in Procs \ {p} : Event(b)' = Event(b)
      BY <2>1 DEF Event
    <2>5. \A q \in Pubs : Busy(q)' => Event(q)'.pub = q /\ Event(q)'.n = sent'[q][Event(q)'.ch]
      BY <2>1, <2>3, <2>4 DEF Busy, PlaceInv, PublisherAt
    <2>6. AnyAt(p)' /\ PublisherAt(p)'
      BY <2>1, <2>2, <2>5 DEF PlaceInv, AnyAt, PublisherAt, Busy
    <2>7. \A b \in Procs \ {p} : AnyAt(b)'
      BY <2>1, <2>4 DEF PlaceInv, AnyAt, Busy
    <2>8. \A q \in Pubs \ {p} : PublisherAt(q)'
      BY <2>1, <2>4, <2>5 DEF PlaceInv, PublisherAt, Busy
    <2>9. \A w \in Workers : WorkerAt(w)'
      BY <2>1, <2>4 DEF PlaceInv, WorkerAt, Busy
    <2> QED BY <2>6, <2>7, <2>8, <2>9 DEF PlaceInv
  <1>2. ASSUME NEW p \in Pubs, BroadcastClosed(p) PROVE PlaceInv'
    BY <1>2 DEF BroadcastClosed, Busy, Event, PlaceInv, AnyAt, PublisherAt, WorkerAt
  <1>3. ASSUME NEW p \in Pubs, BroadcastOpen(p) PROVE PlaceInv'
    BY <1>3 DEF BroadcastOpen, Busy, Event, PlaceInv, AnyAt, PublisherAt, WorkerAt
  <1>4. ASSUME NEW p \in Pubs, Enqueue(p) PROVE PlaceInv'
    <2>1. PICK w \in Workers :
             /\ w = WorkerOf[Event(p).ch] /\ job'[p] = <<>>
             /\ ToSet(queue'[w]) = ToSet(queue[w]) \cup {Event(p)}
             /\ \A v \in Workers \ {w} : queue'[v] = queue[v]
             /\ \A b \in Procs \ {p} : job'[b] = job[b] /\ pc'[b] = pc[b]
             /\ pc[p] = "enqueue" /\ pc'[p] = "idle"
             /\ UNCHANGED <<strategy, policy, sent, closer, todo, target, connVars>>
      BY <1>4, EnqueueStep
    <2>2. \A v \in Workers : \A x \in ToSet(queue'[v]) : WorkerOf[x.ch] = v
      BY <2>1 DEF PlaceInv, WorkerAt
    <2> QED BY <2>1, <2>2 DEF Busy, Event, PlaceInv, AnyAt, PublisherAt, WorkerAt
  <1>5. ASSUME NEW w \in Workers, Dequeue(w) PROVE PlaceInv'
    <2>1. PICK e \in Msgs :
             /\ e \in ToSet(queue[w]) /\ job'[w] = <<e>> /\ Event(w)' = e
             /\ ToSet(queue[w]) = {e} \cup ToSet(queue'[w])
             /\ \A v \in Workers \ {w} : queue'[v] = queue[v]
             /\ \A b \in Procs \ {w} : job'[b] = job[b] /\ pc'[b] = pc[b]
             /\ pc[w] = "idle" /\ pc'[w] = "snap"
             /\ UNCHANGED <<strategy, policy, sent, closer, todo, target, connVars>>
      BY <1>5, DequeueStep
    <2>2. \A b \in Procs \ {w} : Event(b)' = Event(b)
      BY <2>1 DEF Event
    <2>3. \A v \in Workers : \A x \in ToSet(queue'[v]) : WorkerOf[x.ch] = v
      BY <2>1 DEF PlaceInv, WorkerAt, Busy
    <2>4. job'[w] # <<>>
      BY <2>1 DEF PlaceInv
    <2>5. AnyAt(w)' /\ WorkerAt(w)'
      BY <2>1, <2>3, <2>4 DEF PlaceInv, AnyAt, WorkerAt, Busy
    <2>6. \A b \in Procs \ {w} : AnyAt(b)'
      BY <2>1, <2>2 DEF PlaceInv, AnyAt, Busy
    <2>7. \A p \in Pubs : PublisherAt(p)'
      BY <2>1, <2>2 DEF PlaceInv, PublisherAt, Busy
    <2>8. \A v \in Workers \ {w} : WorkerAt(v)'
      BY <2>1, <2>2, <2>3 DEF PlaceInv, WorkerAt, Busy
    <2> QED BY <2>5, <2>6, <2>7, <2>8 DEF PlaceInv
  <1>6. ASSUME NEW w \in Workers, WorkerExit(w) PROVE PlaceInv'
    BY <1>6 DEF WorkerExit, Busy, Event, PlaceInv, AnyAt, PublisherAt, WorkerAt
  <1>7. CASE CloseCall
    BY <1>7 DEF CloseCall, Busy, Event, PlaceInv, AnyAt, PublisherAt, WorkerAt
  <1>8. CASE CloseQueues
    BY <1>8 DEF CloseQueues, Busy, Event, PlaceInv, AnyAt, PublisherAt, WorkerAt
  <1>9. CASE CloseReturn
    BY <1>9 DEF CloseReturn, Busy, Event, PlaceInv, AnyAt, PublisherAt, WorkerAt
  <1>10. ASSUME NEW b \in Procs, Snapshot(b) PROVE PlaceInv'
    <2>1. Event(b).ch \in Chans
      BY <1>10, Holding DEF Snapshot, Busy, Msgs
    <2>2. members[Event(b).ch] \subseteq Subs
      BY <2>1 DEF TypeOK
    <2> QED BY <1>10, <2>2 DEF Snapshot, Busy, Event, PlaceInv, AnyAt, PublisherAt, WorkerAt
  <1>11. ASSUME NEW b \in Procs, BroadcastEnd(b) PROVE PlaceInv'
    BY <1>11 DEF BroadcastEnd, Busy, Event, PlaceInv, AnyAt, PublisherAt, WorkerAt
  <1>12. ASSUME NEW b \in Procs, NEW s \in Subs, SendClosed(b, s) PROVE PlaceInv'
    BY <1>12 DEF SendClosed, Busy, Event, PlaceInv, AnyAt, PublisherAt, WorkerAt
  <1>13. ASSUME NEW b \in Procs, NEW s \in Subs, SendStart(b, s) PROVE PlaceInv'
    BY <1>13 DEF SendStart, Busy, Event, PlaceInv, AnyAt, PublisherAt, WorkerAt
  <1>14. ASSUME NEW b \in Procs, Apply(b) PROVE PlaceInv'
    BY <1>14 DEF Apply, SendReturns, Busy, Event, PlaceInv, AnyAt, PublisherAt, WorkerAt
  <1>15. ASSUME NEW b \in Procs, ApplyDisconnect(b) PROVE PlaceInv'
    BY <1>15 DEF ApplyDisconnect, SendReturns, Busy, Event, PlaceInv, AnyAt, PublisherAt, WorkerAt
  <1>16. ASSUME NEW b \in Procs, ApplyDropNewest(b) PROVE PlaceInv'
    BY <1>16 DEF ApplyDropNewest, SendReturns, Busy, Event, PlaceInv, AnyAt, PublisherAt, WorkerAt
  <1>17. ASSUME NEW b \in Procs, ApplyDropOldest(b) PROVE PlaceInv'
    BY <1>17 DEF ApplyDropOldest, Busy, Event, PlaceInv, AnyAt, PublisherAt, WorkerAt
  <1>18. ASSUME NEW b \in Procs, Evict(b) PROVE PlaceInv'
    BY <1>18 DEF Evict, Busy, Event, PlaceInv, AnyAt, PublisherAt, WorkerAt
  <1>19. ASSUME NEW b \in Procs, Retry(b) PROVE PlaceInv'
    BY <1>19 DEF Retry, SendReturns, Busy, Event, PlaceInv, AnyAt, PublisherAt, WorkerAt
  <1>20. ASSUME NEW s \in Subs, WriteNext(s) PROVE PlaceInv'
    BY <1>20 DEF WriteNext, Busy, Event, PlaceInv, AnyAt, PublisherAt, WorkerAt
  <1>21. ASSUME NEW s \in Subs, SendAck(s) PROVE PlaceInv'
    BY <1>21 DEF SendAck, Busy, Event, PlaceInv, AnyAt, PublisherAt, WorkerAt
  <1>22. ASSUME NEW s \in Subs, CloseRequested(s) PROVE PlaceInv'
    BY <1>22 DEF CloseRequested, Busy, Event, PlaceInv, AnyAt, PublisherAt, WorkerAt
  <1>23. ASSUME NEW s \in Subs, PumpReturned(s) PROVE PlaceInv'
    BY <1>23 DEF PumpReturned, Busy, Event, PlaceInv, AnyAt, PublisherAt, WorkerAt
  <1>24. ASSUME NEW s \in Subs, MarkClosed(s) PROVE PlaceInv'
    BY <1>24 DEF MarkClosed, Busy, Event, PlaceInv, AnyAt, PublisherAt, WorkerAt
  <1>25. ASSUME NEW s \in Subs, NEW c \in Chans, Unsubscribe(s, c) PROVE PlaceInv'
    BY <1>25 DEF Unsubscribe, Busy, Event, PlaceInv, AnyAt, PublisherAt, WorkerAt
  <1>26. CASE UNCHANGED vars
    BY <1>26 DEF vars, poolVars, procVars, connVars, Busy, Event, PlaceInv, AnyAt, PublisherAt,
       WorkerAt
  <1> QED BY <1>1, <1>2, <1>3, <1>4, <1>5, <1>6, <1>7, <1>8, <1>9, <1>10, <1>11, <1>12, <1>13,
     <1>14, <1>15, <1>16, <1>17, <1>18, <1>19, <1>20, <1>21, <1>22, <1>23, <1>24, <1>25, <1>26,
     NextCases

(* Every step keeps the pool: a queue is closed behind its last publisher, *)
(* and a worker leaves an empty one.                                       *)
LEMMA PoolStep == IInv /\ [Next]_vars => PoolInv'
  <1> SUFFICES ASSUME IInv, [Next]_vars PROVE PoolInv'
    OBVIOUS
  <1>0. /\ TypeOK /\ PlaceInv /\ PoolInv
        /\ Pubs \cap Workers = {} /\ Procs = Pubs \cup Workers
        /\ pc \in [Procs -> {"idle", "rlock", "enqueue", "snap", "next", "send", "evict", "retry",
                             "exited"}]
        /\ queue = [w \in Workers |-> queue[w]]
        /\ strategy \in {"perconn", "sharded"}
    BY FanoutAssumption DEF IInv, Procs, TypeOK
  <1> USE <1>0 DEF PoolInv, Closed, poolVars, procVars, connVars, Go
  <1>1. ASSUME NEW p \in Pubs, NEW c \in Chans, Publish(p, c) PROVE PoolInv'
    <2>1. /\ pc[p] = "idle" /\ pc'[p] \in {"snap", "rlock"} /\ \A b \in Procs \ {p} : pc'[b] = pc[b]
          /\ UNCHANGED <<strategy, closer, queue>>
      BY <1>1 DEF Publish
    <2> QED BY <2>1
  <1>2. ASSUME NEW p \in Pubs, BroadcastClosed(p) PROVE PoolInv'
    BY <1>2 DEF BroadcastClosed
  <1>3. ASSUME NEW p \in Pubs, BroadcastOpen(p) PROVE PoolInv'
    BY <1>3 DEF BroadcastOpen
  <1>4. ASSUME NEW p \in Pubs, Enqueue(p) PROVE PoolInv'
    <2> DEFINE w == WorkerOf[Event(p).ch]
    <2>1. w \in Workers /\ \A v \in Workers \ {w} : queue'[v] = queue[v]
      BY <1>4, EnqueueStep
    <2>2. strategy = "sharded" /\ ~ Closed
      BY <1>4 DEF Enqueue, PlaceInv, PublisherAt
    <2>3. /\ pc'[p] = "idle" /\ \A b \in Procs \ {p} : pc'[b] = pc[b]
          /\ UNCHANGED <<strategy, closer>>
      BY <1>4 DEF Enqueue
    <2> QED BY <2>2, <2>3
  <1>5. ASSUME NEW w \in Workers, Dequeue(w) PROVE PoolInv'
    <2>1. /\ \A v \in Workers \ {w} : queue'[v] = queue[v]
          /\ pc[w] = "idle" /\ pc'[w] = "snap" /\ \A b \in Procs \ {w} : pc'[b] = pc[b]
          /\ UNCHANGED <<strategy, closer>>
      BY <1>5, DequeueStep
    <2> QED BY <2>1
  <1>6. ASSUME NEW w \in Workers, WorkerExit(w) PROVE PoolInv'
    BY <1>6 DEF WorkerExit
  <1>7. CASE CloseCall
    BY <1>7 DEF CloseCall
  <1>8. CASE CloseQueues
    BY <1>8 DEF CloseQueues
  <1>9. CASE CloseReturn
    BY <1>9 DEF CloseReturn
  <1>10. ASSUME NEW b \in Procs, Snapshot(b) PROVE PoolInv'
    BY <1>10 DEF Snapshot
  <1>11. ASSUME NEW b \in Procs, BroadcastEnd(b) PROVE PoolInv'
    BY <1>11 DEF BroadcastEnd
  <1>12. ASSUME NEW b \in Procs, NEW s \in Subs, SendClosed(b, s) PROVE PoolInv'
    BY <1>12 DEF SendClosed
  <1>13. ASSUME NEW b \in Procs, NEW s \in Subs, SendStart(b, s) PROVE PoolInv'
    BY <1>13 DEF SendStart
  <1>14. ASSUME NEW b \in Procs, Apply(b) PROVE PoolInv'
    BY <1>14 DEF Apply, SendReturns
  <1>15. ASSUME NEW b \in Procs, ApplyDisconnect(b) PROVE PoolInv'
    BY <1>15 DEF ApplyDisconnect, SendReturns
  <1>16. ASSUME NEW b \in Procs, ApplyDropNewest(b) PROVE PoolInv'
    BY <1>16 DEF ApplyDropNewest, SendReturns
  <1>17. ASSUME NEW b \in Procs, ApplyDropOldest(b) PROVE PoolInv'
    BY <1>17 DEF ApplyDropOldest
  <1>18. ASSUME NEW b \in Procs, Evict(b) PROVE PoolInv'
    BY <1>18 DEF Evict
  <1>19. ASSUME NEW b \in Procs, Retry(b) PROVE PoolInv'
    BY <1>19 DEF Retry, SendReturns
  <1>20. ASSUME NEW s \in Subs, WriteNext(s) PROVE PoolInv'
    BY <1>20 DEF WriteNext
  <1>21. ASSUME NEW s \in Subs, SendAck(s) PROVE PoolInv'
    BY <1>21 DEF SendAck
  <1>22. ASSUME NEW s \in Subs, CloseRequested(s) PROVE PoolInv'
    BY <1>22 DEF CloseRequested
  <1>23. ASSUME NEW s \in Subs, PumpReturned(s) PROVE PoolInv'
    BY <1>23 DEF PumpReturned
  <1>24. ASSUME NEW s \in Subs, MarkClosed(s) PROVE PoolInv'
    BY <1>24 DEF MarkClosed
  <1>25. ASSUME NEW s \in Subs, NEW c \in Chans, Unsubscribe(s, c) PROVE PoolInv'
    BY <1>25 DEF Unsubscribe
  <1>26. CASE UNCHANGED vars
    BY <1>26 DEF vars, poolVars, procVars, connVars, Busy, Event, PoolInv
  <1> QED BY <1>1, <1>2, <1>3, <1>4, <1>5, <1>6, <1>7, <1>8, <1>9, <1>10, <1>11, <1>12, <1>13,
     <1>14, <1>15, <1>16, <1>17, <1>18, <1>19, <1>20, <1>21, <1>22, <1>23, <1>24, <1>25, <1>26,
     NextCases

-----------------------------------------------------------------------------
(* The order of events.                                                    *)

(* A step that takes no event up and brings none further back.             *)
Onward ==
    /\ UNCHANGED <<sent, queue>>
    /\ \A b \in Procs : Busy(b)' => /\ Busy(b) /\ Event(b)' = Event(b)
                                    /\ \A s \in Subs : Ahead(b, s)' => Ahead(b, s)

(* The steps that are not a publish, an enqueue or a dequeue are such.     *)
LEMMA OnwardStep ==
    ASSUME IInv, [Next]_vars,
           ~ \E p \in Pubs : Enqueue(p) \/ \E c \in Chans : Publish(p, c),
           ~ \E w \in Workers : Dequeue(w)
    PROVE  Onward
  <1>0. /\ PlaceInv /\ Procs = Pubs \cup Workers /\ NoSub \notin Subs
        /\ pc \in [Procs -> {"idle", "rlock", "enqueue", "snap", "next", "send", "evict", "retry",
                             "exited"}]
        /\ todo \in [Procs -> SUBSET Subs] /\ target \in [Procs -> Subs \cup {NoSub}]
        /\ DOMAIN job = Procs
    BY FanoutAssumption DEF IInv, Procs, TypeOK
  <1> USE <1>0 DEF Onward, Busy, Event, Ahead, Go, poolVars, procVars, connVars
  <1>1. ASSUME NEW p \in Pubs, BroadcastClosed(p) PROVE Onward
    BY <1>1 DEF BroadcastClosed
  <1>2. ASSUME NEW p \in Pubs, BroadcastOpen(p) PROVE Onward
    BY <1>2 DEF BroadcastOpen
  <1>3. ASSUME NEW w \in Workers, WorkerExit(w) PROVE Onward
    BY <1>3 DEF WorkerExit
  <1>4. CASE CloseCall
    BY <1>4 DEF CloseCall
  <1>5. CASE CloseQueues
    BY <1>5 DEF CloseQueues
  <1>6. CASE CloseReturn
    BY <1>6 DEF CloseReturn
  <1>7. ASSUME NEW b \in Procs, Snapshot(b) PROVE Onward
    BY <1>7 DEF Snapshot
  <1>8. ASSUME NEW b \in Procs, BroadcastEnd(b) PROVE Onward
    BY <1>8 DEF BroadcastEnd
  <1>9. ASSUME NEW b \in Procs, NEW s \in Subs, SendClosed(b, s) PROVE Onward
    BY <1>9 DEF SendClosed
  <1>10. ASSUME NEW b \in Procs, NEW s \in Subs, SendStart(b, s) PROVE Onward
    BY <1>10 DEF SendStart
  <1>11. ASSUME NEW b \in Procs, Apply(b) PROVE Onward
    BY <1>11 DEF Apply, SendReturns
  <1>12. ASSUME NEW b \in Procs, ApplyDisconnect(b) PROVE Onward
    BY <1>12 DEF ApplyDisconnect, SendReturns
  <1>13. ASSUME NEW b \in Procs, ApplyDropNewest(b) PROVE Onward
    BY <1>13 DEF ApplyDropNewest, SendReturns
  <1>14. ASSUME NEW b \in Procs, ApplyDropOldest(b) PROVE Onward
    BY <1>14 DEF ApplyDropOldest
  <1>15. ASSUME NEW b \in Procs, Evict(b) PROVE Onward
    BY <1>15 DEF Evict
  <1>16. ASSUME NEW b \in Procs, Retry(b) PROVE Onward
    BY <1>16 DEF Retry, SendReturns
  <1>17. ASSUME NEW s \in Subs, WriteNext(s) PROVE Onward
    BY <1>17 DEF WriteNext
  <1>18. ASSUME NEW s \in Subs, SendAck(s) PROVE Onward
    BY <1>18 DEF SendAck
  <1>19. ASSUME NEW s \in Subs, CloseRequested(s) PROVE Onward
    BY <1>19 DEF CloseRequested
  <1>20. ASSUME NEW s \in Subs, PumpReturned(s) PROVE Onward
    BY <1>20 DEF PumpReturned
  <1>21. ASSUME NEW s \in Subs, MarkClosed(s) PROVE Onward
    BY <1>21 DEF MarkClosed
  <1>22. ASSUME NEW s \in Subs, NEW c \in Chans, Unsubscribe(s, c) PROVE Onward
    BY <1>22 DEF Unsubscribe
  <1>23. CASE UNCHANGED vars
    BY <1>23 DEF vars
  <1> HIDE DEF Onward
  <1> QED BY <1>1, <1>2, <1>3, <1>4, <1>5, <1>6, <1>7, <1>8, <1>9, <1>10, <1>11, <1>12, <1>13,
     <1>14, <1>15, <1>16, <1>17, <1>18, <1>19, <1>20, <1>21, <1>22, <1>23, NextCases

(* An event that is being sent is before everything of its source that     *)
(* comes after it.                                                         *)
LEMMA SendingIsFirst ==
    ASSUME IInv, NEW b \in Procs, pc[b] \in {"send", "evict", "retry"}
    PROVE  /\ \A w \in Workers : \A y \in ToSet(queue[w]) : Precedes(Event(b), y)
           /\ \A d \in Procs \ {b} : Busy(d) => Precedes(Event(b), Event(d))
  <1>0. /\ TypeOK /\ PlaceInv /\ PoolInv /\ OrderInv
        /\ Pubs \cap Workers = {} /\ Procs = Pubs \cup Workers
    BY FanoutAssumption DEF IInv, Procs
  <1>1. Busy(b)
    BY DEF Busy
  <1>2. CASE b \in Workers
    <2>1. WorkerOf[Event(b).ch] = b
      BY <1>0, <1>1, <1>2 DEF PlaceInv, WorkerAt
    <2>2. ASSUME NEW w \in Workers, NEW y \in ToSet(queue[w]) PROVE Precedes(Event(b), y)
      <3>1. WorkerOf[y.ch] = w
        BY <1>0 DEF PlaceInv, WorkerAt
      <3>2. w = b => Precedes(Event(b), y)
        BY <1>0, <1>1, <1>2 DEF OrderInv
      <3> QED BY <2>1, <3>1, <3>2 DEF Precedes
    <2>3. ASSUME NEW d \in Workers \ {b}, Busy(d) PROVE Precedes(Event(b), Event(d))
      <3>1. WorkerOf[Event(d).ch] = d
        BY <1>0, <2>3 DEF PlaceInv, WorkerAt
      <3> QED BY <2>1, <3>1 DEF Precedes
    <2>4. \A d \in Pubs : Busy(d) => Precedes(Event(b), Event(d))
      BY <1>0, <1>1, <1>2 DEF OrderInv
    <2> QED BY <1>0, <2>2, <2>3, <2>4
  <1>3. CASE b \in Pubs
    <2>1. Event(b).pub = b /\ strategy = "perconn"
      BY <1>0, <1>1, <1>3 DEF PlaceInv, PublisherAt
    <2>2. \A w \in Workers : ~ Busy(w) /\ ToSet(queue[w]) = {}
      BY <1>0, <2>1, EmptyFacts DEF PoolInv, Busy
    <2>3. \A d \in Pubs : Busy(d) => Event(d).pub = d
      BY <1>0 DEF PlaceInv, PublisherAt
    <2> QED BY <1>0, <2>1, <2>2, <2>3 DEF Precedes
  <1> QED BY <1>0, <1>2, <1>3

(* Such a step keeps the order, if what it adds for a subscriber is an ack *)
(* or the event of a Send to it that returns.                              *)
LEMMA OnwardKeepsOrder ==
    ASSUME IInv, Onward, \A s \in Subs : InLine(s)',
           \A s \in Subs : \A x \in Frames(s)' :
               \/ x \in Frames(s) \cup {Ack}
               \/ \E b \in Procs : /\ pc[b] \in {"send", "evict", "retry"}
                                   /\ x = Event(b) /\ ~ (Busy(b)' /\ Ahead(b, s)')
    PROVE  SentInv' /\ OrderInv'
  <1>0. /\ TypeOK /\ SentInv /\ OrderInv /\ Ack \notin Msgs /\ Procs = Pubs \cup Workers
    BY FanoutAssumption DEF IInv, Procs
  <1>1. \A x : Precedes(Ack, x)
    BY <1>0 DEF Precedes
  <1>2. SentInv'
    <2>1. \A b \in Procs : Busy(b)' => Event(b)'.n <= sent'[Event(b)'.pub][Event(b)'.ch]
      BY <1>0 DEF Onward, SentInv
    <2>2. \A w \in Workers : \A x \in ToSet(queue'[w]) : x.n <= sent'[x.pub][x.ch]
      BY <1>0 DEF Onward, SentInv
    <2>3. \A b \in Procs : pc[b] \in {"send", "evict", "retry"} => Busy(b)
      BY DEF Busy
    <2>4. \A s \in Subs : \A x \in Frames(s)' \ {Ack} : x.n <= sent'[x.pub][x.ch]
      BY <1>0, <2>3 DEF Onward, SentInv
    <2> QED BY <2>1, <2>2, <2>4 DEF SentInv
  <1>3. \A w \in Workers :
        /\ Sorted(queue'[w])
        /\ Busy(w)' => \A x \in ToSet(queue'[w]) : Precedes(Event(w)', x)
        /\ \A p \in Pubs : Busy(p)' =>
            /\ \A x \in ToSet(queue'[w]) : Precedes(x, Event(p)')
            /\ Busy(w)' => Precedes(Event(w)', Event(p)')
    BY <1>0 DEF Onward, OrderInv
  <1>4. ASSUME NEW s \in Subs, NEW x \in Frames(s)'
        PROVE  /\ \A w \in Workers : \A y \in ToSet(queue'[w]) : Precedes(x, y)
               /\ \A b \in Procs : Busy(b)' /\ Ahead(b, s)' => Precedes(x, Event(b)')
    <2>1. CASE x \in Frames(s)
      BY <1>0, <2>1 DEF Onward, OrderInv
    <2>2. CASE x = Ack
      BY <1>1, <2>2
    <2>3. ASSUME NEW b \in Procs, pc[b] \in {"send", "evict", "retry"},
                 x = Event(b), ~ (Busy(b)' /\ Ahead(b, s)')
          PROVE  /\ \A w \in Workers : \A y \in ToSet(queue'[w]) : Precedes(x, y)
                 /\ \A d \in Procs : Busy(d)' /\ Ahead(d, s)' => Precedes(x, Event(d)')
      <3>1. /\ \A w \in Workers : \A y \in ToSet(queue[w]) : Precedes(Event(b), y)
            /\ \A d \in Procs \ {b} : Busy(d) => Precedes(Event(b), Event(d))
        BY <2>3, SendingIsFirst
      <3> QED BY <2>3, <3>1 DEF Onward
    <2> QED BY <2>1, <2>2, <2>3
  <1> QED BY <1>2, <1>3, <1>4 DEF OrderInv

(* A frame that is behind all others of its source may go to the end.      *)
LEMMA AppendInLine ==
    ASSUME TypeOK, NEW s \in Subs, NEW m \in Msgs \cup {Ack}, InLine(s),
           \A x \in Frames(s) : Precedes(x, m),
           got'[s] = got[s], buf'[s] = Append(buf[s], m)
    PROVE  InLine(s)' /\ Frames(s)' = Frames(s) \cup {m}
  <1>1. buf[s] \in Seq(Msgs \cup {Ack})
    BY DEF TypeOK
  <1>2. Sorted(buf[s]) /\ \A x \in ToSet(buf[s]) : Precedes(x, m)
    BY DEF InLine, Frames
  <1>3. Sorted(buf'[s]) /\ ToSet(buf'[s]) = ToSet(buf[s]) \cup {m}
    BY <1>1, <1>2, AppendFacts
  <1> QED BY <1>3 DEF InLine, Frames

(* The oldest frame of the buffer goes, out or to the peer.                *)
LEMMA TakeInLine ==
    ASSUME TypeOK, NEW s \in Subs, InLine(s), buf[s] # <<>>, buf'[s] = Tail(buf[s]),
           \/ got'[s] = got[s]
           \/ Head(buf[s]) \in Msgs /\ got'[s] = Append(got[s], Head(buf[s]))
    PROVE  InLine(s)' /\ Frames(s)' \subseteq Frames(s)
  <1> DEFINE m == Head(buf[s])
  <1>1. buf[s] \in Seq(Msgs \cup {Ack}) /\ got[s] \in Seq(Msgs)
    BY DEF TypeOK
  <1>2. Sorted(got[s]) /\ Sorted(buf[s]) /\ \A x \in ToSet(got[s]), y \in ToSet(buf[s]) : Precedes(x, y)
    BY DEF InLine
  <1>3. /\ m \in ToSet(buf[s]) /\ ToSet(buf[s]) = {m} \cup ToSet(buf'[s])
        /\ Sorted(buf'[s]) /\ \A x \in ToSet(buf'[s]) : Precedes(m, x)
    BY <1>1, <1>2, TailFacts
  <1> HIDE DEF m
  <1>4. CASE got'[s] = got[s]
    BY <1>2, <1>3, <1>4 DEF InLine, Frames
  <1>5. CASE m \in Msgs /\ got'[s] = Append(got[s], m)
    <2>1. \A x \in ToSet(got[s]) : Precedes(x, m)
      BY <1>2, <1>3
    <2>2. Sorted(got'[s]) /\ ToSet(got'[s]) = ToSet(got[s]) \cup {m}
      BY <1>1, <1>2, <1>5, <2>1, AppendFacts
    <2> QED BY <1>2, <1>3, <2>2 DEF InLine, Frames
  <1> QED BY <1>4, <1>5 DEF m

(* A Send puts its event into the buffer and returns.                      *)
Sends(b) ==
    /\ pc[b] \in {"send", "retry"}
    /\ got' = got
    /\ buf' = [buf EXCEPT ![target[b]] = Append(buf[target[b]], Event(b))]
    /\ SendReturns(b) /\ todo' = todo /\ job' = job

(* The oldest frame leaves the buffer of s: evicted, or to the peer.       *)
Takes(s) ==
    /\ \A r \in Subs \ {s} : buf'[r] = buf[r] /\ got'[r] = got[r]
    /\ buf[s] # <<>> /\ buf'[s] = Tail(buf[s])
    /\ \/ got'[s] = got[s]
       \/ Head(buf[s]) # Ack /\ got'[s] = Append(got[s], Head(buf[s]))

(* An ack goes into it.                                                    *)
Acks(s) ==
    /\ \A r \in Subs \ {s} : buf'[r] = buf[r]
    /\ buf'[s] = Append(buf[s], Ack) /\ got' = got

(* What the buffers and the peers see of a step.                           *)
LEMMA FrameCases ==
    ASSUME IInv, [Next]_vars
    PROVE  \/ UNCHANGED <<got, buf>>
           \/ \E b \in Procs : Sends(b)
           \/ \E s \in Subs : Takes(s) \/ Acks(s)
  <1>0. TypeOK /\ PlaceInv /\ buf = [s \in Subs |-> buf[s]] /\ got = [s \in Subs |-> got[s]]
    BY DEF IInv, TypeOK
  <1>1. ASSUME NEW b \in Procs, Apply(b) \/ Retry(b) PROVE UNCHANGED <<got, buf>> \/ Sends(b)
    BY <1>1 DEF Apply, Retry, Put, Sends, Event
  <1>2. ASSUME NEW b \in Procs, Evict(b) PROVE UNCHANGED <<got, buf>> \/ \E s \in Subs : Takes(s)
    <2>1. target[b] \in Subs
      BY <1>0, <1>2, Holding DEF Evict
    <2>2. CASE buf[target[b]] = <<>>
      BY <1>0, <1>2, <2>1, <2>2 DEF Evict
    <2>3. CASE buf[target[b]] # <<>>
      <3>1. Takes(target[b])
        BY <1>0, <1>2, <2>1, <2>3 DEF Evict, Takes
      <3> QED BY <2>1, <3>1
    <2> QED BY <2>2, <2>3
  <1>3. ASSUME NEW s \in Subs, WriteNext(s) PROVE Takes(s)
    BY <1>0, <1>3 DEF WriteNext, Takes
  <1>4. ASSUME NEW s \in Subs, SendAck(s) PROVE Acks(s)
    BY <1>0, <1>4 DEF SendAck, Put, Acks
  <1>5. ASSUME NEW p \in Pubs, \/ BroadcastClosed(p) \/ BroadcastOpen(p) \/ Enqueue(p)
                               \/ \E c \in Chans : Publish(p, c)
        PROVE  UNCHANGED <<got, buf>>
    BY <1>5 DEF BroadcastClosed, BroadcastOpen, Enqueue, Publish, connVars
  <1>6. ASSUME NEW w \in Workers, Dequeue(w) \/ WorkerExit(w) PROVE UNCHANGED <<got, buf>>
    BY <1>6 DEF Dequeue, WorkerExit, connVars
  <1>7. ASSUME NEW b \in Procs,
               \/ Snapshot(b) \/ BroadcastEnd(b) \/ \E s \in Subs : SendClosed(b, s) \/ SendStart(b, s)
               \/ ApplyDisconnect(b) \/ ApplyDropNewest(b) \/ ApplyDropOldest(b)
        PROVE  UNCHANGED <<got, buf>>
    BY <1>7 DEF Snapshot, BroadcastEnd, SendClosed, SendStart, ApplyDisconnect, ApplyDropNewest,
                ApplyDropOldest, connVars
  <1>8. ASSUME NEW s \in Subs, \/ CloseRequested(s) \/ PumpReturned(s) \/ MarkClosed(s)
                               \/ \E c \in Chans : Unsubscribe(s, c)
        PROVE  UNCHANGED <<got, buf>>
    BY <1>8 DEF CloseRequested, PumpReturned, MarkClosed, Unsubscribe
  <1>9. CloseCall \/ CloseQueues \/ CloseReturn => UNCHANGED <<got, buf>>
    BY DEF CloseCall, CloseQueues, CloseReturn, connVars
  <1>10. UNCHANGED vars => UNCHANGED <<got, buf>>
    BY DEF vars, connVars
  <1> QED BY <1>1, <1>2, <1>3, <1>4, <1>5, <1>6, <1>7, <1>8, <1>9, <1>10, NextCases

(* Whatever it is, the frames of each subscriber stay in line, and what is *)
(* new among them is an ack or comes from a Send.                          *)
LEMMA FrameStep ==
    ASSUME IInv, [Next]_vars
    PROVE  /\ \A s \in Subs : InLine(s)'
           /\ \A s \in Subs : \A x \in Frames(s)' :
                  \/ x \in Frames(s) \cup {Ack}
                  \/ \E b \in Procs : /\ pc[b] \in {"send", "evict", "retry"}
                                      /\ x = Event(b) /\ ~ (Busy(b)' /\ Ahead(b, s)')
  <1> DEFINE Fresh(s, x) == \E b \in Procs : /\ pc[b] \in {"send", "evict", "retry"}
                                             /\ x = Event(b) /\ ~ (Busy(b)' /\ Ahead(b, s)')
  <1>0. /\ TypeOK /\ PlaceInv /\ OrderInv /\ Ack \notin Msgs /\ NoSub \notin Subs
        /\ \A s \in Subs : InLine(s)
        /\ \A s \in Subs : buf[s] \in Seq(Msgs \cup {Ack})
    BY FanoutAssumption DEF IInv, OrderInv, TypeOK
  <1>1. ASSUME NEW s \in Subs, buf'[s] = buf[s], got'[s] = got[s]
        PROVE  InLine(s)' /\ Frames(s)' = Frames(s)
    BY <1>0, <1>1 DEF InLine, Frames
  <1>2. CASE UNCHANGED <<got, buf>>
    BY <1>1, <1>2
  <1>3. ASSUME NEW b \in Procs, Sends(b)
        PROVE  \A s \in Subs : InLine(s)' /\ \A x \in Frames(s)' : x \in Frames(s) \/ Fresh(s, x)
    <2>1. target[b] \in Subs /\ Event(b) \in Msgs /\ Busy(b) /\ pc[b] \in {"send", "retry"}
      BY <1>0, <1>3, Holding DEF Sends, Busy
    <2> PICK t \in Subs : t = target[b]
      BY <2>1
    <2>2. \A x \in Frames(t) : Precedes(x, Event(b))
      BY <1>0, <2>1 DEF OrderInv, Ahead
    <2>3. /\ buf'[t] = Append(buf[t], Event(b)) /\ got' = got
          /\ \A r \in Subs \ {t} : buf'[r] = buf[r]
      BY <1>0, <1>3, <2>1 DEF Sends, TypeOK
    <2>4. ~ Ahead(b, t)'
      <3>1. pc'[b] = "next" /\ target'[b] = NoSub /\ todo' = todo
        BY <1>0, <1>3 DEF Sends, SendReturns, Go, TypeOK
      <3>2. t \notin todo[b]
        BY <1>0 DEF PlaceInv, AnyAt
      <3> QED BY <1>0, <2>1, <3>1, <3>2 DEF Ahead
    <2> QED BY <1>0, <1>1, <2>1, <2>2, <2>3, <2>4, AppendInLine
  <1>4. ASSUME NEW s \in Subs, Takes(s)
        PROVE  \A r \in Subs : InLine(r)' /\ Frames(r)' \subseteq Frames(r)
    <2>1. Head(buf[s]) # Ack => Head(buf[s]) \in Msgs
      BY <1>0, <1>4, TailFacts DEF Takes
    <2>2. InLine(s)' /\ Frames(s)' \subseteq Frames(s)
      BY <1>0, <1>4, <2>1, TakeInLine DEF Takes
    <2> QED BY <1>1, <1>4, <2>2 DEF Takes
  <1>5. ASSUME NEW s \in Subs, Acks(s)
        PROVE  \A r \in Subs : InLine(r)' /\ Frames(r)' \subseteq Frames(r) \cup {Ack}
    <2>1. \A x \in Frames(s) : Precedes(x, Ack)
      BY <1>0 DEF Precedes
    <2>2. InLine(s)' /\ Frames(s)' = Frames(s) \cup {Ack}
      BY <1>0, <1>5, <2>1, AppendInLine DEF Acks
    <2> QED BY <1>1, <1>5, <2>2 DEF Acks
  <1> QED BY <1>2, <1>3, <1>4, <1>5, FrameCases

(* What is in the queues, the buffers and with the peers.                  *)
LEMMA Contents ==
    ASSUME TypeOK
    PROVE  /\ \A w \in Workers : ToSet(queue[w]) \subseteq Msgs
           /\ \A s \in Subs : Frames(s) \subseteq Msgs \cup {Ack}
  <1>1. ASSUME NEW S, NEW q \in Seq(S) PROVE ToSet(q) \subseteq S
    <2>1. DOMAIN q = 1 .. Len(q)
      BY LenProperties
    <2> QED BY <2>1, ElementOfSeq DEF ToSet
  <1>2. \A w \in Workers : queue[w] \in Seq(Msgs)
    BY DEF TypeOK
  <1>3. \A s \in Subs : got[s] \in Seq(Msgs) /\ buf[s] \in Seq(Msgs \cup {Ack})
    BY DEF TypeOK
  <1>4. \A s \in Subs : ToSet(got[s]) \subseteq Msgs /\ ToSet(buf[s]) \subseteq Msgs \cup {Ack}
    BY <1>1, <1>3
  <1> QED BY <1>1, <1>2, <1>4 DEF Frames

(* A new event is behind all that its publisher has published.             *)
LEMMA PublishOrder ==
    ASSUME IInv, NEW p \in Pubs, NEW c \in Chans, Publish(p, c)
    PROVE  SentInv' /\ OrderInv'
  <1>0. /\ TypeOK /\ PlaceInv /\ SentInv /\ OrderInv /\ Procs = Pubs \cup Workers
        /\ Pubs \cap Workers = {} /\ Ack \notin Msgs
    BY FanoutAssumption DEF IInv, Procs
  <1>1. PICK e \in Msgs :
             /\ e.pub = p /\ e.ch = c /\ e.n = sent[p][c] + 1 /\ sent[p][c] \in Nat
             /\ pc[p] = "idle" /\ Event(p)' = e
             /\ \A b \in Procs \ {p} : job'[b] = job[b] /\ pc'[b] = pc[b]
             /\ sent'[p][c] = sent[p][c] + 1
             /\ \A q \in Pubs, d \in Chans : q # p \/ d # c => sent'[q][d] = sent[q][d]
             /\ UNCHANGED <<queue, todo, target, buf, got>>
    BY <1>0, PublishStep DEF poolVars, connVars
  <1>2. ASSUME NEW x \in Msgs, x.n <= sent[x.pub][x.ch]
        PROVE  Precedes(x, e) /\ x.n <= sent'[x.pub][x.ch]
    <2>1. x.pub \in Pubs /\ x.ch \in Chans /\ x.n \in Nat
      BY DEF Msgs
    <2>2. sent[x.pub][x.ch] \in Nat
      BY <1>0, <2>1 DEF TypeOK
    <2>3. CASE x.pub = p /\ x.ch = c
      BY <1>1, <1>2, <2>1, <2>3 DEF Precedes
    <2>4. CASE x.pub # p \/ x.ch # c
      BY <1>1, <1>2, <2>1, <2>4 DEF Precedes
    <2> QED BY <2>3, <2>4
  <1>3. /\ \A w \in Workers : \A x \in ToSet(queue[w]) :
               Precedes(x, e) /\ x.n <= sent'[x.pub][x.ch]
        /\ \A b \in Procs : Busy(b) =>
               Precedes(Event(b), e) /\ Event(b).n <= sent'[Event(b).pub][Event(b).ch]
        /\ \A s \in Subs : \A x \in Frames(s) \ {Ack} :
               Precedes(x, e) /\ x.n <= sent'[x.pub][x.ch]
    BY <1>0, <1>2, Contents, Holding DEF SentInv
  <1>4. /\ \A b \in Procs \ {p} : /\ Busy(b)' = Busy(b) /\ Event(b)' = Event(b)
                                  /\ \A s \in Subs : Ahead(b, s)' = Ahead(b, s)
        /\ \A s \in Subs : Frames(s)' = Frames(s) /\ InLine(s)' = InLine(s)
    BY <1>1 DEF Busy, Event, Ahead, Frames, InLine
  <1>5. e.n <= sent'[e.pub][e.ch]
    BY <1>1
  <1>6. SentInv'
    BY <1>1, <1>3, <1>4, <1>5 DEF SentInv
  <1>7. \A s \in Subs : \A x \in Frames(s) : Precedes(x, e)
    BY <1>0, <1>3 DEF Precedes
  <1>8. \A w \in Workers : w # p
    BY <1>0
  <1>9. \A w \in Workers :
        /\ Sorted(queue'[w])
        /\ Busy(w)' => \A x \in ToSet(queue'[w]) : Precedes(Event(w)', x)
        /\ \A q \in Pubs : Busy(q)' =>
            /\ \A x \in ToSet(queue'[w]) : Precedes(x, Event(q)')
            /\ Busy(w)' => Precedes(Event(w)', Event(q)')
    BY <1>0, <1>1, <1>3, <1>4, <1>8 DEF OrderInv
  <1>10. \A s \in Subs :
        /\ InLine(s)'
        /\ \A x \in Frames(s)' :
            /\ \A w \in Workers : \A y \in ToSet(queue'[w]) : Precedes(x, y)
            /\ \A b \in Procs : Busy(b)' /\ Ahead(b, s)' => Precedes(x, Event(b)')
    BY <1>0, <1>1, <1>4, <1>7 DEF OrderInv
  <1> QED BY <1>6, <1>9, <1>10 DEF OrderInv

(* A queue takes an event behind all of its source that went before.       *)
LEMMA EnqueueOrder ==
    ASSUME IInv, NEW p \in Pubs, Enqueue(p)
    PROVE  SentInv' /\ OrderInv'
  <1>0. /\ TypeOK /\ PlaceInv /\ SentInv /\ OrderInv /\ Procs = Pubs \cup Workers
        /\ Pubs \cap Workers = {}
    BY FanoutAssumption DEF IInv, Procs
  <1>1. PICK e \in Msgs, w \in Workers :
             /\ e = Event(p)
             /\ ToSet(queue'[w]) = ToSet(queue[w]) \cup {e}
             /\ Sorted(queue[w]) /\ (\A x \in ToSet(queue[w]) : Precedes(x, e)) => Sorted(queue'[w])
             /\ \A v \in Workers \ {w} : queue'[v] = queue[v]
             /\ \A b \in Procs \ {p} : job'[b] = job[b] /\ pc'[b] = pc[b]
             /\ pc[p] = "enqueue" /\ pc'[p] = "idle"
             /\ UNCHANGED <<sent, todo, target, buf, got>>
    BY <1>0, EnqueueStep DEF connVars
  <1>2. Busy(p) /\ ~ Busy(p)' /\ e.pub = p /\ \A q \in Pubs : Busy(q) => Event(q).pub = q
    BY <1>0, <1>1 DEF Busy, PlaceInv, PublisherAt
  <1>3. /\ \A b \in Procs \ {p} : /\ Busy(b)' = Busy(b) /\ Event(b)' = Event(b)
                                  /\ \A s \in Subs : Ahead(b, s)' = Ahead(b, s)
        /\ \A s \in Subs : Frames(s)' = Frames(s) /\ InLine(s)' = InLine(s)
    BY <1>1 DEF Busy, Event, Ahead, Frames, InLine
  <1>4. \A v \in Workers : v # p
    BY <1>0
  <1>5. /\ \A v \in Workers : (\A x \in ToSet(queue[v]) : Precedes(x, e))
                              /\ (Busy(v) => Precedes(Event(v), e))
        /\ \A q \in Pubs \ {p} : Busy(q) => Precedes(e, Event(q))
        /\ \A s \in Subs : \A x \in Frames(s) : Precedes(x, e)
    <2>1. \A s \in Subs : Ahead(p, s)
      BY <1>1 DEF Ahead
    <2> QED BY <1>0, <1>1, <1>2, <2>1 DEF OrderInv, Precedes
  <1>6. \A v \in Workers : \A x \in ToSet(queue'[v]) : x \in ToSet(queue[v]) \/ x = e
    BY <1>1
  <1>7. SentInv'
    BY <1>0, <1>1, <1>2, <1>3, <1>6 DEF SentInv
  <1>8. \A v \in Workers : Sorted(queue'[v])
    BY <1>0, <1>1, <1>5 DEF OrderInv
  <1>9. \A v \in Workers :
        /\ Busy(v)' => \A x \in ToSet(queue'[v]) : Precedes(Event(v)', x)
        /\ \A q \in Pubs : Busy(q)' =>
            /\ \A x \in ToSet(queue'[v]) : Precedes(x, Event(q)')
            /\ Busy(v)' => Precedes(Event(v)', Event(q)')
    BY <1>0, <1>2, <1>3, <1>4, <1>5, <1>6 DEF OrderInv
  <1>10. \A s \in Subs :
        /\ InLine(s)'
        /\ \A x \in Frames(s)' :
            /\ \A v \in Workers : \A y \in ToSet(queue'[v]) : Precedes(x, y)
            /\ \A b \in Procs : Busy(b)' /\ Ahead(b, s)' => Precedes(x, Event(b)')
    BY <1>0, <1>2, <1>3, <1>5, <1>6 DEF OrderInv
  <1> QED BY <1>7, <1>8, <1>9, <1>10 DEF OrderInv

(* A worker takes what is before all else in its queue.                    *)
LEMMA DequeueOrder ==
    ASSUME IInv, NEW w \in Workers, Dequeue(w)
    PROVE  SentInv' /\ OrderInv'
  <1>0. /\ TypeOK /\ SentInv /\ OrderInv /\ Procs = Pubs \cup Workers
        /\ Pubs \cap Workers = {}
    BY FanoutAssumption DEF IInv, Procs
  <1>1. PICK e \in Msgs :
             /\ e \in ToSet(queue[w]) /\ Event(w)' = e
             /\ ToSet(queue[w]) = {e} \cup ToSet(queue'[w])
             /\ Sorted(queue[w]) => /\ Sorted(queue'[w])
                                    /\ \A x \in ToSet(queue'[w]) : Precedes(e, x)
             /\ \A v \in Workers \ {w} : queue'[v] = queue[v]
             /\ \A b \in Procs \ {w} : job'[b] = job[b] /\ pc'[b] = pc[b]
             /\ UNCHANGED <<sent, todo, target, buf, got>>
    BY <1>0, DequeueStep DEF connVars
  <1>3. /\ \A b \in Procs \ {w} : /\ Busy(b)' = Busy(b) /\ Event(b)' = Event(b)
                                  /\ \A s \in Subs : Ahead(b, s)' = Ahead(b, s)
        /\ \A s \in Subs : Frames(s)' = Frames(s) /\ InLine(s)' = InLine(s)
    BY <1>1 DEF Busy, Event, Ahead, Frames, InLine
  <1>4. \A p \in Pubs : p # w
    BY <1>0
  <1>5. /\ \A p \in Pubs : Busy(p) => Precedes(e, Event(p))
        /\ \A s \in Subs : \A x \in Frames(s) : Precedes(x, e)
    BY <1>0, <1>1 DEF OrderInv
  <1>6. \A v \in Workers : \A x \in ToSet(queue'[v]) : x \in ToSet(queue[v])
    BY <1>1
  <1>7. SentInv'
    BY <1>0, <1>1, <1>3, <1>6 DEF SentInv
  <1>8. \A v \in Workers : Sorted(queue'[v])
    BY <1>0, <1>1 DEF OrderInv
  <1>9. \A v \in Workers :
        /\ Busy(v)' => \A x \in ToSet(queue'[v]) : Precedes(Event(v)', x)
        /\ \A p \in Pubs : Busy(p)' =>
            /\ \A x \in ToSet(queue'[v]) : Precedes(x, Event(p)')
            /\ Busy(v)' => Precedes(Event(v)', Event(p)')
    BY <1>0, <1>1, <1>3, <1>4, <1>5, <1>6 DEF OrderInv
  <1>10. \A s \in Subs :
        /\ InLine(s)'
        /\ \A x \in Frames(s)' :
            /\ \A v \in Workers : \A y \in ToSet(queue'[v]) : Precedes(x, y)
            /\ \A b \in Procs : Busy(b)' /\ Ahead(b, s)' => Precedes(x, Event(b)')
    BY <1>0, <1>1, <1>3, <1>5, <1>6 DEF OrderInv
  <1> QED BY <1>7, <1>8, <1>9, <1>10 DEF OrderInv

(* So every step keeps the order.                                          *)
LEMMA OrderStep == IInv /\ [Next]_vars => SentInv' /\ OrderInv'
  BY PublishOrder, EnqueueOrder, DequeueOrder, OnwardStep, FrameStep, OnwardKeepsOrder

-----------------------------------------------------------------------------
(* The events in play.                                                     *)

(* A subscriber does not become healthy, nor come back from closed, and it *)
(* stays in its channels until it is closed.                               *)
LEMMA HealthStep ==
    ASSUME IInv, [Next]_vars, NEW s \in Subs
    PROVE  /\ Healthy(s)' => Healthy(s)
           /\ st'[s] # "closed" => \A c \in Chans : s \in members'[c]
  <1> DEFINE Goal == /\ Healthy(s)' => Healthy(s)
                     /\ st'[s] # "closed" => \A c \in Chans : s \in members'[c]
  <1>0. /\ st \in [Subs -> {"running", "closing", "ending", "closed"}] /\ closeReq \in [Subs -> BOOLEAN]
        /\ members \in [Chans -> SUBSET Subs]
        /\ st[s] # "closed" => \A c \in Chans : s \in members[c]
    BY DEF IInv, TypeOK, PlayInv
  <1>1. ASSUME NEW b \in Procs, ApplyDisconnect(b) PROVE Goal
    BY <1>0, <1>1 DEF ApplyDisconnect, Healthy
  <1>2. ASSUME NEW r \in Subs, CloseRequested(r) PROVE Goal
    BY <1>0, <1>2 DEF CloseRequested, Healthy
  <1>3. ASSUME NEW r \in Subs, PumpReturned(r) PROVE Goal
    BY <1>0, <1>3 DEF PumpReturned, PumpsRun, Healthy
  <1>4. ASSUME NEW r \in Subs, MarkClosed(r) PROVE Goal
    BY <1>0, <1>4 DEF MarkClosed, Healthy
  <1>5. ASSUME NEW r \in Subs, NEW c \in Chans, Unsubscribe(r, c) PROVE Goal
    BY <1>0, <1>5 DEF Unsubscribe, Healthy
  <1>6. UNCHANGED <<policy, members, st, closeReq>> => Goal
    BY <1>0 DEF Healthy
  <1>7. ASSUME NEW p \in Pubs, NEW c \in Chans,
               Publish(p, c)
        PROVE  UNCHANGED <<policy, members, st, closeReq>>
    BY <1>7 DEF Publish, connVars
  <1>8. ASSUME NEW p \in Pubs,
               \/ BroadcastClosed(p) \/ BroadcastOpen(p) \/ Enqueue(p)
        PROVE  UNCHANGED <<policy, members, st, closeReq>>
    BY <1>8 DEF BroadcastClosed, BroadcastOpen, Enqueue, connVars
  <1>9. ASSUME NEW w \in Workers,
               \/ Dequeue(w) \/ WorkerExit(w)
        PROVE  UNCHANGED <<policy, members, st, closeReq>>
    BY <1>9 DEF Dequeue, WorkerExit, connVars
  <1>10. \/ CloseCall \/ CloseQueues \/ CloseReturn
            => UNCHANGED <<policy, members, st, closeReq>>
    BY DEF CloseCall, CloseQueues, CloseReturn, connVars
  <1>11. ASSUME NEW b \in Procs,
               \/ Snapshot(b) \/ BroadcastEnd(b) \/ Apply(b) \/ ApplyDropNewest(b)
               \/ ApplyDropOldest(b) \/ Evict(b) \/ Retry(b)
        PROVE  UNCHANGED <<policy, members, st, closeReq>>
    BY <1>11 DEF Snapshot, BroadcastEnd, Apply, ApplyDropNewest, ApplyDropOldest, Evict, Retry,
       connVars
  <1>12. ASSUME NEW b \in Procs, NEW r \in Subs,
               \/ SendClosed(b, r) \/ SendStart(b, r)
        PROVE  UNCHANGED <<policy, members, st, closeReq>>
    BY <1>12 DEF SendClosed, SendStart, connVars
  <1>13. ASSUME NEW r \in Subs,
               \/ WriteNext(r) \/ SendAck(r)
        PROVE  UNCHANGED <<policy, members, st, closeReq>>
    BY <1>13 DEF WriteNext, SendAck, connVars
  <1>14. UNCHANGED vars => UNCHANGED <<policy, members, st, closeReq>>
    BY DEF vars, connVars
  <1> HIDE DEF Goal
  <1>g. Goal
    BY <1>1, <1>2, <1>3, <1>4, <1>5, <1>6, <1>7, <1>8, <1>9, <1>10, <1>11, <1>12, <1>13, <1>14,
       NextCases
  <1> QED BY <1>g DEF Goal

(* A step that leaves what is in play for s as it is.                      *)
Steady(s) ==
    /\ UNCHANGED <<queue, sent>> /\ Closed' = Closed
    /\ \A b \in Procs : /\ Coming(b, s)' <=> Coming(b, s)
                        /\ Coming(b, s) => Event(b)' = Event(b)
    /\ \A m \in Msgs : m \in Frames(s)' <=> m \in Frames(s)
SameEvents(s) ==
    /\ sent' = sent /\ Closed' = Closed
    /\ \A m \in Msgs : InPlay(s, m)' <=> InPlay(s, m)

(* It is so when nothing is queued, taken up, delivered or given up ...    *)
LEMMA SteadyIsSame ==
    ASSUME NEW s \in Subs, Steady(s)
    PROVE  SameEvents(s)
  BY DEF Steady, SameEvents, InPlay

(* Before an event but the first there is one.                             *)
LEMMA PrevInMsgs ==
    ASSUME NEW m \in Msgs, m.n > 1
    PROVE  /\ [m EXCEPT !.n = m.n - 1] \in Msgs /\ m.n \in Nat
           /\ [m EXCEPT !.n = m.n - 1].pub = m.pub /\ [m EXCEPT !.n = m.n - 1].ch = m.ch
           /\ [m EXCEPT !.n = m.n - 1].n = m.n - 1
  <1>1. MaxMsgs \in Nat
    BY FanoutAssumption
  <1>2. m.n \in 1 .. MaxMsgs /\ m.n - 1 \in 1 .. MaxMsgs
    BY <1>1 DEF Msgs
  <1> QED BY <1>1, <1>2 DEF Msgs

(* ... and then there is no gap afterwards.                                *)
LEMMA SameHasNoGap ==
    ASSUME NEW s \in Subs, TypeOK, SameEvents(s), NoGap(s)
    PROVE  NoGap(s)'
  <1>1. ASSUME NEW m \in Msgs, m.n > 1 PROVE [m EXCEPT !.n = m.n - 1] \in Msgs
    BY <1>1, PrevInMsgs
  <1>2. ASSUME NEW p \in Pubs, NEW c \in Chans, sent[p][c] > 0
        PROVE  [pub |-> p, ch |-> c, n |-> sent[p][c]] \in Msgs
    <2>1. sent[p][c] \in 0 .. MaxMsgs
      BY DEF TypeOK
    <2> QED BY <1>2, <2>1 DEF Msgs
  <1> QED BY <1>1, <1>2 DEF SameEvents, NoGap

(* What the subscriber has, or will get out of its buffer.                 *)
LEMMA FramesKept ==
    ASSUME IInv, NEW s \in Subs, NEW r \in Subs, WriteNext(r) \/ SendAck(r)
    PROVE  \A m \in Msgs : m \in Frames(s)' <=> m \in Frames(s)
  <1>0. /\ TypeOK /\ Ack \notin Msgs
        /\ \A x \in Subs : buf[x] \in Seq(Msgs \cup {Ack}) /\ got[x] \in Seq(Msgs)
        /\ buf = [x \in Subs |-> buf[x]] /\ got = [x \in Subs |-> got[x]]
    BY FanoutAssumption DEF IInv, TypeOK
  <1>1. CASE s # r
    BY <1>0, <1>1 DEF WriteNext, SendAck, Put, Frames
  <1>2. CASE s = r /\ SendAck(r)
    <2>1. buf'[s] = Append(buf[s], Ack) /\ got' = got
      BY <1>0, <1>2 DEF SendAck, Put
    <2>2. ToSet(buf'[s]) = ToSet(buf[s]) \cup {Ack}
      BY <1>0, <2>1, AppendFacts
    <2> QED BY <1>0, <2>1, <2>2 DEF Frames
  <1>3. CASE s = r /\ WriteNext(r)
    <2> DEFINE e == Head(buf[s])
    <2>1. buf[s] # <<>> /\ buf'[s] = Tail(buf[s])
      BY <1>0, <1>3 DEF WriteNext
    <2>2. e \in Msgs \cup {Ack} /\ ToSet(buf[s]) = {e} \cup ToSet(buf'[s])
      BY <1>0, <2>1, TailFacts
    <2>3. got'[s] = IF e = Ack THEN got[s] ELSE Append(got[s], e)
      BY <1>0, <1>3 DEF WriteNext
    <2> HIDE DEF e
    <2>4. CASE e = Ack
      BY <1>0, <2>2, <2>3, <2>4 DEF Frames
    <2>5. CASE e # Ack
      <3>1. ToSet(got'[s]) = ToSet(got[s]) \cup {e}
        BY <1>0, <2>2, <2>3, <2>5, AppendFacts
      <3> QED BY <2>2, <3>1 DEF Frames
    <2> QED BY <2>4, <2>5
  <1> QED BY <1>1, <1>2, <1>3

(* Most steps leave a healthy subscriber its events.                       *)
LEMMA SteadyStep ==
    ASSUME IInv, [Next]_vars, NEW s \in Subs, Healthy(s), Healthy(s)',
           ~ \E p \in Pubs : Enqueue(p) \/ \E c \in Chans : Publish(p, c),
           ~ \E w \in Workers : Dequeue(w),
           ~ \E b \in Procs : Apply(b),
           ~ CloseQueues
    PROVE  Steady(s)
  <1>0. /\ PlaceInv /\ Procs = Pubs \cup Workers /\ NoSub \notin Subs
        /\ pc \in [Procs -> {"idle", "rlock", "enqueue", "snap", "next", "send", "evict", "retry",
                             "exited"}]
        /\ todo \in [Procs -> SUBSET Subs] /\ target \in [Procs -> Subs \cup {NoSub}]
        /\ DOMAIN job = Procs /\ DOMAIN closeReq = Subs
        /\ policy = "disconnect" /\ st[s] = "running"
        /\ \A c \in Chans : s \in members[c]
    BY FanoutAssumption DEF IInv, Procs, TypeOK, PlayInv, Healthy
  <1>00. ASSUME UNCHANGED <<got, buf>> PROVE \A m \in Msgs : m \in Frames(s)' <=> m \in Frames(s)
    BY <1>00 DEF Frames
  <1> USE <1>0 DEF Steady, Coming, Busy, Event, Ahead, Closed, Go, poolVars, procVars, connVars
  <1>1. ASSUME NEW p \in Pubs, BroadcastClosed(p) PROVE Steady(s)
    BY <1>1, <1>00 DEF BroadcastClosed
  <1>2. ASSUME NEW p \in Pubs, BroadcastOpen(p) PROVE Steady(s)
    BY <1>2, <1>00 DEF BroadcastOpen
  <1>3. ASSUME NEW w \in Workers, WorkerExit(w) PROVE Steady(s)
    BY <1>3, <1>00 DEF WorkerExit
  <1>4. CASE CloseCall
    BY <1>4, <1>00 DEF CloseCall
  <1>5. CASE CloseReturn
    BY <1>5, <1>00 DEF CloseReturn
  <1>6. ASSUME NEW b \in Procs, Snapshot(b) PROVE Steady(s)
    <2>1. s \in members[Head(job[b]).ch]
      <3>1. Event(b).ch \in Chans
        BY <1>6, Holding DEF Snapshot, Msgs, IInv
      <3> QED BY <3>1
    <2> QED BY <1>6, <1>00, <2>1 DEF Snapshot
  <1>7. ASSUME NEW b \in Procs, BroadcastEnd(b) PROVE Steady(s)
    BY <1>7, <1>00 DEF BroadcastEnd, PlaceInv, AnyAt
  <1>8. ASSUME NEW b \in Procs, NEW r \in Subs, SendClosed(b, r) PROVE Steady(s)
    BY <1>8, <1>00 DEF SendClosed
  <1>9. ASSUME NEW b \in Procs, NEW r \in Subs, SendStart(b, r) PROVE Steady(s)
    BY <1>9, <1>00 DEF SendStart, PlaceInv, AnyAt
  <1>10. ASSUME NEW b \in Procs, ApplyDisconnect(b) PROVE Steady(s)
    <2>1. target[b] # s
      BY <1>10 DEF ApplyDisconnect, Healthy
    <2> QED BY <1>10, <1>00, <2>1 DEF ApplyDisconnect, SendReturns
  <1>11. ASSUME NEW b \in Procs, ApplyDropNewest(b) PROVE Steady(s)
    BY <1>11, <1>00 DEF ApplyDropNewest, SendReturns
  <1>12. ASSUME NEW b \in Procs, ApplyDropOldest(b) PROVE Steady(s)
    BY <1>12, <1>00 DEF ApplyDropOldest
  <1>13. ASSUME NEW b \in Procs, Evict(b) PROVE Steady(s)
    BY <1>13 DEF Evict, PlaceInv, AnyAt
  <1>14. ASSUME NEW b \in Procs, Retry(b) PROVE Steady(s)
    BY <1>14 DEF Retry, PlaceInv, AnyAt
  <1>15. ASSUME NEW r \in Subs, WriteNext(r) PROVE Steady(s)
    <2>1. \A m \in Msgs : m \in Frames(s)' <=> m \in Frames(s)
      BY <1>15, FramesKept
    <2> QED BY <1>15, <2>1 DEF WriteNext
  <1>16. ASSUME NEW r \in Subs, SendAck(r) PROVE Steady(s)
    <2>1. \A m \in Msgs : m \in Frames(s)' <=> m \in Frames(s)
      BY <1>16, FramesKept
    <2> QED BY <1>16, <2>1 DEF SendAck
  <1>17. ASSUME NEW r \in Subs, CloseRequested(r) PROVE Steady(s)
    BY <1>17, <1>00 DEF CloseRequested
  <1>18. ASSUME NEW r \in Subs, PumpReturned(r) PROVE Steady(s)
    BY <1>18, <1>00 DEF PumpReturned
  <1>19. ASSUME NEW r \in Subs, MarkClosed(r) PROVE Steady(s)
    BY <1>19, <1>00 DEF MarkClosed
  <1>20. ASSUME NEW r \in Subs, NEW c \in Chans, Unsubscribe(r, c) PROVE Steady(s)
    BY <1>20, <1>00 DEF Unsubscribe
  <1>21. CASE UNCHANGED vars
    BY <1>21, <1>00 DEF vars
  <1> HIDE DEF Steady, Coming, Busy, Event, Ahead, Closed
  <1> QED BY <1>1, <1>2, <1>3, <1>4, <1>5, <1>6, <1>7, <1>8, <1>9, <1>10, <1>11, <1>12, <1>13,
     <1>14, <1>15, <1>16, <1>17, <1>18, <1>19, <1>20, <1>21, NextCases

(* So do a Send, an enqueue and a dequeue, which move an event on.         *)
LEMMA ApplyPlay ==
    ASSUME IInv, NEW s \in Subs, NEW b \in Procs, Apply(b)
    PROVE  SameEvents(s)
  <1>0. /\ TypeOK /\ PlaceInv /\ NoSub \notin Subs /\ \A r \in Subs : buf[r] \in Seq(Msgs \cup {Ack})
    BY FanoutAssumption DEF IInv, TypeOK
  <1>1. target[b] \in Subs /\ Event(b) \in Msgs /\ pc[b] = "send"
    BY <1>0, Holding DEF Apply, Busy
  <1> PICK t \in Subs, e \in Msgs : t = target[b] /\ e = Event(b)
    BY <1>1
  <1>2. /\ buf' = [buf EXCEPT ![t] = Append(buf[t], e)]
        /\ UNCHANGED <<sent, closer, queue, job, todo, got>>
        /\ pc'[b] = "next" /\ \A d \in Procs \ {b} : pc'[d] = pc[d] /\ target'[d] = target[d]
        /\ target'[b] = NoSub
    BY <1>0 DEF Apply, Put, SendReturns, Go, Event, poolVars, TypeOK
  <1>3. /\ ToSet(buf'[t]) = ToSet(buf[t]) \cup {e}
        /\ \A r \in Subs \ {t} : buf'[r] = buf[r]
    <2>1. buf'[t] = Append(buf[t], e) /\ \A r \in Subs \ {t} : buf'[r] = buf[r]
      BY <1>0, <1>2 DEF TypeOK
    <2> QED BY <1>0, <2>1, AppendFacts
  <1>4. Frames(s)' = IF s = t THEN Frames(s) \cup {e} ELSE Frames(s)
    BY <1>2, <1>3 DEF Frames
  <1>5. (Coming(b, s) /\ Event(b) = e /\ Event(b)' = e) \/ s # t
    BY <1>1, <1>2 DEF Coming, Busy, Ahead, Event
  <1>6. /\ Event(b)' = e /\ (s # t => (Coming(b, s)' <=> Coming(b, s))) /\ (s = t => ~ Coming(b, s)')
    <2>1. t \notin todo[b]
      BY <1>0 DEF PlaceInv, AnyAt
    <2> QED BY <1>0, <1>1, <1>2, <2>1 DEF Coming, Busy, Ahead, Event, Closed
  <1>7. \A d \in Procs \ {b} : (Coming(d, s)' <=> Coming(d, s)) /\ Event(d)' = Event(d)
    BY <1>2 DEF Coming, Busy, Ahead, Event, Closed
  <1>8. ASSUME NEW m \in Msgs PROVE InPlay(s, m)' <=> InPlay(s, m)
    <2>1. (\E w \in Workers : m \in ToSet(queue[w])) <=> \E w \in Workers : m \in ToSet(queue'[w])
      BY <1>2
    <2>2. CASE m = e /\ s = t
      BY <1>4, <1>5, <2>2 DEF InPlay
    <2>3. CASE m # e \/ s # t
      <3>1. m \in Frames(s)' <=> m \in Frames(s)
        BY <1>4, <2>3
      <3>2. \A d \in Procs : Coming(d, s)' /\ Event(d)' = m <=> Coming(d, s) /\ Event(d) = m
        BY <1>6, <1>7, <2>3
      <3> QED BY <2>1, <3>1, <3>2 DEF InPlay
    <2> QED BY <2>2, <2>3
  <1> QED BY <1>2, <1>8 DEF SameEvents, Closed

(* Into the queue.                                                         *)
LEMMA EnqueuePlay ==
    ASSUME IInv, NEW s \in Subs, NEW p \in Pubs, Enqueue(p)
    PROVE  SameEvents(s)
  <1>0. /\ TypeOK /\ PlaceInv /\ p \in Procs
    BY DEF IInv, Procs
  <1>1. PICK e \in Msgs, w \in Workers :
             /\ e = Event(p)
             /\ ToSet(queue'[w]) = ToSet(queue[w]) \cup {e}
             /\ \A v \in Workers \ {w} : queue'[v] = queue[v]
             /\ \A b \in Procs \ {p} : job'[b] = job[b] /\ pc'[b] = pc[b]
             /\ pc[p] = "enqueue" /\ pc'[p] = "idle"
             /\ UNCHANGED <<sent, closer, todo, target, buf, got>>
    BY <1>0, EnqueueStep DEF connVars
  <1>2. Coming(p, s) /\ ~ Coming(p, s)'
    BY <1>1 DEF Coming, Busy, Ahead
  <1>3. \A d \in Procs \ {p} : (Coming(d, s)' <=> Coming(d, s)) /\ Event(d)' = Event(d)
    BY <1>1 DEF Coming, Busy, Ahead, Event, Closed
  <1>4. Frames(s)' = Frames(s)
    BY <1>1 DEF Frames
  <1>5. ASSUME NEW m \in Msgs PROVE InPlay(s, m)' <=> InPlay(s, m)
    <2>1. CASE m = e
      BY <1>0, <1>1, <1>2, <2>1 DEF InPlay
    <2>2. CASE m # e
      <3>1. \A v \in Workers : m \in ToSet(queue'[v]) <=> m \in ToSet(queue[v])
        BY <1>1, <2>2
      <3>2. \A d \in Procs : Coming(d, s)' /\ Event(d)' = m <=> Coming(d, s) /\ Event(d) = m
        BY <1>1, <1>2, <1>3, <2>2
      <3> QED BY <1>4, <3>1, <3>2 DEF InPlay
    <2> QED BY <2>1, <2>2
  <1> QED BY <1>1, <1>5 DEF SameEvents, Closed

(* And out of it.                                                          *)
LEMMA DequeuePlay ==
    ASSUME IInv, NEW s \in Subs, NEW w \in Workers, Dequeue(w)
    PROVE  SameEvents(s)
  <1>0. /\ TypeOK /\ w \in Procs
    BY DEF IInv, Procs
  <1>1. PICK e \in Msgs :
             /\ e \in ToSet(queue[w]) /\ Event(w)' = e
             /\ ToSet(queue[w]) = {e} \cup ToSet(queue'[w])
             /\ \A v \in Workers \ {w} : queue'[v] = queue[v]
             /\ \A b \in Procs \ {w} : job'[b] = job[b] /\ pc'[b] = pc[b]
             /\ pc[w] = "idle" /\ pc'[w] = "snap"
             /\ UNCHANGED <<sent, closer, todo, target, buf, got>>
    BY <1>0, DequeueStep DEF connVars
  <1>2. Coming(w, s)' /\ ~ Coming(w, s)
    BY <1>1 DEF Coming, Busy, Ahead
  <1>3. \A d \in Procs \ {w} : (Coming(d, s)' <=> Coming(d, s)) /\ Event(d)' = Event(d)
    BY <1>1 DEF Coming, Busy, Ahead, Event, Closed
  <1>4. Frames(s)' = Frames(s)
    BY <1>1 DEF Frames
  <1>5. ASSUME NEW m \in Msgs PROVE InPlay(s, m)' <=> InPlay(s, m)
    <2>1. CASE m = e
      BY <1>0, <1>1, <1>2, <2>1 DEF InPlay
    <2>2. CASE m # e
      <3>1. \A v \in Workers : m \in ToSet(queue'[v]) <=> m \in ToSet(queue[v])
        BY <1>1, <2>2
      <3>2. \A d \in Procs : Coming(d, s)' /\ Event(d)' = m <=> Coming(d, s) /\ Event(d) = m
        BY <1>1, <1>2, <1>3, <2>2
      <3> QED BY <1>4, <3>1, <3>2 DEF InPlay
    <2> QED BY <2>1, <2>2
  <1> QED BY <1>1, <1>5 DEF SameEvents, Closed

(* A publish puts the next event of its source into play, or nothing once  *)
(* the pool is closed.                                                     *)
LEMMA PublishPlay ==
    ASSUME IInv, NEW s \in Subs, NoGap(s), NEW p \in Pubs, NEW c \in Chans, Publish(p, c)
    PROVE  NoGap(s)'
  <1>0. /\ TypeOK /\ PlaceInv /\ PoolInv /\ p \in Procs /\ strategy \in {"perconn", "sharded"}
    BY FanoutAssumption DEF IInv, Procs, TypeOK
  <1>1. PICK e \in Msgs :
             /\ e.pub = p /\ e.ch = c /\ e.n = sent[p][c] + 1 /\ sent[p][c] \in Nat
             /\ e = [pub |-> p, ch |-> c, n |-> sent[p][c] + 1]
             /\ pc[p] = "idle" /\ Event(p)' = e
             /\ pc' = [pc EXCEPT ![p] = IF strategy = "perconn" THEN "snap" ELSE "rlock"]
             /\ \A b \in Procs \ {p} : job'[b] = job[b] /\ pc'[b] = pc[b]
             /\ sent'[p][c] = sent[p][c] + 1
             /\ \A q \in Pubs, d \in Chans : q # p \/ d # c => sent'[q][d] = sent[q][d]
             /\ UNCHANGED <<closer, queue, todo, target, buf, got>>
    BY <1>0, PublishStep DEF poolVars, connVars
  <1>2. pc'[p] = IF strategy = "perconn" THEN "snap" ELSE "rlock"
    BY <1>0, <1>1 DEF TypeOK
  <1>3. ~ Coming(p, s) /\ (Coming(p, s)' <=> ~ Closed)
    <2>1. strategy = "perconn" => ~ Closed
      BY <1>0 DEF PoolInv, Closed
    <2> QED BY <1>0, <1>1, <1>2, <2>1 DEF Coming, Busy, Ahead, Closed
  <1>4. \A d \in Procs \ {p} : (Coming(d, s)' <=> Coming(d, s)) /\ Event(d)' = Event(d)
    BY <1>1 DEF Coming, Busy, Ahead, Event, Closed
  <1>5. Frames(s)' = Frames(s) /\ (Closed' <=> Closed)
    BY <1>1 DEF Frames, Closed
  <1>6. ASSUME NEW m PROVE InPlay(s, m)' <=> InPlay(s, m) \/ (m = e /\ ~ Closed)
    <2>1. (\E d \in Procs : Coming(d, s)' /\ Event(d)' = m) <=>
              (\E d \in Procs : Coming(d, s) /\ Event(d) = m) \/ (m = e /\ ~ Closed)
      BY <1>0, <1>1, <1>3, <1>4
    <2> QED BY <1>1, <1>5, <2>1 DEF InPlay
  <1>7. ASSUME NEW m \in Msgs, InPlay(s, m)', m.n > 1 PROVE InPlay(s, [m EXCEPT !.n = m.n - 1])'
    <2>1. CASE InPlay(s, m)
      BY <1>6, <1>7, <2>1 DEF NoGap
    <2>2. CASE m = e /\ ~ Closed
      <3>1. [m EXCEPT !.n = m.n - 1] = [pub |-> p, ch |-> c, n |-> sent[p][c]]
        BY <1>1, <2>2
      <3>2. sent[p][c] > 0
        BY <1>1, <1>7, <2>2
      <3> QED BY <1>6, <2>2, <3>1, <3>2 DEF NoGap
    <2> QED BY <1>6, <1>7, <2>1, <2>2
  <1>8. ASSUME ~ Closed, NEW q \in Pubs, NEW d \in Chans, sent'[q][d] > 0,
               NEW k, k = [pub |-> q, ch |-> d, n |-> sent'[q][d]]
        PROVE  InPlay(s, k)'
    <2>1. CASE q = p /\ d = c
      <3>1. k = e
        BY <1>1, <1>8, <2>1
      <3> QED BY <1>6, <1>8, <3>1
    <2>2. CASE q # p \/ d # c
      <3>1. k = [pub |-> q, ch |-> d, n |-> sent[q][d]] /\ sent[q][d] > 0
        BY <1>1, <1>8, <2>2
      <3>2. InPlay(s, k)
        BY <1>8, <3>1 DEF NoGap
      <3> QED BY <1>6, <3>2
    <2> QED BY <2>1, <2>2
  <1>9. ASSUME ~ Closed, NEW q \in Pubs, NEW d \in Chans, sent'[q][d] > 0
        PROVE  InPlay(s, [pub |-> q, ch |-> d, n |-> sent[q][d]])'
    BY <1>8, <1>9
  <1> QED BY <1>5, <1>7, <1>9 DEF NoGap

(* Closing the queues takes out of play what waits for the lock, which is  *)
(* the last of its source.                                                 *)
LEMMA CloseQueuesPlay ==
    ASSUME IInv, NEW s \in Subs, NoGap(s), CloseQueues
    PROVE  NoGap(s)'
  <1>0. TypeOK /\ PlaceInv /\ SentInv /\ Procs = Pubs \cup Workers
    BY DEF IInv, Procs
  <1>1. /\ closer = "locking" /\ closer' = "closed"
        /\ UNCHANGED <<sent, queue, pc, job, todo, target, buf, got>>
    BY DEF CloseQueues, procVars, connVars
  <1>2. \A b \in Procs : /\ Coming(b, s)' <=> Coming(b, s) /\ pc[b] # "rlock"
                         /\ Event(b)' = Event(b)
    BY <1>1 DEF Coming, Busy, Ahead, Event, Closed
  <1>3. Frames(s)' = Frames(s) /\ Closed'
    BY <1>1 DEF Frames, Closed
  <1>4. ASSUME NEW m \in Msgs, InPlay(s, m)', m.n > 1 PROVE InPlay(s, [m EXCEPT !.n = m.n - 1])'
    <2> DEFINE l == [m EXCEPT !.n = m.n - 1]
    <2>1. InPlay(s, m)
      BY <1>1, <1>2, <1>3, <1>4 DEF InPlay
    <2>2. InPlay(s, l)
      BY <1>4, <2>1 DEF NoGap
    <2>3. l \in Msgs /\ m.n \in Nat /\ l.pub = m.pub /\ l.ch = m.ch /\ l.n = m.n - 1
      BY <1>4, PrevInMsgs
    <2>4. m.n <= sent[m.pub][m.ch]
      <3>1. m # Ack
        BY FanoutAssumption
      <3>2. \A b \in Procs : Coming(b, s) => Busy(b)
        BY DEF Coming
      <3> QED BY <1>0, <2>1, <3>1, <3>2 DEF InPlay, SentInv
    <2> HIDE DEF l
    <2>5. sent[m.pub][m.ch] \in Nat
      <3>1. m.pub \in Pubs /\ m.ch \in Chans
        BY DEF Msgs
      <3> QED BY <1>0, <3>1 DEF TypeOK
    <2>6. ASSUME NEW b \in Procs, Coming(b, s), Event(b) = l, pc[b] = "rlock" PROVE FALSE
      <3>1. b \in Pubs /\ Busy(b)
        BY <1>0, <2>6 DEF PlaceInv, WorkerAt, Busy
      <3>2. l.pub = b /\ l.n = sent[b][l.ch]
        BY <1>0, <2>6, <3>1 DEF PlaceInv, PublisherAt
      <3>3. l.n = sent[m.pub][m.ch]
        BY <2>3, <3>2
      <3> QED BY <2>3, <2>4, <2>5, <3>3
    <2>7. InPlay(s, l)'
      <3>1. CASE l \in Frames(s)
        BY <1>3, <3>1 DEF InPlay, l
      <3>2. CASE \E w \in Workers : l \in ToSet(queue[w])
        BY <1>1, <3>2 DEF InPlay, l
      <3>3. CASE \E b \in Procs : Coming(b, s) /\ Event(b) = l
        BY <1>2, <2>6, <3>3 DEF InPlay, l
      <3> QED BY <2>2, <3>1, <3>2, <3>3 DEF InPlay
    <2> QED BY <2>7 DEF l
  <1> QED BY <1>3, <1>4 DEF NoGap

(* So every step keeps the events of a healthy subscriber without a gap.   *)
LEMMA PlayStep == IInv /\ [Next]_vars => PlayInv'
  <1> SUFFICES ASSUME IInv, [Next]_vars, NEW s \in Subs
               PROVE  /\ st'[s] # "closed" => \A c \in Chans : s \in members'[c]
                      /\ Healthy(s)' => NoGap(s)'
    BY DEF PlayInv
  <1>1. /\ Healthy(s)' => Healthy(s)
        /\ st'[s] # "closed" => \A c \in Chans : s \in members'[c]
    BY HealthStep
  <1>2. ASSUME Healthy(s)' PROVE NoGap(s)'
    <2>1. Healthy(s) /\ NoGap(s) /\ TypeOK
      BY <1>1, <1>2 DEF IInv, PlayInv
    <2>2. CASE \E p \in Pubs, c \in Chans : Publish(p, c)
      BY <2>1, <2>2, PublishPlay
    <2>3. CASE CloseQueues
      BY <2>1, <2>3, CloseQueuesPlay
    <2>4. CASE ~ (\E p \in Pubs, c \in Chans : Publish(p, c)) /\ ~ CloseQueues
      <3>1. SameEvents(s)
        BY <1>2, <2>1, <2>4, ApplyPlay, EnqueuePlay, DequeuePlay, SteadyStep, SteadyIsSame
      <3> QED BY <2>1, <3>1, SameHasNoGap
    <2> QED BY <2>2, <2>3, <2>4
  <1> QED BY <1>1, <1>2

-----------------------------------------------------------------------------
(* At first nothing is published.                                          *)
LEMMA InitIInv == Init => IInv
  <1> SUFFICES ASSUME Init PROVE IInv
    OBVIOUS
  <1>0. /\ Strategies \subseteq {"perconn", "sharded"} /\ MaxMsgs \in Nat
        /\ QueueCap \in Nat \ {0} /\ BufCap \in Nat \ {0}
        /\ \A S : <<>> \in Seq(S)
        /\ Len(<<>>) = 0 /\ ToSet(<<>>) = {} /\ Sorted(<<>>)
    BY FanoutAssumption, EmptySeq, EmptyFacts
  <1>1. \A b \in Procs : ~ Busy(b) /\ job[b] = <<>> /\ todo[b] = {} /\ target[b] = NoSub
    BY DEF Init, Busy
  <1>2. TypeOK
    <2>1. /\ queue \in [Workers -> Seq(Msgs)] /\ got \in [Subs -> Seq(Msgs)]
          /\ buf \in [Subs -> Seq(Msgs \cup {Ack})]
      BY <1>0 DEF Init
    <2>2. /\ \A w \in Workers : Len(queue[w]) <= QueueCap
          /\ \A s \in Subs : Len(buf[s]) <= BufCap
      BY <1>0 DEF Init
    <2>3. /\ job \in [Procs -> {<<>>} \cup {<<m>> : m \in Msgs}]
          /\ sent \in [Pubs -> [Chans -> 0 .. MaxMsgs]]
      BY <1>0 DEF Init
    <2> QED BY <1>0, <2>1, <2>2, <2>3 DEF Init, TypeOK
  <1>3. PlaceInv /\ PoolInv
    <2>1. \A b \in Procs : pc[b] \in {"idle", "exited"} /\ (pc[b] = "exited" <=> b \in Workers /\ strategy = "perconn")
      BY DEF Init
    <2>2. \A w \in Workers : queue[w] = <<>>
      BY DEF Init
    <2>3. \A b \in Procs : AnyAt(b)
      BY <1>1, <2>1 DEF AnyAt
    <2>4. \A p \in Pubs : PublisherAt(p)
      BY <1>1, <2>1, FanoutAssumption DEF PublisherAt, Procs
    <2>5. \A w \in Workers : WorkerAt(w)
      BY <1>0, <1>1, <2>1, <2>2 DEF WorkerAt, Procs
    <2>6. PoolInv
      BY <2>1, <2>2 DEF PoolInv, Init, Closed, Procs
    <2> QED BY <2>3, <2>4, <2>5, <2>6 DEF PlaceInv
  <1>4. /\ \A w \in Workers : ToSet(queue[w]) = {} /\ Sorted(queue[w])
        /\ \A s \in Subs : Frames(s) = {} /\ InLine(s)
    BY <1>0 DEF Init, Frames, InLine
  <1>5. SentInv /\ OrderInv
    BY <1>1, <1>4 DEF SentInv, OrderInv, Procs
  <1>6. PlayInv
    <2>1. \A s \in Subs : \A m : ~ InPlay(s, m)
      BY <1>1, <1>4 DEF InPlay, Coming
    <2>2. \A p \in Pubs, c \in Chans : sent[p][c] = 0
      BY DEF Init
    <2> QED BY <2>1, <2>2 DEF PlayInv, NoGap, Init
  <1> QED BY <1>2, <1>3, <1>5, <1>6 DEF IInv

(* The invariant holds of every reachable state.                           *)
THEOREM Invariance == Spec => []IInv
  <1>1. IInv /\ [Next]_vars => IInv'
    BY TypeStep, PlaceStep, PoolStep, OrderStep, PlayStep DEF IInv
  <1> QED BY <1>1, InitIInv, PTL DEF Spec

(* The state keeps its shape: in particular no queue and no send buffer is *)
(* ever filled beyond its capacity.                                        *)
THEOREM TypeCorrect == Spec => []TypeOK
  <1>1. IInv => TypeOK
    BY DEF IInv
  <1> QED BY <1>1, Invariance, PTL

(* What a subscriber was sent and will be sent, as one sequence.           *)
LEMMA StreamInLine ==
    ASSUME IInv, NEW s \in Subs
    PROVE  /\ DOMAIN Stream(s) \subseteq Nat \ {0}
           /\ Sorted(Stream(s)) /\ ToSet(Stream(s)) = Frames(s)
           /\ \A i \in DOMAIN Stream(s) : Stream(s)[i] \in Msgs \cup {Ack}
           /\ \A i, j \in Nat \ {0} : i < j /\ j \in DOMAIN Stream(s) => i \in DOMAIN Stream(s)
  <1>0. TypeOK /\ InLine(s)
    BY DEF IInv, OrderInv
  <1> DEFINE g == got[s]
             b == buf[s]
             q == Stream(s)
  <1>1. g \in Seq(Msgs \cup {Ack}) /\ b \in Seq(Msgs \cup {Ack})
    <2>1. got[s] \in Seq(Msgs) /\ buf[s] \in Seq(Msgs \cup {Ack})
      BY <1>0 DEF TypeOK
    <2> QED BY <2>1, SeqMonotonic
  <1>2. /\ Len(g) \in Nat /\ Len(b) \in Nat
        /\ DOMAIN g = 1 .. Len(g) /\ DOMAIN b = 1 .. Len(b)
    BY <1>1, LenProperties
  <1>3. /\ q \in Seq(Msgs \cup {Ack}) /\ DOMAIN q = 1 .. Len(g) + Len(b)
        /\ \A i \in 1 .. Len(g) + Len(b) : q[i] = IF i <= Len(g) THEN g[i] ELSE b[i - Len(g)]
    <2>1. /\ q \in Seq(Msgs \cup {Ack}) /\ Len(q) = Len(g) + Len(b)
          /\ \A i \in 1 .. Len(g) + Len(b) : q[i] = IF i <= Len(g) THEN g[i] ELSE b[i - Len(g)]
      <3> HIDE DEF g, b
      <3>1. q = g \o b
        BY DEF Stream, g, b
      <3> HIDE DEF q
      <3> QED BY <1>1, <3>1, ConcatProperties, Zenon
    <2> HIDE DEF g, b, q
    <2>2. DOMAIN q = 1 .. Len(q)
      BY <2>1, LenProperties
    <2> QED BY <2>1, <2>2
  <1>4. /\ Sorted(g) /\ Sorted(b)
        /\ \A x \in ToSet(g), y \in ToSet(b) : Precedes(x, y)
    BY <1>0 DEF InLine
  <1> HIDE DEF g, b, q
  <1>5. ASSUME NEW i \in DOMAIN q, NEW j \in DOMAIN q, i < j PROVE Precedes(q[i], q[j])
    <2>1. CASE j <= Len(g)
      <3>1. i \in DOMAIN g /\ j \in DOMAIN g /\ q[i] = g[i] /\ q[j] = g[j]
        BY <1>2, <1>3, <1>5, <2>1
      <3> QED BY <1>4, <1>5, <3>1 DEF Sorted
    <2>2. CASE i <= Len(g) /\ j > Len(g)
      <3>1. /\ i \in DOMAIN g /\ j - Len(g) \in DOMAIN b
            /\ q[i] = g[i] /\ q[j] = b[j - Len(g)]
        BY <1>2, <1>3, <2>2
      <3> QED BY <1>4, <3>1 DEF ToSet
    <2>3. CASE i > Len(g)
      <3>1. /\ i - Len(g) \in DOMAIN b /\ j - Len(g) \in DOMAIN b
            /\ i - Len(g) < j - Len(g)
            /\ q[i] = b[i - Len(g)] /\ q[j] = b[j - Len(g)]
        BY <1>2, <1>3, <1>5, <2>3
      <3> QED BY <1>4, <3>1 DEF Sorted
    <2> QED BY <1>2, <1>3, <2>1, <2>2, <2>3
  <1>6. ASSUME NEW x \in ToSet(q) PROVE x \in ToSet(g) \cup ToSet(b)
    <2>1. PICK i \in DOMAIN q : x = q[i]
      BY DEF ToSet
    <2>2. CASE i <= Len(g)
      BY <1>2, <1>3, <2>1, <2>2 DEF ToSet
    <2>3. CASE i > Len(g)
      <3>1. i - Len(g) \in DOMAIN b /\ x = b[i - Len(g)]
        BY <1>2, <1>3, <2>1, <2>3
      <3> QED BY <3>1 DEF ToSet
    <2> QED BY <1>2, <1>3, <2>2, <2>3
  <1>7. ASSUME NEW x \in ToSet(g) PROVE x \in ToSet(q)
    BY <1>2, <1>3 DEF ToSet
  <1>8. ASSUME NEW x \in ToSet(b) PROVE x \in ToSet(q)
    <2>1. PICK i \in DOMAIN b : x = b[i]
      BY DEF ToSet
    <2>2. i + Len(g) \in DOMAIN q /\ q[i + Len(g)] = b[i]
      BY <1>2, <1>3
    <2> QED BY <2>1, <2>2 DEF ToSet
  <1>9. ToSet(q) = Frames(s)
    BY <1>6, <1>7, <1>8 DEF Frames, g, b
  <1>10. \A i \in DOMAIN q : q[i] \in Msgs \cup {Ack}
    BY <1>3, ElementOfSeq, LenProperties
  <1>11. DOMAIN q \subseteq Nat \ {0} /\ \A i, j \in Nat \ {0} : i < j /\ j \in DOMAIN q => i \in DOMAIN q
    BY <1>2, <1>3
  <1> QED BY <1>5, <1>9, <1>10, <1>11 DEF Sorted, q

(* Broadcast, the queues, the workers and Send's lock deliver the events   *)
(* of a publisher on a channel in the order of publishing, to any number   *)
(* of subscribers, whatever the capacities and whatever is evicted.        *)
THEOREM DeliveryInOrder == Spec => []InOrder
  <1>1. IInv => InOrder
    <2> SUFFICES ASSUME IInv, NEW s \in Subs, NEW i \in DOMAIN Stream(s), NEW j \in DOMAIN Stream(s),
                        i < j, SameSource(Stream(s)[i], Stream(s)[j])
                 PROVE  Stream(s)[i].n < Stream(s)[j].n
      BY DEF InOrder
    <2>1. Precedes(Stream(s)[i], Stream(s)[j])
      BY StreamInLine DEF Sorted
    <2>2. Stream(s)[i] \in Msgs /\ Stream(s)[j] \in Msgs
      BY StreamInLine DEF SameSource
    <2> QED BY <2>1, <2>2 DEF Precedes, SameSource
  <1> QED BY <1>1, Invariance, PTL

(* Under PolicyDisconnect a subscriber that is not being closed is sent    *)
(* every event before the ones it gets, although Close may drop events at  *)
(* the lock, Send may find the buffer full, and others come and go.        *)
THEOREM NothingIsLost == Spec => []NoSilentLoss
  <1>1. IInv => NoSilentLoss
    <2> SUFFICES ASSUME IInv, NEW s \in Subs, Healthy(s), NEW i \in DOMAIN Stream(s),
                        Stream(s)[i] # Ack, Stream(s)[i].n > 1
                 PROVE  \E j \in 1 .. i - 1 : /\ SameSource(Stream(s)[j], Stream(s)[i])
                                              /\ Stream(s)[j].n + 1 = Stream(s)[i].n
      BY DEF NoSilentLoss, Healthy
    <2>0. OrderInv /\ NoGap(s) /\ Ack \notin Msgs
      BY FanoutAssumption DEF IInv, PlayInv
    <2> DEFINE m == Stream(s)[i]
               l == [m EXCEPT !.n = m.n - 1]
    <2>1. m \in Msgs /\ m \in Frames(s)
      BY StreamInLine DEF ToSet
    <2>2. l \in Msgs /\ l.pub = m.pub /\ l.ch = m.ch /\ l.n = m.n - 1 /\ m.n \in Nat
      BY <2>1, PrevInMsgs
    <2>3. InPlay(s, l)
      BY <2>0, <2>1 DEF NoGap, InPlay
    <2> HIDE DEF l
    <2>4. ~ Precedes(m, l)
      BY <2>1, <2>2 DEF Precedes
    <2>5. l \in Frames(s)
      <3>1. \A w \in Workers : l \notin ToSet(queue[w])
        BY <2>0, <2>1, <2>4 DEF OrderInv
      <3>2. \A b \in Procs : Coming(b, s) => Event(b) # l
        BY <2>0, <2>1, <2>4 DEF OrderInv, Coming
      <3> QED BY <2>3, <3>1, <3>2 DEF InPlay
    <2>6. PICK j \in DOMAIN Stream(s) : Stream(s)[j] = l
      BY <2>5, StreamInLine DEF ToSet
    <2>7. ~ (i < j) /\ i # j
      BY <2>2, <2>4, <2>6, StreamInLine DEF Sorted
    <2>8. j \in 1 .. i - 1
      BY <2>7, StreamInLine
    <2> QED BY <2>0, <2>1, <2>2, <2>6, <2>8 DEF SameSource
  <1> QED BY <1>1, Invariance, PTL

(* ShardedPool.Close excludes a publisher at a queue from the moment it    *)
(* closes them, and when it returns every queue and every worker is empty. *)
THEOREM CloseIsClean == Spec => []CloseLosesNothing
  <1>1. IInv => CloseLosesNothing
    <2> SUFFICES ASSUME IInv PROVE CloseLosesNothing
      OBVIOUS
    <2>0. PlaceInv /\ PoolInv /\ Workers \subseteq Procs /\ strategy \in {"perconn", "sharded"}
      BY FanoutAssumption DEF IInv, Procs, TypeOK
    <2>1. closer = "returned" => \A w \in Workers : pc[w] = "exited" /\ queue[w] = <<>>
      BY <2>0 DEF PoolInv
    <2>2. \A w \in Workers : pc[w] = "exited" => job[w] = <<>>
      BY <2>0 DEF PlaceInv, AnyAt, Busy
    <2> QED BY <2>0, <2>1, <2>2 DEF PoolInv, CloseLosesNothing
  <1> QED BY <1>1, Invariance, PTL
=============================================================================
