------------------------ MODULE ChannelRegistry_proofs ------------------------
(***************************************************************************)
(* Proofs about ChannelRegistry, for any number of connections, names,     *)
(* channel objects and concurrent sweepers.                                *)
(***************************************************************************)
EXTENDS ChannelRegistry, TLAPS

(* What a handler's locals mean between its critical sections.             *)
ConnInv ==
    /\ \A p \in Procs : pc[p] \in {"got", "broadcast"} => cur[p] \in Chans
    /\ \A c \in Conns : pc[c] \in {"get", "create", "got"} => tries[c] < MaxRetries
    /\ \A c \in Conns : pc[c] \notin {"get", "create", "got", "answered"} => tries[c] = 0
    /\ \A c \in Conns : pc[c] \notin {"unsubscribe", "teardown"} => leaving[c] = {}
    /\ \A c \in Conns, n \in Names : subs[c][n] \notin leaving[c]

(* What each handler works on: a subscribe and an unsubscribe on a name    *)
(* that is not (any more) held, a publish on a channel that is.            *)
TargetInv ==
    /\ \A c \in Conns : pc[c] \in {"get", "create", "got", "unsubscribe"} =>
                            subs[c][want[c]] = NoChan
    /\ \A c \in Conns : pc[c] = "broadcast" => \E n \in Names : subs[c][n] = cur[c]
    /\ want[Stats] = StatsName
    /\ pc[Stats] \in {"idle", "get", "create", "got", "send"}

(* A subscribe that is under way fits into the quota of its connection.    *)
Trying == {"get", "create", "got"}
QuotaInv ==
    \A c \in Conns : pc[c] \in Trying => Cardinality(Held(c)) < MaxChannels[c]

(* The registry maps a name to a channel of that name.                     *)
RegistryInv ==
    \A n \in Names : registry[n] # NoChan => chanName[registry[n]] = n

(* SubsMu is held exactly by the sweeper that stands at the channel, the   *)
(* channel is empty meanwhile, and out of the registry before it is marked.*)
SweepInv ==
    /\ \A s \in Sweepers :
         IF spc[s] \in {"remove", "mark"}
         THEN at[s] \in Chans /\ subsMu[at[s]] = s /\ subscribers[at[s]] = {}
         ELSE at[s] = NoChan
    /\ \A ch \in Chans : subsMu[ch] # Nobody => at[subsMu[ch]] = ch
    /\ \A s \in Sweepers : spc[s] = "mark" => \A n \in Names : registry[n] # at[s]

(* A channel GetOrCreate returned has the name that was asked for, and is  *)
(* registered until a sweeper removes it: until that sweeper has marked it *)
(* deleted, it holds SubsMu.                                               *)
Linked(ch) ==
    \/ registry[chanName[ch]] = ch
    \/ deleted[ch]
    \/ \E s \in Sweepers : spc[s] = "mark" /\ at[s] = ch

GotInv ==
    \A p \in Procs : pc[p] = "got" => chanName[cur[p]] = want[p] /\ Linked(cur[p])

(* Until hub.Unsubscribe runs, a channel on its way out is registered and  *)
(* still lists the connection, so no sweep can touch it.                   *)
LeavingInv ==
    \A c \in Conns : \A ch \in leaving[c] :
        c \in subscribers[ch] /\ registry[chanName[ch]] = ch

(* A channel that is deleted is dead, and one held in c.subs is neither.   *)
IInv ==
    /\ TypeOK
    /\ ConnInv
    /\ TargetInv
    /\ QuotaInv
    /\ RegistryInv
    /\ SweepInv
    /\ GotInv
    /\ LeavingInv
    /\ NoOrphanedSubscription
    /\ NoLeakedSubscriber
    /\ DeletedIsDead

(* The initial states satisfy the inductive invariant.                     *)
LEMMA InitIInv == Init => IInv
  BY ConstantsAssumption DEF Init, IInv, TypeOK, ConnInv, TargetInv, QuotaInv, Trying, RegistryInv, SweepInv, GotInv, LeavingInv,
     NoOrphanedSubscription, NoLeakedSubscriber, DeletedIsDead, Procs

(* Every step keeps the types.                                             *)
LEMMA TypeStep == IInv /\ [Next]_vars => TypeOK'
  <1> SUFFICES ASSUME IInv, [Next]_vars PROVE TypeOK'
    OBVIOUS
  <1> USE ConstantsAssumption DEF IInv, ConnInv, SweepInv, Procs, TypeOK
  <1> USE DEF chanVars, connVars, sweepVars
  <1>1. ASSUME NEW c \in Conns, ConnRequest(c) PROVE TypeOK'
    <2>1. CASE TeardownStart(c)
      BY <2>1 DEF TeardownStart, HeldChans, Held
    <2>2. ASSUME NEW n \in Names, SubscribeHeld(c, n) PROVE TypeOK'
      BY <2>2 DEF SubscribeHeld, Answer
    <2>3. ASSUME NEW n \in Names, SubscribeOverQuota(c, n) PROVE TypeOK'
      BY <2>3 DEF SubscribeOverQuota, Answer
    <2>4. ASSUME NEW n \in Names, SubscribeStart(c, n) PROVE TypeOK'
      BY <2>4 DEF SubscribeStart
    <2>5. ASSUME NEW n \in Names, UnsubscribeNotHeld(c, n) PROVE TypeOK'
      BY <2>5 DEF UnsubscribeNotHeld, Answer
    <2>6. ASSUME NEW n \in Names, UnsubscribeStart(c, n) PROVE TypeOK'
      BY <2>6 DEF UnsubscribeStart, Held
    <2>7. ASSUME NEW n \in Names, PublishStart(c, n) PROVE TypeOK'
      BY <2>7 DEF PublishStart, Held
    <2> QED BY <1>1, <2>1, <2>2, <2>3, <2>4, <2>5, <2>6, <2>7 DEF ConnRequest
  <1>2. ASSUME NEW c \in Conns, ConnStep(c) PROVE TypeOK'
    <2>1. CASE HubSubscribeDeleted(c)
      <3>1. tries[c] + 1 \in 0..MaxRetries
        BY <2>1 DEF HubSubscribeDeleted
      <3>2. tries' \in [Conns -> 0..MaxRetries] /\ cur' \in [Procs -> Chans \cup {NoChan}]
        BY <2>1, <3>1 DEF HubSubscribeDeleted
      <3>3. \/ pc' = [pc EXCEPT ![c] = "get"] /\ answer' = answer
            \/ pc' = [pc EXCEPT ![c] = "answered"]
               /\ answer' = [answer EXCEPT ![c] = "SUBSCRIBE_FAILED"]
        BY <2>1 DEF HubSubscribeDeleted, Answer
      <3>4. UNCHANGED <<chanVars, want, subs, leaving, snap, sweepVars>>
        BY <2>1 DEF HubSubscribeDeleted
      <3> QED BY <3>2, <3>3, <3>4
    <2>2. CASE HubSubscribeFull(c)
      BY <2>2 DEF HubSubscribeFull, Answer
    <2>3. CASE HubSubscribe(c)
      BY <2>3 DEF HubSubscribe, Answer
    <2>4. CASE HubUnsubscribe(c)
      BY <2>4 DEF HubUnsubscribe
    <2>5. CASE UnsubscribeAck(c)
      BY <2>5 DEF UnsubscribeAck, Answer
    <2>6. CASE TeardownEnd(c)
      BY <2>6 DEF TeardownEnd
    <2>7. CASE ReadNext(c)
      BY <2>7 DEF ReadNext
    <2> QED BY <1>2, <2>1, <2>2, <2>3, <2>4, <2>5, <2>6, <2>7 DEF ConnStep
  <1>3. ASSUME NEW p \in Procs, ProcStep(p) PROVE TypeOK'
    <2>1. CASE GetHit(p)
      BY <2>1 DEF GetHit
    <2>2. CASE GetMiss(p)
      BY <2>2 DEF GetMiss
    <2>3. CASE CreateFound(p)
      BY <2>3 DEF CreateFound
    <2>4. CASE CreateNew(p)
      BY <2>4 DEF CreateNew
    <2>5. CASE HubBroadcast(p)
      BY <2>5 DEF HubBroadcast
    <2>6. CASE BroadcastEnd(p)
      BY <2>6 DEF BroadcastEnd
    <2> QED BY <1>3, <2>1, <2>2, <2>3, <2>4, <2>5, <2>6 DEF ProcStep
  <1>4. ASSUME NEW s \in Sweepers, SweepStep(s) PROVE TypeOK'
    <2>1. CASE SweepTick(s)
      BY <2>1 DEF SweepTick
    <2>2. CASE RangeShard(s)
      BY <2>2 DEF RangeShard
    <2>3. CASE RangeEnd(s)
      BY <2>3 DEF RangeEnd
    <2>4. CASE SweepSkip(s)
      BY <2>4 DEF SweepSkip
    <2>5. CASE SweepLock(s)
      BY <2>5 DEF SweepLock
    <2>6. CASE CompareAndDelete(s)
      BY <2>6 DEF CompareAndDelete
    <2>7. CASE MarkDeleted(s)
      BY <2>7 DEF MarkDeleted
    <2> QED BY <1>4, <2>1, <2>2, <2>3, <2>4, <2>5, <2>6, <2>7 DEF SweepStep
  <1>5. CASE StatsTick
    BY <1>5 DEF StatsTick
  <1>6. CASE UNCHANGED vars
    BY <1>6 DEF vars
  <1> QED BY <1>1, <1>2, <1>3, <1>4, <1>5, <1>6 DEF Next

(* Every step keeps what a handler's program counter says of its locals.   *)
LEMMA ConnInvStep == IInv /\ [Next]_vars => ConnInv'
  <1> SUFFICES ASSUME IInv, [Next]_vars PROVE ConnInv'
    OBVIOUS
  <1> TypeOK'
    BY TypeStep
  <1> USE ConstantsAssumption DEF IInv, TypeOK, Procs, chanVars, connVars, sweepVars
  <1> USE DEF ConnInv, NoOrphanedSubscription, RegistryInv
  <1>1. ASSUME NEW c \in Conns, ConnRequest(c) PROVE ConnInv'
    <2>1. CASE TeardownStart(c)
      BY <2>1 DEF TeardownStart, HeldChans, Held
    <2>2. ASSUME NEW n \in Names, SubscribeHeld(c, n) PROVE ConnInv'
      BY <2>2 DEF SubscribeHeld, Answer
    <2>3. ASSUME NEW n \in Names, SubscribeOverQuota(c, n) PROVE ConnInv'
      BY <2>3 DEF SubscribeOverQuota, Answer
    <2>4. ASSUME NEW n \in Names, SubscribeStart(c, n) PROVE ConnInv'
      <3>1. pc[c] = "idle" /\ pc' = [pc EXCEPT ![c] = "get"]
            /\ UNCHANGED <<cur, tries, subs, leaving>>
        BY <2>4 DEF SubscribeStart
      <3>2. tries'[c] = 0
        BY <3>1
      <3>3. 0 < MaxRetries
        OBVIOUS
      <3> QED BY <3>1, <3>2, <3>3
    <2>5. ASSUME NEW n \in Names, UnsubscribeNotHeld(c, n) PROVE ConnInv'
      BY <2>5 DEF UnsubscribeNotHeld, Answer
    <2>6. ASSUME NEW n \in Names, UnsubscribeStart(c, n) PROVE ConnInv'
      BY <2>6 DEF UnsubscribeStart, Held, HeldChans
    <2>7. ASSUME NEW n \in Names, PublishStart(c, n) PROVE ConnInv'
      BY <2>7 DEF PublishStart, Held
    <2> QED BY <1>1, <2>1, <2>2, <2>3, <2>4, <2>5, <2>6, <2>7 DEF ConnRequest
  <1>2. ASSUME NEW c \in Conns, ConnStep(c) PROVE ConnInv'
    <2>1. CASE HubSubscribeDeleted(c)
      <3>1. tries' = [tries EXCEPT ![c] = tries[c] + 1]
            /\ cur' = [cur EXCEPT ![c] = NoChan]
            /\ UNCHANGED <<subs, leaving>> /\ leaving[c] = {}
        BY <2>1 DEF HubSubscribeDeleted
      <3>2. \/ pc' = [pc EXCEPT ![c] = "get"] /\ tries[c] + 1 < MaxRetries
            \/ pc' = [pc EXCEPT ![c] = "answered"]
        BY <2>1 DEF HubSubscribeDeleted, Answer
      <3>3. \A d \in Conns : pc'[d] \in {"get", "create", "got"} => tries'[d] < MaxRetries
        BY <3>1, <3>2
      <3>4. \A d \in Conns : pc'[d] \notin {"get", "create", "got", "answered"} => tries'[d] = 0
        BY <3>1, <3>2
      <3>5. \A q \in Procs : pc'[q] \in {"got", "broadcast"} => cur'[q] \in Chans
        BY <3>1, <3>2
      <3>6. \A d \in Conns : pc'[d] \notin {"unsubscribe", "teardown"} => leaving'[d] = {}
        <4>1. ASSUME NEW d \in Conns, d # c, pc'[d] \notin {"unsubscribe", "teardown"}
              PROVE leaving'[d] = {}
          BY <3>1, <3>2, <4>1
        <4> QED BY <3>1, <4>1
      <3> QED BY <3>1, <3>3, <3>4, <3>5, <3>6
    <2>2. CASE HubSubscribeFull(c)
      BY <2>2 DEF HubSubscribeFull, Answer
    <2>3. CASE HubSubscribe(c)
      BY <2>3 DEF HubSubscribe, Answer
    <2>4. CASE HubUnsubscribe(c)
      BY <2>4 DEF HubUnsubscribe
    <2>5. CASE UnsubscribeAck(c)
      BY <2>5 DEF UnsubscribeAck, Answer
    <2>6. CASE TeardownEnd(c)
      BY <2>6 DEF TeardownEnd
    <2>7. CASE ReadNext(c)
      BY <2>7 DEF ReadNext
    <2> QED BY <1>2, <2>1, <2>2, <2>3, <2>4, <2>5, <2>6, <2>7 DEF ConnStep
  <1>3. ASSUME NEW p \in Procs, ProcStep(p) PROVE ConnInv'
    <2>1. CASE GetHit(p)
      BY <2>1 DEF GetHit
    <2>2. CASE GetMiss(p)
      BY <2>2 DEF GetMiss
    <2>3. CASE CreateFound(p)
      BY <2>3 DEF CreateFound
    <2>4. CASE CreateNew(p)
      BY <2>4 DEF CreateNew, Unreferenced
    <2>5. CASE HubBroadcast(p)
      BY <2>5 DEF HubBroadcast
    <2>6. CASE BroadcastEnd(p)
      BY <2>6 DEF BroadcastEnd
    <2> QED BY <1>3, <2>1, <2>2, <2>3, <2>4, <2>5, <2>6 DEF ProcStep
  <1>4. ASSUME NEW s \in Sweepers, SweepStep(s) PROVE ConnInv'
    <2>1. CASE SweepTick(s)
      BY <2>1 DEF SweepTick
    <2>2. CASE RangeShard(s)
      BY <2>2 DEF RangeShard
    <2>3. CASE RangeEnd(s)
      BY <2>3 DEF RangeEnd
    <2>4. CASE SweepSkip(s)
      BY <2>4 DEF SweepSkip
    <2>5. CASE SweepLock(s)
      BY <2>5 DEF SweepLock
    <2>6. CASE CompareAndDelete(s)
      BY <2>6 DEF CompareAndDelete
    <2>7. CASE MarkDeleted(s)
      BY <2>7 DEF MarkDeleted
    <2> QED BY <1>4, <2>1, <2>2, <2>3, <2>4, <2>5, <2>6, <2>7 DEF SweepStep
  <1>5. CASE StatsTick
    BY <1>5 DEF StatsTick
  <1>6. CASE UNCHANGED vars
    BY <1>6 DEF vars
  <1> QED BY <1>1, <1>2, <1>3, <1>4, <1>5, <1>6 DEF Next

(* Who is in the retry loop after a step was there before, or starts now;  *)
(* either way Conn.subs is what it was when the quota was checked.         *)
LEMMA TryingStep ==
  ASSUME IInv, [Next]_vars, NEW d \in Conns, pc'[d] \in Trying
  PROVE  /\ subs'[d] = subs[d]
         /\ pc[d] \in Trying \/ Cardinality(Held(d)) < MaxChannels[d]
  <1> DEFINE Goal == subs'[d] = subs[d] /\ (pc[d] \in Trying \/ Cardinality(Held(d)) < MaxChannels[d])
  <1> USE ConstantsAssumption DEF IInv, TypeOK, Procs, Trying, chanVars, connVars, sweepVars
  <1>1. ASSUME NEW c \in Conns, ConnRequest(c) PROVE Goal
    <2>1. CASE TeardownStart(c)
      BY <2>1 DEF TeardownStart
    <2>2. ASSUME NEW n \in Names, SubscribeStart(c, n) PROVE Goal
      <3>1. CASE c = d
        BY <2>2, <3>1 DEF SubscribeStart
      <3>2. CASE c # d
        BY <2>2, <3>2 DEF SubscribeStart
      <3> QED BY <3>1, <3>2
    <2>3. ASSUME NEW n \in Names, SubscribeHeld(c, n) \/ SubscribeOverQuota(c, n)
                                   \/ UnsubscribeNotHeld(c, n) \/ PublishStart(c, n)
          PROVE  Goal
      BY <2>3 DEF SubscribeHeld, SubscribeOverQuota, UnsubscribeNotHeld, PublishStart, Answer
    <2>4. ASSUME NEW n \in Names, UnsubscribeStart(c, n) PROVE Goal
      BY <2>4 DEF UnsubscribeStart
    <2> QED BY <1>1, <2>1, <2>2, <2>3, <2>4 DEF ConnRequest
  <1>2. ASSUME NEW c \in Conns, ConnStep(c) PROVE Goal
    <2>1. CASE HubSubscribeDeleted(c)
      BY <2>1 DEF HubSubscribeDeleted, Answer
    <2>2. CASE HubSubscribe(c)
      BY <2>2 DEF HubSubscribe, Answer
    <2>3. CASE HubSubscribeFull(c) \/ HubUnsubscribe(c) \/ UnsubscribeAck(c)
      BY <2>3 DEF HubSubscribeFull, HubUnsubscribe, UnsubscribeAck, Answer
    <2>4. CASE TeardownEnd(c) \/ ReadNext(c)
      BY <2>4 DEF TeardownEnd, ReadNext
    <2> QED BY <1>2, <2>1, <2>2, <2>3, <2>4 DEF ConnStep
  <1>3. ASSUME NEW p \in Procs, ProcStep(p) PROVE Goal
    BY <1>3 DEF ProcStep, GetHit, GetMiss, CreateFound, CreateNew, HubBroadcast, BroadcastEnd
  <1>4. ASSUME NEW s \in Sweepers, SweepStep(s) PROVE Goal
    BY <1>4 DEF SweepStep, SweepTick, RangeShard, RangeEnd, SweepSkip, SweepLock,
       CompareAndDelete, MarkDeleted
  <1>5. CASE StatsTick
    BY <1>5 DEF StatsTick
  <1>6. CASE UNCHANGED vars
    BY <1>6 DEF vars
  <1> QED BY <1>1, <1>2, <1>3, <1>4, <1>5, <1>6 DEF Next

(* Every step keeps a subscribe under way within its quota.                *)
LEMMA QuotaInvStep == IInv /\ [Next]_vars => QuotaInv'
  <1> SUFFICES ASSUME IInv, [Next]_vars, NEW d \in Conns, pc'[d] \in Trying
               PROVE  Cardinality(Held(d)') < MaxChannels[d]
    BY DEF QuotaInv, Trying
  <1>1. Cardinality(Held(d)) < MaxChannels[d]
    BY TryingStep DEF IInv, QuotaInv
  <1>2. Held(d)' = Held(d)
    BY TryingStep DEF Held
  <1> QED BY <1>1, <1>2

(* Every step keeps the channel a publisher holds one of its own.          *)
LEMMA TargetInvStep == IInv /\ [Next]_vars => TargetInv'
  <1> SUFFICES ASSUME IInv, [Next]_vars PROVE TargetInv'
    OBVIOUS
  <1> TypeOK'
    BY TypeStep
  <1> USE ConstantsAssumption DEF IInv, TypeOK, Procs, chanVars, connVars, sweepVars
  <1> USE DEF TargetInv, ConnInv
  <1>1. ASSUME NEW c \in Conns, ConnRequest(c) PROVE TargetInv'
    <2>1. CASE TeardownStart(c)
      BY <2>1 DEF TeardownStart, HeldChans, Held
    <2>2. ASSUME NEW n \in Names, SubscribeHeld(c, n) PROVE TargetInv'
      BY <2>2 DEF SubscribeHeld, Answer
    <2>3. ASSUME NEW n \in Names, SubscribeOverQuota(c, n) PROVE TargetInv'
      BY <2>3 DEF SubscribeOverQuota, Answer
    <2>4. ASSUME NEW n \in Names, SubscribeStart(c, n) PROVE TargetInv'
      BY <2>4 DEF SubscribeStart, Held
    <2>5. ASSUME NEW n \in Names, UnsubscribeNotHeld(c, n) PROVE TargetInv'
      BY <2>5 DEF UnsubscribeNotHeld, Answer
    <2>6. ASSUME NEW n \in Names, UnsubscribeStart(c, n) PROVE TargetInv'
      BY <2>6 DEF UnsubscribeStart, Held, HeldChans
    <2>7. ASSUME NEW n \in Names, PublishStart(c, n) PROVE TargetInv'
      BY <2>7 DEF PublishStart, Held
    <2> QED BY <1>1, <2>1, <2>2, <2>3, <2>4, <2>5, <2>6, <2>7 DEF ConnRequest
  <1>2. ASSUME NEW c \in Conns, ConnStep(c) PROVE TargetInv'
    <2>1. CASE HubSubscribeDeleted(c)
      <3>1. /\ cur' = [cur EXCEPT ![c] = NoChan]
            /\ UNCHANGED <<subs, want>>
            /\ pc[c] = "got"
            /\ pc' = [pc EXCEPT ![c] = "get"] \/ pc' = [pc EXCEPT ![c] = "answered"]
        BY <2>1 DEF HubSubscribeDeleted, Answer
      <3>2. \A d \in Conns : pc'[d] \in {"get", "create", "got", "unsubscribe"} =>
                               subs'[d][want'[d]] = NoChan
        BY <3>1
      <3>3. ASSUME NEW d \in Conns, pc'[d] = "broadcast" PROVE \E n \in Names : subs'[d][n] = cur'[d]
        BY <3>1, <3>3
      <3>4. want'[Stats] = StatsName /\ pc'[Stats] \in {"idle", "get", "create", "got", "send"}
        BY <3>1
      <3> QED BY <3>2, <3>3, <3>4
    <2>2. CASE HubSubscribeFull(c)
      BY <2>2 DEF HubSubscribeFull, Answer
    <2>3. CASE HubSubscribe(c)
      BY <2>3 DEF HubSubscribe, Answer
    <2>4. CASE HubUnsubscribe(c)
      BY <2>4 DEF HubUnsubscribe
    <2>5. CASE UnsubscribeAck(c)
      BY <2>5 DEF UnsubscribeAck, Answer
    <2>6. CASE TeardownEnd(c)
      BY <2>6 DEF TeardownEnd
    <2>7. CASE ReadNext(c)
      BY <2>7 DEF ReadNext
    <2> QED BY <1>2, <2>1, <2>2, <2>3, <2>4, <2>5, <2>6, <2>7 DEF ConnStep
  <1>3. ASSUME NEW p \in Procs, ProcStep(p) PROVE TargetInv'
    <2>1. CASE GetHit(p)
      BY <2>1 DEF GetHit
    <2>2. CASE GetMiss(p)
      BY <2>2 DEF GetMiss
    <2>3. CASE CreateFound(p)
      BY <2>3 DEF CreateFound
    <2>4. CASE CreateNew(p)
      BY <2>4 DEF CreateNew, Unreferenced
    <2>5. CASE HubBroadcast(p)
      BY <2>5 DEF HubBroadcast
    <2>6. CASE BroadcastEnd(p)
      BY <2>6 DEF BroadcastEnd
    <2> QED BY <1>3, <2>1, <2>2, <2>3, <2>4, <2>5, <2>6 DEF ProcStep
  <1>4. ASSUME NEW s \in Sweepers, SweepStep(s) PROVE TargetInv'
    <2>1. CASE SweepTick(s)
      BY <2>1 DEF SweepTick
    <2>2. CASE RangeShard(s)
      BY <2>2 DEF RangeShard
    <2>3. CASE RangeEnd(s)
      BY <2>3 DEF RangeEnd
    <2>4. CASE SweepSkip(s)
      BY <2>4 DEF SweepSkip
    <2>5. CASE SweepLock(s)
      BY <2>5 DEF SweepLock
    <2>6. CASE CompareAndDelete(s)
      BY <2>6 DEF CompareAndDelete
    <2>7. CASE MarkDeleted(s)
      BY <2>7 DEF MarkDeleted
    <2> QED BY <1>4, <2>1, <2>2, <2>3, <2>4, <2>5, <2>6, <2>7 DEF SweepStep
  <1>5. CASE StatsTick
    BY <1>5 DEF StatsTick
  <1>6. CASE UNCHANGED vars
    BY <1>6 DEF vars
  <1> QED BY <1>1, <1>2, <1>3, <1>4, <1>5, <1>6 DEF Next


(* The only actions that write the registry, a channel's subscribers or    *)
(* Deleted, or a connection's own subscriptions.                           *)
Writers ==
    \/ \E c \in Conns : \/ TeardownStart(c) \/ HubSubscribe(c) \/ HubUnsubscribe(c)
                        \/ \E n \in Names : UnsubscribeStart(c, n)
    \/ \E p \in Procs : CreateNew(p)
    \/ \E s \in Sweepers : CompareAndDelete(s) \/ MarkDeleted(s)

(* Only the Writers touch the shared state and the subscriptions.          *)
LEMMA OtherStepsDoNotWrite ==
  [Next]_vars => Writers \/ UNCHANGED <<registry, chanName, subscribers, deleted, subs, leaving>>
  <1> SUFFICES ASSUME [Next]_vars, ~ Writers
      PROVE UNCHANGED <<registry, chanName, subscribers, deleted, subs, leaving>>
    OBVIOUS
  <1> USE DEF Writers, chanVars, connVars, sweepVars
  <1>1. ASSUME NEW c \in Conns, ConnRequest(c)
        PROVE UNCHANGED <<registry, chanName, subscribers, deleted, subs, leaving>>
    BY <1>1 DEF ConnRequest, SubscribeHeld, SubscribeOverQuota, SubscribeStart,
                UnsubscribeNotHeld, PublishStart
  <1>2. ASSUME NEW c \in Conns, ConnStep(c)
        PROVE UNCHANGED <<registry, chanName, subscribers, deleted, subs, leaving>>
    BY <1>2 DEF ConnStep, HubSubscribeDeleted, HubSubscribeFull, UnsubscribeAck, TeardownEnd,
                ReadNext
  <1>3. ASSUME NEW p \in Procs, ProcStep(p)
        PROVE UNCHANGED <<registry, chanName, subscribers, deleted, subs, leaving>>
    BY <1>3 DEF ProcStep, GetHit, GetMiss, CreateFound, HubBroadcast, BroadcastEnd
  <1>4. ASSUME NEW s \in Sweepers, SweepStep(s)
        PROVE UNCHANGED <<registry, chanName, subscribers, deleted, subs, leaving>>
    BY <1>4 DEF SweepStep, SweepTick, RangeShard, RangeEnd, SweepSkip, SweepLock
  <1>5. CASE StatsTick
    BY <1>5 DEF StatsTick
  <1>6. CASE UNCHANGED vars
    BY <1>6 DEF vars
  <1> QED BY <1>1, <1>2, <1>3, <1>4, <1>5, <1>6 DEF Next

(* Where a channel in a handler's hand comes from.                         *)
Fetch(p) == GetHit(p) \/ CreateFound(p) \/ CreateNew(p)

(* A process stands after GetOrCreate because it fetched, or waits there.  *)
LEMMA GotFrame ==
  ASSUME TypeOK, [Next]_vars, NEW p \in Procs, pc'[p] = "got"
  PROVE  Fetch(p) \/ (pc[p] = "got" /\ cur'[p] = cur[p] /\ want'[p] = want[p])
  <1> DEFINE Same == pc[p] = "got" /\ cur'[p] = cur[p] /\ want'[p] = want[p]
  <1> USE DEF TypeOK, Procs, Fetch, chanVars, connVars, sweepVars
  <1>1. ASSUME NEW c \in Conns, ConnRequest(c) PROVE Same
    BY <1>1 DEF ConnRequest, TeardownStart, SubscribeHeld, SubscribeOverQuota, SubscribeStart,
                UnsubscribeNotHeld, UnsubscribeStart, PublishStart, Answer
  <1>2. ASSUME NEW c \in Conns, ConnStep(c) PROVE Same
    BY <1>2 DEF ConnStep, HubSubscribeDeleted, HubSubscribeFull, HubSubscribe, HubUnsubscribe,
                UnsubscribeAck, TeardownEnd, ReadNext, Answer
  <1>3. ASSUME NEW q \in Procs, ProcStep(q) PROVE Fetch(p) \/ Same
    <2>1. CASE GetHit(q)
      BY <2>1 DEF GetHit
    <2>2. CASE GetMiss(q)
      BY <2>2 DEF GetMiss
    <2>3. CASE CreateFound(q)
      BY <2>3 DEF CreateFound
    <2>4. CASE CreateNew(q)
      BY <2>4 DEF CreateNew
    <2>5. CASE HubBroadcast(q) \/ BroadcastEnd(q)
      BY <2>5 DEF HubBroadcast, BroadcastEnd
    <2> QED BY <1>3, <2>1, <2>2, <2>3, <2>4, <2>5 DEF ProcStep
  <1>4. ASSUME NEW s \in Sweepers, SweepStep(s) PROVE Same
    BY <1>4 DEF SweepStep, SweepTick, RangeShard, RangeEnd, SweepSkip, SweepLock,
                CompareAndDelete, MarkDeleted
  <1>5. CASE StatsTick
    BY <1>5 DEF StatsTick
  <1>6. CASE UNCHANGED vars
    BY <1>6 DEF vars
  <1> QED BY <1>1, <1>2, <1>3, <1>4, <1>5, <1>6 DEF Next

(* Between CompareAndDelete and the mark, nobody moves the sweeper.        *)
LEMMA MarkFrame ==
  ASSUME TypeOK, SweepInv, [Next]_vars, NEW s \in Sweepers, spc[s] = "mark"
  PROVE  MarkDeleted(s) \/ (spc'[s] = "mark" /\ at'[s] = at[s])
  <1> USE DEF TypeOK, Procs, chanVars, connVars, sweepVars
  <1>1. CASE \E t \in Sweepers : SweepStep(t)
    BY <1>1 DEF SweepStep, SweepTick, RangeShard, RangeEnd, SweepSkip, SweepLock,
                CompareAndDelete, MarkDeleted
  <1>2. CASE UNCHANGED sweepVars
    BY <1>2
  <1>3. ASSUME NEW c \in Conns, ConnRequest(c) \/ ConnStep(c) PROVE UNCHANGED sweepVars
    BY <1>3 DEF ConnRequest, TeardownStart, SubscribeHeld, SubscribeOverQuota, SubscribeStart,
                UnsubscribeNotHeld, UnsubscribeStart, PublishStart, ConnStep,
                HubSubscribeDeleted, HubSubscribeFull, HubSubscribe, HubUnsubscribe,
                UnsubscribeAck, TeardownEnd, ReadNext
  <1>4. ASSUME NEW p \in Procs, ProcStep(p) PROVE UNCHANGED sweepVars
    BY <1>4 DEF ProcStep, GetHit, GetMiss, CreateFound, CreateNew, HubBroadcast, BroadcastEnd
  <1> QED BY <1>1, <1>2, <1>3, <1>4 DEF Next, StatsTick, vars

(* A channel somebody holds stays linked, whoever moves.                   *)
LEMMA LinkedStep ==
  ASSUME IInv, [Next]_vars, NEW p \in Procs, NEW ch \in Chans, cur[p] = ch, Linked(ch)
  PROVE  Linked(ch)' /\ chanName'[ch] = chanName[ch]
  <1> USE DEF IInv, TypeOK, chanVars, connVars, sweepVars
  <1>1. ASSUME NEW q \in Procs, CreateNew(q)
        PROVE  /\ chanName'[ch] = chanName[ch] /\ deleted'[ch] = deleted[ch]
               /\ registry[chanName[ch]] = ch => registry'[chanName[ch]] = ch
    <2>1. PICK x \in Chans :
            /\ Unreferenced(x)
            /\ chanName' = [chanName EXCEPT ![x] = want[q]]
            /\ deleted' = [deleted EXCEPT ![x] = FALSE]
            /\ registry' = [registry EXCEPT ![want[q]] = x]
      BY <1>1 DEF CreateNew
    <2>2. x # ch /\ registry[want[q]] = NoChan
      BY <1>1, <2>1 DEF CreateNew, Unreferenced
    <2> QED BY <2>1, <2>2, ConstantsAssumption DEF Procs
  <1>2. \/ \E q \in Procs : CreateNew(q)
        \/ \E s \in Sweepers : CompareAndDelete(s)
        \/ registry' = registry
    BY OtherStepsDoNotWrite DEF Writers, TeardownStart, HubSubscribe, HubUnsubscribe,
       UnsubscribeStart, MarkDeleted
  <1>2a. \/ \E q \in Procs : CreateNew(q)
         \/ chanName' = chanName /\ (deleted[ch] => deleted'[ch])
    BY OtherStepsDoNotWrite DEF Writers, TeardownStart, HubSubscribe, HubUnsubscribe,
       UnsubscribeStart, CompareAndDelete, MarkDeleted
  <1>3. chanName'[ch] = chanName[ch]
    BY <1>1, <1>2a
  <1>4. CASE registry[chanName[ch]] = ch
    <2>1. CASE \E q \in Procs : CreateNew(q)
      BY <1>1, <1>3, <1>4, <2>1 DEF Linked
    <2>2. ASSUME NEW s \in Sweepers, CompareAndDelete(s) PROVE Linked(ch)'
      <3>1. CASE at[s] = ch
        BY <2>2, <3>1 DEF CompareAndDelete, Linked
      <3>2. CASE at[s] # ch
        BY <1>3, <1>4, <2>2, <3>2 DEF CompareAndDelete, Linked, SweepInv
      <3> QED BY <3>1, <3>2
    <2>3. CASE registry' = registry
      BY <1>3, <1>4, <2>3 DEF Linked
    <2> QED BY <1>2, <1>3, <2>1, <2>2, <2>3
  <1>5. CASE deleted[ch]
    <2>1. deleted'[ch]
      BY <1>1, <1>2a, <1>5
    <2> QED BY <1>3, <2>1 DEF Linked
  <1>6. ASSUME NEW s \in Sweepers, spc[s] = "mark", at[s] = ch PROVE Linked(ch)'
    <2>1. CASE MarkDeleted(s)
      BY <1>6, <2>1 DEF MarkDeleted, Linked
    <2>2. CASE spc'[s] = "mark" /\ at'[s] = at[s]
      BY <1>6, <2>2 DEF Linked
    <2> QED BY <1>6, <2>1, <2>2, MarkFrame
  <1> QED BY <1>3, <1>4, <1>5, <1>6 DEF Linked

(* Every step keeps a fetched channel linked and of the wanted name.       *)
LEMMA GotInvStep == IInv /\ [Next]_vars => GotInv'
  <1> SUFFICES ASSUME IInv, [Next]_vars, NEW p \in Procs, pc'[p] = "got"
      PROVE chanName'[cur'[p]] = want'[p] /\ Linked(cur[p])'
    BY DEF GotInv
  <1> USE DEF IInv, TypeOK
  <1>1. CASE pc[p] = "got" /\ cur'[p] = cur[p] /\ want'[p] = want[p]
    <2>1. PICK ch \in Chans : ch = cur[p]
      BY <1>1 DEF ConnInv
    <2>2. Linked(ch) /\ chanName[ch] = want[p]
      BY <1>1, <2>1 DEF GotInv
    <2>3. Linked(ch)' /\ chanName'[ch] = chanName[ch]
      BY <2>1, <2>2, LinkedStep
    <2> QED BY <1>1, <2>1, <2>2, <2>3 DEF Linked
  <1>2. CASE GetHit(p) \/ CreateFound(p)
    BY <1>2 DEF GetHit, CreateFound, chanVars, RegistryInv, Linked
  <1>3. CASE CreateNew(p)
    BY <1>3, ConstantsAssumption DEF CreateNew, Linked
  <1> QED BY <1>1, <1>2, <1>3, GotFrame DEF Fetch

(* Outside the sweepers' critical sections, a channel that is not deleted  *)
(* is the registered one: what hub.Subscribe's Deleted check relies on.    *)
LEMMA GotUsable ==
  ASSUME IInv, NEW p \in Procs, pc[p] = "got", subsMu[cur[p]] = Nobody, ~ deleted[cur[p]]
  PROVE  cur[p] \in Chans /\ want[p] \in Names /\ registry[want[p]] = cur[p]
  <1>1. cur[p] \in Chans /\ want[p] \in Names
    BY DEF IInv, TypeOK, ConnInv
  <1>2. chanName[cur[p]] = want[p] /\ Linked(cur[p])
    BY DEF IInv, GotInv
  <1>3. ~ \E s \in Sweepers : spc[s] = "mark" /\ at[s] = cur[p]
    BY <1>1, ConstantsAssumption DEF IInv, SweepInv
  <1> QED BY <1>1, <1>2, <1>3 DEF Linked

(* NoLeakedSubscriber without the set of held channels.                    *)
NoLeak ==
    \A ch \in Chans, c \in Conns :
        c \in subscribers[ch] => ch \in leaving[c] \/ \E n \in Names : subs[c][n] = ch

(* The two forms agree.                                                    *)
LEMMA LeakForms == TypeOK => (NoLeak <=> NoLeakedSubscriber)
  BY ConstantsAssumption DEF TypeOK, NoLeak, NoLeakedSubscriber, HeldChans, Held

SafetyPart == RegistryInv /\ LeavingInv /\ NoOrphanedSubscription /\ NoLeak /\ DeletedIsDead

(* Every step keeps the safety part of the invariant.                      *)
LEMMA SafetyStep == IInv /\ [Next]_vars => SafetyPart'
  <1> SUFFICES ASSUME IInv, [Next]_vars PROVE SafetyPart'
    OBVIOUS
  <1> TypeOK'
    BY TypeStep
  <1> SafetyPart
    BY LeakForms DEF IInv, SafetyPart
  <1> USE ConstantsAssumption DEF IInv, TypeOK, SafetyPart
  <1>1. ASSUME NEW c \in Conns, TeardownStart(c) PROVE SafetyPart'
    <2> USE DEF TeardownStart, HeldChans, Held, chanVars, connVars, sweepVars
    <2>1. RegistryInv'
      BY <1>1 DEF RegistryInv
    <2>2. NoOrphanedSubscription'
      BY <1>1 DEF NoOrphanedSubscription, RegistryInv, ConnInv, GotInv, SweepInv
    <2>3. NoLeak'
      <3> SUFFICES ASSUME NEW ch \in Chans, NEW d \in Conns, d \in subscribers'[ch]
          PROVE ch \in leaving'[d] \/ \E n \in Names : subs'[d][n] = ch
        BY DEF NoLeak
      <3>1. CASE d # c
        BY <1>1, <3>1 DEF NoLeak
      <3>2. CASE d = c
        <4>1. PICK n \in Names : subs[c][n] = ch
          BY <1>1, <3>2 DEF NoLeak, ConnInv
        <4>2. ch \in HeldChans(c)
          BY <4>1
        <4> QED BY <1>1, <3>2, <4>2
      <3> QED BY <3>1, <3>2
    <2>4. DeletedIsDead'
      BY <1>1 DEF DeletedIsDead, RegistryInv, SweepInv
    <2>5. LeavingInv'
      BY <1>1 DEF LeavingInv, RegistryInv, NoOrphanedSubscription, SweepInv, ConnInv
    <2> QED BY <2>1, <2>2, <2>3, <2>4, <2>5
  <1>2. ASSUME NEW c \in Conns, NEW n \in Names, UnsubscribeStart(c, n) PROVE SafetyPart'
    <2> USE DEF UnsubscribeStart, Held, chanVars, connVars, sweepVars
    <2>1. RegistryInv'
      BY <1>2 DEF RegistryInv
    <2>2. NoOrphanedSubscription'
      BY <1>2 DEF NoOrphanedSubscription, RegistryInv, ConnInv, GotInv, SweepInv
    <2>3. NoLeak'
      <3> SUFFICES ASSUME NEW ch \in Chans, NEW d \in Conns, d \in subscribers'[ch]
          PROVE ch \in leaving'[d] \/ \E m \in Names : subs'[d][m] = ch
        BY DEF NoLeak
      <3>1. CASE d # c
        BY <1>2, <3>1 DEF NoLeak
      <3>2. CASE d = c
        <4>1. PICK m \in Names : subs[c][m] = ch
          BY <1>2, <3>2 DEF NoLeak, ConnInv
        <4> QED BY <1>2, <3>2, <4>1
      <3> QED BY <3>1, <3>2
    <2>4. DeletedIsDead'
      BY <1>2 DEF DeletedIsDead, RegistryInv, SweepInv
    <2>5. LeavingInv'
      BY <1>2 DEF LeavingInv, RegistryInv, NoOrphanedSubscription, SweepInv, ConnInv
    <2> QED BY <2>1, <2>2, <2>3, <2>4, <2>5
  <1>3. ASSUME NEW c \in Conns, HubSubscribe(c) PROVE SafetyPart'
    <2> USE DEF HubSubscribe, chanVars, connVars, sweepVars
    <2>1. RegistryInv'
      BY <1>3 DEF RegistryInv
    <2>0. cur[c] \in Chans /\ want[c] \in Names /\ registry[want[c]] = cur[c]
      BY <1>3, GotUsable DEF HubSubscribe
    <2>2. NoOrphanedSubscription'
      BY <1>3, <2>0 DEF NoOrphanedSubscription
    <2>3. NoLeak'
      <3> SUFFICES ASSUME NEW ch \in Chans, NEW d \in Conns, d \in subscribers'[ch]
          PROVE ch \in leaving'[d] \/ \E m \in Names : subs'[d][m] = ch
        BY DEF NoLeak
      <3>1. CASE d = c /\ ch = cur[c]
        BY <1>3, <2>0, <3>1
      <3>2. CASE ~ (d = c /\ ch = cur[c])
        <4>1. d \in subscribers[ch]
          BY <1>3, <2>0, <3>2
        <4>2. CASE ch \in leaving[d]
          BY <1>3, <4>2
        <4>3. ASSUME NEW m \in Names, subs[d][m] = ch PROVE subs'[d][m] = ch
          <5>1. subs[c][want[c]] \in {NoChan, cur[c]}
            BY <2>0 DEF NoOrphanedSubscription
          <5> QED BY <1>3, <2>0, <3>2, <4>3, <5>1
        <4> QED BY <4>1, <4>2, <4>3 DEF NoLeak
      <3> QED BY <3>1, <3>2
    <2>4. DeletedIsDead'
      BY <1>3 DEF DeletedIsDead, RegistryInv, SweepInv
    <2>5. LeavingInv'
      BY <1>3, <2>0 DEF LeavingInv, RegistryInv, NoOrphanedSubscription, SweepInv, ConnInv
    <2> QED BY <2>1, <2>2, <2>3, <2>4, <2>5
  <1>4. ASSUME NEW c \in Conns, HubUnsubscribe(c) PROVE SafetyPart'
    <2> USE DEF HubUnsubscribe, chanVars, connVars, sweepVars
    <2>1. RegistryInv'
      BY <1>4 DEF RegistryInv
    <2>2. NoOrphanedSubscription'
      BY <1>4 DEF NoOrphanedSubscription, RegistryInv, ConnInv, GotInv, SweepInv
    <2>3. NoLeak'
      BY <1>4 DEF NoLeak
    <2>4. DeletedIsDead'
      BY <1>4 DEF DeletedIsDead, RegistryInv, SweepInv
    <2>5. LeavingInv'
      BY <1>4 DEF LeavingInv, RegistryInv, NoOrphanedSubscription, SweepInv, ConnInv
    <2> QED BY <2>1, <2>2, <2>3, <2>4, <2>5
  <1>5. ASSUME NEW p \in Procs, CreateNew(p) PROVE SafetyPart'
    <2> USE DEF CreateNew, Unreferenced, Procs, chanVars, connVars, sweepVars
    <2>1. RegistryInv'
      BY <1>5 DEF RegistryInv
    <2>2. NoOrphanedSubscription'
      BY <1>5 DEF NoOrphanedSubscription, RegistryInv, ConnInv, GotInv, SweepInv
    <2>3. NoLeak'
      BY <1>5 DEF NoLeak
    <2>4. DeletedIsDead'
      BY <1>5 DEF DeletedIsDead, RegistryInv, SweepInv
    <2>5. LeavingInv'
      BY <1>5 DEF LeavingInv, RegistryInv, NoOrphanedSubscription, SweepInv, ConnInv
    <2> QED BY <2>1, <2>2, <2>3, <2>4, <2>5
  <1>6. ASSUME NEW s \in Sweepers, CompareAndDelete(s) PROVE SafetyPart'
    <2> USE DEF CompareAndDelete, SweepInv, chanVars, connVars, sweepVars
    <2>1. RegistryInv'
      BY <1>6 DEF RegistryInv
    <2>2. NoOrphanedSubscription'
      BY <1>6 DEF NoOrphanedSubscription, RegistryInv, ConnInv, GotInv, SweepInv
    <2>3. NoLeak'
      BY <1>6 DEF NoLeak
    <2>4. DeletedIsDead'
      BY <1>6 DEF DeletedIsDead, RegistryInv, SweepInv
    <2>5. LeavingInv'
      BY <1>6 DEF LeavingInv, RegistryInv, NoOrphanedSubscription, SweepInv, ConnInv
    <2> QED BY <2>1, <2>2, <2>3, <2>4, <2>5
  <1>7. ASSUME NEW s \in Sweepers, MarkDeleted(s) PROVE SafetyPart'
    <2> USE DEF MarkDeleted, SweepInv, chanVars, connVars, sweepVars
    <2>1. RegistryInv'
      BY <1>7 DEF RegistryInv
    <2>2. NoOrphanedSubscription'
      BY <1>7 DEF NoOrphanedSubscription, RegistryInv, ConnInv, GotInv, SweepInv
    <2>3. NoLeak'
      BY <1>7 DEF NoLeak
    <2>4. DeletedIsDead'
      BY <1>7 DEF DeletedIsDead, RegistryInv, SweepInv
    <2>5. LeavingInv'
      BY <1>7 DEF LeavingInv, RegistryInv, NoOrphanedSubscription, SweepInv, ConnInv
    <2> QED BY <2>1, <2>2, <2>3, <2>4, <2>5
  <1>8. CASE UNCHANGED <<registry, chanName, subscribers, deleted, subs, leaving>>
    BY <1>8 DEF RegistryInv, LeavingInv, NoOrphanedSubscription, NoLeak, DeletedIsDead
  <1> QED BY <1>1, <1>2, <1>3, <1>4, <1>5, <1>6, <1>7, <1>8, OtherStepsDoNotWrite DEF Writers

(* Every step keeps the sweepers and the locks of channels in agreement.   *)
LEMMA SweepInvStep == IInv /\ [Next]_vars => SweepInv'
  <1> SUFFICES ASSUME IInv, [Next]_vars PROVE SweepInv'
    OBVIOUS
  <1> TypeOK'
    BY TypeStep
  <1> USE ConstantsAssumption DEF IInv, TypeOK, Procs, chanVars, connVars, sweepVars
  <1> USE DEF RegistryInv, SweepInv
  <1>1. ASSUME NEW c \in Conns, ConnRequest(c) PROVE SweepInv'
    <2>1. CASE TeardownStart(c)
      BY <2>1 DEF TeardownStart, HeldChans, Held
    <2>2. ASSUME NEW n \in Names, SubscribeHeld(c, n) PROVE SweepInv'
      BY <2>2 DEF SubscribeHeld, Answer
    <2>3. ASSUME NEW n \in Names, SubscribeOverQuota(c, n) PROVE SweepInv'
      BY <2>3 DEF SubscribeOverQuota, Answer
    <2>4. ASSUME NEW n \in Names, SubscribeStart(c, n) PROVE SweepInv'
      BY <2>4 DEF SubscribeStart, Held
    <2>5. ASSUME NEW n \in Names, UnsubscribeNotHeld(c, n) PROVE SweepInv'
      BY <2>5 DEF UnsubscribeNotHeld, Answer
    <2>6. ASSUME NEW n \in Names, UnsubscribeStart(c, n) PROVE SweepInv'
      BY <2>6 DEF UnsubscribeStart, Held, HeldChans
    <2>7. ASSUME NEW n \in Names, PublishStart(c, n) PROVE SweepInv'
      BY <2>7 DEF PublishStart, Held
    <2> QED BY <1>1, <2>1, <2>2, <2>3, <2>4, <2>5, <2>6, <2>7 DEF ConnRequest
  <1>2. ASSUME NEW c \in Conns, ConnStep(c) PROVE SweepInv'
    <2>1. CASE HubSubscribeDeleted(c)
      BY <2>1 DEF HubSubscribeDeleted, Answer
    <2>2. CASE HubSubscribeFull(c)
      BY <2>2 DEF HubSubscribeFull, Answer
    <2>3. CASE HubSubscribe(c)
      BY <2>3 DEF HubSubscribe, Answer
    <2>4. CASE HubUnsubscribe(c)
      BY <2>4 DEF HubUnsubscribe
    <2>5. CASE UnsubscribeAck(c)
      BY <2>5 DEF UnsubscribeAck, Answer
    <2>6. CASE TeardownEnd(c)
      BY <2>6 DEF TeardownEnd
    <2>7. CASE ReadNext(c)
      BY <2>7 DEF ReadNext
    <2> QED BY <1>2, <2>1, <2>2, <2>3, <2>4, <2>5, <2>6, <2>7 DEF ConnStep
  <1>3. ASSUME NEW p \in Procs, ProcStep(p) PROVE SweepInv'
    <2>1. CASE GetHit(p)
      BY <2>1 DEF GetHit
    <2>2. CASE GetMiss(p)
      BY <2>2 DEF GetMiss
    <2>3. CASE CreateFound(p)
      BY <2>3 DEF CreateFound
    <2>4. CASE CreateNew(p)
      BY <2>4 DEF CreateNew, Unreferenced
    <2>5. CASE HubBroadcast(p)
      BY <2>5 DEF HubBroadcast
    <2>6. CASE BroadcastEnd(p)
      BY <2>6 DEF BroadcastEnd
    <2> QED BY <1>3, <2>1, <2>2, <2>3, <2>4, <2>5, <2>6 DEF ProcStep
  <1>4. ASSUME NEW s \in Sweepers, SweepStep(s) PROVE SweepInv'
    <2>1. CASE SweepTick(s)
      BY <2>1 DEF SweepTick
    <2>2. CASE RangeShard(s)
      BY <2>2 DEF RangeShard
    <2>3. CASE RangeEnd(s)
      BY <2>3 DEF RangeEnd
    <2>4. CASE SweepSkip(s)
      BY <2>4 DEF SweepSkip
    <2>5. CASE SweepLock(s)
      BY <2>5 DEF SweepLock
    <2>6. CASE CompareAndDelete(s)
      BY <2>6 DEF CompareAndDelete
    <2>7. CASE MarkDeleted(s)
      BY <2>7 DEF MarkDeleted
    <2> QED BY <1>4, <2>1, <2>2, <2>3, <2>4, <2>5, <2>6, <2>7 DEF SweepStep
  <1>5. CASE StatsTick
    BY <1>5 DEF StatsTick
  <1>6. CASE UNCHANGED vars
    BY <1>6 DEF vars
  <1> QED BY <1>1, <1>2, <1>3, <1>4, <1>5, <1>6 DEF Next


(* The inductive invariant holds in every reachable state: the locks and   *)
(* checks of GetOrCreate, hub.Subscribe, hub.Unsubscribe and Sweep fit      *)
(* together whatever the interleaving.                                      *)
THEOREM Invariance == Spec => []IInv
  <1>1. IInv /\ [Next]_vars => IInv'
    <2> SUFFICES ASSUME IInv, [Next]_vars PROVE IInv'
      OBVIOUS
    <2>1. NoLeakedSubscriber'
      <3>1. NoLeak' /\ TypeOK'
        BY SafetyStep, TypeStep DEF SafetyPart
      <3> QED BY <3>1, LeakForms, PTL
    <2> QED BY <2>1, TypeStep, ConnInvStep, TargetInvStep, QuotaInvStep, GotInvStep, SweepInvStep, SafetyStep
            DEF IInv, SafetyPart
  <1> QED BY InitIInv, <1>1, PTL DEF Spec

-----------------------------------------------------------------------------
(* What the invariant gives for each part of the system.                   *)

(* Every variable keeps its type; in particular handleSubscribe never       *)
(* attempts more than maxSubscribeRetries times.                            *)
THEOREM TypeCorrect == Spec => []TypeOK
  BY Invariance, PTL DEF IInv

(* No sweep, or pair of sweeps, ever strands a subscription that            *)
(* handleSubscribe recorded in c.subs on a channel out of the registry.     *)
THEOREM NoOrphan == Spec => []NoOrphanedSubscription
  BY Invariance, PTL DEF IInv

(* handleUnsubscribe and Run's cleanup leave no dead connection in any      *)
(* channel's Subscribers.                                                   *)
THEOREM NoLeakInChannels == Spec => []NoLeakedSubscriber
  BY Invariance, PTL DEF IInv

(* A channel Sweep marked Deleted is out of the registry and empty for good.*)
THEOREM DeletedStaysDead == Spec => []DeletedIsDead
  BY Invariance, PTL DEF IInv

-----------------------------------------------------------------------------
(* ChannelRegistry implements Membership.                                  *)

mem == [n \in Names |-> Members(n)]

(* Membership depends on the registry and the subscriber sets alone.       *)
LEMMA MemFrame == UNCHANGED <<registry, subscribers>> => mem' = mem
  BY DEF mem, Members

(* The members of a name are the subscribers of its channel.               *)
LEMMA MemOfRegistered ==
  ASSUME TypeOK, NEW n \in Names, NEW ch \in Chans, registry[n] = ch
  PROVE  mem[n] = subscribers[ch] /\ Members(n) = subscribers[ch]
  BY ConstantsAssumption DEF mem, Members

(* One channel's subscribers change: so do the members of its name.        *)
LEMMA MemUpdate ==
  ASSUME IInv, registry' = registry, NEW n \in Names, NEW ch \in Chans, registry[n] = ch,
         NEW S, subscribers' = [subscribers EXCEPT ![ch] = S]
  PROVE  mem' = [mem EXCEPT ![n] = S]
  <1> USE ConstantsAssumption DEF IInv, TypeOK
  <1>1. ASSUME NEW m \in Names PROVE Members(m)' = IF m = n THEN S ELSE Members(m)
    <2>1. CASE m = n
      BY <2>1 DEF Members
    <2>2. CASE m # n
      <3>1. chanName[ch] = n /\ (registry[m] = ch => chanName[ch] = m)
        BY DEF RegistryInv
      <3> QED BY <2>2, <3>1 DEF Members
    <2> QED BY <2>1, <2>2
  <1> QED BY <1>1 DEF mem

(* Who is a member of a name, in terms of the connections' own state.      *)
LEMMA MemberIff ==
  ASSUME IInv, NEW c \in Conns, NEW n \in Names, leaving[c] = {}
  PROVE  c \in Members(n) <=> subs[c][n] # NoChan
  <1> USE ConstantsAssumption DEF IInv, TypeOK
  <1>1. ASSUME subs[c][n] # NoChan PROVE c \in Members(n)
    BY <1>1 DEF NoOrphanedSubscription, Members
  <1>2. ASSUME c \in Members(n) PROVE subs[c][n] # NoChan
    <2>1. registry[n] \in Chans /\ c \in subscribers[registry[n]]
      BY <1>2 DEF Members
    <2>2. PICK m \in Names : subs[c][m] = registry[n]
      BY <2>1, LeakForms DEF NoLeak
    <2>3. m = n
      BY <2>1, <2>2 DEF NoOrphanedSubscription, RegistryInv
    <2> QED BY <2>1, <2>2, <2>3
  <1> QED BY <1>1, <1>2

(* The names of Membership's quota are those in Conn.subs.                 *)
LEMMA OfIsHeld ==
  ASSUME IInv, NEW c \in Conns, leaving[c] = {}
  PROVE  M!Of(c) = Held(c)
  BY MemberIff DEF M!Of, Held

(* Every step of the registry is a step of Membership or a stutter.        *)
LEMMA StepSimulation == IInv /\ [Next]_vars => [M!Next]_(M!vars)
  <1> SUFFICES ASSUME IInv, [Next]_vars PROVE M!Next \/ UNCHANGED <<mem, answer, snap>>
    BY DEF M!vars, mem
  <1> TypeOK'
    BY TypeStep
  <1> DEFINE Goal == M!Next \/ UNCHANGED <<mem, answer, snap>>
  <1> USE ConstantsAssumption DEF IInv, TypeOK, Procs, chanVars, connVars, sweepVars
  <1>1. ASSUME NEW c \in Conns, ConnRequest(c) PROVE Goal
    <2>1. CASE TeardownStart(c)
      BY <2>1, MemFrame DEF TeardownStart
    <2>2. ASSUME NEW n \in Names, SubscribeHeld(c, n) PROVE Goal
      <3>1. c \in mem[n] /\ mem' = mem
        BY <2>2, MemFrame, MemberIff DEF SubscribeHeld, Held, ConnInv, mem
      <3>2. M!Rejoin(c, n)
        BY <2>2, <3>1 DEF M!Rejoin, mem, SubscribeHeld, Answer
      <3> QED BY <3>2 DEF M!Next
    <2>3. ASSUME NEW n \in Names, SubscribeOverQuota(c, n) PROVE Goal
      <3>1. M!RefuseQuota(c, n)
        <4>1. /\ mem' = mem /\ snap' = snap /\ Cardinality(Held(c)) >= MaxChannels[c]
              /\ answer' = [answer EXCEPT ![c] = "LIMIT_CHANNELS"]
          BY <2>3, MemFrame DEF SubscribeOverQuota, Answer
        <4>2. c \notin mem[n] /\ M!Of(c) = Held(c)
          BY <2>3, MemberIff, OfIsHeld DEF SubscribeOverQuota, Held, ConnInv, mem
        <4> QED BY ONLY <4>1, <4>2 DEF M!RefuseQuota, mem, Cardinality, M!Cardinality
      <3> QED BY <3>1 DEF M!Next
    <2>4. ASSUME NEW n \in Names, SubscribeStart(c, n) PROVE Goal
      BY <2>4, MemFrame DEF SubscribeStart
    <2>5. ASSUME NEW n \in Names, UnsubscribeNotHeld(c, n) PROVE Goal
      <3>1. c \notin mem[n] /\ mem' = mem
        BY <2>5, MemFrame, MemberIff DEF UnsubscribeNotHeld, Held, ConnInv, mem
      <3>2. M!AckLeave(c, n)
        BY <2>5, <3>1 DEF M!AckLeave, mem, UnsubscribeNotHeld, Answer
      <3> QED BY <3>2 DEF M!Next
    <2>6. ASSUME NEW n \in Names, UnsubscribeStart(c, n) PROVE Goal
      BY <2>6, MemFrame DEF UnsubscribeStart
    <2>7. ASSUME NEW n \in Names, PublishStart(c, n) PROVE Goal
      BY <2>7, MemFrame DEF PublishStart
    <2> QED BY <1>1, <2>1, <2>2, <2>3, <2>4, <2>5, <2>6, <2>7 DEF ConnRequest
  <1>2. ASSUME NEW c \in Conns, ConnStep(c) PROVE Goal
    <2>1. CASE HubSubscribeDeleted(c)
      <3>1. mem' = mem /\ snap' = snap
        BY <2>1, MemFrame DEF HubSubscribeDeleted
      <3>2. answer' = answer \/ answer' = [answer EXCEPT ![c] = "SUBSCRIBE_FAILED"]
        BY <2>1 DEF HubSubscribeDeleted, Answer
      <3>3. CASE answer' = [answer EXCEPT ![c] = "SUBSCRIBE_FAILED"]
        <4>1. want[c] \in Names /\ c \notin mem[want[c]] /\ M!Of(c) = Held(c)
          <5>1. want[c] \in Names /\ leaving[c] = {} /\ subs[c][want[c]] = NoChan
            BY <2>1 DEF HubSubscribeDeleted, ConnInv, TargetInv
          <5> QED BY <5>1, MemberIff, OfIsHeld DEF mem
        <4>2. Cardinality(Held(c)) < MaxChannels[c]
          BY <2>1 DEF HubSubscribeDeleted, QuotaInv, Trying
        <4>3. M!JoinFails(c, want[c])
          BY ONLY <3>1, <3>3, <4>1, <4>2 DEF M!JoinFails, mem, Cardinality, M!Cardinality
        <4> QED BY <4>1, <4>3 DEF M!Next
      <3> QED BY <3>1, <3>2, <3>3
    <2>2. CASE HubSubscribeFull(c)
      <3>0. cur[c] \in Chans /\ want[c] \in Names /\ registry[want[c]] = cur[c]
        BY <2>2, GotUsable DEF HubSubscribeFull
      <3>1. Members(want[c]) = subscribers[cur[c]] /\ c \notin Members(want[c])
        <4>1. leaving[c] = {} /\ subs[c][want[c]] = NoChan
          BY <2>2 DEF HubSubscribeFull, ConnInv, TargetInv
        <4> QED BY <3>0, <4>1, MemOfRegistered, MemberIff
      <3>2. M!RefuseFull(c, want[c])
        <4>1. mem' = mem /\ snap' = snap /\ Cardinality(subscribers[cur[c]]) >= MaxSubs[want[c]]
              /\ answer' = [answer EXCEPT ![c] = "LIMIT_SUBSCRIBERS"]
          BY <2>2, MemFrame DEF HubSubscribeFull, Answer
        <4>2. mem[want[c]] = subscribers[cur[c]] /\ c \notin mem[want[c]]
          BY <3>0, <3>1 DEF mem
        <4> QED BY ONLY <4>1, <4>2 DEF M!RefuseFull, mem, Cardinality, M!Cardinality
      <3> QED BY <3>0, <3>2 DEF M!Next
    <2>3. CASE HubSubscribe(c)
      <3>1. cur[c] \in Chans /\ want[c] \in Names /\ registry[want[c]] = cur[c]
        BY <2>3, GotUsable DEF HubSubscribe
      <3>2. Members(want[c]) = subscribers[cur[c]] /\ c \notin Members(want[c])
        <4>1. leaving[c] = {} /\ subs[c][want[c]] = NoChan
          BY <2>3 DEF HubSubscribe, ConnInv, TargetInv
        <4> QED BY <3>1, <4>1, MemOfRegistered, MemberIff
      <3>3. mem' = [mem EXCEPT ![want[c]] = Members(want[c]) \cup {c}]
        BY <2>3, <3>1, <3>2, MemUpdate DEF HubSubscribe
      <3>4. M!Join(c, want[c])
        <4>1. snap' = snap /\ Cardinality(subscribers[cur[c]]) < MaxSubs[want[c]]
              /\ answer' = [answer EXCEPT ![c] = "subscribed"]
          BY <2>3 DEF HubSubscribe, Answer
        <4>2. mem[want[c]] = subscribers[cur[c]] /\ c \notin mem[want[c]]
              /\ mem' = [mem EXCEPT ![want[c]] = mem[want[c]] \cup {c}]
          BY <3>1, <3>2, <3>3 DEF mem
        <4>3. M!Of(c) = Held(c) /\ Cardinality(Held(c)) < MaxChannels[c]
          BY <2>3, OfIsHeld DEF HubSubscribe, ConnInv, QuotaInv, Trying
        <4> QED BY ONLY <4>1, <4>2, <4>3 DEF M!Join, mem, Cardinality, M!Cardinality
      <3> QED BY <3>1, <3>4 DEF M!Next
    <2>4. CASE HubUnsubscribe(c)
      <3>1. PICK ch \in leaving[c] : subscribers' = [subscribers EXCEPT ![ch] = @ \ {c}]
        BY <2>4 DEF HubUnsubscribe
      <3>2. /\ chanName[ch] \in Names /\ registry[chanName[ch]] = ch
            /\ c \in mem[chanName[ch]]
        BY <3>1 DEF LeavingInv, mem, Members
      <3>3. mem' = [mem EXCEPT ![chanName[ch]] = @ \ {c}]
        <4>1. mem[chanName[ch]] = subscribers[ch]
          BY <3>2, MemOfRegistered
        <4> QED BY <2>4, <3>1, <3>2, <4>1, MemUpdate DEF HubUnsubscribe
      <3>4. M!Leave(c, chanName[ch])
        BY <2>4, <3>2, <3>3 DEF M!Leave, mem, HubUnsubscribe
      <3> QED BY <3>2, <3>4 DEF M!Next
    <2>5. CASE UnsubscribeAck(c)
      <3>1. want[c] \in Names /\ c \notin mem[want[c]] /\ mem' = mem
        BY <2>5, MemFrame, MemberIff DEF UnsubscribeAck, TargetInv, mem
      <3>2. M!AckLeave(c, want[c])
        BY <2>5, <3>1 DEF M!AckLeave, mem, UnsubscribeAck, Answer
      <3> QED BY <3>1, <3>2 DEF M!Next
    <2>6. CASE TeardownEnd(c)
      BY <2>6, MemFrame DEF TeardownEnd
    <2>7. CASE ReadNext(c)
      BY <2>7, MemFrame DEF ReadNext, M!Next, M!Ask, mem
    <2> QED BY <1>2, <2>1, <2>2, <2>3, <2>4, <2>5, <2>6, <2>7 DEF ConnStep
  <1>3. ASSUME NEW p \in Procs, ProcStep(p) PROVE Goal
    <2>1. CASE GetHit(p) \/ GetMiss(p) \/ CreateFound(p)
      BY <2>1, MemFrame DEF GetHit, GetMiss, CreateFound
    <2>2. CASE CreateNew(p)
      <3>1. PICK x \in Chans : /\ Unreferenced(x)
                               /\ subscribers' = [subscribers EXCEPT ![x] = {}]
                               /\ registry' = [registry EXCEPT ![want[p]] = x]
        BY <2>2 DEF CreateNew
      <3>2. mem' = mem
        BY <2>2, <3>1 DEF CreateNew, Unreferenced, mem, Members
      <3> QED BY <2>2, <3>2 DEF CreateNew
    <2>3. CASE p \in Conns /\ HubBroadcast(p)
      <3>1. PICK n \in Names : subs[p][n] = cur[p]
        BY <2>3 DEF HubBroadcast, TargetInv
      <3>2. p \in mem[n] /\ mem[n] = subscribers[cur[p]] /\ mem' = mem
        <4>1. cur[p] \in Chans /\ registry[n] = cur[p] /\ p \in subscribers[cur[p]]
          BY <2>3, <3>1 DEF HubBroadcast, NoOrphanedSubscription, ConnInv
        <4> QED BY <2>3, <4>1, MemFrame, MemOfRegistered DEF HubBroadcast
      <3>3. M!Offer(p, n)
        BY <2>3, <3>2 DEF M!Offer, mem, HubBroadcast
      <3> QED BY <2>3, <3>3 DEF M!Next
    <2>4. CASE p = Stats /\ HubBroadcast(p)
      <3>1. subscribers[cur[p]] \in {mem[StatsName], {}}
        <4>1. CASE deleted[cur[p]]
          BY <2>4, <4>1 DEF HubBroadcast, DeletedIsDead, ConnInv
        <4>2. CASE ~ deleted[cur[p]]
          BY <2>4, <4>2, GotUsable DEF HubBroadcast, TargetInv, mem, Members
        <4> QED BY <4>1, <4>2
      <3>2. M!OfferStats
        <4>1. mem' = mem /\ snap' = [snap EXCEPT ![Stats] = subscribers[cur[p]]] /\ answer' = answer
          BY <2>4, MemFrame DEF HubBroadcast
        <4> QED BY ONLY <3>1, <4>1 DEF M!OfferStats, mem
      <3> QED BY <3>2 DEF M!Next
    <2>5. CASE BroadcastEnd(p)
      BY <2>5, MemFrame DEF BroadcastEnd, M!Next, M!Sent, mem
    <2> QED BY <1>3, <2>1, <2>2, <2>3, <2>4, <2>5 DEF ProcStep
  <1>4. ASSUME NEW s \in Sweepers, SweepStep(s) PROVE Goal
    <2>1. CASE CompareAndDelete(s)
      <3>1. mem' = mem
        <4>1. at[s] \in Chans /\ subscribers[at[s]] = {}
          BY <2>1 DEF CompareAndDelete, SweepInv
        <4>2. ASSUME NEW n \in Names PROVE Members(n)' = Members(n)
          <5>1. registry'[n] = registry[n] \/ (registry[n] = at[s] /\ registry'[n] = NoChan)
            BY <2>1, <4>1 DEF CompareAndDelete
          <5> QED BY <2>1, <4>1, <5>1 DEF CompareAndDelete, Members
        <4> QED BY <4>2 DEF mem
      <3> QED BY <2>1, <3>1 DEF CompareAndDelete
    <2>2. CASE ~ CompareAndDelete(s)
      BY <1>4, <2>2, MemFrame DEF SweepStep, SweepTick, RangeShard, RangeEnd, SweepSkip,
         SweepLock, MarkDeleted
    <2> QED BY <2>1, <2>2
  <1>5. CASE StatsTick
    BY <1>5, MemFrame DEF StatsTick
  <1>6. CASE UNCHANGED vars
    BY <1>6, MemFrame DEF vars
  <1> QED BY <1>1, <1>2, <1>3, <1>4, <1>5, <1>6 DEF Next

(* The registry, the retry loop and the sweeper implement the membership    *)
(* service: every answer, join, leave and set of recipients is one that     *)
(* Membership allows.                                                       *)
THEOREM Implementation == Spec => ImplementsMembership
  <1>1. Init => M!Init
    BY DEF Init, M!Init, Members, Procs
  <1> QED BY <1>1, StepSimulation, Invariance, PTL DEF Spec, ImplementsMembership, M!Spec
=============================================================================
