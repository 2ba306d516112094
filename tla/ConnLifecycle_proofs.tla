------------------------- MODULE ConnLifecycle_proofs -------------------------
(***************************************************************************)
(* Proofs about ConnLifecycle, for any number of connections, API keys and *)
(* addresses and any cap per address.                                      *)
(***************************************************************************)
EXTENDS ConnLifecycle, FiniteSetTheorems, TLAPS

(* The hub tracks a connection from Hub.Add to the deferred Hub.Remove.    *)
TrackedInv ==
    \A u \in Conns : u \in tracked <=> pc[u] \in {"running", "closing", "join", "remove"}

(* From Drain's first critical section on, Hub.Add refuses.                *)
DrainInv ==
    srv \in {"mark", "wait", "stopped", "poolclosed"} => draining

(* Where a socket can be open: before the teardown, and after a refused    *)
(* Add only while the close handshake that ends it goes on.                *)
SocketInv ==
    \A u \in Conns :
        sock[u] = "open" =>
            \/ pc[u] \in {"add", "running", "closing", "join"}
            \/ pc[u] = "refused" /\ closing[u]

HubInv ==
    /\ TrackedInv
    /\ DrainInv
    /\ SocketInv
    /\ RevokedIsDoomed
    /\ DrainCoversAll

(* The inductive invariant.                                                *)
IInv ==
    /\ TypeOK
    /\ HubInv
    /\ IpCountExact

(* The requests of an address that are counted against it.                 *)
CountedOf(ip) == {u \in Conns : IpOf[u] = ip /\ Counted(u)}

(* What Cardinality counts here is finite.                                 *)
LEMMA CountedFinite ==
    \A ip : IsFiniteSet(CountedOf(ip)) /\ IsFiniteSet(CountedOf(ip)')
  <1> SUFFICES ASSUME NEW ip PROVE IsFiniteSet(CountedOf(ip)) /\ IsFiniteSet(CountedOf(ip)')
    OBVIOUS
  <1>1. CountedOf(ip) \in SUBSET Conns /\ CountedOf(ip)' \in SUBSET Conns
    BY DEF CountedOf
  <1> QED BY <1>1, FS_Subset, LifecycleAssumption

(* The deferred decrement never meets a count of zero.                     *)
LEMMA CountedPositive ==
    ASSUME IInv, NEW u \in Conns, Counted(u)
    PROVE  ipCount[IpOf[u]] \in Nat /\ ipCount[IpOf[u]] > 0
  <1>1. IpOf[u] \in IPs /\ u \in CountedOf(IpOf[u])
    BY LifecycleAssumption DEF CountedOf
  <1>2. ipCount[IpOf[u]] = Cardinality(CountedOf(IpOf[u])) /\ ipCount[IpOf[u]] \in Nat
    BY <1>1 DEF IInv, IpCountExact, CountedOf, TypeOK
  <1>3. Cardinality(CountedOf(IpOf[u])) # 0
    BY <1>1, CountedFinite, FS_EmptySet
  <1> QED BY <1>2, <1>3

(* Every step keeps the types.                                             *)
LEMMA TypeStep == IInv /\ [Next]_vars => TypeOK'
  <1> SUFFICES ASSUME IInv, [Next]_vars PROVE TypeOK'
    OBVIOUS
  <1> USE LifecycleAssumption DEF IInv, TypeOK, connVars, hubVars
  <1>1. ASSUME NEW u \in Conns, HandlerStep(u) PROVE TypeOK'
    <2>1. CASE LookupKey(u)
      BY <2>1 DEF LookupKey, Go
    <2>2. CASE IpCapReached(u)
      BY <2>2 DEF IpCapReached, Go
    <2>3. CASE CountIP(u)
      BY <2>3 DEF CountIP, Go
    <2>4. CASE Accept(u)
      BY <2>4 DEF Accept, Go
    <2>5. CASE Release(u)
      <3>1. ipCount[IpOf[u]] - 1 \in Nat
        BY <2>5, CountedPositive DEF Release, Counted
      <3> QED BY <2>5, <3>1 DEF Release, Go
    <2>6. CASE AddRefused(u)
      BY <2>6 DEF AddRefused, CloseFrame, Go
    <2>7. CASE Add(u)
      BY <2>7 DEF Add, Go
    <2>8. CASE RefusedEnd(u)
      BY <2>8 DEF RefusedEnd, Go
    <2>9. CASE PumpReturned(u)
      BY <2>9 DEF PumpReturned, Go
    <2>10. CASE CloseRequested(u)
      BY <2>10 DEF CloseRequested, CloseFrame, Go
    <2>11. CASE CloseRequestEnd(u)
      BY <2>11 DEF CloseRequestEnd, Go
    <2>12. CASE Teardown(u)
      BY <2>12 DEF Teardown, Go
    <2>13. CASE Remove(u)
      BY <2>13 DEF Remove, Go
    <2> QED BY <1>1, <2>1, <2>2, <2>3, <2>4, <2>5, <2>6, <2>7, <2>8, <2>9, <2>10, <2>11, <2>12,
       <2>13 DEF HandlerStep
  <1>2. ASSUME NEW u \in Conns, ReadStep(u) PROVE TypeOK'
    <2>1. CASE Handled(u)
      BY <2>1 DEF Handled
    <2>2. CASE ReadFailed(u)
      BY <2>2 DEF ReadFailed
    <2> QED BY <1>2, <2>1, <2>2 DEF ReadStep
  <1>3. ASSUME NEW u \in Conns, Environment(u) PROVE TypeOK'
    <2>1. CASE UpgradeStart(u)
      BY <2>1 DEF UpgradeStart, Go
    <2>2. CASE Recycle(u)
      BY <2>2 DEF Recycle, Go
    <2>3. CASE ReadFrame(u)
      BY <2>3 DEF ReadFrame
    <2>4. CASE ReadRefused(u)
      BY <2>4 DEF ReadRefused
    <2>5. CASE PeerGone(u)
      BY <2>5 DEF PeerGone
    <2>6. CASE SlowConsumer(u)
      BY <2>6 DEF SlowConsumer
    <2>7. CASE WriteTimeout(u)
      BY <2>7 DEF WriteTimeout
    <2> QED BY <1>3, <2>1, <2>2, <2>3, <2>4, <2>5, <2>6, <2>7 DEF Environment
  <1>4. ASSUME NEW u \in Conns, WriteFailed(u) PROVE TypeOK'
    BY <1>4 DEF WriteFailed
  <1>5. ASSUME NEW u \in Conns, CloseFrameEnd(u) PROVE TypeOK'
    BY <1>5 DEF CloseFrameEnd
  <1>6. ASSUME NEW k \in Keys, RevokeKey(k) PROVE TypeOK'
    BY <1>6 DEF RevokeKey
  <1>7. ASSUME NEW k \in Keys, CloseKey(k) PROVE TypeOK'
    BY <1>7 DEF CloseKey, CloseFrame
  <1>8. CASE DrainMark
    BY <1>8 DEF DrainMark
  <1>9. CASE DrainSnapshot
    BY <1>9 DEF DrainSnapshot, CloseFrame
  <1>10. CASE DrainEmpty
    BY <1>10 DEF DrainEmpty
  <1>11. CASE DrainForce
    BY <1>11 DEF DrainForce
  <1>12. CASE ClosePool
    BY <1>12 DEF ClosePool
  <1>13. CASE SetDraining
    BY <1>13 DEF SetDraining
  <1>14. CASE Restart
    BY <1>14 DEF Restart
  <1>15. CASE ProcessEnds
    BY <1>15 DEF ProcessEnds
  <1>16. CASE UNCHANGED vars
    BY <1>16 DEF vars
  <1> QED BY <1>1, <1>2, <1>3, <1>4, <1>5, <1>6, <1>7, <1>8, <1>9, <1>10, <1>11, <1>12, <1>13,
     <1>14, <1>15, <1>16 DEF Next, ServerStep, Exit, Crash

(* Every step keeps what ties the hub, the handlers and the sockets        *)
(* together.                                                               *)
LEMMA HubStep == IInv /\ [Next]_vars => HubInv'
  <1> SUFFICES ASSUME IInv, [Next]_vars PROVE HubInv'
    OBVIOUS
  <1> USE DEF IInv, HubInv, TypeOK, TrackedInv, DrainInv, SocketInv, RevokedIsDoomed,
         DrainCoversAll, Doomed, connVars, hubVars
  <1>1. ASSUME NEW u \in Conns, HandlerStep(u) PROVE HubInv'
    <2>1. CASE LookupKey(u)
      BY <2>1 DEF LookupKey, Go
    <2>2. CASE IpCapReached(u)
      BY <2>2 DEF IpCapReached, Go
    <2>3. CASE CountIP(u)
      BY <2>3 DEF CountIP, Go
    <2>4. CASE Accept(u)
      BY <2>4 DEF Accept, Go
    <2>5. CASE Release(u)
      BY <2>5 DEF Release, Go
    <2>6. CASE AddRefused(u)
      BY <2>6 DEF AddRefused, CloseFrame, Go
    <2>7. CASE Add(u)
      BY <2>7 DEF Add, Go
    <2>8. CASE RefusedEnd(u)
      BY <2>8 DEF RefusedEnd, Go
    <2>9. CASE PumpReturned(u)
      BY <2>9 DEF PumpReturned, Go
    <2>10. CASE CloseRequested(u)
      BY <2>10 DEF CloseRequested, CloseFrame, Go
    <2>11. CASE CloseRequestEnd(u)
      BY <2>11 DEF CloseRequestEnd, Go
    <2>12. CASE Teardown(u)
      BY <2>12 DEF Teardown, Go
    <2>13. CASE Remove(u)
      BY <2>13 DEF Remove, Go
    <2> QED BY <1>1, <2>1, <2>2, <2>3, <2>4, <2>5, <2>6, <2>7, <2>8, <2>9, <2>10, <2>11, <2>12,
       <2>13 DEF HandlerStep
  <1>2. ASSUME NEW u \in Conns, ReadStep(u) PROVE HubInv'
    <2>1. CASE Handled(u)
      BY <2>1 DEF Handled
    <2>2. CASE ReadFailed(u)
      BY <2>2 DEF ReadFailed
    <2> QED BY <1>2, <2>1, <2>2 DEF ReadStep
  <1>3. ASSUME NEW u \in Conns, Environment(u) PROVE HubInv'
    <2>1. CASE UpgradeStart(u)
      BY <2>1 DEF UpgradeStart, Go
    <2>2. CASE Recycle(u)
      BY <2>2 DEF Recycle, Go
    <2>3. CASE ReadFrame(u)
      BY <2>3 DEF ReadFrame
    <2>4. CASE ReadRefused(u)
      BY <2>4 DEF ReadRefused
    <2>5. CASE PeerGone(u)
      BY <2>5 DEF PeerGone
    <2>6. CASE SlowConsumer(u)
      BY <2>6 DEF SlowConsumer
    <2>7. CASE WriteTimeout(u)
      BY <2>7 DEF WriteTimeout
    <2> QED BY <1>3, <2>1, <2>2, <2>3, <2>4, <2>5, <2>6, <2>7 DEF Environment
  <1>4. ASSUME NEW u \in Conns, WriteFailed(u) PROVE HubInv'
    BY <1>4 DEF WriteFailed
  <1>5. ASSUME NEW u \in Conns, CloseFrameEnd(u) PROVE HubInv'
    BY <1>5 DEF CloseFrameEnd
  <1>6. ASSUME NEW k \in Keys, RevokeKey(k) PROVE HubInv'
    BY <1>6 DEF RevokeKey
  <1>7. ASSUME NEW k \in Keys, CloseKey(k) PROVE HubInv'
    BY <1>7 DEF CloseKey, CloseFrame
  <1>8. CASE DrainMark
    BY <1>8 DEF DrainMark
  <1>9. CASE DrainSnapshot
    BY <1>9 DEF DrainSnapshot, CloseFrame
  <1>10. CASE DrainEmpty
    BY <1>10 DEF DrainEmpty
  <1>11. CASE DrainForce
    BY <1>11 DEF DrainForce
  <1>12. CASE ClosePool
    BY <1>12 DEF ClosePool
  <1>13. CASE SetDraining
    BY <1>13 DEF SetDraining
  <1>14. CASE Restart
    BY <1>14 DEF Restart
  <1>15. CASE ProcessEnds
    BY <1>15 DEF ProcessEnds
  <1>16. CASE UNCHANGED vars
    BY <1>16 DEF vars
  <1> QED BY <1>1, <1>2, <1>3, <1>4, <1>5, <1>6, <1>7, <1>8, <1>9, <1>10, <1>11, <1>12, <1>13,
     <1>14, <1>15, <1>16 DEF Next, ServerStep, Exit, Crash

(* Only the increment, the deferred decrement and the end of the process   *)
(* touch the counts or what they count.                                    *)
LEMMA CountKept ==
    IInv /\ [Next]_vars =>
        \/ \E u \in Conns : CountIP(u) \/ Release(u)
        \/ ProcessEnds
        \/ ipCount' = ipCount /\ \A u \in Conns : Counted(u)' = Counted(u)
  <1> DEFINE Kept == ipCount' = ipCount /\ \A u \in Conns : Counted(u)' = Counted(u)
  <1> SUFFICES ASSUME IInv, [Next]_vars,
                      ~ \E u \in Conns : CountIP(u) \/ Release(u), ~ ProcessEnds
               PROVE  Kept
    OBVIOUS
  <1> USE DEF IInv, TypeOK, Counted, Go, CloseFrame, connVars, hubVars
  <1>1. ASSUME NEW u \in Conns, HandlerStep(u) PROVE Kept
    BY <1>1 DEF HandlerStep, LookupKey, IpCapReached, Accept, AddRefused, Add, RefusedEnd,
       PumpReturned, CloseRequested, CloseRequestEnd, Teardown, Remove
  <1>2. ASSUME NEW u \in Conns, ReadStep(u) \/ WriteFailed(u) \/ CloseFrameEnd(u) PROVE Kept
    BY <1>2 DEF ReadStep, Handled, ReadFailed, WriteFailed, CloseFrameEnd
  <1>3. ASSUME NEW u \in Conns, Environment(u) PROVE Kept
    BY <1>3 DEF Environment, UpgradeStart, Recycle, ReadFrame, ReadRefused, PeerGone,
       SlowConsumer, WriteTimeout
  <1>4. ASSUME NEW k \in Keys, RevokeKey(k) \/ CloseKey(k) PROVE Kept
    BY <1>4 DEF RevokeKey, CloseKey
  <1>5. CASE ServerStep \/ SetDraining \/ Restart
    BY <1>5 DEF ServerStep, DrainMark, DrainSnapshot, DrainEmpty, DrainForce, ClosePool,
       SetDraining, Restart, Exit
  <1>6. CASE UNCHANGED vars
    BY <1>6 DEF vars
  <1> QED BY <1>1, <1>2, <1>3, <1>4, <1>5, <1>6 DEF Next, Crash

(* Every step keeps the counts exact: CountIP adds one request to the set  *)
(* it counts, Release takes one away, both in the request's own bucket.    *)
LEMMA CountStep == IInv /\ [Next]_vars => IpCountExact'
  <1> SUFFICES ASSUME IInv, [Next]_vars, NEW ip \in IPs
               PROVE  ipCount'[ip] = Cardinality(CountedOf(ip)') /\ ipCount'[ip] <= IpCap
    BY DEF IpCountExact, CountedOf
  <1>1. ipCount[ip] = Cardinality(CountedOf(ip)) /\ ipCount[ip] <= IpCap /\ ipCount[ip] \in Nat
    BY DEF IInv, TypeOK, IpCountExact, CountedOf
  <1>2. ASSUME NEW u \in Conns, CountIP(u)
        PROVE  ipCount'[ip] = Cardinality(CountedOf(ip)') /\ ipCount'[ip] <= IpCap
    <2>1. CASE ip = IpOf[u]
      <3>1. ipCount'[ip] = ipCount[ip] + 1 /\ ipCount[ip] < IpCap
        BY <1>2, <2>1 DEF CountIP, IInv, TypeOK
      <3>2. CountedOf(ip)' = CountedOf(ip) \cup {u} /\ u \notin CountedOf(ip)
        BY <1>2, <2>1 DEF CountIP, Go, CountedOf, Counted, IInv, TypeOK
      <3>3. Cardinality(CountedOf(ip)') = Cardinality(CountedOf(ip)) + 1
        BY <3>2, CountedFinite, FS_AddElement
      <3> QED BY <1>1, <3>1, <3>3, LifecycleAssumption
    <2>2. CASE ip # IpOf[u]
      <3>1. ipCount'[ip] = ipCount[ip]
        BY <1>2, <2>2 DEF CountIP, IInv, TypeOK
      <3>2. CountedOf(ip)' = CountedOf(ip)
        BY <1>2, <2>2 DEF CountIP, Go, CountedOf, Counted, IInv, TypeOK
      <3> QED BY <1>1, <3>1, <3>2
    <2> QED BY <2>1, <2>2
  <1>3. ASSUME NEW u \in Conns, Release(u)
        PROVE  ipCount'[ip] = Cardinality(CountedOf(ip)') /\ ipCount'[ip] <= IpCap
    <2>1. CASE ip = IpOf[u]
      <3>1. ipCount'[ip] = ipCount[ip] - 1
        BY <1>3, <2>1 DEF Release, IInv, TypeOK
      <3>2. CountedOf(ip)' = CountedOf(ip) \ {u} /\ u \in CountedOf(ip)
        BY <1>3, <2>1 DEF Release, Go, CountedOf, Counted, IInv, TypeOK
      <3>3. Cardinality(CountedOf(ip)') = Cardinality(CountedOf(ip)) - 1
        BY <3>2, CountedFinite, FS_RemoveElement
      <3> QED BY <1>1, <3>1, <3>3, LifecycleAssumption
    <2>2. CASE ip # IpOf[u]
      <3>1. ipCount'[ip] = ipCount[ip]
        BY <1>3, <2>2 DEF Release, IInv, TypeOK
      <3>2. CountedOf(ip)' = CountedOf(ip)
        BY <1>3, <2>2 DEF Release, Go, CountedOf, Counted, IInv, TypeOK
      <3> QED BY <1>1, <3>1, <3>2
    <2> QED BY <2>1, <2>2
  <1>4. CASE ProcessEnds
    <2>1. ipCount'[ip] = 0 /\ CountedOf(ip)' = {}
      BY <1>4 DEF ProcessEnds, CountedOf, Counted
    <2> QED BY <2>1, FS_EmptySet, LifecycleAssumption
  <1>5. CASE ipCount' = ipCount /\ \A u \in Conns : Counted(u)' = Counted(u)
    <2>1. CountedOf(ip)' = CountedOf(ip)
      BY <1>5 DEF CountedOf
    <2> QED BY <1>1, <1>5, <2>1
  <1> QED BY <1>2, <1>3, <1>4, <1>5, CountKept

(* The initial states satisfy the inductive invariant.                     *)
LEMMA InitIInv == Init => IInv
  <1> SUFFICES ASSUME Init PROVE IInv
    OBVIOUS
  <1>1. TypeOK /\ HubInv
    BY DEF Init, TypeOK, HubInv, TrackedInv, DrainInv, SocketInv, RevokedIsDoomed, DrainCoversAll
  <1>2. ASSUME NEW ip \in IPs PROVE ipCount[ip] = 0 /\ CountedOf(ip) = {}
    BY DEF Init, CountedOf, Counted
  <1>3. IpCountExact
    BY <1>2, FS_EmptySet, LifecycleAssumption DEF IpCountExact, CountedOf
  <1> QED BY <1>1, <1>3 DEF IInv

(* The inductive invariant holds of every reachable state.                 *)
THEOREM Invariance == Spec => []IInv
  <1>1. IInv /\ [Next]_vars => IInv'
    BY TypeStep, HubStep, CountStep DEF IInv
  <1> QED BY <1>1, InitIInv, PTL DEF Spec

(* Type correctness of the hub, the upgrade handler and the connections;   *)
(* in particular no IP count goes below zero.                              *)
THEOREM TypeCorrect == Spec => []TypeOK
  <1>1. IInv => TypeOK
    BY DEF IInv
  <1> QED BY <1>1, Invariance, PTL

(* Once Hub.CloseKey has run for a key, every tracked connection of it is  *)
(* on its way out, however upgrades, revocations, a drain, crashes and     *)
(* restarts interleave.                                                    *)
THEOREM Revocation == Spec => []RevokedIsDoomed
  <1>1. IInv => RevokedIsDoomed
    BY DEF IInv, HubInv
  <1> QED BY <1>1, Invariance, PTL

(* Once Drain has taken its snapshot, no tracked connection was missed by  *)
(* it, although the flag and the snapshot are two critical sections.       *)
THEOREM Draining == Spec => []DrainCoversAll
  <1>1. IInv => DrainCoversAll
    BY DEF IInv, HubInv
  <1> QED BY <1>1, Invariance, PTL

(* The count of an address is exactly the number of its requests between   *)
(* the increment and the deferred decrement, and within the cap.           *)
THEOREM IpCapping == Spec => []IpCountExact
  <1>1. IInv => IpCountExact
    BY DEF IInv
  <1> QED BY <1>1, Invariance, PTL

(* No open socket escapes the cap of its address: CloseNow in Run and the  *)
(* handshake of a refused Add close it before the deferred decrement.      *)
THEOREM OpenCounted == Spec => []OpenIsCounted
  <1>1. IInv => OpenIsCounted
    BY DEF IInv, HubInv, SocketInv, OpenIsCounted, Counted, TypeOK
  <1> QED BY <1>1, Invariance, PTL
=============================================================================
