---------------------------- MODULE Client_proofs ----------------------------
(***************************************************************************)
(* Proofs about Client, for any number of calls, attempts, connections,    *)
(* lost answers and frames under way.                                      *)
(*                                                                         *)
(* ConfirmedIsHeld and NoGhost compare the client with the server, while   *)
(* what decides between them is still on the wire.  HeldInv follows an ack *)
(* of the record from the frame that asks for it: no unsubscribe is behind *)
(* either.  GhostInv accounts for a server that holds the channel of a     *)
(* client that has not confirmed it: an unsubscribe is on its way, or an   *)
(* ack that will be acted on.                                              *)
(***************************************************************************)
EXTENDS Client, FiniteSetTheorems, SequenceTheorems, WellFoundedInduction, TLAPS

(* The shapes TypeOK gives to attempts, calls and the record; operations,  *)
(* frames and answers.                                                     *)
Attempt == [st : {"free", "auth", "sent"}, epoch : 0..MaxEpochs, rec : Calls \union {None}]
Call == [pc : {"new", "wait", "handle", "failed", "done"},
         rec : Calls \union {None}, att : Attempts \union {None}]
Records ==
    [rec : Calls \union {None}, handlers : SUBSET Calls, confirmed : BOOLEAN,
     inflight : Attempts \union {None}, retryTimer : BOOLEAN,
     restoring : Attempts \union {None}, att : [Attempts -> Attempt], call : [Calls -> Call]]
Op == [kind : {"subscribe", "unsubscribe"}, att : Attempts \union {None}]
Frame == [type : {"subscribe", "unsubscribe"}, epoch : 0..MaxEpochs, rec : Calls \union {None}]
AnswerTypes == {"subscribed", "limited", "refused", "unsubscribed", "unsubscribe refused"}
Reply == [type : AnswerTypes, rec : Calls \union {None}]

(* A record that is gone leaves nothing behind.                            *)
Clean(c) == c.rec = None => c.handlers = {} /\ ~c.confirmed /\ ~c.retryTimer

(* The frames are well formed; without a connection there are none, and    *)
(* those there are carry the token of this one.                            *)
WireInv ==
    /\ pending \in Seq(Op) /\ up \in Seq(Frame) /\ down \in Seq(Reply)
    /\ state # "connected" => up = <<>> /\ down = <<>> /\ ~held
    /\ state \in {"connecting", "reconnecting"} => epoch < MaxEpochs
    /\ \A i \in DOMAIN up : up[i].epoch = epoch

(* A pending subscribe has an attempt that was sent, its own.              *)
PendingInv ==
    /\ \A i \in DOMAIN pending : pending[i].kind = "subscribe" =>
         pending[i].att \in Attempts /\ cl.att[pending[i].att].st = "sent"
    /\ \A i, j \in DOMAIN pending :
         pending[i].kind = "subscribe" /\ pending[j].kind = "subscribe"
           /\ pending[i].att = pending[j].att => i = j

(* A call that was not made has left no trace: its record will be a new one.*)
Unused(k) ==
    /\ cl.rec # k
    /\ \A a \in Attempts : cl.att[a].rec # k
    /\ \A i \in DOMAIN up : up[i].rec # k
    /\ \A i \in DOMAIN down : down[i].rec # k
FreshInv == \A k \in Calls : cl.call[k].pc = "new" => Unused(k)

(* The client has, or is to get, an ack of its record.                     *)
Assured ==
    \/ cl.confirmed /\ "mixed" \notin odd
    \/ \E d \in DOMAIN down : down[d].type = "subscribed" /\ down[d].rec = cl.rec

(* No unsubscribe comes after the subscribe of the record, and once the    *)
(* server has accepted it the channel stays held.                          *)
HeldInv ==
    cl.rec # None =>
      /\ \A i, j \in DOMAIN up :
           up[i].type = "subscribe" /\ up[i].rec = cl.rec /\ up[j].type = "unsubscribe" => j < i
      /\ Assured => held /\ \A i \in DOMAIN up : up[i].type # "unsubscribe"

(* The unsubscribes on their way, and the answers to them.                 *)
Unsubs == {i \in DOMAIN up : up[i].type = "unsubscribe"}
Answers == {i \in DOMAIN down : down[i].type \in {"unsubscribed", "unsubscribe refused"}}

(* The last the server said is that it holds the channel.                  *)
HeldNews ==
    \E d \in DOMAIN down :
      /\ down[d].type = "subscribed"
      /\ \A e \in DOMAIN down : e > d => down[e].type # "unsubscribed"

(* Unless answers were lost, every pending unsubscribe has its own under   *)
(* way; and a server that holds what the client does not take for          *)
(* subscribed is about to be told, or has told the client.                 *)
CountInv == "lost" \notin odd =>
    Cardinality(Pending("unsubscribe")) <= Cardinality(Answers) + Cardinality(Unsubs)
GhostInv ==
    /\ "kept" \notin odd => \A i \in DOMAIN down : down[i].type # "unsubscribe refused"
    /\ held /\ ~cl.confirmed /\ odd \intersect {"lost", "kept"} = {} => Unsubs # {} \/ HeldNews

IInv == TypeOK /\ WireInv /\ PendingInv /\ FreshInv /\ HeldInv /\ CountInv /\ GhostInv

-----------------------------------------------------------------------------
(* Sequences.                                                              *)

(* What Tail leaves, position by position.                                 *)
LEMMA TailFacts ==
    ASSUME NEW S, NEW s \in Seq(S), s # <<>>
    PROVE  /\ Head(s) = s[1] /\ s[1] \in S /\ 1 \in DOMAIN s
           /\ Len(s) \in Nat \ {0} /\ DOMAIN s = 1 .. Len(s)
           /\ Tail(s) \in Seq(S) /\ DOMAIN Tail(s) = 1 .. Len(s) - 1
           /\ \A i \in DOMAIN Tail(s) : i + 1 \in DOMAIN s /\ Tail(s)[i] = s[i + 1]
<1>1. Len(s) \in Nat \ {0} /\ DOMAIN s = 1 .. Len(s) /\ 1 \in DOMAIN s
    BY EmptySeq, LenProperties
<1>2. Tail(s) \in Seq(S) /\ DOMAIN Tail(s) = 1 .. Len(s) - 1
    BY HeadTailProperties, LenProperties
<1>3. \A i \in 1 .. Len(s) - 1 : i + 1 \in DOMAIN s /\ Tail(s)[i] = s[i + 1]
    BY <1>1, HeadTailProperties
<1>4. Head(s) = s[1] /\ s[1] \in S
    BY <1>1, LenProperties
<1> QED BY <1>1, <1>2, <1>3, <1>4

(* What Append adds.                                                       *)
LEMMA AppendFacts ==
    ASSUME NEW S, NEW s \in Seq(S), NEW m \in S
    PROVE  /\ Len(s) \in Nat /\ DOMAIN s = 1 .. Len(s)
           /\ Append(s, m) \in Seq(S) /\ DOMAIN Append(s, m) = 1 .. Len(s) + 1
           /\ \A i \in DOMAIN s : Append(s, m)[i] = s[i]
           /\ Append(s, m)[Len(s) + 1] = m
<1>1. Len(s) \in Nat /\ DOMAIN s = 1 .. Len(s)
    BY LenProperties
<1>2. /\ Append(s, m) \in Seq(S) /\ Len(Append(s, m)) = Len(s) + 1
      /\ \A i \in 1 .. Len(s) : Append(s, m)[i] = s[i]
      /\ Append(s, m)[Len(s) + 1] = m
    BY AppendProperties
<1>3. DOMAIN Append(s, m) = 1 .. Len(s) + 1
    BY <1>2, LenProperties
<1> QED BY <1>1, <1>2, <1>3

(* The oldest of some operations is one of them.                          *)
LEMMA OldestFacts ==
    ASSUME NEW S \in SUBSET Nat, S # {}
    PROVE  Oldest(S) \in S /\ \A j \in S : Oldest(S) <= j
<1> DEFINE R == OpToRel(<, Nat)
<1>1. IsWellFoundedOn(R, Nat)
    BY NatLessThanWellFounded
<1>2. \A x, y \in Nat : x < y => <<x, y>> \in R
    BY DEF OpToRel
<1> HIDE DEF R
<1>3. PICK x \in S : \A y \in S : ~ (<<y, x>> \in R)
    BY <1>1, WFMin, Zenon
<1>4. ASSUME NEW y \in S PROVE x <= y
  <2>1. ~ (<<y, x>> \in R)
      BY <1>3
  <2>2. y \in Nat /\ x \in Nat /\ (y < x => <<y, x>> \in R)
      BY <1>2, Zenon
  <2> QED BY <2>1, <2>2
<1> QED
    BY <1>4 DEF Oldest

(* Taking position p out of a sequence moves what is behind it up by one:  *)
(* of the positions A there is one less if p was among them.               *)
LEMMA PunchedCount ==
    ASSUME NEW n \in Nat \ {0}, NEW p \in 1 .. n, NEW A \in SUBSET (1 .. n), NEW B,
           B = {i \in 1 .. n - 1 : IF i < p THEN i \in A ELSE i + 1 \in A}
    PROVE  /\ IsFiniteSet(A) /\ IsFiniteSet(B)
           /\ Cardinality(A) \in Nat /\ Cardinality(B) \in Nat
           /\ Cardinality(B) = IF p \in A THEN Cardinality(A) - 1 ELSE Cardinality(A)
<1> DEFINE C == A \ {p}
           f == [i \in B |-> IF i < p THEN i ELSE i + 1]
<1>1. IsFiniteSet(A) /\ Cardinality(A) \in Nat
  <2>1. IsFiniteSet(1 .. n)
      BY FS_Interval
  <2>2. IsFiniteSet(A)
      BY <2>1, FS_Subset, Zenon
  <2> QED BY <2>2, FS_CardinalityType, Zenon
<1>2. /\ IsFiniteSet(C) /\ Cardinality(C) \in Nat
      /\ Cardinality(C) = IF p \in A THEN Cardinality(A) - 1 ELSE Cardinality(A)
  <2>1. IsFiniteSet(C) /\ Cardinality(C) = IF p \in A THEN Cardinality(A) - 1 ELSE Cardinality(A)
      BY <1>1, FS_RemoveElement, Zenon
  <2>2. Cardinality(C) \in Nat
      BY <2>1, FS_CardinalityType, Zenon
  <2> QED BY <2>1, <2>2
<1>3. IsFiniteSet(B)
  <2>1. IsFiniteSet(1 .. n - 1) /\ B \in SUBSET (1 .. n - 1)
      BY FS_Interval
  <2> QED BY <2>1, FS_Subset, Zenon
<1>4. f \in Bijection(B, C)
  <2>1. f \in [B -> C]
      OBVIOUS
  <2>2. \A x, y \in B : f[x] = f[y] => x = y
      OBVIOUS
  <2>3. \A c \in C : \E b \in B : f[b] = c
    <3> TAKE c \in C
    <3>1. CASE c < p
      <4> c \in 1 .. n - 1 /\ c \in A
          BY <3>1
      <4> c \in B
          BY <3>1
      <4> f[c] = c
          BY <3>1
      <4> QED OBVIOUS
    <3>2. CASE c > p
      <4> c - 1 \in 1 .. n - 1 /\ ~ (c - 1 < p) /\ (c - 1) + 1 = c /\ c \in A
          BY <3>2
      <4> c - 1 \in B
          BY Zenon
      <4> f[c - 1] = c
          OBVIOUS
      <4> QED OBVIOUS
    <3>3. c < p \/ c > p
        OBVIOUS
    <3> QED BY <3>1, <3>2, <3>3
  <2> QED
      BY <2>1, <2>2, <2>3 DEF Bijection, Injection, Surjection, IsInjective
<1>5. Cardinality(B) = Cardinality(C)
    BY <1>3, <1>4, FS_Bijection DEF ExistsBijection
<1> QED
    BY <1>1, <1>2, <1>3, <1>5

(* What RemoveAt leaves, position by position.                             *)
LEMMA RemoveAtFacts ==
    ASSUME NEW S, NEW s \in Seq(S), NEW p \in DOMAIN s
    PROVE  /\ RemoveAt(s, p) \in Seq(S)
           /\ Len(RemoveAt(s, p)) = Len(s) - 1
           /\ \A i \in 1 .. Len(s) - 1 : RemoveAt(s, p)[i] = IF i < p THEN s[i] ELSE s[i + 1]
<1> DEFINE l == SubSeq(s, 1, p - 1)
           r == SubSeq(s, p + 1, Len(s))
<1>0. Len(s) \in Nat /\ p \in 1 .. Len(s) /\ \A i \in 1 .. Len(s) : s[i] \in S
    BY LenProperties
<1>1. /\ l \in Seq(S) /\ Len(l) = p - 1 /\ \A i \in 1 .. p - 1 : l[i] = s[i]
  <2>1. \A i \in 1 .. p - 1 : s[i] \in S
      BY <1>0
  <2>2. /\ l \in Seq(S) /\ Len(l) = IF 1 <= p - 1 THEN (p - 1) - 1 + 1 ELSE 0
        /\ \A i \in 1 .. (p - 1) - 1 + 1 : l[i] = s[1 + i - 1]
      BY <1>0, <2>1, SubSeqProperties
  <2> QED BY <1>0, <2>2
<1>2. /\ r \in Seq(S) /\ Len(r) = Len(s) - p /\ \A i \in 1 .. Len(s) - p : r[i] = s[p + i]
  <2>1. \A i \in p + 1 .. Len(s) : s[i] \in S
      BY <1>0
  <2>2. /\ r \in Seq(S) /\ Len(r) = IF p + 1 <= Len(s) THEN Len(s) - (p + 1) + 1 ELSE 0
        /\ \A i \in 1 .. Len(s) - (p + 1) + 1 : r[i] = s[p + 1 + i - 1]
      BY <1>0, <2>1, SubSeqProperties
  <2> QED BY <1>0, <2>2
<1> HIDE DEF l, r
<1>3. /\ l \o r \in Seq(S) /\ Len(l \o r) = Len(l) + Len(r)
      /\ \A i \in 1 .. Len(l) + Len(r) : (l \o r)[i] = IF i <= Len(l) THEN l[i] ELSE r[i - Len(l)]
    BY <1>1, <1>2, ConcatProperties, Zenon
<1>4. RemoveAt(s, p) = l \o r
    BY DEF RemoveAt, l, r
<1>5. Len(l) + Len(r) = Len(s) - 1
    BY <1>0, <1>1, <1>2
<1>6. ASSUME NEW i \in 1 .. Len(s) - 1
      PROVE  (l \o r)[i] = IF i < p THEN s[i] ELSE s[i + 1]
  <2>1. (l \o r)[i] = IF i <= p - 1 THEN l[i] ELSE r[i - (p - 1)]
      BY <1>1, <1>3, <1>5
  <2>2. CASE i < p
    <3> i \in 1 .. p - 1
        BY <2>2, <1>0
    <3> QED BY <2>1, <2>2, <1>1
  <2>3. CASE ~ (i < p)
    <3> i - (p - 1) \in 1 .. Len(s) - p /\ p + (i - (p - 1)) = i + 1 /\ ~ (i <= p - 1)
        BY <2>3, <1>0
    <3> r[i - (p - 1)] = s[p + (i - (p - 1))]
        BY <1>2
    <3> QED BY <2>1, <2>3
  <2> QED BY <2>2, <2>3
<1> QED
    BY <1>3, <1>4, <1>5, <1>6

(* Taking the first is a RemoveAt.                                         *)
LEMMA TailIsRemoveAt ==
    ASSUME NEW S, NEW s \in Seq(S), s # <<>>
    PROVE  Tail(s) = RemoveAt(s, 1)
<1>1. /\ 1 \in DOMAIN s /\ Len(s) \in Nat \ {0}
      /\ Tail(s) \in Seq(S) /\ DOMAIN Tail(s) = 1 .. Len(s) - 1
      /\ \A i \in DOMAIN Tail(s) : Tail(s)[i] = s[i + 1]
    BY TailFacts
<1>2. /\ RemoveAt(s, 1) \in Seq(S) /\ Len(RemoveAt(s, 1)) = Len(s) - 1
      /\ \A i \in 1 .. Len(s) - 1 : RemoveAt(s, 1)[i] = IF i < 1 THEN s[i] ELSE s[i + 1]
    BY <1>1, RemoveAtFacts
<1>3. Len(Tail(s)) = Len(s) - 1
    BY HeadTailProperties
<1>4. \A i \in 1 .. Len(Tail(s)) : Tail(s)[i] = RemoveAt(s, 1)[i]
    BY <1>1, <1>2, <1>3
<1> QED BY <1>1, <1>2, <1>3, <1>4, SeqEqual

(* The positions of s that hold an element of T.                           *)
At(s, T) == {i \in DOMAIN s : s[i] \in T}

(* There are finitely many.                                                *)
LEMMA AtCount ==
    ASSUME NEW S, NEW s \in Seq(S), NEW T
    PROVE  /\ IsFiniteSet(At(s, T)) /\ Cardinality(At(s, T)) \in Nat
           /\ Cardinality(At(s, T)) = 0 <=> At(s, T) = {}
<1>1. IsFiniteSet(DOMAIN s)
    BY LenProperties, FS_Interval
<1>2. At(s, T) \in SUBSET DOMAIN s
    BY DEF At
<1>3. IsFiniteSet(At(s, T))
    BY <1>1, <1>2, FS_Subset, Zenon
<1> QED BY <1>3, FS_CardinalityType, FS_EmptySet, Zenon

(* Removing one takes it away from them.                                   *)
LEMMA RemoveAtCount ==
    ASSUME NEW S, NEW s \in Seq(S), NEW p \in DOMAIN s, NEW T
    PROVE  Cardinality(At(RemoveAt(s, p), T)) =
             IF s[p] \in T THEN Cardinality(At(s, T)) - 1 ELSE Cardinality(At(s, T))
<1> DEFINE n == Len(s)
           A == At(s, T)
           B == At(RemoveAt(s, p), T)
<1>1. n \in Nat \ {0} /\ p \in 1 .. n /\ DOMAIN s = 1 .. n /\ A \in SUBSET (1 .. n)
    BY LenProperties DEF At
<1>2. /\ DOMAIN RemoveAt(s, p) = 1 .. n - 1
      /\ \A i \in 1 .. n - 1 : RemoveAt(s, p)[i] = IF i < p THEN s[i] ELSE s[i + 1]
    BY RemoveAtFacts, LenProperties
<1>3. B = {i \in 1 .. n - 1 : IF i < p THEN i \in A ELSE i + 1 \in A}
    BY <1>1, <1>2 DEF At
<1>4. p \in A <=> s[p] \in T
    BY DEF At
<1> HIDE DEF n, A, B
<1>5. Cardinality(B) = IF p \in A THEN Cardinality(A) - 1 ELSE Cardinality(A)
    BY <1>1, <1>3, PunchedCount
<1> QED BY <1>4, <1>5 DEF A, B

(* Appending one adds it to them.                                          *)
LEMMA AppendCount ==
    ASSUME NEW S, NEW s \in Seq(S), NEW m \in S, NEW T
    PROVE  Cardinality(At(Append(s, m), T)) =
             IF m \in T THEN Cardinality(At(s, T)) + 1 ELSE Cardinality(At(s, T))
<1>1. /\ Len(s) \in Nat /\ DOMAIN s = 1 .. Len(s)
      /\ DOMAIN Append(s, m) = 1 .. Len(s) + 1
      /\ \A i \in DOMAIN s : Append(s, m)[i] = s[i]
      /\ Append(s, m)[Len(s) + 1] = m
    BY AppendFacts
<1>2. At(Append(s, m), T) = IF m \in T THEN At(s, T) \union {Len(s) + 1} ELSE At(s, T)
    BY <1>1 DEF At
<1>3. Len(s) + 1 \notin At(s, T)
    BY <1>1 DEF At
<1>4. Cardinality(At(s, T) \union {Len(s) + 1}) = Cardinality(At(s, T)) + 1
    BY <1>3, AtCount, FS_AddElement
<1> QED BY <1>2, <1>4

-----------------------------------------------------------------------------
(* The operators on the channel's record.                                  *)

(* No call becomes new, and every attempt but a that was sent stays so.    *)
Onward(c, d, a) ==
    /\ \A k \in Calls : d.call[k].pc = "new" => c.call[k].pc = "new"
    /\ \A x \in Attempts :
         /\ d.att[x].rec \in {c.att[x].rec, c.rec, None}
         /\ x # a /\ c.att[x].st = "sent" => d.att[x].st = "sent"

(* What the end of the attempt a may do: take the record away if it is not *)
(* confirmed, but neither confirm it nor unconfirm it.                     *)
Change(c, d, a) ==
    /\ d \in Records /\ Clean(d)
    /\ d.rec \in {c.rec, None}
    /\ d.confirmed = c.confirmed
    /\ Onward(c, d, a)

(* Ended changes nothing but the calls, of which none becomes new.         *)
LEMMA EndedFacts ==
    ASSUME NEW c \in Records, NEW ks, NEW pc \in {"handle", "failed"}
    PROVE  LET d == Ended(c, ks, pc) IN
           /\ d \in Records
           /\ d.rec = c.rec /\ d.handlers = c.handlers /\ d.confirmed = c.confirmed
           /\ d.inflight = c.inflight /\ d.retryTimer = c.retryTimer
           /\ d.restoring = c.restoring /\ d.att = c.att
           /\ \A k \in Calls : d.call[k].pc = "new" => c.call[k].pc = "new"
<1> DEFINE g == [k \in Calls |-> IF k \in ks THEN [c.call[k] EXCEPT !.pc = pc, !.att = None] ELSE c.call[k]]
           d == [c EXCEPT !.call = g]
<1>1. c.call \in [Calls -> Call]
    BY DEF Records
<1>2. ASSUME NEW k \in Calls
      PROVE  g[k] \in Call /\ (g[k].pc = "new" => c.call[k].pc = "new")
    BY <1>1 DEF Call
<1>3. g \in [Calls -> Call]
    BY <1>2
<1>4. Ended(c, ks, pc) = d
    BY DEF Ended
<1> HIDE DEF g
<1>5. /\ d \in Records
      /\ d.rec = c.rec /\ d.handlers = c.handlers /\ d.confirmed = c.confirmed
      /\ d.inflight = c.inflight /\ d.retryTimer = c.retryTimer
      /\ d.restoring = c.restoring /\ d.att = c.att /\ d.call = g
    BY <1>3 DEF Records
<1> QED BY <1>2, <1>4, <1>5

(* Forget empties the record and keeps calls and attempts.                 *)
LEMMA ForgetFacts ==
    ASSUME NEW c \in Records
    PROVE  LET d == Forget(c) IN
           /\ d \in Records
           /\ d.rec = None /\ d.handlers = {} /\ ~d.confirmed /\ ~d.retryTimer
           /\ d.att = c.att /\ d.call = c.call
BY DEF Forget, Records

(* Settled frees the attempt and touches no other.                         *)
LEMMA SettledFacts ==
    ASSUME NEW c \in Records, NEW a \in Attempts
    PROVE  LET d == Settled(c, a) IN
           /\ d \in Records
           /\ d.rec = c.rec /\ d.handlers = c.handlers /\ d.confirmed = c.confirmed
           /\ d.retryTimer = c.retryTimer /\ d.call = c.call
           /\ d.att[a] = NoAttempt
           /\ \A x \in Attempts \ {a} : d.att[x] = c.att[x]
<1> NoAttempt \in Attempt
    BY ClientAssumption DEF Attempt, NoAttempt
<1> QED
    BY DEF Settled, Records

(* Fail takes the record away only if it is not confirmed.                 *)
LEMMA FailFacts ==
    ASSUME NEW c \in Records, Clean(c), NEW ks
    PROVE  LET d == Fail(c, ks) IN
           /\ d \in Records /\ Clean(d)
           /\ d.rec \in {c.rec, None} /\ d.confirmed = c.confirmed
           /\ d.att = c.att
           /\ \A k \in Calls : d.call[k].pc = "new" => c.call[k].pc = "new"
<1> DEFINE mine == {k \in ks : c.call[k].rec = c.rec}
           left == c.handlers \ mine
           b == Ended(c, ks, "failed")
           d == [b EXCEPT !.handlers = left]
<1>1. /\ b \in Records
      /\ b.rec = c.rec /\ b.handlers = c.handlers /\ b.confirmed = c.confirmed
      /\ b.inflight = c.inflight /\ b.retryTimer = c.retryTimer
      /\ b.restoring = c.restoring /\ b.att = c.att
      /\ \A k \in Calls : b.call[k].pc = "new" => c.call[k].pc = "new"
    BY EndedFacts
<1>2. left \in SUBSET Calls /\ (c.handlers = {} => left = {})
    BY DEF Records
<1> HIDE DEF left, b
<1>3. /\ d \in Records /\ d.rec = c.rec /\ d.handlers = left /\ d.confirmed = c.confirmed
      /\ d.retryTimer = c.retryTimer /\ d.att = c.att /\ d.call = b.call
    BY <1>1, <1>2 DEF Records
<1> HIDE DEF d, mine
<1>4. Fail(c, ks) = IF mine # {} /\ left = {} /\ ~c.confirmed THEN Forget(d) ELSE d
    BY DEF Fail, d, left, mine, b
<1>5. CASE mine # {} /\ left = {} /\ ~c.confirmed
  <2>1. /\ Forget(d) \in Records
        /\ Forget(d).rec = None /\ Forget(d).handlers = {} /\ ~Forget(d).confirmed /\ ~Forget(d).retryTimer
        /\ Forget(d).att = d.att /\ Forget(d).call = d.call
      BY <1>3, ForgetFacts
  <2>2. c.confirmed \in BOOLEAN /\ Forget(d).confirmed \in BOOLEAN
      BY <2>1 DEF Records
  <2> QED
      BY <1>1, <1>3, <1>4, <1>5, <2>1, <2>2 DEF Clean
<1>6. CASE ~ (mine # {} /\ left = {} /\ ~c.confirmed)
    BY <1>1, <1>2, <1>3, <1>4, <1>6 DEF Clean
<1> QED BY <1>5, <1>6

(* The calls ks await an attempt, and no attempt that was sent is touched. *)
Joined(c, d, ks) ==
    /\ d \in Records
    /\ d.rec = c.rec /\ d.handlers = c.handlers /\ d.confirmed = c.confirmed
    /\ d.retryTimer = c.retryTimer
    /\ \A k \in Calls : d.call[k].pc = "new" => c.call[k].pc = "new" /\ k \notin ks
    /\ \A x \in Attempts :
         /\ d.att[x].rec \in {c.att[x].rec, c.rec, None}
         /\ c.att[x].st = "sent" => d.att[x].st = "sent"

(* ensureSubscribed starts an attempt in a free slot, or joins the one in  *)
(* flight.                                                                 *)
LEMMA EnsureFacts ==
    ASSUME NEW c \in Records, NEW ks \in SUBSET Calls, NEW resubscribe,
           NEW e \in 0..MaxEpochs,
           c.inflight # None \/ \E x \in Attempts : c.att[x].st = "free"
    PROVE  Joined(c, ensureSubscribed(c, ks, resubscribe, e), ks)
<1> DEFINE f == CHOOSE x \in Attempts : c.att[x].st = "free"
           a == IF c.inflight = None THEN f ELSE c.inflight
           n == [st |-> "auth", epoch |-> e, rec |-> c.rec]
           g == [k \in Calls |-> IF k \in ks THEN [pc |-> "wait", rec |-> c.rec, att |-> a] ELSE c.call[k]]
           d == [c EXCEPT !.inflight = a,
                          !.att[a] = IF c.inflight = None THEN n ELSE @,
                          !.call = g,
                          !.restoring = IF resubscribe THEN a ELSE @]
<1>1. c.inflight = None => f \in Attempts /\ c.att[f].st = "free"
    OBVIOUS
<1>2. a \in Attempts /\ (c.inflight = None => c.att[a].st = "free")
    BY <1>1 DEF Records
<1>3. n \in Attempt /\ n.rec = c.rec
    BY DEF Records, Attempt
<1>4. ensureSubscribed(c, ks, resubscribe, e) = d
    BY DEF ensureSubscribed
<1> HIDE DEF a, f, n
<1>5. g \in [Calls -> Call] /\ \A k \in Calls : g[k].pc = "new" => c.call[k].pc = "new" /\ k \notin ks
    BY <1>2 DEF Records, Call
<1> HIDE DEF g
<1>6. /\ d \in Records
      /\ d.rec = c.rec /\ d.handlers = c.handlers /\ d.confirmed = c.confirmed
      /\ d.retryTimer = c.retryTimer /\ d.call = g
      /\ d.att = [c.att EXCEPT ![a] = IF c.inflight = None THEN n ELSE @]
    BY <1>2, <1>3, <1>5 DEF Records
<1> HIDE DEF d
<1>7. ASSUME NEW x \in Attempts
      PROVE  /\ d.att[x].rec \in {c.att[x].rec, c.rec, None}
             /\ c.att[x].st = "sent" => d.att[x].st = "sent"
    BY <1>2, <1>3, <1>6 DEF Records
<1> QED BY <1>4, <1>5, <1>6, <1>7 DEF Joined

(* A transient failure is a Change.                                        *)
LEMMA TransientFacts ==
    ASSUME NEW c \in Records, Clean(c), NEW a \in Attempts
    PROVE  Change(c, RejectTransient(c, a), a)
<1> DEFINE s == Settled(c, a)
           d == Fail(s, Waiters(c, a))
<1>1. /\ s \in Records
      /\ s.rec = c.rec /\ s.handlers = c.handlers /\ s.confirmed = c.confirmed
      /\ s.retryTimer = c.retryTimer /\ s.call = c.call
      /\ s.att[a] = NoAttempt
      /\ \A x \in Attempts \ {a} : s.att[x] = c.att[x]
    BY SettledFacts
<1> HIDE DEF s
<1>2. Clean(s)
    BY <1>1 DEF Clean
<1>3. /\ d \in Records /\ Clean(d)
      /\ d.rec \in {s.rec, None} /\ d.confirmed = s.confirmed
      /\ d.att = s.att
      /\ \A k \in Calls : d.call[k].pc = "new" => s.call[k].pc = "new"
    BY <1>1, <1>2, FailFacts
<1>4. RejectTransient(c, a) = IF c.restoring = a /\ d.rec # None /\ d.rec = c.att[a].rec
                                THEN [d EXCEPT !.retryTimer = TRUE] ELSE d
    BY DEF RejectTransient, s
<1> HIDE DEF d
<1>5. Onward(c, d, a)
    BY <1>1, <1>3 DEF Onward, NoAttempt
<1>6. CASE c.restoring = a /\ d.rec # None /\ d.rec = c.att[a].rec
  <2> DEFINE t == [d EXCEPT !.retryTimer = TRUE]
  <2>1. t \in Records /\ t.rec = d.rec /\ t.confirmed = d.confirmed /\ t.att = d.att /\ t.call = d.call
      BY <1>3 DEF Records
  <2>2. RejectTransient(c, a) = t
      BY <1>4, <1>6
  <2> HIDE DEF t
  <2> QED BY <1>1, <1>3, <1>5, <1>6, <2>1, <2>2 DEF Change, Clean, Onward
<1>7. CASE ~ (c.restoring = a /\ d.rec # None /\ d.rec = c.att[a].rec)
    BY <1>1, <1>3, <1>4, <1>5, <1>7 DEF Change
<1> QED BY <1>6, <1>7

(* A definitive refusal is a Change.                                       *)
LEMMA DefinitiveFacts ==
    ASSUME NEW c \in Records, Clean(c), NEW a \in Attempts
    PROVE  Change(c, RejectDefinitive(c, a), a)
<1> DEFINE b == IF c.confirmed THEN c ELSE Forget(c)
           s == Settled(b, a)
           d == Fail(s, Waiters(b, a))
<1>1. /\ b \in Records /\ Clean(b) /\ b.rec \in {c.rec, None} /\ b.confirmed = c.confirmed
      /\ b.att = c.att /\ b.call = c.call
  <2>1. /\ Forget(c) \in Records
        /\ Forget(c).rec = None /\ Forget(c).handlers = {} /\ ~Forget(c).confirmed /\ ~Forget(c).retryTimer
        /\ Forget(c).att = c.att /\ Forget(c).call = c.call
      BY ForgetFacts
  <2>2. c.confirmed \in BOOLEAN /\ Forget(c).confirmed \in BOOLEAN
      BY <2>1 DEF Records
  <2> QED
      BY <2>1, <2>2 DEF Clean
<1> HIDE DEF b
<1>2. /\ s \in Records
      /\ s.rec = b.rec /\ s.handlers = b.handlers /\ s.confirmed = b.confirmed
      /\ s.retryTimer = b.retryTimer /\ s.call = b.call
      /\ s.att[a] = NoAttempt
      /\ \A x \in Attempts \ {a} : s.att[x] = b.att[x]
    BY <1>1, SettledFacts
<1> HIDE DEF s
<1>3. Clean(s)
    BY <1>1, <1>2 DEF Clean
<1>4. /\ d \in Records /\ Clean(d)
      /\ d.rec \in {s.rec, None} /\ d.confirmed = s.confirmed
      /\ d.att = s.att
      /\ \A k \in Calls : d.call[k].pc = "new" => s.call[k].pc = "new"
    BY <1>2, <1>3, FailFacts
<1>5. RejectDefinitive(c, a) = d
    BY DEF RejectDefinitive, s, b
<1> HIDE DEF d
<1>6. Onward(c, d, a)
    BY <1>1, <1>2, <1>4 DEF Onward, NoAttempt
<1> QED BY <1>1, <1>2, <1>4, <1>5, <1>6 DEF Change

-----------------------------------------------------------------------------
(* What the actions do to the channel's record.                            *)

(* The record as TypeOK describes it.                                      *)
LEMMA RecordType ==
    ASSUME TypeOK PROVE cl \in Records /\ Clean(cl)
BY DEF TypeOK, Records, Attempt, Call, Clean

(* subscribe() makes the record if there is none, and confirms nothing.    *)
LEMMA SubscribeEffect ==
    ASSUME TypeOK, NEW k \in Calls, subscribe(k)
    PROVE  /\ cl' \in Records /\ Clean(cl')
           /\ cl'.rec = IF cl.rec = None THEN k ELSE cl.rec
           /\ cl'.confirmed = cl.confirmed
           /\ cl'.call[k].pc # "new"
           /\ \A j \in Calls : cl'.call[j].pc = "new" => cl.call[j].pc = "new"
           /\ \A x \in Attempts :
                /\ cl'.att[x].rec \in {cl.att[x].rec, cl'.rec, None}
                /\ cl.att[x].st = "sent" => cl'.att[x].st = "sent"
<1>00. PICK handler \in {{}, {k}} :
          LET c == IF cl.rec = None THEN [cl EXCEPT !.rec = k] ELSE cl
              d == [c EXCEPT !.handlers = @ \union handler]
          IN  cl' = IF d.confirmed
                      THEN [d EXCEPT !.call[k] = [pc |-> "handle", rec |-> d.rec, att |-> None]]
                      ELSE ensureSubscribed(d, {k}, FALSE, epoch)
    BY DEF subscribe
<1> DEFINE c == IF cl.rec = None THEN [cl EXCEPT !.rec = k] ELSE cl
           d == [c EXCEPT !.handlers = @ \union handler]
           h == [d EXCEPT !.call[k] = [pc |-> "handle", rec |-> d.rec, att |-> None]]
           n == ensureSubscribed(d, {k}, FALSE, epoch)
<1>0. cl \in Records /\ Clean(cl) /\ epoch \in 0..MaxEpochs /\ k # None
    BY RecordType, ClientAssumption DEF TypeOK
<1>1. /\ c \in Records /\ c.rec = (IF cl.rec = None THEN k ELSE cl.rec)
      /\ c.handlers = cl.handlers /\ c.confirmed = cl.confirmed
      /\ c.inflight = cl.inflight /\ c.att = cl.att /\ c.call = cl.call
    BY <1>0 DEF Records
<1> HIDE DEF c
<1>2. /\ d \in Records /\ d.rec = c.rec /\ d.confirmed = c.confirmed
      /\ d.inflight = c.inflight /\ d.att = c.att /\ d.call = c.call
    BY <1>1 DEF Records
<1> HIDE DEF d
<1>3. cl' = (IF d.confirmed THEN h ELSE n) /\ \E x \in Attempts : cl.att[x].st = "free"
    BY <1>00 DEF subscribe, Spare, c, d
<1>4. d.rec # None
    BY <1>0, <1>1, <1>2
<1>5. CASE d.confirmed
  <2>1. [pc |-> "handle", rec |-> d.rec, att |-> None] \in Call
      BY <1>2 DEF Call, Records
  <2>2. /\ h \in Records /\ h.rec = d.rec /\ h.confirmed = d.confirmed /\ h.att = d.att
        /\ h.call = [d.call EXCEPT ![k] = [pc |-> "handle", rec |-> d.rec, att |-> None]]
      BY <1>2, <2>1 DEF Records
  <2>3. d.call \in [Calls -> Call]
      BY <1>2 DEF Records
  <2> HIDE DEF h
  <2>4. h.call[k].pc # "new" /\ \A j \in Calls : h.call[j].pc = "new" => d.call[j].pc = "new"
      BY <2>2, <2>3
  <2>5. cl' = h
      BY <1>3, <1>5
  <2>6. /\ h.rec = (IF cl.rec = None THEN k ELSE cl.rec) /\ h.rec # None
        /\ h.confirmed = cl.confirmed /\ h.att = cl.att /\ d.call = cl.call
      BY <1>1, <1>2, <1>4, <2>2
  <2> QED BY <2>2, <2>4, <2>5, <2>6 DEF Clean
<1>6. CASE ~d.confirmed
  <2>1. {k} \in SUBSET Calls /\ \E x \in Attempts : d.att[x].st = "free"
      BY <1>1, <1>2, <1>3
  <2>2. Joined(d, n, {k})
      BY <1>0, <1>2, <2>1, EnsureFacts
  <2> HIDE DEF n
  <2> QED BY <1>1, <1>2, <1>3, <1>4, <1>6, <2>2 DEF Clean, Joined
<1> QED BY <1>5, <1>6

(* The last handler takes the record with it; another leaves it confirmed  *)
(* or not, as it was.                                                      *)
LEMMA UnsubscribeEffect ==
    ASSUME TypeOK, NEW k \in Calls, unsubscribe(k)
    PROVE  /\ cl' \in Records /\ Clean(cl')
           /\ cl'.rec \in {cl.rec, None}
           /\ cl'.att = cl.att
           /\ \A j \in Calls : cl'.call[j].pc = "new" => cl.call[j].pc = "new"
           /\ \/ /\ cl'.rec = None
                 /\ IF state = "connected"
                      THEN /\ pending' = Append(pending, [kind |-> "unsubscribe", att |-> None])
                           /\ up' = Append(up, [type |-> "unsubscribe", epoch |-> epoch, rec |-> None])
                      ELSE UNCHANGED <<pending, up>>
              \/ cl'.rec = cl.rec /\ cl'.confirmed = cl.confirmed /\ UNCHANGED <<pending, up>>
<1> DEFINE c == [cl EXCEPT !.call[k].pc = "done"]
           d == [c EXCEPT !.handlers = @ \ {k}]
           last == cl.rec = cl.call[k].rec /\ d.handlers = {}
<1>0. cl \in Records /\ Clean(cl)
    BY RecordType
<1>1. cl.call \in [Calls -> Call]
    BY <1>0 DEF Records
<1>2. [cl.call EXCEPT ![k].pc = "done"] \in [Calls -> Call]
    BY <1>1 DEF Call
<1>3. /\ c \in Records /\ c.rec = cl.rec /\ c.handlers = cl.handlers /\ c.confirmed = cl.confirmed
      /\ c.retryTimer = cl.retryTimer /\ c.att = cl.att
      /\ c.call = [cl.call EXCEPT ![k].pc = "done"]
    BY <1>0, <1>2 DEF Records
<1>4. \A j \in Calls : c.call[j].pc = "new" => cl.call[j].pc = "new"
    BY <1>1, <1>3 DEF Call
<1> HIDE DEF c
<1>5. /\ d \in Records /\ d.rec = cl.rec /\ d.confirmed = cl.confirmed
      /\ d.retryTimer = cl.retryTimer /\ d.att = cl.att /\ d.call = c.call
      /\ (cl.handlers = {} => d.handlers = {})
    BY <1>3 DEF Records
<1>6. /\ cl' = IF cl.rec # cl.call[k].rec THEN c ELSE IF last THEN Forget(d) ELSE d
      /\ IF last /\ state = "connected"
           THEN /\ pending' = Append(pending, [kind |-> "unsubscribe", att |-> None])
                /\ up' = Append(up, [type |-> "unsubscribe", epoch |-> epoch, rec |-> None])
           ELSE UNCHANGED <<pending, up>>
    BY DEF unsubscribe, c
<1> HIDE DEF d
<1>7. /\ Forget(d) \in Records
      /\ Forget(d).rec = None /\ Forget(d).handlers = {} /\ ~Forget(d).confirmed /\ ~Forget(d).retryTimer
      /\ Forget(d).att = d.att /\ Forget(d).call = d.call
    BY <1>5, ForgetFacts
<1>8. CASE cl.rec # cl.call[k].rec
    BY <1>0, <1>3, <1>4, <1>6, <1>8 DEF Clean
<1>9. CASE cl.rec = cl.call[k].rec /\ last
    BY <1>4, <1>5, <1>6, <1>7, <1>9 DEF Clean
<1>10. CASE cl.rec = cl.call[k].rec /\ ~last
    BY <1>0, <1>4, <1>5, <1>6, <1>10 DEF Clean
<1> QED BY <1>8, <1>9, <1>10

(* Attempts that were sent are over.                                       *)
LEMMA UnsentFacts ==
    ASSUME NEW f \in [Attempts -> Attempt], NEW S
    PROVE  LET g == [a \in Attempts |-> IF a \in S THEN NoAttempt ELSE f[a]] IN
           g \in [Attempts -> Attempt] /\ \A x \in Attempts : g[x].rec \in {f[x].rec, None}
<1> NoAttempt \in Attempt /\ NoAttempt.rec = None
    BY ClientAssumption DEF Attempt, NoAttempt
<1> QED OBVIOUS

(* close() forgets the record.                                             *)
LEMMA CloseEffect ==
    ASSUME TypeOK, close
    PROVE  /\ cl' \in Records /\ Clean(cl') /\ cl'.rec = None
           /\ \A j \in Calls : cl'.call[j].pc = "new" => cl.call[j].pc = "new"
           /\ \A x \in Attempts : cl'.att[x].rec \in {cl.att[x].rec, None}
<1> DEFINE sent == {a \in Attempts : cl.att[a].st = "sent"}
           d == Fail(cl, {k \in Calls : \E a \in sent : k \in Waiters(cl, a)})
           e == Forget(d)
           g == [a \in Attempts |-> IF a \in sent THEN NoAttempt ELSE e.att[a]]
           z == [e EXCEPT !.restoring = None, !.att = g]
<1>0. cl \in Records /\ Clean(cl)
    BY RecordType
<1>1. /\ d \in Records /\ d.att = cl.att
      /\ \A k \in Calls : d.call[k].pc = "new" => cl.call[k].pc = "new"
    BY <1>0, FailFacts
<1>2. cl' = z
    BY DEF close, Closed
<1> HIDE DEF d, sent
<1>3. /\ e \in Records /\ e.rec = None /\ e.handlers = {} /\ ~e.confirmed /\ ~e.retryTimer
      /\ e.att = d.att /\ e.call = d.call
    BY <1>1, ForgetFacts
<1> HIDE DEF e
<1>4. e.att \in [Attempts -> Attempt]
    BY <1>3 DEF Records
<1>5. g \in [Attempts -> Attempt] /\ \A x \in Attempts : g[x].rec \in {e.att[x].rec, None}
    BY <1>4, UnsentFacts
<1> HIDE DEF g
<1>6. /\ z \in Records /\ z.rec = e.rec /\ z.handlers = e.handlers /\ z.confirmed = e.confirmed
      /\ z.retryTimer = e.retryTimer /\ z.call = e.call /\ z.att = g
    BY <1>3, <1>5 DEF Records
<1> QED BY <1>1, <1>2, <1>3, <1>5, <1>6 DEF Clean

(* A drop unconfirms the record.                                           *)
LEMMA DropEffect ==
    ASSUME TypeOK, onDrop
    PROVE  /\ cl' \in Records /\ Clean(cl') /\ cl'.rec \in {cl.rec, None} /\ ~cl'.confirmed
           /\ \A j \in Calls : cl'.call[j].pc = "new" => cl.call[j].pc = "new"
           /\ \A x \in Attempts : cl'.att[x].rec \in {cl.att[x].rec, None}
<1> DEFINE sent == {a \in Attempts : cl.att[a].st = "sent"}
           d == [cl EXCEPT !.confirmed = FALSE, !.inflight = None, !.retryTimer = FALSE, !.restoring = None]
           e == Fail(d, {k \in Calls : \E a \in sent : k \in Waiters(cl, a)})
           g == [a \in Attempts |-> IF a \in sent THEN NoAttempt ELSE e.att[a]]
           z == [e EXCEPT !.att = g]
<1>0. cl \in Records /\ Clean(cl)
    BY RecordType
<1>1. /\ d \in Records /\ d.rec = cl.rec /\ d.handlers = cl.handlers /\ ~d.confirmed /\ ~d.retryTimer
      /\ d.att = cl.att /\ d.call = cl.call
    BY <1>0 DEF Records
<1>2. cl' = z
    BY DEF onDrop, Dropped
<1> HIDE DEF d, sent
<1>3. Clean(d)
    BY <1>0, <1>1 DEF Clean
<1>4. /\ e \in Records /\ Clean(e)
      /\ e.rec \in {d.rec, None} /\ e.confirmed = d.confirmed
      /\ e.att = d.att
      /\ \A k \in Calls : e.call[k].pc = "new" => d.call[k].pc = "new"
    BY <1>1, <1>3, FailFacts
<1> HIDE DEF e
<1>5. e.att \in [Attempts -> Attempt]
    BY <1>4 DEF Records
<1>6. g \in [Attempts -> Attempt] /\ \A x \in Attempts : g[x].rec \in {e.att[x].rec, None}
    BY <1>5, UnsentFacts
<1> HIDE DEF g
<1>7. /\ z \in Records /\ z.rec = e.rec /\ z.handlers = e.handlers /\ z.confirmed = e.confirmed
      /\ z.retryTimer = e.retryTimer /\ z.call = e.call /\ z.att = g
    BY <1>4, <1>6 DEF Records
<1> QED BY <1>1, <1>2, <1>4, <1>6, <1>7 DEF Clean

(* Resubscribing, at once or when the retry fires, is a Change.            *)
LEMMA ResubscribeFacts ==
    ASSUME NEW c \in Records, Clean(c), NEW ks \in SUBSET Calls, NEW resubscribe,
           NEW e \in 0..MaxEpochs,
           c.inflight # None \/ \E x \in Attempts : c.att[x].st = "free",
           c.rec # None, NEW a
    PROVE  Change(c, ensureSubscribed(c, ks, resubscribe, e), a)
<1> DEFINE d == ensureSubscribed(c, ks, resubscribe, e)
<1>1. Joined(c, d, ks)
    BY EnsureFacts
<1> HIDE DEF d
<1> QED BY <1>1 DEF Change, Onward, Clean, Joined, d

(* Nothing is a Change.                                                    *)
LEMMA NoChange ==
    ASSUME NEW c \in Records, Clean(c), NEW a
    PROVE  Change(c, c, a)
BY DEF Change, Onward

(* onConnected resubscribes.                                               *)
LEMMA ConnectedEffect ==
    ASSUME TypeOK, WireInv, onConnected
    PROVE  Change(cl, cl', None)
<1>0. cl \in Records /\ Clean(cl) /\ epoch + 1 \in 0..MaxEpochs
  <2> USE RecordType, ClientAssumption
  <2>1. epoch < MaxEpochs
      BY DEF WireInv, onConnected
  <2> QED BY <2>1 DEF TypeOK
<1>1. \E x \in Attempts : cl.att[x].st = "free"
    BY DEF onConnected, Spare
<1>2. CASE cl.rec = None
    BY <1>0, <1>2, NoChange DEF onConnected
<1>3. CASE cl.rec # None
  <2>1. Change(cl, ensureSubscribed(cl, {}, TRUE, epoch + 1), None)
      BY <1>0, <1>1, <1>3, ResubscribeFacts
  <2> QED BY <1>3, <2>1 DEF onConnected
<1> QED BY <1>2, <1>3

(* The retry resubscribes.                                                 *)
LEMMA RetryEffect ==
    ASSUME TypeOK, RetryFires
    PROVE  Change(cl, cl', None)
<1> DEFINE c == [cl EXCEPT !.retryTimer = FALSE]
           d == ensureSubscribed(c, {}, TRUE, epoch)
<1>0. cl \in Records /\ Clean(cl) /\ epoch \in 0..MaxEpochs /\ cl.rec # None
    BY RecordType DEF TypeOK, RetryFires
<1>1. /\ c \in Records /\ c.rec = cl.rec /\ c.handlers = cl.handlers /\ c.confirmed = cl.confirmed
      /\ c.att = cl.att /\ c.call = cl.call
    BY <1>0 DEF Records
<1>2. cl' = (IF c.confirmed THEN c ELSE d) /\ \E x \in Attempts : cl.att[x].st = "free"
    BY DEF RetryFires, Spare
<1> HIDE DEF c
<1>3. Clean(c) /\ c.rec # None
    BY <1>0, <1>1 DEF Clean
<1>4. Change(c, d, None) /\ Change(c, c, None)
    BY <1>0, <1>1, <1>2, <1>3, ResubscribeFacts, NoChange
<1> HIDE DEF d
<1>5. Change(c, cl', None)
    BY <1>2, <1>4
<1> QED BY <1>1, <1>5 DEF Change, Onward

(* A token in time marks the attempt as sent.                              *)
LEMMA AuthorizedEffect ==
    ASSUME TypeOK, NEW a \in Attempts, Authorized(a)
    PROVE  /\ Change(cl, cl', a)
           /\ cl'.rec = cl.rec
           /\ cl'.att[a].st = "sent"
<1> DEFINE d == [cl EXCEPT !.att[a].st = "sent"]
<1>0. cl \in Records /\ Clean(cl)
    BY RecordType
<1>1. cl.att \in [Attempts -> Attempt]
    BY <1>0 DEF Records
<1>2. [cl.att EXCEPT ![a].st = "sent"] \in [Attempts -> Attempt]
    BY <1>1 DEF Attempt
<1>3. /\ d \in Records /\ d.rec = cl.rec /\ d.handlers = cl.handlers /\ d.confirmed = cl.confirmed
      /\ d.retryTimer = cl.retryTimer /\ d.call = cl.call
      /\ d.att = [cl.att EXCEPT ![a].st = "sent"]
    BY <1>0, <1>2 DEF Records
<1>4. cl' = d
    BY DEF Authorized
<1> HIDE DEF d
<1>5. /\ d.att[a].st = "sent"
      /\ \A x \in Attempts : d.att[x].rec = cl.att[x].rec /\ (x # a => d.att[x] = cl.att[x])
    BY <1>1, <1>3 DEF Attempt
<1> QED BY <1>0, <1>3, <1>4, <1>5 DEF Change, Onward, Clean

(* authorize() may throw.                                                  *)
LEMMA ThrowsEffect ==
    ASSUME TypeOK, NEW a \in Attempts, AuthorizeThrows(a)
    PROVE  Change(cl, cl', a)
BY RecordType, TransientFacts DEF AuthorizeThrows

(* A token too late: its callers adopt another attempt, or fail.           *)
LEMMA LateEffect ==
    ASSUME TypeOK, NEW a \in Attempts, AuthorizedTooLate(a)
    PROVE  Change(cl, cl', a)
<1> DEFINE c == Settled(cl, a)
           ks == Waiters(cl, a)
           adopt == state = "connected" /\ cl.rec # None /\ cl.rec = cl.att[a].rec
<1>0. cl \in Records /\ Clean(cl) /\ epoch \in 0..MaxEpochs
    BY RecordType DEF TypeOK
<1>1. /\ c \in Records
      /\ c.rec = cl.rec /\ c.handlers = cl.handlers /\ c.confirmed = cl.confirmed
      /\ c.retryTimer = cl.retryTimer /\ c.call = cl.call
      /\ c.att[a] = NoAttempt
      /\ \A x \in Attempts \ {a} : c.att[x] = cl.att[x]
    BY <1>0, SettledFacts
<1>2. ks \in SUBSET Calls
    BY DEF Waiters
<1>3. cl' = IF ~adopt THEN Fail(c, ks)
            ELSE IF cl.confirmed THEN Ended(c, ks, "handle")
            ELSE IF ks = {} THEN c ELSE ensureSubscribed(c, ks, FALSE, epoch)
    BY DEF AuthorizedTooLate
<1> HIDE DEF c, ks
<1>4. Clean(c) /\ \E x \in Attempts : c.att[x].st = "free"
    BY <1>0, <1>1 DEF Clean, NoAttempt
<1>5. Change(c, c, a) /\ Change(c, Fail(c, ks), a)
  <2>1. /\ Fail(c, ks) \in Records /\ Clean(Fail(c, ks))
        /\ Fail(c, ks).rec \in {c.rec, None} /\ Fail(c, ks).confirmed = c.confirmed
        /\ Fail(c, ks).att = c.att
        /\ \A k \in Calls : Fail(c, ks).call[k].pc = "new" => c.call[k].pc = "new"
      BY <1>1, <1>4, FailFacts
  <2> QED BY <1>1, <1>4, <2>1, NoChange DEF Change, Onward
<1>6. Change(c, Ended(c, ks, "handle"), a)
  <2> DEFINE d == Ended(c, ks, "handle")
  <2>1. /\ d \in Records
        /\ d.rec = c.rec /\ d.handlers = c.handlers /\ d.confirmed = c.confirmed
        /\ d.inflight = c.inflight /\ d.retryTimer = c.retryTimer
        /\ d.restoring = c.restoring /\ d.att = c.att
        /\ \A k \in Calls : d.call[k].pc = "new" => c.call[k].pc = "new"
      BY <1>1, EndedFacts
  <2> HIDE DEF d
  <2> QED BY <1>4, <2>1 DEF Change, Onward, Clean, d
<1>7. adopt => Change(c, ensureSubscribed(c, ks, FALSE, epoch), a)
    BY <1>0, <1>1, <1>2, <1>4, ResubscribeFacts
<1>8. Change(c, cl', a)
    BY <1>3, <1>5, <1>6, <1>7
<1> QED BY <1>1, <1>8 DEF Change, Onward, NoAttempt

(* An operation that times out, and one that is refused.                   *)
LEMMA TimeoutEffect ==
    ASSUME TypeOK, WireInv, PendingInv, AckTimeout
    PROVE  /\ pending[1].kind = "subscribe" => Change(cl, cl', pending[1].att)
           /\ pending[1].kind # "subscribe" => cl' = cl
<1>1. pending # <<>> /\ pending \in Seq(Op) /\ Head(pending) = pending[1] /\ 1 \in DOMAIN pending
    BY TailFacts DEF AckTimeout, WireInv
<1>2. CASE pending[1].kind = "subscribe"
  <2>1. pending[1].att \in Attempts
      BY <1>1, <1>2 DEF PendingInv
  <2>2. cl' = RejectTransient(cl, pending[1].att)
      BY <1>1, <1>2 DEF AckTimeout
  <2> QED BY <1>2, <2>1, <2>2, RecordType, TransientFacts
<1>3. CASE pending[1].kind # "subscribe"
    BY <1>1, <1>3 DEF AckTimeout
<1> QED BY <1>2, <1>3

(* What Pending and Oldest pick.                                           *)
LEMMA PendingFacts ==
    ASSUME WireInv, NEW kind, Pending(kind) # {}
    PROVE  /\ Oldest(Pending(kind)) \in DOMAIN pending
           /\ pending[Oldest(Pending(kind))].kind = kind
<1>1. Pending(kind) \in SUBSET Nat
    BY LenProperties DEF WireInv, Pending
<1>2. Oldest(Pending(kind)) \in Pending(kind)
    BY <1>1, OldestFacts
<1> QED BY <1>2 DEF Pending

(* A refusal ends the oldest subscribe, if there is one.                   *)
LEMMA ErrorEffect ==
    ASSUME TypeOK, WireInv, PendingInv, onErrorFrame
    PROVE  \/ UNCHANGED <<pending, cl>>
           \/ \E i \in DOMAIN pending :
                /\ pending[i].kind = "subscribe"
                /\ pending' = RemoveAt(pending, i)
                /\ Change(cl, cl', pending[i].att)
<1> DEFINE i == Oldest(Pending("subscribe"))
<1>1. CASE Pending("subscribe") = {}
    BY <1>1 DEF onErrorFrame
<1>2. CASE Pending("subscribe") # {}
  <2>1. i \in DOMAIN pending /\ pending[i].kind = "subscribe"
      BY <1>2, PendingFacts
  <2>2. /\ pending' = RemoveAt(pending, i)
        /\ cl' = IF Head(down).type = "refused" THEN RejectDefinitive(cl, pending[i].att)
                                                ELSE RejectTransient(cl, pending[i].att)
      BY <1>2 DEF onErrorFrame
  <2> HIDE DEF i
  <2>3. pending[i].att \in Attempts
      BY <2>1 DEF PendingInv
  <2>4. /\ Change(cl, RejectDefinitive(cl, pending[i].att), pending[i].att)
        /\ Change(cl, RejectTransient(cl, pending[i].att), pending[i].att)
      BY <2>3, RecordType, TransientFacts, DefinitiveFacts
  <2>5. Change(cl, cl', pending[i].att)
      BY <2>2, <2>4
  <2> QED BY <2>1, <2>2, <2>5
<1> QED BY <1>1, <1>2

(* An ack confirms the record, if there is one, and ends the oldest        *)
(* subscribe.                                                              *)
LEMMA SubscribedEffect ==
    ASSUME TypeOK, WireInv, PendingInv, onSubscribed
    PROVE  /\ cl' \in Records /\ Clean(cl')
           /\ cl'.rec = cl.rec
           /\ cl'.confirmed = (cl.rec # None)
           /\ \/ /\ pending' = pending
                 /\ Onward(cl, cl', None)
                 /\ cl.rec = None =>
                      up' = Append(up, [type |-> "unsubscribe", epoch |-> epoch, rec |-> None])
              \/ \E i \in DOMAIN pending :
                   /\ pending[i].kind = "subscribe"
                   /\ pending' = RemoveAt(pending, i)
                   /\ Onward(cl, cl', pending[i].att)
                   /\ cl.rec = None =>
                        \/ up' = Append(up, [type |-> "unsubscribe", epoch |-> epoch, rec |-> None])
                        \/ up' = up /\ Pending("unsubscribe") # {}
           /\ cl.rec # None => up' = up
<1> DEFINE i == Oldest(Pending("subscribe"))
           found == Pending("subscribe") # {}
           c == IF cl.rec = None THEN cl ELSE [cl EXCEPT !.confirmed = TRUE]
<1>0. cl \in Records /\ Clean(cl) /\ cl.confirmed \in BOOLEAN
    BY RecordType DEF Records
<1>1. /\ c \in Records /\ c.rec = cl.rec /\ c.handlers = cl.handlers /\ c.confirmed = (cl.rec # None)
      /\ c.retryTimer = cl.retryTimer /\ c.att = cl.att /\ c.call = cl.call
    BY <1>0 DEF Records, Clean
<1>2. /\ pending' = IF found THEN RemoveAt(pending, i) ELSE pending
      /\ cl' = IF found THEN Resolve(c, pending[i].att) ELSE c
      /\ IF cl.rec = None
           THEN Undo(found /\ \E j \in Pending("unsubscribe") : j > i)
           ELSE UNCHANGED up
    BY DEF onSubscribed
<1> HIDE DEF c
<1>3. Clean(c)
    BY <1>0, <1>1 DEF Clean
<1>4. CASE ~found
    BY <1>1, <1>2, <1>3, <1>4 DEF Undo, Onward
<1>5. CASE found
  <2>1. i \in DOMAIN pending /\ pending[i].kind = "subscribe"
      BY <1>5, PendingFacts
  <2> HIDE DEF i
  <2>2. pending[i].att \in Attempts
      BY <2>1 DEF PendingInv
  <2> DEFINE a == pending[i].att
             s == Settled(c, a)
             d == Ended(s, Waiters(c, a), "handle")
  <2>3. cl' = d
      BY <1>2, <1>5 DEF Resolve
  <2>4. a \in Attempts
      BY <2>2
  <2> HIDE DEF a
  <2>5. /\ s \in Records
        /\ s.rec = c.rec /\ s.handlers = c.handlers /\ s.confirmed = c.confirmed
        /\ s.retryTimer = c.retryTimer /\ s.call = c.call
        /\ s.att[a] = NoAttempt
        /\ \A x \in Attempts \ {a} : s.att[x] = c.att[x]
      BY <1>1, <2>4, SettledFacts
  <2> HIDE DEF s
  <2>6. /\ d \in Records
        /\ d.rec = s.rec /\ d.handlers = s.handlers /\ d.confirmed = s.confirmed
        /\ d.inflight = s.inflight /\ d.retryTimer = s.retryTimer
        /\ d.restoring = s.restoring /\ d.att = s.att
        /\ \A k \in Calls : d.call[k].pc = "new" => s.call[k].pc = "new"
      BY <2>5, EndedFacts
  <2> HIDE DEF d
  <2>7. Onward(cl, d, a) /\ Clean(d)
      BY <1>1, <1>3, <2>5, <2>6 DEF Onward, Clean, NoAttempt
  <2>8. cl.rec = None =>
          \/ up' = Append(up, [type |-> "unsubscribe", epoch |-> epoch, rec |-> None])
          \/ up' = up /\ Pending("unsubscribe") # {}
      BY <1>2 DEF Undo
  <2>9. pending' = RemoveAt(pending, i) /\ (cl.rec # None => up' = up)
      BY <1>2, <1>5
  <2>10. Onward(cl, cl', pending[i].att)
      BY <2>3, <2>7 DEF a
  <2>11. cl' \in Records /\ Clean(cl') /\ cl'.rec = cl.rec /\ cl'.confirmed = (cl.rec # None)
      BY <1>1, <2>3, <2>5, <2>6, <2>7
  <2> QED BY <2>1, <2>8, <2>9, <2>10, <2>11
<1> QED BY <1>4, <1>5

-----------------------------------------------------------------------------
(* Every step keeps the invariant, one conjunct after the other.           *)

(* The server takes the first frame and answers, or its answer is lost.    *)
Server == ServerAccepts \/ ServerRefuses \/ ServerUnsubscribes

(* What the server's handlers have in common.                              *)
LEMMA ServerEffect ==
    ASSUME WireInv, Server
    PROVE  /\ up # <<>> /\ up' = Tail(up) /\ state = "connected"
           /\ UNCHANGED <<state, epoch, cl, pending>>
           /\ held' \in {held, TRUE, FALSE} /\ odd \subseteq odd' /\ odd' \subseteq odd \union {"kept", "lost"}
           /\ lost' = lost \/ (lost < MaxLost /\ lost' = lost + 1)
           /\ \/ down' = down /\ "lost" \in odd'
              \/ \E t \in AnswerTypes :
                   /\ down' = Append(down, [type |-> t, rec |-> up[1].rec])
                   /\ t \in {"unsubscribed", "unsubscribe refused"} <=> up[1].type = "unsubscribe"
                   /\ t = "unsubscribe refused" => "kept" \in odd'
                   /\ t = "subscribed" => held' = TRUE
                   /\ t \in {"limited", "refused"} => held' = held
                   /\ t = "unsubscribed" => held' = FALSE
           /\ up[1].type = "subscribe" => held' \in {held, TRUE}
<1>0. up # <<>> => Head(up) = up[1] /\ state = "connected"
    BY TailFacts DEF WireInv
<1>1. CASE ServerAccepts
    BY <1>0, <1>1 DEF ServerAccepts, Answer, AnswerTypes
<1>2. CASE ServerRefuses
    BY <1>0, <1>2 DEF ServerRefuses, Answer, AnswerTypes
<1>3. CASE ServerUnsubscribes
    BY <1>0, <1>3 DEF ServerUnsubscribes, Answer, AnswerTypes
<1> QED BY <1>1, <1>2, <1>3 DEF Server

(* The subscribes that remain pending have attempts that remain sent.      *)
LEMMA PendingShrinks ==
    ASSUME PendingInv, pending \in Seq(Op), NEW p \in DOMAIN pending, NEW a,
           pending[p].kind = "subscribe" => a = pending[p].att /\ Onward(cl, cl', a),
           pending[p].kind # "subscribe" => cl' = cl,
           pending' = RemoveAt(pending, p)
    PROVE  PendingInv'
<1>1. /\ Len(pending) \in Nat /\ DOMAIN pending = 1 .. Len(pending)
      /\ pending' \in Seq(Op) /\ DOMAIN pending' = 1 .. Len(pending) - 1
      /\ \A i \in 1 .. Len(pending) - 1 : pending'[i] = IF i < p THEN pending[i] ELSE pending[i + 1]
  <2>1. /\ pending' \in Seq(Op) /\ Len(pending') = Len(pending) - 1
        /\ \A i \in 1 .. Len(pending) - 1 : pending'[i] = IF i < p THEN pending[i] ELSE pending[i + 1]
      BY RemoveAtFacts
  <2>2. Len(pending) \in Nat /\ DOMAIN pending = 1 .. Len(pending)
      BY LenProperties
  <2>3. DOMAIN pending' = 1 .. Len(pending')
      BY <2>1, LenProperties
  <2> QED BY <2>1, <2>2, <2>3
<1> DEFINE o(i) == IF i < p THEN i ELSE i + 1
<1>2. \A i \in DOMAIN pending' : o(i) \in DOMAIN pending /\ o(i) # p /\ pending'[i] = pending[o(i)]
    BY <1>1
<1>3. \A i, j \in DOMAIN pending' : o(i) = o(j) => i = j
    BY <1>1
<1> HIDE DEF o
<1>4. ASSUME NEW i \in DOMAIN pending', pending'[i].kind = "subscribe"
      PROVE  pending'[i].att \in Attempts /\ cl'.att[pending'[i].att].st = "sent"
  <2>1. /\ o(i) \in DOMAIN pending /\ o(i) # p /\ pending'[i] = pending[o(i)]
        /\ pending[o(i)].att \in Attempts /\ cl.att[pending[o(i)].att].st = "sent"
      BY <1>2, <1>4 DEF PendingInv
  <2>2. pending[p].kind = "subscribe" => pending[o(i)].att # a
      BY <1>4, <2>1 DEF PendingInv
  <2> QED BY <2>1, <2>2 DEF Onward
<1>5. ASSUME NEW i \in DOMAIN pending', NEW j \in DOMAIN pending',
             pending'[i].kind = "subscribe", pending'[j].kind = "subscribe",
             pending'[i].att = pending'[j].att
      PROVE  i = j
  <2>1. o(i) = o(j)
      BY <1>2, <1>5 DEF PendingInv
  <2> QED BY <1>3, <2>1
<1> QED BY <1>4, <1>5 DEF PendingInv

(* Likewise when nothing leaves.                                           *)
LEMMA PendingStays ==
    ASSUME PendingInv, pending' = pending, NEW a, Onward(cl, cl', a),
           a \in Attempts => cl.att[a].st # "sent"
    PROVE  PendingInv'
BY DEF PendingInv, Onward

(* PendingInv: an attempt is over when its operation leaves #pending, and  *)
(* only then.                                                              *)
LEMMA PendingStep ==
    ASSUME IInv, [Next]_vars
    PROVE  PendingInv'
<1>0. /\ TypeOK /\ WireInv /\ PendingInv /\ pending \in Seq(Op) /\ None \notin Attempts
      /\ Len(pending) \in Nat /\ DOMAIN pending = 1 .. Len(pending)
    BY LenProperties, ClientAssumption DEF IInv, WireInv
<1>1. ASSUME NEW k \in Calls, subscribe(k) PROVE PendingInv'
  <2>1. \A x \in Attempts : cl.att[x].st = "sent" => cl'.att[x].st = "sent"
      BY <1>0, <1>1, SubscribeEffect
  <2>2. pending' = pending
      BY <1>1 DEF subscribe
  <2> QED BY <1>0, <2>1, <2>2 DEF PendingInv
<1>2. ASSUME NEW k \in Calls, unsubscribe(k) PROVE PendingInv'
  <2> DEFINE m == [kind |-> "unsubscribe", att |-> None]
  <2>1. cl'.att = cl.att /\ (pending' = pending \/ pending' = Append(pending, m))
      BY <1>0, <1>2, UnsubscribeEffect
  <2>2. m \in Op /\ m.kind # "subscribe"
      BY DEF Op
  <2> HIDE DEF m
  <2>3. /\ DOMAIN Append(pending, m) = 1 .. Len(pending) + 1
        /\ \A i \in DOMAIN pending : Append(pending, m)[i] = pending[i]
        /\ Append(pending, m)[Len(pending) + 1] = m
      BY <1>0, <2>2, AppendFacts
  <2> QED BY <1>0, <2>1, <2>2, <2>3 DEF PendingInv
<1>3. CASE close \/ onDrop
    BY <1>3 DEF close, onDrop, Disconnect, PendingInv
<1>4. CASE onConnected
  <2>1. Onward(cl, cl', None) /\ pending' = pending
      BY <1>0, <1>4, ConnectedEffect DEF Change, onConnected
  <2> QED BY <1>0, <2>1, PendingStays
<1>5. CASE RetryFires
  <2>1. Onward(cl, cl', None) /\ pending' = pending
      BY <1>0, <1>5, RetryEffect DEF Change, RetryFires
  <2> QED BY <1>0, <2>1, PendingStays
<1>6. ASSUME NEW a \in Attempts, Authorized(a) PROVE PendingInv'
  <2> DEFINE m == [kind |-> "subscribe", att |-> a]
  <2>1. Onward(cl, cl', a) /\ cl'.att[a].st = "sent"
      BY <1>0, <1>6, AuthorizedEffect DEF Change
  <2>2. pending' = Append(pending, m) /\ cl.att[a].st = "auth"
      BY <1>6 DEF Authorized
  <2>3. m \in Op /\ m.kind = "subscribe" /\ m.att = a
      BY DEF Op
  <2> HIDE DEF m
  <2>4. /\ DOMAIN pending' = 1 .. Len(pending) + 1
        /\ \A i \in DOMAIN pending : pending'[i] = pending[i]
        /\ pending'[Len(pending) + 1] = m
      BY <1>0, <2>2, <2>3, AppendFacts
  <2>5. \A i \in DOMAIN pending : pending[i].kind = "subscribe" =>
          pending[i].att \in Attempts \ {a} /\ cl'.att[pending[i].att].st = "sent"
      BY <1>0, <2>1, <2>2 DEF PendingInv, Onward
  <2>6. \A i \in DOMAIN pending' : i \in DOMAIN pending \/ i = Len(pending) + 1
      BY <1>0, <2>4
  <2> QED BY <1>0, <2>1, <2>3, <2>4, <2>5, <2>6 DEF PendingInv
<1>7. ASSUME NEW a \in Attempts, AuthorizeThrows(a) \/ AuthorizedTooLate(a) PROVE PendingInv'
  <2>1. Onward(cl, cl', a)
      BY <1>0, <1>7, ThrowsEffect, LateEffect DEF Change
  <2>2. pending' = pending /\ cl.att[a].st = "auth"
      BY <1>7 DEF AuthorizeThrows, AuthorizedTooLate
  <2> QED BY <1>0, <2>1, <2>2, PendingStays
<1>8. CASE AckTimeout
  <2>1. pending # <<>> /\ pending' = Tail(pending)
      BY <1>8 DEF AckTimeout
  <2>2. 1 \in DOMAIN pending
      BY <1>0, <2>1, TailFacts
  <2>3. pending' = RemoveAt(pending, 1)
      BY <1>0, <2>1, TailIsRemoveAt
  <2>4. /\ pending[1].kind = "subscribe" => Onward(cl, cl', pending[1].att)
        /\ pending[1].kind # "subscribe" => cl' = cl
      BY <1>0, <1>8, TimeoutEffect DEF Change
  <2> QED BY <1>0, <2>2, <2>3, <2>4, PendingShrinks
<1>9. CASE onSubscribed
  <2>1. \/ pending' = pending /\ Onward(cl, cl', None)
        \/ \E i \in DOMAIN pending :
             /\ pending[i].kind = "subscribe"
             /\ pending' = RemoveAt(pending, i)
             /\ Onward(cl, cl', pending[i].att)
      BY <1>0, <1>9, SubscribedEffect
  <2>2. CASE pending' = pending /\ Onward(cl, cl', None)
      BY <1>0, <2>2, PendingStays
  <2>3. ASSUME NEW i \in DOMAIN pending, pending[i].kind = "subscribe",
               pending' = RemoveAt(pending, i), Onward(cl, cl', pending[i].att)
        PROVE  PendingInv'
      BY <1>0, <2>3, PendingShrinks
  <2> QED BY <2>1, <2>2, <2>3
<1>10. CASE onUnsubscribed
  <2> DEFINE i == Oldest(Pending("unsubscribe"))
  <2>1. cl' = cl /\ pending' = IF Pending("unsubscribe") = {} THEN pending ELSE RemoveAt(pending, i)
      BY <1>10 DEF onUnsubscribed
  <2>2. CASE Pending("unsubscribe") = {}
      BY <1>0, <2>1, <2>2 DEF PendingInv
  <2>3. CASE Pending("unsubscribe") # {}
    <3>1. i \in DOMAIN pending /\ pending[i].kind = "unsubscribe"
        BY <1>0, <2>3, PendingFacts
    <3> HIDE DEF i
    <3> QED BY <1>0, <2>1, <2>3, <3>1, PendingShrinks
  <2> QED BY <2>2, <2>3
<1>11. CASE onErrorFrame
  <2>1. \/ UNCHANGED <<pending, cl>>
        \/ \E i \in DOMAIN pending :
             /\ pending[i].kind = "subscribe"
             /\ pending' = RemoveAt(pending, i)
             /\ Onward(cl, cl', pending[i].att)
      BY <1>0, <1>11, ErrorEffect DEF Change
  <2>2. CASE UNCHANGED <<pending, cl>>
      BY <1>0, <2>2 DEF PendingInv
  <2>3. ASSUME NEW i \in DOMAIN pending, pending[i].kind = "subscribe",
               pending' = RemoveAt(pending, i), Onward(cl, cl', pending[i].att)
        PROVE  PendingInv'
      BY <1>0, <2>3, PendingShrinks
  <2> QED BY <2>1, <2>2, <2>3
<1>12. CASE Server
    BY <1>0, <1>12, ServerEffect DEF PendingInv
<1>13. CASE UNCHANGED vars
    BY <1>0, <1>13 DEF vars, PendingInv
<1> QED
    BY <1>1, <1>2, <1>3, <1>4, <1>5, <1>6, <1>7, <1>8, <1>9, <1>10, <1>11, <1>12, <1>13
    DEF Next, Authorize, Receive, Server

(* WireInv: nothing of one connection is on the wire of another.           *)
LEMMA WireStep ==
    ASSUME IInv, [Next]_vars
    PROVE  WireInv'
<1>0. /\ TypeOK /\ WireInv /\ PendingInv
      /\ pending \in Seq(Op) /\ up \in Seq(Frame) /\ down \in Seq(Reply)
      /\ epoch \in 0..MaxEpochs
    BY DEF IInv, WireInv, TypeOK
<1> DEFINE u == [type |-> "unsubscribe", epoch |-> epoch, rec |-> None]
           Sound(q) == q \in Seq(Frame) /\ \A i \in DOMAIN q : q[i].epoch = epoch
           Kept == UNCHANGED <<state, epoch, held>> /\ up' = up
<1>1. Sound(up)
    BY <1>0 DEF WireInv
<1>2. ASSUME NEW m \in Frame, m.epoch = epoch PROVE Sound(Append(up, m))
  <2>1. /\ Len(up) \in Nat /\ DOMAIN up = 1 .. Len(up)
        /\ Append(up, m) \in Seq(Frame) /\ DOMAIN Append(up, m) = 1 .. Len(up) + 1
        /\ \A i \in DOMAIN up : Append(up, m)[i] = up[i]
        /\ Append(up, m)[Len(up) + 1] = m
      BY <1>0, AppendFacts
  <2> QED BY <1>1, <1>2, <2>1
<1>3. Sound(Append(up, u))
  <2>1. u \in Frame /\ u.epoch = epoch
      BY <1>0 DEF Frame
  <2> QED BY <1>2, <2>1
<1>4. up # <<>> => Sound(Tail(up))
    BY <1>0, <1>1, TailFacts
<1>5. ASSUME NEW p \in DOMAIN pending PROVE RemoveAt(pending, p) \in Seq(Op)
    BY <1>0, RemoveAtFacts
<1>6. down # <<>> => Tail(down) \in Seq(Reply) /\ state = "connected"
    BY <1>0, TailFacts DEF WireInv
<1>7. <<>> \in Seq(Op) /\ <<>> \in Seq(Frame) /\ <<>> \in Seq(Reply)
    BY EmptySeq
<1>8. pending # <<>> => Tail(pending) \in Seq(Op)
    BY <1>0, TailFacts
<1> HIDE DEF Sound, u
<1>10. ASSUME NEW k \in Calls, subscribe(k) PROVE WireInv'
    BY <1>0, <1>10 DEF subscribe, WireInv
<1>11. ASSUME NEW k \in Calls, unsubscribe(k) PROVE WireInv'
  <2> DEFINE m == [kind |-> "unsubscribe", att |-> None]
  <2>1. Append(pending, m) \in Seq(Op)
      BY <1>0, AppendFacts DEF Op
  <2>2. UNCHANGED <<state, epoch, down, held>>
      BY <1>11 DEF unsubscribe
  <2>3. \/ UNCHANGED <<pending, up>>
        \/ state = "connected" /\ pending' = Append(pending, m) /\ up' = Append(up, u)
      BY <1>0, <1>11, UnsubscribeEffect DEF u
  <2>4. CASE UNCHANGED <<pending, up>>
      BY <1>0, <2>2, <2>4 DEF WireInv
  <2>5. CASE state = "connected" /\ pending' = Append(pending, m) /\ up' = Append(up, u)
      BY <1>0, <1>3, <2>1, <2>2, <2>5 DEF WireInv, Sound
  <2> QED BY <2>3, <2>4, <2>5
<1>12. CASE close \/ onDrop
  <2>1. /\ pending' = <<>> /\ up' = <<>> /\ down' = <<>> /\ held' = FALSE
        /\ epoch' = epoch
        /\ \/ state' = "closed"
           \/ state' = "reconnecting" /\ epoch < MaxEpochs
      BY <1>12 DEF close, onDrop, Disconnect
  <2> QED BY <1>7, <2>1 DEF WireInv
<1>13. CASE onConnected
    BY <1>0, <1>13 DEF onConnected, WireInv
<1>14. CASE RetryFires
    BY <1>0, <1>14 DEF RetryFires, WireInv
<1>15. ASSUME NEW a \in Attempts, Authorized(a) PROVE WireInv'
  <2> DEFINE m == [kind |-> "subscribe", att |-> a]
             f == [type |-> "subscribe", epoch |-> cl.att[a].epoch, rec |-> cl.att[a].rec]
  <2>1. Append(pending, m) \in Seq(Op)
      BY <1>0, AppendFacts DEF Op
  <2>2. cl.att[a] \in Attempt
      BY <1>0, RecordType DEF Records
  <2>3. f \in Frame /\ f.epoch = cl.att[a].epoch
      BY <2>2 DEF Frame, Attempt
  <2>4. cl.att[a].epoch = epoch /\ state = "connected"
      BY <1>15 DEF Authorized, StillCurrent
  <2>5. /\ pending' = Append(pending, m) /\ up' = Append(up, f)
        /\ UNCHANGED <<state, epoch, down, held>>
      BY <1>15 DEF Authorized
  <2> HIDE DEF m, f
  <2>6. Sound(Append(up, f))
      BY <1>2, <2>3, <2>4
  <2> QED BY <1>0, <2>1, <2>4, <2>5, <2>6 DEF WireInv, Sound
<1>16. ASSUME NEW a \in Attempts, AuthorizeThrows(a) \/ AuthorizedTooLate(a) PROVE WireInv'
  <2>1. UNCHANGED <<state, epoch, pending, up, down, held>>
      BY <1>16 DEF AuthorizeThrows, AuthorizedTooLate
  <2> QED BY <1>0, <2>1 DEF WireInv
<1>17. CASE AckTimeout
    BY <1>0, <1>8, <1>17 DEF AckTimeout, WireInv
<1>18. CASE onSubscribed
  <2>1. pending' \in Seq(Op)
      BY <1>0, <1>5, <1>18, SubscribedEffect
  <2>2. up' = up \/ up' = Append(up, u)
      BY <1>0, <1>18, SubscribedEffect DEF u
  <2>3. Sound(up')
      BY <1>1, <1>3, <2>2
  <2>4. down' \in Seq(Reply) /\ state = "connected" /\ UNCHANGED <<state, epoch, held>>
      BY <1>6, <1>18 DEF onSubscribed
  <2> QED BY <1>0, <2>1, <2>3, <2>4 DEF WireInv, Sound
<1>19. CASE onUnsubscribed
  <2>1. pending' \in Seq(Op)
      BY <1>0, <1>5, <1>19, PendingFacts DEF onUnsubscribed
  <2>2. down' \in Seq(Reply) /\ state = "connected" /\ UNCHANGED <<state, epoch, held, up>>
      BY <1>6, <1>19 DEF onUnsubscribed
  <2> QED BY <1>0, <2>1, <2>2 DEF WireInv
<1>20. CASE onErrorFrame
  <2>1. pending' \in Seq(Op)
      BY <1>0, <1>5, <1>20, ErrorEffect
  <2>2. down' \in Seq(Reply) /\ state = "connected" /\ UNCHANGED <<state, epoch, held, up>>
      BY <1>6, <1>20 DEF onErrorFrame
  <2> QED BY <1>0, <2>1, <2>2 DEF WireInv
<1>21. CASE Server
  <2>1. /\ up # <<>> /\ up' = Tail(up) /\ state = "connected"
        /\ UNCHANGED <<state, epoch, pending>>
        /\ \/ down' = down
           \/ \E t \in AnswerTypes :
                down' = Append(down, [type |-> t, rec |-> up[1].rec])
      BY <1>0, <1>21, ServerEffect
  <2>2. ASSUME NEW t \in AnswerTypes
        PROVE  Append(down, [type |-> t, rec |-> up[1].rec]) \in Seq(Reply)
    <3>1. up[1] \in Frame
        BY <1>0, <2>1, TailFacts
    <3>2. [type |-> t, rec |-> up[1].rec] \in Reply
        BY <3>1 DEF Frame, Reply
    <3> QED BY <1>0, <3>2, AppendFacts
  <2>3. down' \in Seq(Reply)
      BY <1>0, <2>1, <2>2
  <2> QED BY <1>0, <1>4, <2>1, <2>3 DEF WireInv, Sound
<1>22. CASE UNCHANGED vars
    BY <1>0, <1>22 DEF vars, WireInv
<1> QED
    BY <1>10, <1>11, <1>12, <1>13, <1>14, <1>15, <1>16, <1>17, <1>18, <1>19, <1>20, <1>21, <1>22
    DEF Next, Authorize, Receive, Server

(* What every step does to the record: at most one that is new comes, and  *)
(* no call becomes new.                                                    *)
Evolves ==
    /\ cl' \in Records /\ Clean(cl')
    /\ \A k \in Calls : cl'.call[k].pc = "new" => cl.call[k].pc = "new" /\ (cl'.rec = k => cl.rec = k)
    /\ \A x \in Attempts : cl'.att[x].rec \in {cl.att[x].rec, cl.rec, cl'.rec, None}

(* Every step is such a step.                                              *)
LEMMA EvolvesStep ==
    ASSUME IInv, [Next]_vars
    PROVE  Evolves
<1>0. TypeOK /\ WireInv /\ PendingInv /\ cl \in Records /\ Clean(cl) /\ None \notin Calls
    BY RecordType, ClientAssumption DEF IInv
<1>1. ASSUME NEW k \in Calls, subscribe(k) PROVE Evolves
  <2>1. /\ cl' \in Records /\ Clean(cl')
        /\ cl'.rec = IF cl.rec = None THEN k ELSE cl.rec
        /\ cl'.call[k].pc # "new"
        /\ \A j \in Calls : cl'.call[j].pc = "new" => cl.call[j].pc = "new"
        /\ \A x \in Attempts : cl'.att[x].rec \in {cl.att[x].rec, cl'.rec, None}
      BY <1>0, <1>1, SubscribeEffect
  <2> QED BY <1>0, <2>1 DEF Evolves
<1>2. ASSUME NEW k \in Calls, unsubscribe(k) PROVE Evolves
    BY <1>0, <1>2, UnsubscribeEffect DEF Evolves
<1>3. CASE close
    BY <1>0, <1>3, CloseEffect DEF Evolves
<1>4. CASE onDrop
    BY <1>0, <1>4, DropEffect DEF Evolves
<1>5. ASSUME NEW a, Change(cl, cl', a) PROVE Evolves
    BY <1>0, <1>5 DEF Evolves, Change, Onward
<1>6. CASE cl' = cl
    BY <1>0, <1>6 DEF Evolves
<1>7. CASE onSubscribed
  <2>1. /\ cl' \in Records /\ Clean(cl') /\ cl'.rec = cl.rec
        /\ \E a : Onward(cl, cl', a)
      BY <1>0, <1>7, SubscribedEffect
  <2> QED BY <1>0, <2>1 DEF Evolves, Onward
<1>8. CASE onConnected
    BY <1>0, <1>5, <1>8, ConnectedEffect
<1>9. CASE RetryFires
    BY <1>0, <1>5, <1>9, RetryEffect
<1>10. ASSUME NEW a \in Attempts, Authorize(a) PROVE Evolves
    BY <1>0, <1>5, <1>10, AuthorizedEffect, ThrowsEffect, LateEffect DEF Authorize
<1>11. CASE AckTimeout
    BY <1>0, <1>5, <1>6, <1>11, TimeoutEffect
<1>12. CASE onErrorFrame
    BY <1>0, <1>5, <1>6, <1>12, ErrorEffect
<1>13. CASE onUnsubscribed
    BY <1>6, <1>13 DEF onUnsubscribed
<1>14. CASE Server
    BY <1>0, <1>6, <1>14, ServerEffect
<1>15. CASE UNCHANGED vars
    BY <1>6, <1>15 DEF vars
<1> QED
    BY <1>1, <1>2, <1>3, <1>4, <1>7, <1>8, <1>9, <1>10, <1>11, <1>12, <1>13, <1>14, <1>15
    DEF Next, Receive, Server

(* TypeOK: the rest of the state.                                          *)
LEMMA TypeStep ==
    ASSUME IInv, [Next]_vars
    PROVE  TypeOK'
<1>0. TypeOK /\ WireInv
    BY DEF IInv
<1>1. /\ state' \in {"connecting", "connected", "reconnecting", "closed"}
      /\ epoch' \in 0..MaxEpochs
      /\ held' \in BOOLEAN /\ lost' \in 0..MaxLost
      /\ odd' \subseteq {"mixed", "kept", "lost"}
  <2>0. /\ state \in {"connecting", "connected", "reconnecting", "closed"}
        /\ epoch \in 0..MaxEpochs
        /\ held \in BOOLEAN /\ lost \in 0..MaxLost
        /\ odd \subseteq {"mixed", "kept", "lost"}
        /\ state \in {"connecting", "reconnecting"} => epoch < MaxEpochs
      BY <1>0 DEF TypeOK, WireInv
  <2> USE <2>0
  <2>1. CASE \E k \in Calls : subscribe(k) \/ unsubscribe(k)
      BY <2>1 DEF subscribe, unsubscribe
  <2>2. CASE close \/ onDrop
      BY <2>2 DEF close, onDrop, Disconnect
  <2>3. CASE onConnected
      BY <2>3, ClientAssumption DEF onConnected
  <2>4. CASE RetryFires
      BY <2>4 DEF RetryFires
  <2>5. CASE \E a \in Attempts : Authorize(a)
      BY <2>5 DEF Authorize, Authorized, AuthorizeThrows, AuthorizedTooLate
  <2>6. CASE AckTimeout \/ onUnsubscribed \/ onErrorFrame
      BY <2>6 DEF AckTimeout, onUnsubscribed, onErrorFrame
  <2>7. CASE onSubscribed
      BY <2>7 DEF onSubscribed
  <2>8. CASE Server
    <3>1. /\ UNCHANGED <<state, epoch>>
          /\ held' \in {held, TRUE, FALSE} /\ odd' \subseteq odd \union {"kept", "lost"}
          /\ lost' = lost \/ (lost < MaxLost /\ lost' = lost + 1)
        BY <1>0, <2>8, ServerEffect
    <3>2. lost' \in 0..MaxLost
        BY <3>1, ClientAssumption
    <3> QED BY <3>1, <3>2
  <2>9. CASE UNCHANGED vars
      BY <2>9 DEF vars
  <2> QED BY <2>1, <2>2, <2>3, <2>4, <2>5, <2>6, <2>7, <2>8, <2>9 DEF Next, Receive, Server
<1>2. cl' \in Records /\ Clean(cl')
    BY EvolvesStep DEF Evolves
<1>3. PendingInv'
    BY PendingStep
<1> QED
    BY <1>1, <1>2, <1>3 DEF TypeOK, Records, Attempt, Call, Clean, PendingInv

(* FreshInv: a frame carries the record of an attempt, and that one's call *)
(* was made.                                                               *)
LEMMA FreshStep ==
    ASSUME IInv, [Next]_vars
    PROVE  FreshInv'
<1>0. /\ TypeOK /\ WireInv /\ PendingInv /\ FreshInv /\ None \notin Calls
      /\ up \in Seq(Frame) /\ down \in Seq(Reply)
      /\ Len(up) \in Nat /\ DOMAIN up = 1 .. Len(up)
      /\ Len(down) \in Nat /\ DOMAIN down = 1 .. Len(down)
    BY LenProperties, ClientAssumption DEF IInv, WireInv
<1> DEFINE Known == {None} \union {cl.att[a].rec : a \in Attempts} \union {up[i].rec : i \in DOMAIN up}
                      \union {down[i].rec : i \in DOMAIN down}
           FromKnown == /\ \A i \in DOMAIN up' : up'[i].rec \in Known
                        /\ \A i \in DOMAIN down' : down'[i].rec \in Known
<1>1. ASSUME FromKnown PROVE FreshInv'
  <2> SUFFICES ASSUME NEW k \in Calls, cl'.call[k].pc = "new" PROVE Unused(k)'
      BY DEF FreshInv
  <2>1. /\ cl.call[k].pc = "new" /\ cl'.rec # k
        /\ \A x \in Attempts : cl'.att[x].rec # k
    <3>1. Evolves
        BY EvolvesStep
    <3>2. cl.call[k].pc = "new" /\ (cl'.rec = k => cl.rec = k)
        BY <3>1 DEF Evolves
    <3>3. Unused(k) /\ k # None
        BY <1>0, <3>2 DEF FreshInv
    <3> QED BY <3>1, <3>2, <3>3 DEF Evolves, Unused
  <2>2. k \notin Known
      BY <1>0, <2>1 DEF FreshInv, Unused
  <2> HIDE DEF Known
  <2> QED BY <1>1, <2>1, <2>2 DEF Unused
<1>2. ASSUME NEW m \in Frame, m.rec \in Known
      PROVE  \A i \in DOMAIN Append(up, m) : Append(up, m)[i].rec \in Known
  <2>1. /\ DOMAIN Append(up, m) = 1 .. Len(up) + 1
        /\ \A i \in DOMAIN up : Append(up, m)[i] = up[i]
        /\ Append(up, m)[Len(up) + 1] = m
      BY <1>0, AppendFacts
  <2>2. \A i \in DOMAIN up : up[i].rec \in Known
      OBVIOUS
  <2> HIDE DEF Known
  <2> QED BY <1>0, <1>2, <2>1, <2>2
<1>3. down # <<>> => \A i \in DOMAIN Tail(down) : Tail(down)[i].rec \in Known
    BY <1>0, TailFacts
<1>4. up # <<>> => \A i \in DOMAIN Tail(up) : Tail(up)[i].rec \in Known
    BY <1>0, TailFacts
<1>5. CASE UNCHANGED <<up, down>>
    BY <1>1, <1>5
<1>6. CASE up' = up /\ down # <<>> /\ down' = Tail(down)
  <2>1. FromKnown
      BY <1>3, <1>6
  <2> QED BY <1>1, <2>1
<1> DEFINE u == [type |-> "unsubscribe", epoch |-> epoch, rec |-> None]
<1>7. \A i \in DOMAIN Append(up, u) : Append(up, u)[i].rec \in Known
  <2>1. u \in Frame /\ u.rec = None
      BY <1>0 DEF Frame, TypeOK
  <2> QED BY <1>2, <2>1
<1> HIDE DEF u
<1>8. ASSUME NEW k \in Calls, subscribe(k) PROVE FreshInv'
    BY <1>5, <1>8 DEF subscribe
<1>9. ASSUME NEW k \in Calls, unsubscribe(k) PROVE FreshInv'
  <2>1. (up' = up \/ up' = Append(up, u)) /\ down' = down
      BY <1>0, <1>9, UnsubscribeEffect DEF u, unsubscribe
  <2>2. FromKnown
      BY <1>7, <2>1
  <2> QED BY <1>1, <2>2
<1>10. CASE close \/ onDrop
  <2>1. up' = <<>> /\ down' = <<>>
      BY <1>10 DEF close, onDrop, Disconnect
  <2>2. FromKnown
      BY <2>1
  <2> QED BY <1>1, <2>2
<1>11. CASE onConnected \/ RetryFires \/ AckTimeout
    BY <1>5, <1>11 DEF onConnected, RetryFires, AckTimeout
<1>12. ASSUME NEW a \in Attempts, Authorized(a) PROVE FreshInv'
  <2> DEFINE f == [type |-> "subscribe", epoch |-> cl.att[a].epoch, rec |-> cl.att[a].rec]
  <2>1. cl.att[a] \in Attempt
      BY <1>0, RecordType DEF Records
  <2>2. f \in Frame /\ f.rec \in Known
      BY <2>1 DEF Frame, Attempt
  <2>3. up' = Append(up, f) /\ down' = down
      BY <1>12 DEF Authorized
  <2> HIDE DEF f
  <2>4. FromKnown
      BY <1>2, <2>2, <2>3
  <2> QED BY <1>1, <2>4
<1>13. ASSUME NEW a \in Attempts, AuthorizeThrows(a) \/ AuthorizedTooLate(a) PROVE FreshInv'
    BY <1>5, <1>13 DEF AuthorizeThrows, AuthorizedTooLate
<1>14. CASE onSubscribed
  <2>1. (up' = up \/ up' = Append(up, u)) /\ down # <<>> /\ down' = Tail(down)
      BY <1>0, <1>14, SubscribedEffect DEF u, onSubscribed
  <2>2. FromKnown
      BY <1>3, <1>7, <2>1
  <2> QED BY <1>1, <2>2
<1>15. CASE onUnsubscribed \/ onErrorFrame
    BY <1>6, <1>15 DEF onUnsubscribed, onErrorFrame
<1>16. CASE Server
  <2>1. /\ up # <<>> /\ up' = Tail(up)
        /\ \/ down' = down
           \/ \E t \in AnswerTypes :
                down' = Append(down, [type |-> t, rec |-> up[1].rec])
      BY <1>0, <1>16, ServerEffect
  <2>2. ASSUME NEW m \in Reply, m.rec \in Known
        PROVE  \A i \in DOMAIN Append(down, m) : Append(down, m)[i].rec \in Known
    <3>1. /\ DOMAIN Append(down, m) = 1 .. Len(down) + 1
          /\ \A i \in DOMAIN down : Append(down, m)[i] = down[i]
          /\ Append(down, m)[Len(down) + 1] = m
        BY <1>0, AppendFacts
    <3>2. \A i \in DOMAIN down : down[i].rec \in Known
        OBVIOUS
    <3> HIDE DEF Known
    <3> QED BY <1>0, <2>2, <3>1, <3>2
  <2>3. \A t \in AnswerTypes :
          [type |-> t, rec |-> up[1].rec] \in Reply /\ up[1].rec \in Known
    <3>1. up[1] \in Frame /\ 1 \in DOMAIN up
        BY <1>0, <2>1, TailFacts
    <3> QED BY <3>1 DEF Frame, Reply
  <2>4. \A i \in DOMAIN down' : down'[i].rec \in Known
    <3>1. \A i \in DOMAIN down : down[i].rec \in Known
        OBVIOUS
    <3> HIDE DEF Known
    <3>2. CASE down' = down
        BY <3>1, <3>2
    <3>3. ASSUME NEW t \in AnswerTypes,
                 down' = Append(down, [type |-> t, rec |-> up[1].rec])
          PROVE  \A i \in DOMAIN down' : down'[i].rec \in Known
        BY <2>2, <2>3, <3>3
    <3> QED BY <2>1, <3>2, <3>3
  <2>5. FromKnown
      BY <1>4, <2>1, <2>4
  <2> QED BY <1>1, <2>5
<1>17. CASE UNCHANGED vars
    BY <1>5, <1>17 DEF vars
<1> QED
    BY <1>8, <1>9, <1>10, <1>11, <1>12, <1>13, <1>14, <1>15, <1>16, <1>17
    DEF Next, Authorize, Receive, Server

(* HeldInv: what is behind the ack of a record, or behind its subscribe,   *)
(* does not give the channel up.                                           *)
LEMMA HeldStep ==
    ASSUME IInv, [Next]_vars
    PROVE  HeldInv'
<1>0. /\ TypeOK /\ WireInv /\ PendingInv /\ FreshInv /\ HeldInv /\ cl \in Records /\ Clean(cl)
      /\ None \notin Calls /\ up \in Seq(Frame) /\ down \in Seq(Reply)
      /\ Len(up) \in Nat /\ DOMAIN up = 1 .. Len(up)
      /\ Len(down) \in Nat /\ DOMAIN down = 1 .. Len(down)
    BY LenProperties, ClientAssumption, RecordType DEF IInv, WireInv
<1>1. CASE cl'.rec = None
    BY <1>1 DEF HeldInv
<1>2. CASE /\ cl'.rec \in {cl.rec, None} /\ cl'.confirmed = cl.confirmed
           /\ UNCHANGED <<up, down, held, odd>>
    BY <1>0, <1>2 DEF HeldInv, Assured
<1>3. CASE /\ cl'.rec \in {cl.rec, None} /\ cl'.confirmed = cl.confirmed
           /\ down # <<>> /\ down' = Tail(down) /\ UNCHANGED <<up, held, odd>>
  <2>1. \A i \in DOMAIN down' : i + 1 \in DOMAIN down /\ down'[i] = down[i + 1]
      BY <1>0, <1>3, TailFacts
  <2>2. cl'.rec # None /\ Assured' => Assured
      BY <1>3, <2>1 DEF Assured
  <2> QED BY <1>0, <1>3, <2>2 DEF HeldInv
<1>4. ASSUME NEW k \in Calls, subscribe(k) PROVE HeldInv'
  <2>1. /\ cl'.rec = IF cl.rec = None THEN k ELSE cl.rec
        /\ cl'.confirmed = cl.confirmed
      BY <1>0, <1>4, SubscribeEffect
  <2>2. UNCHANGED <<up, down, held, odd>> /\ cl.call[k].pc = "new"
      BY <1>4 DEF subscribe
  <2>3. CASE cl.rec # None
      BY <1>2, <2>1, <2>2, <2>3
  <2>4. CASE cl.rec = None
    <3>1. Unused(k) /\ ~cl.confirmed
        BY <1>0, <2>2, <2>4 DEF FreshInv, Clean
    <3> QED BY <2>1, <2>2, <2>4, <3>1 DEF HeldInv, Assured, Unused
  <2> QED BY <2>3, <2>4
<1>5. ASSUME NEW k \in Calls, unsubscribe(k) PROVE HeldInv'
  <2>1. \/ cl'.rec = None
        \/ cl'.rec = cl.rec /\ cl'.confirmed = cl.confirmed /\ UNCHANGED up
      BY <1>0, <1>5, UnsubscribeEffect
  <2>2. UNCHANGED <<down, held, odd>>
      BY <1>5 DEF unsubscribe
  <2> QED BY <1>1, <1>2, <2>1, <2>2
<1>6. CASE close
    BY <1>0, <1>1, <1>6, CloseEffect
<1>7. CASE onDrop
  <2>1. ~cl'.confirmed
      BY <1>0, <1>7, DropEffect
  <2>2. up' = <<>> /\ down' = <<>>
      BY <1>7 DEF onDrop, Disconnect
  <2> QED BY <2>1, <2>2 DEF HeldInv, Assured
<1>8. CASE onConnected
    BY <1>0, <1>2, <1>8, ConnectedEffect DEF Change, onConnected
<1>9. CASE RetryFires
    BY <1>0, <1>2, <1>9, RetryEffect DEF Change, RetryFires
<1>10. ASSUME NEW a \in Attempts, Authorized(a) PROVE HeldInv'
  <2> DEFINE f == [type |-> "subscribe", epoch |-> cl.att[a].epoch, rec |-> cl.att[a].rec]
  <2>1. cl'.rec = cl.rec /\ cl'.confirmed = cl.confirmed
      BY <1>0, <1>10, AuthorizedEffect DEF Change
  <2>2. cl.att[a] \in Attempt
      BY <1>0 DEF Records
  <2>3. f \in Frame /\ f.type = "subscribe"
      BY <2>2 DEF Frame, Attempt
  <2>4. up' = Append(up, f) /\ UNCHANGED <<down, held, odd>>
      BY <1>10 DEF Authorized
  <2> HIDE DEF f
  <2>5. /\ DOMAIN up' = 1 .. Len(up) + 1
        /\ \A i \in DOMAIN up : up'[i] = up[i]
        /\ up'[Len(up) + 1] = f
      BY <1>0, <2>3, <2>4, AppendFacts
  <2>6. \A j \in DOMAIN up' : up'[j].type = "unsubscribe" =>
          j \in DOMAIN up /\ up[j].type = "unsubscribe" /\ j < Len(up) + 1
      BY <1>0, <2>3, <2>5
  <2>7. \A i \in DOMAIN up' : (i \in DOMAIN up /\ up'[i] = up[i]) \/ i = Len(up) + 1
      BY <1>0, <2>5
  <2>8. Assured' <=> Assured
      BY <2>1, <2>4 DEF Assured
  <2> QED BY <1>0, <2>1, <2>4, <2>6, <2>7, <2>8 DEF HeldInv
<1>11. ASSUME NEW a \in Attempts, AuthorizeThrows(a) \/ AuthorizedTooLate(a) PROVE HeldInv'
  <2>1. Change(cl, cl', a)
      BY <1>0, <1>11, ThrowsEffect, LateEffect
  <2>2. UNCHANGED <<up, down, held, odd>>
      BY <1>11 DEF AuthorizeThrows, AuthorizedTooLate
  <2> QED BY <1>2, <2>1, <2>2 DEF Change
<1>12. CASE AckTimeout
  <2>1. cl' = cl \/ \E a : Change(cl, cl', a)
      BY <1>0, <1>12, TimeoutEffect
  <2>2. cl'.rec \in {cl.rec, None} /\ cl'.confirmed = cl.confirmed
      BY <2>1 DEF Change
  <2> QED BY <1>2, <1>12, <2>2 DEF AckTimeout
<1>13. CASE onSubscribed
  <2>1. cl'.rec = cl.rec /\ (cl.rec # None => up' = up)
      BY <1>0, <1>13, SubscribedEffect
  <2>2. CASE cl.rec = None
      BY <1>1, <2>1, <2>2
  <2>3. CASE cl.rec # None
    <3>1. /\ down # <<>> /\ down' = Tail(down) /\ Head(down).type = "subscribed" /\ held' = held
          /\ odd' = IF cl.rec = Head(down).rec THEN odd ELSE odd \union {"mixed"}
        BY <1>13, <2>3 DEF onSubscribed
    <3>2. /\ Head(down) = down[1] /\ 1 \in DOMAIN down
          /\ \A i \in DOMAIN down' : i + 1 \in DOMAIN down /\ down'[i] = down[i + 1]
        BY <1>0, <3>1, TailFacts
    <3>3. Assured' => Assured
        BY <2>1, <3>1, <3>2 DEF Assured
    <3> QED BY <1>0, <2>1, <2>3, <3>1, <3>3 DEF HeldInv
  <2> QED BY <2>2, <2>3
<1>14. CASE onUnsubscribed
    BY <1>3, <1>14 DEF onUnsubscribed
<1>15. CASE onErrorFrame
  <2>1. cl' = cl \/ \E a : Change(cl, cl', a)
      BY <1>0, <1>15, ErrorEffect
  <2>2. cl'.rec \in {cl.rec, None} /\ cl'.confirmed = cl.confirmed
      BY <2>1 DEF Change
  <2> QED BY <1>3, <1>15, <2>2 DEF onErrorFrame
<1>16. CASE Server
  <2> SUFFICES ASSUME cl.rec # None PROVE HeldInv'
      BY <1>0, <1>16, ServerEffect DEF HeldInv
  <2>1. /\ up # <<>> /\ up' = Tail(up) /\ cl' = cl /\ odd \subseteq odd'
        /\ \/ down' = down
           \/ \E t \in AnswerTypes :
                /\ down' = Append(down, [type |-> t, rec |-> up[1].rec])
                /\ t \in {"unsubscribed", "unsubscribe refused"} <=> up[1].type = "unsubscribe"
                /\ t = "subscribed" => held' = TRUE
        /\ up[1].type = "subscribe" => held' \in {held, TRUE}
      BY <1>0, <1>16, ServerEffect
  <2>2. /\ 1 \in DOMAIN up /\ up[1] \in Frame /\ DOMAIN up' = 1 .. Len(up) - 1
        /\ \A i \in DOMAIN up' : i + 1 \in DOMAIN up /\ up'[i] = up[i + 1]
      BY <1>0, <2>1, TailFacts
  <2>3. \A i, j \in DOMAIN up' :
          up'[i].type = "subscribe" /\ up'[i].rec = cl.rec /\ up'[j].type = "unsubscribe" => j < i
    <3> SUFFICES ASSUME NEW i \in DOMAIN up', NEW j \in DOMAIN up',
                        up'[i].type = "subscribe", up'[i].rec = cl.rec, up'[j].type = "unsubscribe"
                 PROVE  j < i
        OBVIOUS
    <3>1. j + 1 < i + 1
        BY <1>0, <2>2 DEF HeldInv
    <3> QED BY <1>0, <2>2, <3>1
  <2>4. CASE Assured
    <3>1. held /\ \A i \in DOMAIN up : up[i].type # "unsubscribe"
        BY <1>0, <2>4 DEF HeldInv
    <3>2. up[1].type = "subscribe"
        BY <2>2, <3>1 DEF Frame
    <3>3. held' /\ \A i \in DOMAIN up' : up'[i].type # "unsubscribe"
        BY <2>1, <2>2, <3>1, <3>2
    <3> QED BY <2>1, <2>3, <3>3 DEF HeldInv
  <2>5. CASE ~Assured
    <3> SUFFICES ASSUME Assured' PROVE held' /\ \A i \in DOMAIN up' : up'[i].type # "unsubscribe"
        BY <2>1, <2>3 DEF HeldInv
    <3>1. ~(down' = down)
        BY <2>1, <2>5 DEF Assured
    <3>2. PICK t \in AnswerTypes :
            /\ down' = Append(down, [type |-> t, rec |-> up[1].rec])
            /\ t \in {"unsubscribed", "unsubscribe refused"} <=> up[1].type = "unsubscribe"
            /\ t = "subscribed" => held' = TRUE
        BY <2>1, <3>1
    <3> DEFINE m == [type |-> t, rec |-> up[1].rec]
    <3>3. m \in Reply /\ m.type = t /\ m.rec = up[1].rec /\ down' = Append(down, m)
        BY <2>2, <3>2 DEF Reply, Frame
    <3> HIDE DEF m
    <3>4. /\ DOMAIN down' = 1 .. Len(down) + 1
          /\ \A i \in DOMAIN down : down'[i] = down[i]
          /\ down'[Len(down) + 1] = m
      <4>1. m \in Reply /\ down' = Append(down, m)
          BY <3>3
      <4> QED BY <1>0, <4>1, AppendFacts
    <3>5. PICK d \in DOMAIN down' : down'[d].type = "subscribed" /\ down'[d].rec = cl.rec
        BY <2>1, <2>5 DEF Assured
    <3>6. d \notin DOMAIN down
        BY <2>5, <3>4, <3>5 DEF Assured
    <3>7. d = Len(down) + 1
      <4>1. d \in 1 .. Len(down) + 1 /\ d \notin 1 .. Len(down) /\ Len(down) \in Nat
          BY <1>0, <3>4, <3>5, <3>6
      <4> QED BY <4>1
    <3>8. t = "subscribed" /\ up[1].rec = cl.rec
        BY <3>3, <3>4, <3>5, <3>7
    <3>9. up[1].type = "subscribe"
        BY <2>2, <3>2, <3>8 DEF Frame
    <3>10. ASSUME NEW i \in DOMAIN up', up'[i].type = "unsubscribe" PROVE FALSE
      <4>1. i + 1 < 1
          BY <1>0, <2>2, <3>8, <3>9, <3>10 DEF HeldInv
      <4>2. i \in 1 .. Len(up) - 1 /\ Len(up) \in Nat
          BY <1>0, <2>2
      <4> QED BY <4>1, <4>2
    <3> QED BY <3>2, <3>8, <3>10
  <2> QED BY <2>4, <2>5
<1>17. CASE UNCHANGED vars
    BY <1>2, <1>17 DEF vars
<1> QED
    BY <1>4, <1>5, <1>6, <1>7, <1>8, <1>9, <1>10, <1>11, <1>12, <1>13, <1>14, <1>15, <1>16, <1>17
    DEF Next, Authorize, Receive, Server

(* The unsubscribes of a queue of operations, of frames and of answers.    *)
Ops == {x \in Op : x.kind = "unsubscribe"}
Gone == {x \in Frame : x.type = "unsubscribe"}
Told == {x \in Reply : x.type \in {"unsubscribed", "unsubscribe refused"}}

(* What CountInv counts.                                                   *)
LEMMA CountsAreAt ==
    ASSUME WireInv
    PROVE  /\ Pending("unsubscribe") = At(pending, Ops)
           /\ Unsubs = At(up, Gone)
           /\ Answers = At(down, Told)
<1>1. /\ \A i \in DOMAIN pending : pending[i] \in Op
      /\ \A i \in DOMAIN up : up[i] \in Frame
      /\ \A i \in DOMAIN down : down[i] \in Reply
    BY LenProperties DEF WireInv
<1> QED BY <1>1 DEF At, Ops, Gone, Told, Pending, Unsubs, Answers

(* The same of the next state.                                             *)
LEMMA CountsAreAtNext ==
    ASSUME WireInv'
    PROVE  /\ Pending("unsubscribe")' = At(pending', Ops)
           /\ Unsubs' = At(up', Gone)
           /\ Answers' = At(down', Told)
<1>1. /\ \A i \in DOMAIN pending' : pending'[i] \in Op
      /\ \A i \in DOMAIN up' : up'[i] \in Frame
      /\ \A i \in DOMAIN down' : down'[i] \in Reply
    BY LenProperties DEF WireInv
<1> QED BY <1>1 DEF At, Ops, Gone, Told, Pending, Unsubs, Answers

(* CountInv: an unsubscribe leaves #pending no later than its answer       *)
(* comes.                                                                  *)
LEMMA CountStep ==
    ASSUME IInv, [Next]_vars
    PROVE  CountInv'
<1> DEFINE P(q) == Cardinality(At(q, Ops))
           U(q) == Cardinality(At(q, Gone))
           A(q) == Cardinality(At(q, Told))
<1>0. /\ TypeOK /\ WireInv /\ PendingInv /\ CountInv
      /\ pending \in Seq(Op) /\ up \in Seq(Frame) /\ down \in Seq(Reply)
    BY DEF IInv, WireInv
<1>1. WireInv' /\ pending' \in Seq(Op) /\ up' \in Seq(Frame) /\ down' \in Seq(Reply)
    BY WireStep DEF WireInv
<1>2. "lost" \notin odd => P(pending) <= A(down) + U(up)
    BY <1>0, CountsAreAt DEF CountInv
<1>3. ("lost" \notin odd' => P(pending') <= A(down') + U(up')) => CountInv'
    BY <1>1, CountsAreAtNext DEF CountInv
<1>4. /\ P(pending) \in Nat /\ U(up) \in Nat /\ A(down) \in Nat
      /\ P(pending') \in Nat /\ U(up') \in Nat /\ A(down') \in Nat
    BY <1>0, <1>1, AtCount
<1>5. /\ P(<<>>) = 0
      /\ Pending("unsubscribe") = {} => P(pending) = 0
  <2>1. At(<<>>, Ops) = {}
      BY DEF At
  <2> QED BY <1>0, <2>1, CountsAreAt, FS_EmptySet
<1>6. ASSUME NEW p \in DOMAIN pending
      PROVE  /\ P(RemoveAt(pending, p)) <= P(pending)
             /\ pending[p].kind = "unsubscribe" => P(RemoveAt(pending, p)) = P(pending) - 1
  <2>1. P(RemoveAt(pending, p)) = IF pending[p] \in Ops THEN P(pending) - 1 ELSE P(pending)
      BY <1>0, RemoveAtCount
  <2>2. pending[p] \in Ops <=> pending[p].kind = "unsubscribe"
      BY <1>0, LenProperties DEF Ops
  <2> HIDE DEF P
  <2> QED BY <1>4, <2>1, <2>2
<1>7. pending # <<>> => P(Tail(pending)) <= P(pending)
    BY <1>0, <1>6, TailFacts, TailIsRemoveAt
<1>8. down # <<>> => A(Tail(down)) = IF Head(down).type \in {"unsubscribed", "unsubscribe refused"}
                                       THEN A(down) - 1 ELSE A(down)
  <2> SUFFICES ASSUME down # <<>>
               PROVE  A(Tail(down)) = IF Head(down).type \in {"unsubscribed", "unsubscribe refused"}
                                        THEN A(down) - 1 ELSE A(down)
      OBVIOUS
  <2>1. Head(down) = down[1] /\ down[1] \in Reply /\ 1 \in DOMAIN down /\ Tail(down) = RemoveAt(down, 1)
      BY <1>0, TailFacts, TailIsRemoveAt
  <2>2. A(RemoveAt(down, 1)) = IF down[1] \in Told THEN A(down) - 1 ELSE A(down)
      BY <1>0, <2>1, RemoveAtCount, Zenon
  <2>3. down[1] \in Told <=> Head(down).type \in {"unsubscribed", "unsubscribe refused"}
      BY <2>1 DEF Told
  <2> HIDE DEF A
  <2> QED BY <2>1, <2>2, <2>3
<1>9. up # <<>> => U(Tail(up)) = IF up[1].type = "unsubscribe" THEN U(up) - 1 ELSE U(up)
  <2> SUFFICES ASSUME up # <<>>
               PROVE  U(Tail(up)) = IF up[1].type = "unsubscribe" THEN U(up) - 1 ELSE U(up)
      OBVIOUS
  <2>1. up[1] \in Frame /\ 1 \in DOMAIN up /\ Tail(up) = RemoveAt(up, 1)
      BY <1>0, TailFacts, TailIsRemoveAt
  <2>2. U(RemoveAt(up, 1)) = IF up[1] \in Gone THEN U(up) - 1 ELSE U(up)
      BY <1>0, <2>1, RemoveAtCount, Zenon
  <2>3. up[1] \in Gone <=> up[1].type = "unsubscribe"
      BY <2>1 DEF Gone
  <2> HIDE DEF U
  <2> QED BY <2>1, <2>2, <2>3
<1>10. ASSUME NEW m \in Op
       PROVE  P(Append(pending, m)) = IF m.kind = "unsubscribe" THEN P(pending) + 1 ELSE P(pending)
    BY <1>0, AppendCount DEF Ops
<1>11. ASSUME NEW m \in Frame
       PROVE  U(Append(up, m)) = IF m.type = "unsubscribe" THEN U(up) + 1 ELSE U(up)
    BY <1>0, AppendCount DEF Gone
<1>12. ASSUME NEW m \in Reply
       PROVE  A(Append(down, m)) = IF m.type \in {"unsubscribed", "unsubscribe refused"}
                                     THEN A(down) + 1 ELSE A(down)
  <2>1. A(Append(down, m)) = IF m \in Told THEN A(down) + 1 ELSE A(down)
      BY <1>0, AppendCount, Zenon
  <2>2. m \in Told <=> m.type \in {"unsubscribed", "unsubscribe refused"}
      BY DEF Told
  <2> HIDE DEF A
  <2> QED BY <2>1, <2>2
<1> DEFINE u == [type |-> "unsubscribe", epoch |-> epoch, rec |-> None]
<1>13. U(Append(up, u)) = U(up) + 1
  <2>1. u \in Frame /\ u.type = "unsubscribe"
      BY <1>0 DEF Frame, TypeOK
  <2> HIDE DEF u, U
  <2> QED BY <1>11, <2>1
<1> HIDE DEF P, U, A, u
<1>14. CASE P(pending') <= P(pending) /\ UNCHANGED <<up, down, odd>>
    BY <1>2, <1>3, <1>4, <1>14
<1>15. pending' = pending => P(pending') <= P(pending)
    BY <1>4
<1>16. CASE UNCHANGED <<pending, up, down, odd>>
    BY <1>14, <1>15, <1>16
<1>20. ASSUME NEW k \in Calls, subscribe(k) PROVE CountInv'
    BY <1>16, <1>20 DEF subscribe
<1>21. ASSUME NEW k \in Calls, unsubscribe(k) PROVE CountInv'
  <2> DEFINE m == [kind |-> "unsubscribe", att |-> None]
  <2>1. \/ UNCHANGED <<pending, up>>
        \/ pending' = Append(pending, m) /\ up' = Append(up, u)
      BY <1>0, <1>21, UnsubscribeEffect DEF u
  <2>2. UNCHANGED <<down, odd>>
      BY <1>21 DEF unsubscribe
  <2>3. m \in Op /\ m.kind = "unsubscribe"
      BY DEF Op
  <2> HIDE DEF m
  <2>4. P(Append(pending, m)) = P(pending) + 1
      BY <1>10, <2>3
  <2>5. CASE UNCHANGED <<pending, up>>
      BY <1>16, <2>2, <2>5
  <2>6. CASE pending' = Append(pending, m) /\ up' = Append(up, u)
    <3>1. P(pending') = P(pending) + 1 /\ U(up') = U(up) + 1 /\ A(down') = A(down) /\ odd' = odd
        BY <1>13, <2>2, <2>4, <2>6
    <3> QED BY <1>2, <1>3, <1>4, <3>1
  <2> QED BY <2>1, <2>5, <2>6
<1>22. CASE close \/ onDrop
  <2>1. pending' = <<>>
      BY <1>22 DEF close, onDrop, Disconnect
  <2> QED BY <1>3, <1>4, <1>5, <2>1
<1>23. CASE onConnected \/ RetryFires
    BY <1>16, <1>23 DEF onConnected, RetryFires
<1>24. ASSUME NEW a \in Attempts, Authorized(a) PROVE CountInv'
  <2> DEFINE m == [kind |-> "subscribe", att |-> a]
             f == [type |-> "subscribe", epoch |-> cl.att[a].epoch, rec |-> cl.att[a].rec]
  <2>1. pending' = Append(pending, m) /\ up' = Append(up, f) /\ UNCHANGED <<down, odd>>
      BY <1>24 DEF Authorized
  <2>2. cl.att[a] \in Attempt
      BY <1>0, RecordType DEF Records
  <2>3. m \in Op /\ m.kind = "subscribe" /\ f \in Frame /\ f.type = "subscribe"
      BY <2>2 DEF Op, Frame, Attempt
  <2> HIDE DEF m, f
  <2>4. P(pending') = P(pending) /\ U(up') = U(up)
      BY <1>10, <1>11, <2>1, <2>3
  <2> QED BY <1>2, <1>3, <1>4, <2>1, <2>4
<1>25. ASSUME NEW a \in Attempts, AuthorizeThrows(a) \/ AuthorizedTooLate(a) PROVE CountInv'
    BY <1>16, <1>25 DEF AuthorizeThrows, AuthorizedTooLate
<1>26. CASE AckTimeout
    BY <1>7, <1>14, <1>26 DEF AckTimeout
<1>27. CASE onSubscribed
  <2>1. pending' = pending \/ \E i \in DOMAIN pending : pending' = RemoveAt(pending, i)
      BY <1>0, <1>27, SubscribedEffect
  <2>2. up' = up \/ up' = Append(up, u)
      BY <1>0, <1>27, SubscribedEffect DEF u
  <2>3. /\ down # <<>> /\ down' = Tail(down) /\ Head(down).type = "subscribed"
        /\ "lost" \in odd => "lost" \in odd'
      BY <1>27 DEF onSubscribed
  <2>4. P(pending') <= P(pending)
      BY <1>4, <1>6, <2>1
  <2>5. A(down') = A(down)
      BY <1>8, <2>3
  <2>6. U(up') >= U(up)
    <3>1. U(up') = U(up) \/ U(up') = U(up) + 1
        BY <1>13, <2>2
    <3> QED BY <1>4, <3>1
  <2> QED BY <1>2, <1>3, <1>4, <2>3, <2>4, <2>5, <2>6
<1>28. CASE onUnsubscribed
  <2>1. /\ down # <<>> /\ down' = Tail(down) /\ UNCHANGED <<up, odd>>
        /\ Head(down).type \in {"unsubscribed", "unsubscribe refused"}
        /\ pending' = IF Pending("unsubscribe") = {} THEN pending
                      ELSE RemoveAt(pending, Oldest(Pending("unsubscribe")))
      BY <1>28 DEF onUnsubscribed
  <2>2. A(down') = A(down) - 1
      BY <1>8, <2>1
  <2>3. CASE Pending("unsubscribe") = {}
    <3>1. P(pending') = 0
        BY <1>5, <2>1, <2>3
    <3> QED BY <1>3, <1>4, <3>1
  <2>4. CASE Pending("unsubscribe") # {}
    <3>1. P(pending') = P(pending) - 1
        BY <1>0, <1>6, <2>1, <2>4, PendingFacts
    <3>2. U(up') = U(up) /\ odd' = odd
        BY <2>1
    <3> QED BY <1>2, <1>3, <1>4, <2>2, <3>1, <3>2
  <2> QED BY <2>3, <2>4
<1>29. CASE onErrorFrame
  <2>1. pending' = pending \/ \E i \in DOMAIN pending : pending' = RemoveAt(pending, i)
      BY <1>0, <1>29, ErrorEffect
  <2>2. down # <<>> /\ down' = Tail(down) /\ Head(down).type \in {"limited", "refused"} /\ UNCHANGED <<up, odd>>
      BY <1>29 DEF onErrorFrame
  <2>3. P(pending') <= P(pending)
      BY <1>4, <1>6, <2>1
  <2>4. A(down') = A(down)
      BY <1>8, <2>2
  <2> QED BY <1>2, <1>3, <1>4, <2>2, <2>3, <2>4
<1>30. CASE Server
  <2>1. /\ up # <<>> /\ up' = Tail(up) /\ pending' = pending /\ odd \subseteq odd'
        /\ \/ "lost" \in odd'
           \/ \E t \in AnswerTypes :
                /\ down' = Append(down, [type |-> t, rec |-> up[1].rec])
                /\ t \in {"unsubscribed", "unsubscribe refused"} <=> up[1].type = "unsubscribe"
      BY <1>0, <1>30, ServerEffect
  <2>2. CASE "lost" \in odd'
      BY <1>3, <2>2
  <2>3. CASE "lost" \notin odd'
    <3>1. PICK t \in AnswerTypes :
            /\ down' = Append(down, [type |-> t, rec |-> up[1].rec])
            /\ t \in {"unsubscribed", "unsubscribe refused"} <=> up[1].type = "unsubscribe"
        BY <2>1, <2>3
    <3> DEFINE m == [type |-> t, rec |-> up[1].rec]
    <3>2. up[1] \in Frame
        BY <1>0, <2>1, TailFacts
    <3>3. m \in Reply /\ m.type = t /\ down' = Append(down, m)
        BY <3>1, <3>2 DEF Reply, Frame
    <3> HIDE DEF m
    <3>4. A(down') = IF up[1].type = "unsubscribe" THEN A(down) + 1 ELSE A(down)
        BY <1>12, <3>1, <3>3
    <3>5. A(down') + U(up') = A(down) + U(up)
      <4>1. U(up') = IF up[1].type = "unsubscribe" THEN U(up) - 1 ELSE U(up)
          BY <1>9, <2>1
      <4> QED BY <1>4, <3>4, <4>1
    <3>6. "lost" \notin odd
        BY <2>1, <2>3
    <3> QED BY <1>2, <1>3, <2>1, <3>5, <3>6
  <2> QED BY <2>2, <2>3
<1>31. CASE UNCHANGED vars
    BY <1>16, <1>31 DEF vars
<1> QED
    BY <1>20, <1>21, <1>22, <1>23, <1>24, <1>25, <1>26, <1>27, <1>28, <1>29, <1>30, <1>31
    DEF Next, Authorize, Receive, Server

(* GhostInv: an ack that nobody wants is undone, or was.                   *)
LEMMA GhostStep ==
    ASSUME IInv, [Next]_vars
    PROVE  GhostInv'
<1>0. /\ TypeOK /\ WireInv /\ PendingInv /\ CountInv /\ GhostInv /\ cl \in Records /\ Clean(cl)
      /\ pending \in Seq(Op) /\ up \in Seq(Frame) /\ down \in Seq(Reply)
      /\ Len(up) \in Nat /\ DOMAIN up = 1 .. Len(up)
      /\ Len(down) \in Nat /\ DOMAIN down = 1 .. Len(down)
    BY LenProperties, RecordType DEF IInv, WireInv
<1> DEFINE Clear(o) == o \intersect {"lost", "kept"} = {}
           NoneKept == "kept" \notin odd => \A i \in DOMAIN down : down[i].type # "unsubscribe refused"
<1>1. NoneKept /\ (held /\ ~cl.confirmed /\ Clear(odd) => Unsubs # {} \/ HeldNews)
    BY <1>0 DEF GhostInv
<1>2. CASE cl'.confirmed = cl.confirmed /\ UNCHANGED <<up, down, held, odd>>
    BY <1>0, <1>2 DEF GhostInv, Unsubs, HeldNews
<1>3. CASE /\ cl'.confirmed = cl.confirmed /\ UNCHANGED <<up, held, odd>>
           /\ down # <<>> /\ down' = Tail(down) /\ Head(down).type # "subscribed"
  <2>1. /\ Head(down) = down[1] /\ DOMAIN down' = 1 .. Len(down) - 1
        /\ \A i \in DOMAIN down' : i + 1 \in DOMAIN down /\ down'[i] = down[i + 1]
      BY <1>0, <1>3, TailFacts
  <2>2. NoneKept'
      BY <1>1, <1>3, <2>1
  <2>3. ASSUME HeldNews PROVE HeldNews'
    <3>1. PICK d \in DOMAIN down :
            /\ down[d].type = "subscribed"
            /\ \A e \in DOMAIN down : e > d => down[e].type # "unsubscribed"
        BY <2>3 DEF HeldNews
    <3>2. d # 1
        BY <1>3, <2>1, <3>1
    <3>3. d - 1 \in DOMAIN down' /\ (d - 1) + 1 = d
        BY <1>0, <2>1, <3>2
    <3>4. down'[d - 1].type = "subscribed"
        BY <2>1, <3>1, <3>3
    <3>5. ASSUME NEW e \in DOMAIN down', e > d - 1 PROVE down'[e].type # "unsubscribed"
      <4>1. e + 1 > d
          BY <1>0, <2>1, <3>5
      <4> QED BY <2>1, <3>1, <4>1
    <3> QED BY <3>3, <3>4, <3>5 DEF HeldNews
  <2> QED BY <1>1, <1>3, <2>2, <2>3 DEF GhostInv, Unsubs
<1>4. ASSUME NEW m \in Frame, up' = Append(up, m)
      PROVE  /\ Unsubs \subseteq Unsubs'
             /\ m.type = "unsubscribe" => Unsubs' # {}
  <2>1. /\ DOMAIN up' = 1 .. Len(up) + 1
        /\ \A i \in DOMAIN up : up'[i] = up[i]
        /\ up'[Len(up) + 1] = m
      BY <1>0, <1>4, AppendFacts
  <2>2. Len(up) + 1 \in DOMAIN up' /\ \A i \in DOMAIN up : i \in DOMAIN up'
      BY <1>0, <2>1
  <2> QED BY <2>1, <2>2 DEF Unsubs
<1> DEFINE u == [type |-> "unsubscribe", epoch |-> epoch, rec |-> None]
<1>5. u \in Frame /\ u.type = "unsubscribe"
    BY <1>0 DEF Frame, TypeOK
<1> HIDE DEF u
<1>6. ASSUME NEW k \in Calls, subscribe(k) PROVE GhostInv'
    BY <1>0, <1>2, <1>6, SubscribeEffect DEF subscribe
<1>7. ASSUME NEW k \in Calls, unsubscribe(k) PROVE GhostInv'
  <2>1. UNCHANGED <<state, down, held, odd>>
      BY <1>7 DEF unsubscribe
  <2>2. \/ cl'.confirmed = cl.confirmed /\ up' = up
        \/ state = "connected" /\ up' = Append(up, u)
        \/ state # "connected"
      BY <1>0, <1>7, UnsubscribeEffect DEF u
  <2>3. CASE cl'.confirmed = cl.confirmed /\ up' = up
      BY <1>2, <2>1, <2>3
  <2>4. CASE up' = Append(up, u)
    <3>1. Unsubs' # {}
        BY <1>4, <1>5, <2>4
    <3> QED BY <1>1, <2>1, <3>1 DEF GhostInv
  <2>5. CASE state # "connected"
    <3>1. ~held
        BY <1>0, <2>5 DEF WireInv
    <3> QED BY <1>1, <2>1, <3>1 DEF GhostInv
  <2> QED BY <2>2, <2>3, <2>4, <2>5
<1>8. CASE close \/ onDrop
  <2>1. down' = <<>> /\ held' = FALSE
      BY <1>8 DEF close, onDrop, Disconnect
  <2> QED BY <2>1 DEF GhostInv
<1>9. CASE onConnected
    BY <1>0, <1>2, <1>9, ConnectedEffect DEF Change, onConnected
<1>10. CASE RetryFires
    BY <1>0, <1>2, <1>10, RetryEffect DEF Change, RetryFires
<1>11. ASSUME NEW a \in Attempts, Authorized(a) PROVE GhostInv'
  <2> DEFINE f == [type |-> "subscribe", epoch |-> cl.att[a].epoch, rec |-> cl.att[a].rec]
  <2>1. cl'.confirmed = cl.confirmed
      BY <1>0, <1>11, AuthorizedEffect DEF Change
  <2>2. up' = Append(up, f) /\ UNCHANGED <<down, held, odd>>
      BY <1>11 DEF Authorized
  <2>3. cl.att[a] \in Attempt
      BY <1>0 DEF Records
  <2>4. f \in Frame
      BY <2>3 DEF Frame, Attempt
  <2> HIDE DEF f
  <2>5. Unsubs \subseteq Unsubs'
      BY <1>4, <2>2, <2>4
  <2>6. HeldNews => HeldNews'
      BY <2>2 DEF HeldNews
  <2> QED BY <1>1, <2>1, <2>2, <2>5, <2>6 DEF GhostInv
<1>12. ASSUME NEW a \in Attempts, AuthorizeThrows(a) \/ AuthorizedTooLate(a) PROVE GhostInv'
  <2>1. Change(cl, cl', a)
      BY <1>0, <1>12, ThrowsEffect, LateEffect
  <2>2. UNCHANGED <<up, down, held, odd>>
      BY <1>12 DEF AuthorizeThrows, AuthorizedTooLate
  <2> QED BY <1>2, <2>1, <2>2 DEF Change
<1>13. CASE AckTimeout
  <2>1. cl' = cl \/ \E a : Change(cl, cl', a)
      BY <1>0, <1>13, TimeoutEffect
  <2>2. cl'.confirmed = cl.confirmed
      BY <2>1 DEF Change
  <2> QED BY <1>2, <1>13, <2>2 DEF AckTimeout
<1>14. CASE onSubscribed
  <2>1. /\ down # <<>> /\ down' = Tail(down) /\ Head(down).type = "subscribed" /\ held' = held
        /\ odd \subseteq odd' /\ (cl.rec = None => odd' = odd) /\ ("kept" \in odd' => "kept" \in odd)
      BY <1>14 DEF onSubscribed
  <2>2. /\ Head(down) = down[1] /\ 1 \in DOMAIN down /\ DOMAIN down' = 1 .. Len(down) - 1
        /\ \A i \in DOMAIN down' : i + 1 \in DOMAIN down /\ down'[i] = down[i + 1]
      BY <1>0, <2>1, TailFacts
  <2>3. NoneKept'
      BY <1>1, <2>1, <2>2
  <2>4. /\ cl'.confirmed = (cl.rec # None)
        /\ cl.rec = None =>
             \/ up' = Append(up, u)
             \/ up' = up /\ Pending("unsubscribe") # {}
      BY <1>0, <1>14, SubscribedEffect DEF u
  <2>5. CASE cl.rec # None
      BY <2>3, <2>4, <2>5 DEF GhostInv
  <2>6. CASE up' = Append(up, u)
    <3>1. Unsubs' # {}
        BY <1>4, <1>5, <2>6
    <3> QED BY <2>3, <3>1 DEF GhostInv
  <2>7. CASE cl.rec = None /\ up' = up /\ Pending("unsubscribe") # {}
    <3> SUFFICES ASSUME held, Clear(odd), Unsubs = {} PROVE HeldNews'
        BY <2>1, <2>3, <2>7 DEF GhostInv, Unsubs
    <3>1. HeldNews
        BY <1>0, <1>1, <2>7 DEF Clean
    <3>2. PICK d \in DOMAIN down :
            /\ down[d].type = "subscribed"
            /\ \A e \in DOMAIN down : e > d => down[e].type # "unsubscribed"
        BY <3>1 DEF HeldNews
    <3>3. Answers # {}
      <4>1. Cardinality(Pending("unsubscribe")) <= Cardinality(Answers) + Cardinality(Unsubs)
          BY <1>0 DEF CountInv
      <4>2. /\ Cardinality(Pending("unsubscribe")) \in Nat /\ Cardinality(Pending("unsubscribe")) # 0
            /\ Cardinality(Unsubs) = 0
            /\ Cardinality(Answers) \in Nat /\ (Cardinality(Answers) = 0 <=> Answers = {})
          BY <1>0, <2>7, CountsAreAt, AtCount
      <4> QED BY <4>1, <4>2
    <3>4. PICK e \in DOMAIN down : down[e].type = "unsubscribed"
        BY <1>1, <3>3 DEF Answers
    <3>5. e # 1 /\ d # 1
      <4>1. e # 1
          BY <2>1, <2>2, <3>4
      <4>2. e > 1
          BY <1>0, <4>1
      <4> QED BY <3>2, <3>4, <4>1, <4>2
    <3>6. d - 1 \in DOMAIN down' /\ (d - 1) + 1 = d
        BY <1>0, <2>2, <3>5
    <3>7. down'[d - 1].type = "subscribed"
        BY <2>2, <3>2, <3>6
    <3>8. ASSUME NEW x \in DOMAIN down', x > d - 1 PROVE down'[x].type # "unsubscribed"
      <4>1. x + 1 > d
          BY <1>0, <2>2, <3>8
      <4> QED BY <2>2, <3>2, <4>1
    <3> QED BY <3>6, <3>7, <3>8 DEF HeldNews
  <2> QED BY <2>4, <2>5, <2>6, <2>7
<1>15. CASE onUnsubscribed
    BY <1>3, <1>15 DEF onUnsubscribed
<1>16. CASE onErrorFrame
  <2>1. cl' = cl \/ \E a : Change(cl, cl', a)
      BY <1>0, <1>16, ErrorEffect
  <2>2. cl'.confirmed = cl.confirmed
      BY <2>1 DEF Change
  <2> QED BY <1>3, <1>16, <2>2 DEF onErrorFrame
<1>17. CASE Server
  <2>1. /\ up # <<>> /\ up' = Tail(up) /\ cl' = cl /\ odd \subseteq odd'
        /\ \/ down' = down /\ "lost" \in odd'
           \/ \E t \in AnswerTypes :
                /\ down' = Append(down, [type |-> t, rec |-> up[1].rec])
                /\ t \in {"unsubscribed", "unsubscribe refused"} <=> up[1].type = "unsubscribe"
                /\ t = "unsubscribe refused" => "kept" \in odd'
                /\ t \in {"limited", "refused"} => held' = held
                /\ t = "unsubscribed" => held' = FALSE
      BY <1>0, <1>17, ServerEffect
  <2>2. CASE down' = down /\ "lost" \in odd'
      BY <1>1, <2>1, <2>2 DEF GhostInv
  <2>3. ASSUME NEW t \in AnswerTypes,
               down' = Append(down, [type |-> t, rec |-> up[1].rec]),
               t \in {"unsubscribed", "unsubscribe refused"} <=> up[1].type = "unsubscribe",
               t = "unsubscribe refused" => "kept" \in odd',
               t \in {"limited", "refused"} => held' = held,
               t = "unsubscribed" => held' = FALSE
        PROVE  GhostInv'
    <3> DEFINE m == [type |-> t, rec |-> up[1].rec]
    <3>1. /\ 1 \in DOMAIN up /\ up[1] \in Frame /\ DOMAIN up' = 1 .. Len(up) - 1
          /\ \A i \in DOMAIN up' : up'[i] = up[i + 1]
        BY <1>0, <2>1, TailFacts
    <3>2. m \in Reply /\ m.type = t /\ down' = Append(down, m)
        BY <2>3, <3>1 DEF Reply, Frame
    <3> HIDE DEF m
    <3>3. /\ DOMAIN down' = 1 .. Len(down) + 1
          /\ \A i \in DOMAIN down : down'[i] = down[i]
          /\ down'[Len(down) + 1] = m
        BY <1>0, <3>2, AppendFacts
    <3>4. /\ Len(down) + 1 \in DOMAIN down' /\ \A i \in DOMAIN down' : i \in DOMAIN down \/ i = Len(down) + 1
          /\ \A i \in DOMAIN down : i \in DOMAIN down'
        BY <1>0, <3>3
    <3>5. NoneKept'
        BY <1>1, <2>1, <2>3, <3>2, <3>3, <3>4
    <3>6. CASE t = "subscribed"
      <4>1. down'[Len(down) + 1].type = "subscribed"
          BY <3>2, <3>3, <3>6
      <4>2. \A e \in DOMAIN down' : ~ (e > Len(down) + 1)
          BY <1>0, <3>3
      <4>3. HeldNews'
          BY <3>4, <4>1, <4>2 DEF HeldNews
      <4> QED BY <3>5, <4>3 DEF GhostInv
    <3>7. CASE t \in {"limited", "refused"}
      <4>1. up[1].type # "unsubscribe" /\ held' = held
          BY <2>3, <3>7
      <4>2. ASSUME Unsubs # {} PROVE Unsubs' # {}
        <5>1. PICK j \in DOMAIN up : up[j].type = "unsubscribe"
            BY <4>2 DEF Unsubs
        <5>2. j # 1
            BY <4>1, <5>1
        <5>3. j - 1 \in DOMAIN up' /\ (j - 1) + 1 = j
            BY <1>0, <3>1, <5>2
        <5>4. up'[j - 1].type = "unsubscribe"
            BY <3>1, <5>1, <5>3
        <5> QED BY <5>3, <5>4 DEF Unsubs
      <4>3. ASSUME HeldNews PROVE HeldNews'
        <5>1. PICK d \in DOMAIN down :
                /\ down[d].type = "subscribed"
                /\ \A e \in DOMAIN down : e > d => down[e].type # "unsubscribed"
            BY <4>3 DEF HeldNews
        <5>2. \A e \in DOMAIN down' : e > d => down'[e].type # "unsubscribed"
            BY <3>2, <3>3, <3>4, <3>7, <5>1
        <5> QED BY <3>3, <3>4, <5>1, <5>2 DEF HeldNews
      <4>4. Clear(odd') => Clear(odd)
          BY <2>1
      <4> QED BY <1>1, <2>1, <3>5, <4>1, <4>2, <4>3, <4>4 DEF GhostInv
    <3>8. CASE t = "unsubscribed"
        BY <2>3, <3>5, <3>8 DEF GhostInv
    <3>9. CASE t = "unsubscribe refused"
        BY <2>3, <3>5, <3>9 DEF GhostInv
    <3> QED BY <3>6, <3>7, <3>8, <3>9 DEF AnswerTypes
  <2> QED BY <2>1, <2>2, <2>3
<1>18. CASE UNCHANGED vars
    BY <1>2, <1>18 DEF vars
<1> QED
    BY <1>6, <1>7, <1>8, <1>9, <1>10, <1>11, <1>12, <1>13, <1>14, <1>15, <1>16, <1>17, <1>18
    DEF Next, Authorize, Receive, Server

-----------------------------------------------------------------------------
(* The theorems.                                                           *)

(* Nothing is subscribed and nothing under way when the client starts.     *)
LEMMA InitIInv ==
    ASSUME Init PROVE IInv
<1>0. None \notin Calls /\ None \notin Attempts /\ MaxEpochs \in Nat \ {0} /\ MaxLost \in Nat
    BY ClientAssumption
<1>1. NoAttempt \in Attempt /\ [pc |-> "new", rec |-> None, att |-> None] \in Call
    BY <1>0 DEF NoAttempt, Attempt, Call
<1>2. cl \in Records /\ Clean(cl)
  <2>1. [a \in Attempts |-> NoAttempt] \in [Attempts -> Attempt]
      BY <1>1
  <2>2. [k \in Calls |-> [pc |-> "new", rec |-> None, att |-> None]] \in [Calls -> Call]
      BY <1>1
  <2> QED BY <2>1, <2>2 DEF Init, Records, Clean
<1>3. WireInv
    BY <1>0, EmptySeq DEF Init, WireInv
<1>4. PendingInv
    BY DEF Init, PendingInv
<1>5. TypeOK
  <2>1. /\ state = "connecting" /\ epoch = 0 /\ held = FALSE /\ lost = 0 /\ odd = {}
      BY DEF Init
  <2>2. epoch \in 0..MaxEpochs /\ lost \in 0..MaxLost
      BY <1>0, <2>1
  <2> QED BY <1>2, <1>4, <2>1, <2>2 DEF TypeOK, Records, Attempt, Call, Clean, PendingInv
<1>6. FreshInv
    BY <1>0 DEF Init, FreshInv, Unused, NoAttempt
<1>7. HeldInv /\ GhostInv
    BY DEF Init, HeldInv, GhostInv
<1>8. CountInv
  <2>1. Pending("unsubscribe") = {} /\ Answers = {} /\ Unsubs = {}
      BY DEF Init, Pending, Answers, Unsubs
  <2> QED BY <2>1, FS_EmptySet DEF CountInv
<1> QED BY <1>3, <1>4, <1>5, <1>6, <1>7, <1>8 DEF IInv

(* The inductive invariant holds throughout.                               *)
THEOREM Invariance == Spec => []IInv
<1>1. Init => IInv
    BY InitIInv
<1>2. IInv /\ [Next]_vars => IInv'
    BY TypeStep, WireStep, PendingStep, FreshStep, HeldStep, CountStep, GhostStep DEF IInv
<1> QED BY <1>1, <1>2, PTL DEF Spec

(* Type correctness: a pending subscribe has a live attempt, and a record  *)
(* that is gone leaves neither handler nor retry timer behind.             *)
THEOREM TypeCorrect == Spec => []TypeOK
<1>1. IInv => TypeOK
    BY DEF IInv
<1> QED BY <1>1, Invariance, PTL

(* NoStaleToken: however long authorize() takes and whatever drops in the  *)
(* meantime, a token is sent on the connection it was issued for.          *)
THEOREM TokensAreCurrent == Spec => []NoStaleToken
<1>1. IInv => NoStaleToken
    BY DEF IInv, WireInv, NoStaleToken
<1> QED BY <1>1, Invariance, PTL

(* ConfirmedIsHeld: through timeouts, late acks, lost answers, drops and   *)
(* reconnects, what #settleOp has confirmed the server holds.              *)
THEOREM ConfirmationIsTrue == Spec => []ConfirmedIsHeld
<1>1. IInv => ConfirmedIsHeld
  <2> SUFFICES ASSUME IInv, cl.confirmed, "mixed" \notin odd PROVE held
      BY DEF ConfirmedIsHeld
  <2>1. cl.rec # None
      BY DEF IInv, TypeOK
  <2> QED BY <2>1 DEF IInv, HeldInv, Assured
<1> QED BY <1>1, Invariance, PTL

(* NoGhost: every ack that nobody wants is undone; no subscription is left *)
(* behind at the server unless it dropped the ack or refused the undo.     *)
THEOREM NoGhostIsLeft == Spec => []NoGhost
<1>1. IInv => NoGhost
  <2> SUFFICES ASSUME IInv, Quiet, held, odd \intersect {"lost", "kept"} = {} PROVE cl.rec # None
      BY DEF NoGhost
  <2>1. Unsubs = {} /\ ~HeldNews
      BY DEF Quiet, Unsubs, HeldNews
  <2>2. cl.confirmed
      BY <2>1 DEF IInv, GhostInv
  <2> QED BY <2>2 DEF IInv, TypeOK
<1> QED BY <1>1, Invariance, PTL
=============================================================================
