--------------------------- MODULE Admission_proofs ---------------------------
(***************************************************************************)
(* Proofs about Admission, for any number of connections, keys, channels   *)
(* and tokens, and any rates, bursts and life times that the assumption    *)
(* allows.                                                                 *)
(***************************************************************************)
EXTENDS Admission, FiniteSetTheorems, TLAPS

(* What a handler's place says of its frame: a private channel that it is  *)
(* about to join was not held, and is joined with a token signed for it.   *)
FlowInv ==
    \A c \in Conns :
        /\ h[c].pc \in {"verify", "record", "grant"} => h[c].ch \notin subs[c]
        /\ h[c].pc \in {"verify", "record"} => h[c].ch \in Private
        /\ h[c].pc = "record" \/ (h[c].pc = "grant" /\ h[c].ch \in Private) =>
               h[c].tok \in issued /\ h[c].tok.sock = c /\ h[c].tok.chan = h[c].ch
        /\ h[c].pc = "grant" /\ h[c].ch \in Private => accepted[h[c].tok.jti] > 0

(* A jti names one token; an accepted token is in the replay cache until   *)
(* it expires.                                                             *)
TokenInv ==
    /\ \A t, u \in issued : t.jti = u.jti => t = u
    /\ \A j \in Jtis : accepted[j] > 0 => \E t \in issued : t.jti = j
    /\ \A t \in issued : accepted[t.jti] > 0 => t \in seen \/ now >= t.exp

(* The connection t was signed for has spent t and is about to join or to  *)
(* be refused at a cap.                                                    *)
Spending(t) == h[t.sock].pc = "grant" /\ h[t.sock].ch \in Private /\ h[t.sock].tok = t

(* Acceptances and answers balance, to the one that is under way.          *)
AccountInv ==
    /\ \A t \in issued :
           accepted[t.jti] = joined[t.jti] + capped[t.jti] + (IF Spending(t) THEN 1 ELSE 0)
    /\ \A j \in Jtis : joined[j] > 0 \/ capped[j] > 0 => \E t \in issued : t.jti = j

(* A handler inside Allow stands at the bucket of its key, which is too    *)
(* young to be evicted; nobody else refers to a bucket.                    *)
AllowInv ==
    \A c \in Conns :
        IF h[c].pc = "spend"
        THEN /\ h[c].bucket = entries[KeyOf[c]] /\ h[c].bucket \in Buckets
             /\ h[c].since <= lastSeen[KeyOf[c]]
             /\ now <= h[c].since + Stall
        ELSE h[c].bucket = NoBucket

(* Two keys never share a bucket, and a key's bucket holds no more than    *)
(* one that is never evicted would; that one is full while there is none.  *)
BucketInv ==
    /\ \A k, l \in Keys : entries[k] # NoBucket /\ entries[k] = entries[l] => k = l
    /\ \A k \in Keys : entries[k] # NoBucket => level[entries[k]] <= ideal[k]
    /\ \A k \in Keys : entries[k] = NoBucket => ideal[k] = Burst
    /\ \A k \in Keys : 0 <= ideal[k] /\ ideal[k] <= Burst

(* Nothing is spent of a bucket later than Stall after it was last asked   *)
(* for, so from then on it refills undisturbed.                            *)
RefillInv ==
    \A k \in Keys :
        /\ lastSeen[k] <= now
        /\ entries[k] # NoBucket /\ now >= lastSeen[k] + Stall =>
               ideal[k] = Burst \/ ideal[k] >= (now - (lastSeen[k] + Stall)) * Rate

(* The inductive invariant.                                                *)
IInv ==
    /\ TypeOK
    /\ FlowInv
    /\ TokenInv
    /\ AccountInv
    /\ SingleUse
    /\ HeldWasPaid
    /\ AllowInv
    /\ BucketInv
    /\ RefillInv

-----------------------------------------------------------------------------
(* The steps, with the handler's record written out.                       *)

(* The two ends of handleSubscribe.                                        *)
Grant(c) == Join(c) \/ CapRefuses(c)

Handler == [pc : {"idle", "spend", "verify", "record", "grant"},
            op : {"none", "subscribe", "unsubscribe", "publish"},
            ch : Channels, tok : Token \cup {NoToken},
            bucket : Buckets \cup {NoBucket}, since : 0..MaxTime]

(* There is always a new bucket: the heap never runs out of objects while  *)
(* one per key and one per connection suffice.                             *)
LEMMA FreshBucket == TypeOK => \E b \in Buckets : ~InUse(b)
  <1> SUFFICES ASSUME TypeOK, \A b \in Buckets : InUse(b) PROVE FALSE
    OBVIOUS
  <1> DEFINE ofKeys == {entries[k] : k \in Keys}
             at == [c \in Conns |-> h[c].bucket]
             ofConns == {at[c] : c \in Conns}
  <1>1. IsFiniteSet(Keys) /\ IsFiniteSet(Conns)
    BY AdmissionAssumption
  <1>2. entries \in Surjection(Keys, ofKeys)
    BY DEF TypeOK, Surjection
  <1>3. IsFiniteSet(ofKeys) /\ Cardinality(ofKeys) <= Cardinality(Keys)
    BY <1>1, <1>2, FS_Surjection
  <1>4. at \in Surjection(Conns, ofConns)
    BY DEF Surjection
  <1>5. IsFiniteSet(ofConns) /\ Cardinality(ofConns) <= Cardinality(Conns)
    BY <1>1, <1>4, FS_Surjection
  <1>6. IsFiniteSet(ofKeys \cup ofConns)
        /\ Cardinality(ofKeys \cup ofConns) =
               Cardinality(ofKeys) + Cardinality(ofConns) - Cardinality(ofKeys \cap ofConns)
    BY <1>3, <1>5, FS_Union
  <1>7. IsFiniteSet(ofKeys \cap ofConns)
    BY <1>3, FS_Intersection
  <1>8. Buckets \in SUBSET (ofKeys \cup ofConns)
    BY DEF InUse
  <1>9. Cardinality(Buckets) <= Cardinality(ofKeys \cup ofConns) /\ IsFiniteSet(Buckets)
    BY <1>6, <1>8, FS_Subset
  <1> HIDE DEF ofKeys, ofConns
  <1>10. /\ Cardinality(Keys) \in Nat /\ Cardinality(Conns) \in Nat /\ Cardinality(Buckets) \in Nat
         /\ Cardinality(ofKeys) \in Nat /\ Cardinality(ofConns) \in Nat
         /\ Cardinality(ofKeys \cap ofConns) \in Nat
    BY <1>1, <1>3, <1>5, <1>7, <1>9, FS_CardinalityType
  <1> QED BY <1>3, <1>5, <1>6, <1>9, <1>10, AdmissionAssumption

(* Allow's first half: the handler stands at the key's bucket, which is    *)
(* the old one or a new and full one that nobody else knows.               *)
LEMMA LookupStep ==
    ASSUME TypeOK, NEW c \in Conns, NEW op, NEW ch, NEW t, Lookup(c, op, ch, t)
    PROVE  \E b \in Buckets :
             /\ h' = [h EXCEPT ![c] = [pc |-> "spend", op |-> op, ch |-> ch, tok |-> t,
                                       bucket |-> b, since |-> now]]
             /\ entries' = [entries EXCEPT ![KeyOf[c]] = b]
             /\ lastSeen' = [lastSeen EXCEPT ![KeyOf[c]] = now]
             /\ \/ entries[KeyOf[c]] = b /\ level' = level
                \/ /\ entries[KeyOf[c]] = NoBucket /\ ~InUse(b)
                   /\ level' = [level EXCEPT ![b] = Burst]
  <1>1. KeyOf[c] \in Keys /\ NoBucket \notin Buckets
    BY AdmissionAssumption
  <1>2. CASE entries[KeyOf[c]] = NoBucket
    <2> DEFINE b == CHOOSE x \in Buckets : ~InUse(x)
    <2>1. b \in Buckets /\ ~InUse(b)
      BY FreshBucket
    <2> HIDE DEF b
    <2>2. /\ h' = [h EXCEPT ![c] = [pc |-> "spend", op |-> op, ch |-> ch, tok |-> t,
                                    bucket |-> b, since |-> now]]
          /\ entries' = [entries EXCEPT ![KeyOf[c]] = b]
          /\ lastSeen' = [lastSeen EXCEPT ![KeyOf[c]] = now]
          /\ level' = [level EXCEPT ![b] = Burst]
      BY <1>2 DEF Lookup, b
    <2> QED BY <1>2, <2>1, <2>2
  <1>3. CASE entries[KeyOf[c]] # NoBucket
    <2>1. entries[KeyOf[c]] \in Buckets
      BY <1>1, <1>3 DEF TypeOK
    <2>2. /\ h' = [h EXCEPT ![c] = [pc |-> "spend", op |-> op, ch |-> ch, tok |-> t,
                                    bucket |-> entries[KeyOf[c]], since |-> now]]
          /\ entries' = [entries EXCEPT ![KeyOf[c]] = entries[KeyOf[c]]]
          /\ lastSeen' = [lastSeen EXCEPT ![KeyOf[c]] = now]
          /\ level' = level
      BY <1>3 DEF Lookup
    <2> QED BY <2>1, <2>2
  <1> QED BY <1>2, <1>3

(* The handler goes on to another check, out of Allow.                     *)
LEMMA GotoStep ==
    ASSUME TypeOK, NEW c \in Conns, NEW l \in {"verify", "record", "grant"}, Goto(c, l)
    PROVE  /\ h' \in [Conns -> Handler]
           /\ \A d \in Conns \ {c} : h'[d] = h[d]
           /\ h'[c].pc = l /\ h'[c].bucket = NoBucket
           /\ h'[c].op = h[c].op /\ h'[c].ch = h[c].ch /\ h'[c].tok = h[c].tok
  <1>1. h \in [Conns -> Handler] /\ 0 \in 0..MaxTime
    BY AdmissionAssumption DEF TypeOK, Handler
  <1>2. \A d \in Conns \ {c} : h'[d] = h[d]
    BY <1>1 DEF Goto
  <1>3. h'[c] = [h[c] EXCEPT !.pc = l, !.bucket = NoBucket, !.since = 0]
    BY <1>1 DEF Goto
  <1>4. /\ h'[c] \in Handler
        /\ h'[c].pc = l /\ h'[c].bucket = NoBucket
        /\ h'[c].op = h[c].op /\ h'[c].ch = h[c].ch /\ h'[c].tok = h[c].tok
    <2> DEFINE r == [h[c] EXCEPT !.pc = l]
               s == [r EXCEPT !.bucket = NoBucket]
    <2>1. h[c] \in Handler /\ h'[c] = [s EXCEPT !.since = 0]
      BY <1>1, <1>3
    <2>2. r \in Handler /\ r.pc = l /\ r.op = h[c].op /\ r.ch = h[c].ch /\ r.tok = h[c].tok
      BY <2>1 DEF Handler
    <2> HIDE DEF r
    <2>3. /\ s \in Handler /\ s.bucket = NoBucket
          /\ s.pc = r.pc /\ s.op = r.op /\ s.ch = r.ch /\ s.tok = r.tok
      BY <2>2 DEF Handler
    <2> HIDE DEF s
    <2>4. /\ h'[c] \in Handler /\ h'[c].bucket = s.bucket
          /\ h'[c].pc = s.pc /\ h'[c].op = s.op /\ h'[c].ch = s.ch /\ h'[c].tok = s.tok
      BY <1>1, <2>1, <2>3 DEF Handler
    <2> QED BY <2>2, <2>3, <2>4
  <1>5. h' = [d \in Conns |-> h'[d]]
    BY <1>1 DEF Goto
  <1>6. h' \in [Conns -> Handler]
    BY <1>1, <1>2, <1>4, <1>5
  <1> QED BY <1>2, <1>4, <1>6

(* Answering ends the frame: the handler is idle again.                    *)
LEMMA AnswerStep ==
    ASSUME TypeOK, NEW c \in Conns, Answer(c)
    PROVE  /\ h' \in [Conns -> Handler]
           /\ \A d \in Conns \ {c} : h'[d] = h[d]
           /\ h'[c].pc = "idle" /\ h'[c].bucket = NoBucket
  <1>1. h \in [Conns -> Handler] /\ Idle \in Handler /\ Idle.pc = "idle" /\ Idle.bucket = NoBucket
    BY AdmissionAssumption DEF TypeOK, Handler, Idle, Channels
  <1> QED BY <1>1 DEF Answer

(* A frame that is let through to Allow.                                   *)
Framed(c, op, ch, t) ==
    /\ h[c].pc = "idle"
    /\ Lookup(c, op, ch, t)
    /\ pub' \in [Conns -> 0..ConnBurst] /\ ctl' \in [Conns -> 0..ConnBurst]
    /\ UNCHANGED <<now, tokenVars, subs, ideal>>

(* The three kinds of frame do that and nothing more.                      *)
LEMMA FrameStep ==
    ASSUME TypeOK, NEW c \in Conns, NEW ch \in Channels,
           \/ \E t \in Presented(ch) : SubscribeFrame(c, ch, t)
           \/ UnsubscribeFrame(c, ch)
           \/ PublishFrame(c, ch)
    PROVE  \E op \in {"subscribe", "unsubscribe", "publish"}, t \in issued \cup {NoToken} :
               Framed(c, op, ch, t)
  <1>0. ConnBurst \in Nat
    BY AdmissionAssumption
  <1>1. ASSUME NEW t \in Presented(ch), SubscribeFrame(c, ch, t)
        PROVE  t \in issued \cup {NoToken} /\ Framed(c, "subscribe", ch, t)
    BY <1>0, <1>1 DEF SubscribeFrame, ChargeControl, Framed, TypeOK, Presented
  <1>2. ASSUME UnsubscribeFrame(c, ch) PROVE Framed(c, "unsubscribe", ch, NoToken)
    BY <1>0, <1>2 DEF UnsubscribeFrame, ChargeControl, Framed, TypeOK
  <1>3. ASSUME PublishFrame(c, ch) PROVE Framed(c, "publish", ch, NoToken)
    BY <1>0, <1>3 DEF PublishFrame, Framed, TypeOK
  <1> QED BY <1>1, <1>2, <1>3

(* Every step is one of these.                                             *)
LEMMA NextCases ==
    ASSUME IInv, [Next]_vars
    PROVE  \/ \E c \in Conns, ch \in Channels, t \in issued \cup {NoToken},
                 op \in {"subscribe", "unsubscribe", "publish"} : Framed(c, op, ch, t)
           \/ \E c \in Conns : \/ RateLimited(c) \/ Spend(c) \/ Verify(c)
                               \/ CheckAndRecord(c) \/ Grant(c)
           \/ \E c \in Conns, ch \in Channels : Sign(c, ch)
           \/ Sweep \/ gcOnce \/ Tick \/ UNCHANGED vars
  <1>1. TypeOK
    BY DEF IInv
  <1>2. ASSUME NEW c \in Conns, NEW ch \in Channels,
               \/ \E t \in Presented(ch) : SubscribeFrame(c, ch, t)
               \/ UnsubscribeFrame(c, ch)
               \/ PublishFrame(c, ch)
        PROVE  \E t \in issued \cup {NoToken}, op \in {"subscribe", "unsubscribe", "publish"} :
                   Framed(c, op, ch, t)
    BY <1>1, <1>2, FrameStep
  <1> QED BY <1>2 DEF Next, Handle, Grant

(* Every step keeps the types.                                             *)
LEMMA TypeStep == IInv /\ [Next]_vars => TypeOK'
  <1> SUFFICES ASSUME IInv, [Next]_vars PROVE TypeOK'
    OBVIOUS
  <1>0. /\ TypeOK
        /\ {Rate, Burst, TTL, ConnBurst, MaxChannels, Life, Stall, MaxTime} \subseteq Nat
        /\ KeyOf \in [Conns -> Keys]
    BY AdmissionAssumption DEF IInv
  <1> USE <1>0 DEF TypeOK, tokenVars, keyVars
  <1>1. ASSUME NEW c \in Conns, NEW ch \in Channels, NEW t \in issued \cup {NoToken},
               NEW op \in {"subscribe", "unsubscribe", "publish"}, Framed(c, op, ch, t)
        PROVE  TypeOK'
    <2>1. PICK b \in Buckets :
             /\ h' = [h EXCEPT ![c] = [pc |-> "spend", op |-> op, ch |-> ch, tok |-> t,
                                       bucket |-> b, since |-> now]]
             /\ entries' = [entries EXCEPT ![KeyOf[c]] = b]
             /\ lastSeen' = [lastSeen EXCEPT ![KeyOf[c]] = now]
             /\ level' = level \/ level' = [level EXCEPT ![b] = Burst]
      BY <1>1, LookupStep DEF Framed
    <2>2. [pc |-> "spend", op |-> op, ch |-> ch, tok |-> t, bucket |-> b, since |-> now] \in Handler
      BY DEF Handler
    <2>3. h' \in [Conns -> Handler]
      BY <2>1, <2>2 DEF Handler
    <2>4. entries' \in [Keys -> Buckets \cup {NoBucket}] /\ lastSeen' \in [Keys -> 0..MaxTime]
      BY <2>1
    <2>5. level' \in [Buckets -> 0..Burst]
      BY <2>1
    <2> QED BY <1>1, <2>3, <2>4, <2>5 DEF Framed, Handler
  <1>2. ASSUME NEW c \in Conns, RateLimited(c) PROVE TypeOK'
    <2>1. h' \in [Conns -> Handler]
      BY <1>2, AnswerStep DEF RateLimited
    <2> QED BY <1>2, <2>1 DEF RateLimited, Handler
  <1>3. ASSUME NEW c \in Conns, Spend(c) PROVE TypeOK'
    <2>1. h' \in [Conns -> Handler]
      <3>1. Answer(c) \/ \E l \in {"verify", "grant"} : Goto(c, l)
        BY <1>3 DEF Spend
      <3> QED BY <3>1, AnswerStep, GotoStep
    <2>2. h[c].bucket \in Buckets /\ level[h[c].bucket] > 0
      BY <1>3 DEF Spend, IInv, AllowInv
    <2>3. level' \in [Buckets -> 0..Burst]
      BY <1>3, <2>2 DEF Spend
    <2>4. ideal' \in [Keys -> Int] /\ subs' \in [Conns -> SUBSET Channels]
      BY <1>3 DEF Spend
    <2> QED BY <1>3, <2>1, <2>3, <2>4 DEF Spend, Handler
  <1>4. ASSUME NEW c \in Conns, Verify(c) PROVE TypeOK'
    <2>1. h' \in [Conns -> Handler]
      BY <1>4, AnswerStep, GotoStep DEF Verify
    <2> QED BY <1>4, <2>1 DEF Verify, Handler
  <1>5. ASSUME NEW c \in Conns, CheckAndRecord(c) PROVE TypeOK'
    <2>1. h' \in [Conns -> Handler]
      BY <1>5, AnswerStep, GotoStep DEF CheckAndRecord
    <2>2. h[c].tok \in issued /\ h[c].tok.jti \in Jtis
      BY <1>5 DEF CheckAndRecord, IInv, FlowInv, Token
    <2>3. seen' \subseteq issued /\ accepted' \in [Jtis -> Nat]
      BY <1>5, <2>2 DEF CheckAndRecord
    <2> QED BY <1>5, <2>1, <2>3 DEF CheckAndRecord, Handler
  <1>6. ASSUME NEW c \in Conns, Grant(c) PROVE TypeOK'
    <2>1. h' \in [Conns -> Handler]
      BY <1>6, AnswerStep DEF Grant, Join, CapRefuses
    <2>2. h[c].ch \in Channels
      OBVIOUS
    <2>3. h[c].ch \in Private => h[c].tok \in issued
      BY <1>6 DEF Grant, Join, CapRefuses, IInv, FlowInv
    <2>4. {joined', capped'} \subseteq [Jtis -> Nat]
      <3>1. h[c].ch \in Private => h[c].tok.jti \in Jtis
        BY <2>3 DEF Token
      <3>2. Count(c, joined) \in [Jtis -> Nat] /\ Count(c, capped) \in [Jtis -> Nat]
        BY <3>1 DEF Count, ChannelRequiresAuth
      <3>3. joined' \in {joined, Count(c, joined)} /\ capped' \in {capped, Count(c, capped)}
        BY <1>6 DEF Grant, Join, CapRefuses
      <3> QED BY <3>2, <3>3
    <2>5. subs' \in [Conns -> SUBSET Channels]
      BY <1>6, <2>2 DEF Grant, Join, CapRefuses
    <2> QED BY <1>6, <2>1, <2>4, <2>5 DEF Grant, Join, CapRefuses, Handler
  <1>7. ASSUME NEW c \in Conns, NEW ch \in Channels, Sign(c, ch) PROVE TypeOK'
    <2>1. PICK j \in Jtis : issued' = issued \cup {SignToken(j, c, ch)}
      BY <1>7 DEF Sign
    <2>2. SignToken(j, c, ch) \in Token
      BY <1>7 DEF Sign, SignToken, Token, ChannelRequiresAuth
    <2> QED BY <1>7, <2>1, <2>2 DEF Sign
  <1>8. CASE Sweep
    BY <1>8 DEF Sweep
  <1>9. CASE gcOnce
    <2>1. entries' \in [Keys -> Buckets \cup {NoBucket}] /\ lastSeen' \in [Keys -> 0..MaxTime]
      BY <1>9 DEF gcOnce
    <2> QED BY <1>9, <2>1 DEF gcOnce
  <1>10. CASE Tick
    <2>1. now' \in 0..MaxTime
      BY <1>10 DEF Tick
    <2>2. level' \in [Buckets -> 0..Burst]
      BY <1>10 DEF Tick, Refill
    <2>3. pub' \in [Conns -> 0..ConnBurst] /\ ctl' \in [Conns -> 0..ConnBurst]
      BY <1>10 DEF Tick, Refill
    <2>4. ideal' \in [Keys -> Int]
      BY <1>10 DEF Tick, Refill
    <2> QED BY <1>10, <2>1, <2>2, <2>3, <2>4 DEF Tick
  <1>11. CASE UNCHANGED vars
    BY <1>11 DEF vars, tokenVars, keyVars
  <1> QED BY <1>1, <1>2, <1>3, <1>4, <1>5, <1>6, <1>7, <1>8, <1>9, <1>10, <1>11, NextCases

(* Allow's first half as a whole, field by field.                          *)
LEMMA FramedStep ==
    ASSUME IInv, NEW c \in Conns, NEW op, NEW ch, NEW t, Framed(c, op, ch, t)
    PROVE  \E b \in Buckets :
             /\ h[c].pc = "idle" /\ h'[c].pc = "spend" /\ h'[c].tok = t
             /\ h'[c].bucket = b /\ h'[c].since = now
             /\ \A d \in Conns \ {c} : h'[d] = h[d]
             /\ entries' = [entries EXCEPT ![KeyOf[c]] = b]
             /\ lastSeen' = [lastSeen EXCEPT ![KeyOf[c]] = now]
             /\ \/ entries[KeyOf[c]] = b /\ level' = level
                \/ /\ entries[KeyOf[c]] = NoBucket /\ ~InUse(b)
                   /\ level' = [level EXCEPT ![b] = Burst]
             /\ UNCHANGED <<now, issued, seen, accepted, joined, capped, subs, ideal>>
  <1>1. TypeOK
    BY DEF IInv
  <1>2. PICK b \in Buckets :
             /\ h' = [h EXCEPT ![c] = [pc |-> "spend", op |-> op, ch |-> ch, tok |-> t,
                                       bucket |-> b, since |-> now]]
             /\ entries' = [entries EXCEPT ![KeyOf[c]] = b]
             /\ lastSeen' = [lastSeen EXCEPT ![KeyOf[c]] = now]
             /\ \/ entries[KeyOf[c]] = b /\ level' = level
                \/ /\ entries[KeyOf[c]] = NoBucket /\ ~InUse(b)
                   /\ level' = [level EXCEPT ![b] = Burst]
    BY <1>1, LookupStep DEF Framed
  <1>3. /\ h'[c].pc = "spend" /\ h'[c].tok = t /\ h'[c].bucket = b /\ h'[c].since = now
        /\ \A d \in Conns \ {c} : h'[d] = h[d]
    BY <1>1, <1>2 DEF TypeOK
  <1> QED BY <1>2, <1>3 DEF Framed, tokenVars

(* Every step keeps what a handler's place says of its frame.              *)
LEMMA FlowStep == IInv /\ [Next]_vars => FlowInv'
  <1> SUFFICES ASSUME IInv, [Next]_vars PROVE FlowInv'
    OBVIOUS
  <1>0. TypeOK /\ FlowInv
    BY DEF IInv
  <1> USE <1>0 DEF FlowInv, tokenVars, keyVars
  <1>1. ASSUME NEW c \in Conns, NEW ch \in Channels, NEW t \in issued \cup {NoToken},
               NEW op \in {"subscribe", "unsubscribe", "publish"}, Framed(c, op, ch, t)
        PROVE  FlowInv'
    BY <1>1, FramedStep
  <1>2. ASSUME NEW c \in Conns, RateLimited(c) PROVE FlowInv'
    <2>1. h'[c].pc = "idle" /\ \A d \in Conns \ {c} : h'[d] = h[d]
      BY <1>2, AnswerStep DEF RateLimited
    <2> QED BY <1>2, <2>1 DEF RateLimited
  <1>3. ASSUME NEW c \in Conns, Spend(c) PROVE FlowInv'
    <2>1. CASE Answer(c)
      <3>1. h'[c].pc = "idle" /\ \A d \in Conns \ {c} : h'[d] = h[d]
        BY <2>1, AnswerStep
      <3>2. \A d \in Conns \ {c} : subs'[d] = subs[d]
        BY <1>3 DEF Spend, TypeOK
      <3> QED BY <1>3, <3>1, <3>2 DEF Spend
    <2>2. ASSUME ~Answer(c) PROVE FlowInv'
      <3>1. /\ subs' = subs /\ h[c].ch \notin subs[c]
            /\ Goto(c, IF h[c].ch \in Private THEN "verify" ELSE "grant")
        BY <1>3, <2>2 DEF Spend, ChannelRequiresAuth
      <3>2. /\ \A d \in Conns \ {c} : h'[d] = h[d]
            /\ h'[c].pc = (IF h[c].ch \in Private THEN "verify" ELSE "grant")
            /\ h'[c].ch = h[c].ch
        BY <3>1, GotoStep
      <3> QED BY <1>3, <3>1, <3>2 DEF Spend
    <2> QED BY <2>1, <2>2
  <1>4. ASSUME NEW c \in Conns, Verify(c) PROVE FlowInv'
    <2>1. CASE Answer(c)
      <3>1. h'[c].pc = "idle" /\ \A d \in Conns \ {c} : h'[d] = h[d]
        BY <2>1, AnswerStep
      <3> QED BY <1>4, <3>1 DEF Verify
    <2>2. ASSUME ~Answer(c) PROVE FlowInv'
      <3>1. h[c].pc = "verify" /\ Valid(c, h[c].ch, h[c].tok) /\ Goto(c, "record")
        BY <1>4, <2>2 DEF Verify
      <3>2. /\ \A d \in Conns \ {c} : h'[d] = h[d]
            /\ h'[c].pc = "record" /\ h'[c].ch = h[c].ch /\ h'[c].tok = h[c].tok
        BY <3>1, GotoStep
      <3> QED BY <1>4, <3>1, <3>2 DEF Verify, Valid
    <2> QED BY <2>1, <2>2
  <1>5. ASSUME NEW c \in Conns, CheckAndRecord(c) PROVE FlowInv'
    <2>1. CASE h[c].tok \in seen
      <3>1. h'[c].pc = "idle" /\ \A d \in Conns \ {c} : h'[d] = h[d]
        BY <1>5, <2>1, AnswerStep DEF CheckAndRecord
      <3> QED BY <1>5, <2>1, <3>1 DEF CheckAndRecord
    <2>2. CASE h[c].tok \notin seen
      <3>1. /\ \A d \in Conns \ {c} : h'[d] = h[d]
            /\ h'[c].pc = "grant" /\ h'[c].ch = h[c].ch /\ h'[c].tok = h[c].tok
        BY <1>5, <2>2, GotoStep DEF CheckAndRecord
      <3>2. h[c].pc = "record" /\ h[c].tok.jti \in Jtis
        BY <1>5 DEF CheckAndRecord, TypeOK, Token
      <3>3. accepted'[h[c].tok.jti] > 0 /\ \A j \in Jtis : accepted[j] > 0 => accepted'[j] > 0
        BY <1>5, <2>2, <3>2 DEF CheckAndRecord, TypeOK
      <3>4. \A d \in Conns : h[d].tok \in issued => h[d].tok.jti \in Jtis
        BY DEF TypeOK, Token
      <3> QED BY <1>5, <3>1, <3>2, <3>3, <3>4 DEF CheckAndRecord
    <2> QED BY <2>1, <2>2
  <1>6. ASSUME NEW c \in Conns, Grant(c) PROVE FlowInv'
    <2>1. h'[c].pc = "idle" /\ \A d \in Conns \ {c} : h'[d] = h[d]
      BY <1>6, AnswerStep DEF Grant, Join, CapRefuses
    <2>2. \A d \in Conns \ {c} : subs'[d] = subs[d]
      BY <1>6 DEF Grant, Join, CapRefuses, TypeOK
    <2> QED BY <1>6, <2>1, <2>2 DEF Grant, Join, CapRefuses
  <1>7. ASSUME NEW c \in Conns, NEW ch \in Channels, Sign(c, ch) PROVE FlowInv'
    BY <1>7 DEF Sign
  <1>8. CASE Sweep
    BY <1>8 DEF Sweep
  <1>9. CASE gcOnce
    BY <1>9 DEF gcOnce
  <1>10. CASE Tick
    BY <1>10 DEF Tick
  <1>11. CASE UNCHANGED vars
    BY <1>11 DEF vars, tokenVars, keyVars
  <1> QED BY <1>1, <1>2, <1>3, <1>4, <1>5, <1>6, <1>7, <1>8, <1>9, <1>10, <1>11, NextCases

(* Every step keeps the tokens: one that is accepted again was swept from  *)
(* the cache, at or after its expiry.                                      *)
LEMMA TokenStep == IInv /\ [Next]_vars => (TokenInv /\ SingleUse)'
  <1> SUFFICES ASSUME IInv, [Next]_vars PROVE (TokenInv /\ SingleUse)'
    OBVIOUS
  <1>0. /\ TypeOK /\ FlowInv /\ TokenInv /\ SingleUse
        /\ now \in Nat /\ \A t \in issued : t.jti \in Jtis /\ t.exp \in Nat
    BY AdmissionAssumption DEF IInv, TypeOK, Token
  <1> USE <1>0 DEF TokenInv, SingleUse, tokenVars, keyVars
  <1>1. ASSUME NEW c \in Conns, NEW ch \in Channels, NEW t \in issued \cup {NoToken},
               NEW op \in {"subscribe", "unsubscribe", "publish"}, Framed(c, op, ch, t)
        PROVE  (TokenInv /\ SingleUse)'
    <2>1. /\ h[c].pc = "idle" /\ \A d \in Conns \ {c} : h'[d] = h[d]
          /\ UNCHANGED <<now, issued, seen, accepted, joined, capped>>
      BY <1>1, FramedStep
    <2> QED BY <2>1
  <1>2. ASSUME NEW c \in Conns, RateLimited(c) PROVE (TokenInv /\ SingleUse)'
    <2>1. h[c].pc # "grant" /\ \A d \in Conns \ {c} : h'[d] = h[d]
      BY <1>2, AnswerStep DEF RateLimited
    <2> QED BY <1>2, <2>1 DEF RateLimited
  <1>3. ASSUME NEW c \in Conns, Spend(c) PROVE (TokenInv /\ SingleUse)'
    <2>1. h[c].pc # "grant" /\ \A d \in Conns \ {c} : h'[d] = h[d]
      <3>1. Answer(c) \/ \E l \in {"verify", "grant"} : Goto(c, l)
        BY <1>3 DEF Spend
      <3> QED BY <1>3, <3>1, AnswerStep, GotoStep DEF Spend
    <2> QED BY <1>3, <2>1 DEF Spend
  <1>4. ASSUME NEW c \in Conns, Verify(c) PROVE (TokenInv /\ SingleUse)'
    <2>1. h[c].pc # "grant" /\ \A d \in Conns \ {c} : h'[d] = h[d]
      BY <1>4, AnswerStep, GotoStep DEF Verify
    <2> QED BY <1>4, <2>1 DEF Verify
  <1>5. ASSUME NEW c \in Conns, CheckAndRecord(c) PROVE (TokenInv /\ SingleUse)'
    <2>1. CASE h[c].tok \in seen
      <3>1. h[c].pc # "grant" /\ \A d \in Conns \ {c} : h'[d] = h[d]
        BY <1>5, <2>1, AnswerStep DEF CheckAndRecord
      <3> QED BY <1>5, <2>1, <3>1 DEF CheckAndRecord
    <2>2. CASE h[c].tok \notin seen
      <3> DEFINE u == h[c].tok
      <3>1. /\ \A d \in Conns \ {c} : h'[d] = h[d]
            /\ h[c].pc = "record" /\ h'[c].pc = "grant" /\ h'[c].tok = u /\ h'[c].ch \in Private
        BY <1>5, <2>2, GotoStep DEF CheckAndRecord, FlowInv
      <3>2. u \in issued /\ u.jti \in Jtis
        BY <3>1 DEF FlowInv
      <3>3. /\ accepted' = [accepted EXCEPT ![u.jti] = accepted[u.jti] + 1]
            /\ seen' = seen \cup {u} /\ UNCHANGED <<now, issued>>
        BY <1>5, <2>2 DEF CheckAndRecord
      <3> HIDE DEF u
      <3>4. accepted[u.jti] \in Nat /\ accepted'[u.jti] = accepted[u.jti] + 1
        BY <3>2, <3>3 DEF TypeOK
      <3>5. \A t \in issued : t # u => accepted'[t.jti] = accepted[t.jti]
        BY <3>2, <3>3 DEF TypeOK
      <3>6. accepted[u.jti] > 0 => now >= u.exp
        BY <2>2, <3>2 DEF u
      <3>7. SingleUse'
        BY <3>2, <3>3, <3>4, <3>5, <3>6
      <3>8. \A j \in Jtis : accepted'[j] > 0 => \E t \in issued : t.jti = j
        BY <3>2, <3>3 DEF TypeOK
      <3>9. \A t \in issued : accepted'[t.jti] > 0 => t \in seen' \/ now >= t.exp
        BY <3>3, <3>5
      <3> QED BY <3>3, <3>7, <3>8, <3>9
    <2> QED BY <2>1, <2>2
  <1>6. ASSUME NEW c \in Conns, Grant(c) PROVE (TokenInv /\ SingleUse)'
    <2>1. UNCHANGED <<now, issued, seen, accepted>>
      BY <1>6 DEF Grant, Join, CapRefuses
    <2> QED BY <2>1
  <1>7. ASSUME NEW c \in Conns, NEW ch \in Channels, Sign(c, ch) PROVE (TokenInv /\ SingleUse)'
    <2>1. PICK j \in Jtis : /\ \A t \in issued : t.jti # j
                            /\ issued' = issued \cup {SignToken(j, c, ch)}
      BY <1>7 DEF Sign
    <2>2. SignToken(j, c, ch).jti = j
      BY DEF SignToken
    <2>3. accepted[j] = 0
      BY <2>1 DEF TypeOK
    <2>4. UNCHANGED <<now, seen, accepted, joined, capped, h>>
      BY <1>7 DEF Sign
    <2> QED BY <2>1, <2>2, <2>3, <2>4
  <1>8. CASE Sweep
    <2>1. seen' = {t \in seen : now < t.exp} /\ UNCHANGED <<now, issued, accepted, joined, capped, h>>
      BY <1>8 DEF Sweep
    <2> QED BY <2>1
  <1>9. CASE gcOnce
    BY <1>9 DEF gcOnce
  <1>10. CASE Tick
    <2>1. now' = now + 1 /\ UNCHANGED <<issued, seen, accepted, joined, capped, h>>
      BY <1>10 DEF Tick
    <2> QED BY <2>1
  <1>11. CASE UNCHANGED vars
    BY <1>11 DEF vars, tokenVars, keyVars
  <1> QED BY <1>1, <1>2, <1>3, <1>4, <1>5, <1>6, <1>7, <1>8, <1>9, <1>10, <1>11, NextCases

(* Every step keeps the balance of acceptances and answers.                *)
LEMMA AccountStep == IInv /\ [Next]_vars => AccountInv'
  <1> SUFFICES ASSUME IInv, [Next]_vars PROVE AccountInv'
    OBVIOUS
  <1>0. /\ TypeOK /\ FlowInv /\ TokenInv /\ AccountInv
        /\ \A t \in issued : t.jti \in Jtis /\ t.sock \in Conns
    BY DEF IInv, TypeOK, Token
  <1>a. ASSUME UNCHANGED <<issued, accepted, joined, capped>>,
               NEW c \in Conns, h[c].pc # "grant",
               h'[c].pc = "grant" => h'[c].ch \notin Private,
               \A d \in Conns \ {c} : h'[d] = h[d]
        PROVE  AccountInv'
    <2>1. \A t \in issued : Spending(t)' <=> Spending(t)
      BY <1>0, <1>a DEF Spending
    <2> QED BY <1>0, <1>a, <2>1 DEF AccountInv
  <1>b. ASSUME UNCHANGED <<issued, accepted, joined, capped, h>> PROVE AccountInv'
    BY <1>b, <1>0 DEF AccountInv, Spending
  <1> USE DEF tokenVars, keyVars
  <1>1. ASSUME NEW c \in Conns, NEW ch \in Channels, NEW t \in issued \cup {NoToken},
               NEW op \in {"subscribe", "unsubscribe", "publish"}, Framed(c, op, ch, t)
        PROVE  AccountInv'
    BY <1>1, <1>a, FramedStep
  <1>2. ASSUME NEW c \in Conns, RateLimited(c) PROVE AccountInv'
    <2>1. h'[c].pc = "idle" /\ \A d \in Conns \ {c} : h'[d] = h[d]
      BY <1>0, <1>2, AnswerStep DEF RateLimited
    <2> QED BY <1>2, <1>a, <2>1 DEF RateLimited
  <1>3. ASSUME NEW c \in Conns, Spend(c) PROVE AccountInv'
    <2>1. /\ h'[c].pc = "grant" => h'[c].ch \notin Private
          /\ \A d \in Conns \ {c} : h'[d] = h[d]
      <3>1. Answer(c) \/ Goto(c, IF h[c].ch \in Private THEN "verify" ELSE "grant")
        BY <1>3 DEF Spend, ChannelRequiresAuth
      <3> QED BY <1>0, <3>1, AnswerStep, GotoStep
    <2> QED BY <1>3, <1>a, <2>1 DEF Spend
  <1>4. ASSUME NEW c \in Conns, Verify(c) PROVE AccountInv'
    <2>1. h'[c].pc # "grant" /\ \A d \in Conns \ {c} : h'[d] = h[d]
      BY <1>0, <1>4, AnswerStep, GotoStep DEF Verify
    <2> QED BY <1>4, <1>a, <2>1 DEF Verify
  <1>5. ASSUME NEW c \in Conns, CheckAndRecord(c) PROVE AccountInv'
    <2>1. CASE h[c].tok \in seen
      <3>1. h'[c].pc = "idle" /\ \A d \in Conns \ {c} : h'[d] = h[d]
        BY <1>0, <1>5, <2>1, AnswerStep DEF CheckAndRecord
      <3> QED BY <1>5, <1>a, <2>1, <3>1 DEF CheckAndRecord
    <2>2. CASE h[c].tok \notin seen
      <3>0. PICK u : u = h[c].tok
        OBVIOUS
      <3>1. /\ \A d \in Conns \ {c} : h'[d] = h[d] /\ h[c].pc = "record"
            /\ h'[c].pc = "grant" /\ h'[c].tok = u /\ h'[c].ch = h[c].ch
        BY <1>0, <1>5, <2>2, <3>0, GotoStep DEF CheckAndRecord
      <3>2. u \in issued /\ u.sock = c /\ u.jti \in Jtis /\ h[c].ch \in Private /\ h[c].pc = "record"
        BY <1>0, <1>5, <3>0 DEF FlowInv, CheckAndRecord
      <3>3. /\ accepted' = [accepted EXCEPT ![u.jti] = accepted[u.jti] + 1]
            /\ UNCHANGED <<issued, joined, capped>>
        BY <1>5, <2>2, <3>0 DEF CheckAndRecord
      <3>4. ~Spending(u) /\ Spending(u)' /\ \A t \in issued : t # u => (Spending(t)' <=> Spending(t))
        BY <1>0, <3>1, <3>2 DEF Spending
      <3>5. accepted'[u.jti] = accepted[u.jti] + 1
            /\ \A t \in issued : t # u => accepted'[t.jti] = accepted[t.jti]
        BY <1>0, <3>2, <3>3 DEF TypeOK, TokenInv
      <3>6. {accepted[u.jti], joined[u.jti], capped[u.jti]} \subseteq Nat
        BY <1>0, <3>2 DEF TypeOK
      <3>7. accepted'[u.jti] = joined[u.jti] + capped[u.jti] + 1
        BY <1>0, <3>2, <3>4, <3>5, <3>6 DEF AccountInv
      <3> QED BY <1>0, <3>2, <3>3, <3>4, <3>5, <3>7 DEF AccountInv
    <2> QED BY <2>1, <2>2
  <1>6. ASSUME NEW c \in Conns, Grant(c) PROVE AccountInv'
    <2>0. PICK u : u = h[c].tok
      OBVIOUS
    <2>1. h[c].pc = "grant" /\ h'[c].pc = "idle" /\ \A d \in Conns \ {c} : h'[d] = h[d]
      BY <1>0, <1>6, AnswerStep DEF Grant, Join, CapRefuses
    <2>2. CASE h[c].ch \notin Private
      <3>1. UNCHANGED <<issued, accepted, joined, capped>>
        BY <1>6, <2>2 DEF Grant, Join, CapRefuses, Count, ChannelRequiresAuth
      <3>2. \A t \in issued : Spending(t)' <=> Spending(t)
        BY <1>0, <2>1, <2>2 DEF Spending
      <3> QED BY <1>0, <3>1, <3>2 DEF AccountInv
    <2>3. CASE h[c].ch \in Private
      <3>1. u \in issued /\ u.sock = c /\ u.jti \in Jtis
        BY <1>0, <2>0, <2>1, <2>3 DEF FlowInv
      <3>2. /\ UNCHANGED <<issued, accepted>>
            /\ \/ /\ joined' = [joined EXCEPT ![u.jti] = joined[u.jti] + 1]
                  /\ capped' = capped
               \/ /\ capped' = [capped EXCEPT ![u.jti] = capped[u.jti] + 1]
                  /\ joined' = joined
        BY <1>6, <2>0, <2>3 DEF Grant, Join, CapRefuses, Count, ChannelRequiresAuth
      <3>3. Spending(u) /\ u = h[c].tok
        BY <2>0, <2>1, <2>3, <3>1 DEF Spending
      <3>4. ~Spending(u)' /\ \A t \in issued : t # u => (Spending(t)' <=> Spending(t))
        BY <1>0, <2>1, <3>1, <3>3 DEF Spending
      <3>5. \A t \in issued : t # u => joined'[t.jti] = joined[t.jti] /\ capped'[t.jti] = capped[t.jti]
        BY <1>0, <3>1, <3>2 DEF TypeOK, TokenInv
      <3>6. {accepted[u.jti], joined[u.jti], capped[u.jti]} \subseteq Nat
        BY <1>0, <3>1 DEF TypeOK
      <3>7. joined'[u.jti] + capped'[u.jti] = joined[u.jti] + capped[u.jti] + 1
        BY <1>0, <3>1, <3>2, <3>6 DEF TypeOK
      <3>8. accepted[u.jti] = joined'[u.jti] + capped'[u.jti] + 0
        <4>1. accepted[u.jti] = joined[u.jti] + capped[u.jti] + 1
          BY <1>0, <3>1, <3>3 DEF AccountInv
        <4>2. {joined'[u.jti], capped'[u.jti]} \subseteq Nat
          BY <1>0, <3>1, <3>2, <3>6 DEF TypeOK
        <4> QED BY <3>6, <3>7, <4>1, <4>2
      <3>9. ASSUME NEW t \in issued'
            PROVE  accepted'[t.jti] = joined'[t.jti] + capped'[t.jti] + (IF Spending(t)' THEN 1 ELSE 0)
        <4>1. CASE t = u
          BY <3>2, <3>4, <3>8, <4>1
        <4>2. CASE t # u
          BY <1>0, <3>2, <3>4, <3>5, <4>2 DEF AccountInv
        <4> QED BY <4>1, <4>2
      <3>10. \A j \in Jtis : j # u.jti => joined'[j] = joined[j] /\ capped'[j] = capped[j]
        BY <1>0, <3>1, <3>2 DEF TypeOK
      <3>11. \A j \in Jtis : joined'[j] > 0 \/ capped'[j] > 0 => \E t \in issued' : t.jti = j
        BY <1>0, <3>1, <3>2, <3>10 DEF AccountInv
      <3> QED BY <3>9, <3>11 DEF AccountInv
    <2> QED BY <2>2, <2>3
  <1>7. ASSUME NEW c \in Conns, NEW ch \in Channels, Sign(c, ch) PROVE AccountInv'
    <2>1. PICK j \in Jtis : /\ \A t \in issued : t.jti # j
                            /\ issued' = issued \cup {SignToken(j, c, ch)}
      BY <1>7 DEF Sign
    <2> DEFINE n == SignToken(j, c, ch)
    <2>2. n.jti = j /\ n.sock = c /\ n \notin issued
      BY <2>1 DEF SignToken
    <2>3. UNCHANGED <<accepted, joined, capped, h>>
      BY <1>7 DEF Sign
    <2> HIDE DEF n
    <2>4. accepted[j] = 0 /\ joined[j] = 0 /\ capped[j] = 0
      BY <1>0, <2>1 DEF TypeOK, TokenInv, AccountInv
    <2>5. ~Spending(n)
      BY <1>0, <2>2 DEF Spending, FlowInv
    <2>6. \A t : Spending(t)' <=> Spending(t)
      BY <2>3 DEF Spending
    <2>7. issued' = issued \cup {n}
      BY <2>1 DEF n
    <2> QED BY <1>0, <2>2, <2>3, <2>4, <2>5, <2>6, <2>7 DEF AccountInv
  <1>8. CASE Sweep
    BY <1>8, <1>b DEF Sweep
  <1>9. CASE gcOnce
    BY <1>9, <1>b DEF gcOnce
  <1>10. CASE Tick
    BY <1>10, <1>b DEF Tick
  <1>11. CASE UNCHANGED vars
    BY <1>11, <1>b DEF vars
  <1> QED BY <1>1, <1>2, <1>3, <1>4, <1>5, <1>6, <1>7, <1>8, <1>9, <1>10, <1>11, NextCases

(* Every step keeps a private channel with the one who paid for it.        *)
LEMMA HeldStep == IInv /\ [Next]_vars => HeldWasPaid'
  <1> SUFFICES ASSUME IInv, [Next]_vars PROVE HeldWasPaid'
    OBVIOUS
  <1>0. /\ TypeOK /\ FlowInv /\ HeldWasPaid /\ \A t \in issued : t.jti \in Jtis
    BY DEF IInv, TypeOK, Token
  <1> USE <1>0 DEF HeldWasPaid, tokenVars, keyVars
  <1>1. ASSUME NEW c \in Conns, NEW ch \in Channels, NEW t \in issued \cup {NoToken},
               NEW op \in {"subscribe", "unsubscribe", "publish"}, Framed(c, op, ch, t)
        PROVE  HeldWasPaid'
    <2>1. UNCHANGED <<issued, accepted, subs>>
      BY <1>1, FramedStep
    <2> QED BY <2>1
  <1>2. ASSUME NEW c \in Conns, RateLimited(c) PROVE HeldWasPaid'
    <2>1. UNCHANGED <<issued, accepted, subs>>
      BY <1>2 DEF RateLimited
    <2> QED BY <2>1
  <1>3. ASSUME NEW c \in Conns, Spend(c) PROVE HeldWasPaid'
    <2>1. UNCHANGED <<issued, accepted>> /\ \A d \in Conns : subs'[d] \subseteq subs[d]
      BY <1>3 DEF Spend, TypeOK
    <2> QED BY <2>1
  <1>4. ASSUME NEW c \in Conns, Verify(c) PROVE HeldWasPaid'
    <2>1. UNCHANGED <<issued, accepted, subs>>
      BY <1>4 DEF Verify
    <2> QED BY <2>1
  <1>5. ASSUME NEW c \in Conns, CheckAndRecord(c) PROVE HeldWasPaid'
    <2>1. UNCHANGED <<issued, subs>>
      BY <1>5 DEF CheckAndRecord
    <2>2. \A j \in Jtis : accepted[j] > 0 => accepted'[j] > 0
      BY <1>5 DEF CheckAndRecord, TypeOK
    <2> QED BY <2>1, <2>2
  <1>6. ASSUME NEW c \in Conns, Grant(c) PROVE HeldWasPaid'
    <2>1. UNCHANGED <<issued, accepted>>
      BY <1>6 DEF Grant, Join, CapRefuses
    <2>2. \A d \in Conns : subs'[d] \subseteq subs[d] \cup (IF d = c THEN {h[c].ch} ELSE {})
      BY <1>6 DEF Grant, Join, CapRefuses, TypeOK
    <2>3. h[c].ch \in Private =>
              \E t \in issued : t.sock = c /\ t.chan = h[c].ch /\ accepted[t.jti] > 0
      BY <1>6 DEF Grant, Join, CapRefuses, FlowInv
    <2> QED BY <2>1, <2>2, <2>3
  <1>7. ASSUME NEW c \in Conns, NEW ch \in Channels, Sign(c, ch) PROVE HeldWasPaid'
    <2>1. issued \subseteq issued' /\ UNCHANGED <<accepted, subs>>
      BY <1>7 DEF Sign
    <2> QED BY <2>1
  <1>8. CASE Sweep
    <2>1. UNCHANGED <<issued, accepted, subs>>
      BY <1>8 DEF Sweep
    <2> QED BY <2>1
  <1>9. CASE gcOnce
    <2>1. UNCHANGED <<issued, accepted, subs>>
      BY <1>9 DEF gcOnce
    <2> QED BY <2>1
  <1>10. CASE Tick
    <2>1. UNCHANGED <<issued, accepted, subs>>
      BY <1>10 DEF Tick
    <2> QED BY <2>1
  <1>11. CASE UNCHANGED vars
    BY <1>11 DEF vars, tokenVars, keyVars
  <1> QED BY <1>1, <1>2, <1>3, <1>4, <1>5, <1>6, <1>7, <1>8, <1>9, <1>10, <1>11, NextCases

-----------------------------------------------------------------------------
(* The buckets.                                                            *)

(* A goroutine inside Allow is back before its bucket may be evicted.      *)
LEMMA StallBelowTTL == Stall <= TTL
  <1>1. TTL \in Nat /\ Stall \in Nat /\ Rate \in Nat /\ Rate > 0 /\ Burst \in Nat /\ Burst > 0
        /\ (TTL - Stall) * Rate >= Burst
    BY AdmissionAssumption
  <1> SUFFICES ASSUME TTL - Stall < 0 PROVE FALSE
    BY <1>1
  <1>2. (TTL - Stall) * Rate <= 0
    BY <1>1
  <1> QED BY <1>1, <1>2

(* Once it has refilled undisturbed for TTL - Stall, a bucket is full.     *)
LEMMA FullAfterTTL ==
    ASSUME NEW n \in Int, n >= TTL - Stall PROVE n * Rate >= Burst
  <1>1. TTL \in Nat /\ Stall \in Nat /\ Rate \in Nat /\ Burst \in Nat
        /\ (TTL - Stall) * Rate >= Burst
    BY AdmissionAssumption
  <1>2. n * Rate >= (TTL - Stall) * Rate
    BY <1>1
  <1> QED BY <1>1, <1>2

(* Every step keeps a handler inside Allow at the bucket of its key.       *)
LEMMA AllowStep == IInv /\ [Next]_vars => AllowInv'
  <1> SUFFICES ASSUME IInv, [Next]_vars PROVE AllowInv'
    OBVIOUS
  <1>0. /\ TypeOK /\ AllowInv /\ RefillInv /\ KeyOf \in [Conns -> Keys] /\ NoBucket \notin Buckets
        /\ now \in Nat /\ Stall \in Nat /\ TTL \in Nat /\ Stall <= TTL
        /\ \A c \in Conns : h[c].since \in Nat
        /\ \A k \in Keys : lastSeen[k] \in Nat
    BY AdmissionAssumption, StallBelowTTL DEF IInv, TypeOK
  <1> USE <1>0 DEF AllowInv, tokenVars, keyVars
  <1>1. ASSUME NEW c \in Conns, NEW ch \in Channels, NEW t \in issued \cup {NoToken},
               NEW op \in {"subscribe", "unsubscribe", "publish"}, Framed(c, op, ch, t)
        PROVE  AllowInv'
    <2>1. PICK b \in Buckets :
             /\ h[c].pc = "idle" /\ h'[c].pc = "spend"
             /\ h'[c].bucket = b /\ h'[c].since = now
             /\ \A d \in Conns \ {c} : h'[d] = h[d]
             /\ entries' = [entries EXCEPT ![KeyOf[c]] = b]
             /\ lastSeen' = [lastSeen EXCEPT ![KeyOf[c]] = now]
             /\ entries[KeyOf[c]] \in {b, NoBucket}
             /\ now' = now
      BY <1>1, FramedStep
    <2>2. \A k \in Keys : entries[k] # NoBucket => entries'[k] = entries[k]
      BY <2>1 DEF TypeOK
    <2>3. \A k \in Keys : lastSeen[k] <= lastSeen'[k]
      BY <2>1 DEF TypeOK, RefillInv
    <2>4. \A k \in Keys : lastSeen'[k] \in Nat
      BY <2>1 DEF TypeOK
    <2>5. entries'[KeyOf[c]] = b /\ lastSeen'[KeyOf[c]] = now
      BY <2>1 DEF TypeOK
    <2> QED BY <2>1, <2>2, <2>3, <2>4, <2>5
  <1>2. ASSUME NEW c \in Conns, RateLimited(c) PROVE AllowInv'
    <2>1. /\ h'[c].pc # "spend" /\ h'[c].bucket = NoBucket
          /\ \A d \in Conns \ {c} : h'[d] = h[d]
      BY <1>2, AnswerStep DEF RateLimited
    <2>2. UNCHANGED <<now, entries, lastSeen>>
      BY <1>2 DEF RateLimited
    <2> QED BY <2>1, <2>2
  <1>3. ASSUME NEW c \in Conns, Spend(c) PROVE AllowInv'
    <2>1. /\ h'[c].pc # "spend" /\ h'[c].bucket = NoBucket
          /\ \A d \in Conns \ {c} : h'[d] = h[d]
      <3>1. Answer(c) \/ \E l \in {"verify", "grant"} : Goto(c, l)
        BY <1>3 DEF Spend
      <3> QED BY <3>1, AnswerStep, GotoStep
    <2>2. UNCHANGED <<now, entries, lastSeen>>
      BY <1>3 DEF Spend
    <2> QED BY <2>1, <2>2
  <1>4. ASSUME NEW c \in Conns, Verify(c) PROVE AllowInv'
    <2>1. /\ h'[c].pc # "spend" /\ h'[c].bucket = NoBucket
          /\ \A d \in Conns \ {c} : h'[d] = h[d]
      BY <1>4, AnswerStep, GotoStep DEF Verify
    <2>2. UNCHANGED <<now, entries, lastSeen>>
      BY <1>4 DEF Verify
    <2> QED BY <2>1, <2>2
  <1>5. ASSUME NEW c \in Conns, CheckAndRecord(c) PROVE AllowInv'
    <2>1. /\ h'[c].pc # "spend" /\ h'[c].bucket = NoBucket
          /\ \A d \in Conns \ {c} : h'[d] = h[d]
      BY <1>5, AnswerStep, GotoStep DEF CheckAndRecord
    <2>2. UNCHANGED <<now, entries, lastSeen>>
      BY <1>5 DEF CheckAndRecord
    <2> QED BY <2>1, <2>2
  <1>6. ASSUME NEW c \in Conns, Grant(c) PROVE AllowInv'
    <2>1. /\ h'[c].pc # "spend" /\ h'[c].bucket = NoBucket
          /\ \A d \in Conns \ {c} : h'[d] = h[d]
      BY <1>6, AnswerStep DEF Grant, Join, CapRefuses
    <2>2. UNCHANGED <<now, entries, lastSeen>>
      BY <1>6 DEF Grant, Join, CapRefuses
    <2> QED BY <2>1, <2>2
  <1>7. ASSUME NEW c \in Conns, NEW ch \in Channels, Sign(c, ch) PROVE AllowInv'
    <2>1. UNCHANGED <<now, h, entries, lastSeen>>
      BY <1>7 DEF Sign
    <2> QED BY <2>1
  <1>8. CASE Sweep
    <2>1. UNCHANGED <<now, h, entries, lastSeen>>
      BY <1>8 DEF Sweep
    <2> QED BY <2>1
  <1>9. CASE gcOnce
    <2>1. \A k \in Keys : lastSeen[k] >= now - TTL =>
              entries'[k] = entries[k] /\ lastSeen'[k] = lastSeen[k]
      BY <1>9 DEF gcOnce
    <2>2. \A c \in Conns : h[c].pc = "spend" => lastSeen[KeyOf[c]] >= now - TTL
      OBVIOUS
    <2>3. UNCHANGED <<now, h>>
      BY <1>9 DEF gcOnce
    <2> QED BY <2>1, <2>2, <2>3
  <1>10. CASE Tick
    <2>1. \A c \in Conns : h[c].pc = "spend" => now + 1 <= h[c].since + Stall
      BY <1>10 DEF Tick
    <2>2. now' = now + 1 /\ UNCHANGED <<h, entries, lastSeen>>
      BY <1>10 DEF Tick
    <2> QED BY <2>1, <2>2
  <1>11. CASE UNCHANGED vars
    BY <1>11 DEF vars, tokenVars, keyVars
  <1> QED BY <1>1, <1>2, <1>3, <1>4, <1>5, <1>6, <1>7, <1>8, <1>9, <1>10, <1>11, NextCases

(* Every step keeps a key's bucket below the one that is never evicted: a  *)
(* bucket is only evicted when that one is full, and a new one is full.    *)
LEMMA BucketStep == IInv /\ [Next]_vars => BucketInv'
  <1> SUFFICES ASSUME IInv, [Next]_vars PROVE BucketInv'
    OBVIOUS
  <1>0. /\ TypeOK /\ AllowInv /\ BucketInv /\ RefillInv
        /\ KeyOf \in [Conns -> Keys] /\ NoBucket \notin Buckets
        /\ now \in Nat /\ Stall \in Nat /\ Stall > 0 /\ TTL \in Nat /\ Stall <= TTL
        /\ Rate \in Nat /\ Rate > 0 /\ Burst \in Nat /\ Burst > 0
        /\ \A k \in Keys : lastSeen[k] \in Nat /\ ideal[k] \in Int
        /\ \A b \in Buckets : level[b] \in Nat /\ level[b] <= Burst
    BY AdmissionAssumption, StallBelowTTL DEF IInv, TypeOK
  <1> USE <1>0 DEF BucketInv, tokenVars, keyVars
  <1>1. ASSUME NEW c \in Conns, NEW ch \in Channels, NEW t \in issued \cup {NoToken},
               NEW op \in {"subscribe", "unsubscribe", "publish"}, Framed(c, op, ch, t)
        PROVE  BucketInv'
    <2>1. PICK b \in Buckets :
             /\ entries' = [entries EXCEPT ![KeyOf[c]] = b]
             /\ lastSeen' = [lastSeen EXCEPT ![KeyOf[c]] = now]
             /\ \/ entries[KeyOf[c]] = b /\ level' = level
                \/ /\ entries[KeyOf[c]] = NoBucket /\ ~InUse(b)
                   /\ level' = [level EXCEPT ![b] = Burst]
             /\ UNCHANGED <<now, ideal>>
      BY <1>1, FramedStep
    <2>2. KeyOf[c] \in Keys
      OBVIOUS
    <2>3. CASE entries[KeyOf[c]] = b /\ level' = level
      <3>1. entries' = entries
        BY <2>1, <2>2, <2>3 DEF TypeOK
      <3> QED BY <2>1, <2>3, <3>1
    <2>4. CASE /\ entries[KeyOf[c]] = NoBucket /\ ~InUse(b)
               /\ level' = [level EXCEPT ![b] = Burst]
      <3>1. entries'[KeyOf[c]] = b /\ \A k \in Keys \ {KeyOf[c]} : entries'[k] = entries[k]
        BY <2>1, <2>2 DEF TypeOK
      <3>2. \A k \in Keys : entries[k] # b
        BY <2>4 DEF InUse
      <3>3. level'[b] = Burst /\ \A x \in Buckets \ {b} : level'[x] = level[x]
        BY <2>4 DEF TypeOK
      <3>4. \A k \in Keys : entries[k] \in Buckets \cup {NoBucket}
        BY DEF TypeOK
      <3>5. \A k, l \in Keys : entries'[k] # NoBucket /\ entries'[k] = entries'[l] => k = l
        BY <3>1, <3>2
      <3>6. \A k \in Keys : entries'[k] # NoBucket => level'[entries'[k]] <= ideal[k]
        <4>1. ideal[KeyOf[c]] = Burst
          BY <2>2, <2>4
        <4> QED BY <2>2, <3>1, <3>2, <3>3, <3>4, <4>1
      <3> QED BY <2>1, <3>1, <3>5, <3>6
    <2> QED BY <2>1, <2>3, <2>4
  <1>2. ASSUME NEW c \in Conns, RateLimited(c) PROVE BucketInv'
    <2>1. UNCHANGED <<entries, level, ideal>>
      BY <1>2 DEF RateLimited
    <2> QED BY <2>1
  <1>3. ASSUME NEW c \in Conns, Spend(c) PROVE BucketInv'
    <2> DEFINE b == h[c].bucket
               k == KeyOf[c]
    <2>1. b = entries[k] /\ b \in Buckets /\ k \in Keys /\ level[b] > 0
      BY <1>3 DEF Spend, AllowInv
    <2>2. /\ level' = [level EXCEPT ![b] = level[b] - 1]
          /\ ideal' = [ideal EXCEPT ![k] = ideal[k] - 1]
          /\ entries' = entries
      BY <1>3 DEF Spend
    <2> HIDE DEF b, k
    <2>3. level'[b] = level[b] - 1 /\ \A x \in Buckets \ {b} : level'[x] = level[x]
      BY <2>1, <2>2 DEF TypeOK
    <2>4. ideal'[k] = ideal[k] - 1 /\ \A l \in Keys \ {k} : ideal'[l] = ideal[l]
      BY <2>1, <2>2 DEF TypeOK
    <2>5. \A l \in Keys \ {k} : entries[l] # b /\ entries[l] \in Buckets \cup {NoBucket}
      BY <2>1 DEF TypeOK
    <2>6. level[b] <= ideal[k]
      BY <2>1
    <2>7. \A l \in Keys : entries[l] # NoBucket => level'[entries[l]] <= ideal'[l]
      BY <2>1, <2>3, <2>4, <2>5, <2>6
    <2>8. \A l \in Keys : 0 <= ideal'[l] /\ ideal'[l] <= Burst
      BY <2>1, <2>4, <2>6
    <2> QED BY <2>1, <2>2, <2>4, <2>7, <2>8
  <1>4. ASSUME NEW c \in Conns, Verify(c) PROVE BucketInv'
    <2>1. UNCHANGED <<entries, level, ideal>>
      BY <1>4 DEF Verify
    <2> QED BY <2>1
  <1>5. ASSUME NEW c \in Conns, CheckAndRecord(c) PROVE BucketInv'
    <2>1. UNCHANGED <<entries, level, ideal>>
      BY <1>5 DEF CheckAndRecord
    <2> QED BY <2>1
  <1>6. ASSUME NEW c \in Conns, Grant(c) PROVE BucketInv'
    <2>1. UNCHANGED <<entries, level, ideal>>
      BY <1>6 DEF Grant, Join, CapRefuses
    <2> QED BY <2>1
  <1>7. ASSUME NEW c \in Conns, NEW ch \in Channels, Sign(c, ch) PROVE BucketInv'
    <2>1. UNCHANGED <<entries, level, ideal>>
      BY <1>7 DEF Sign
    <2> QED BY <2>1
  <1>8. CASE Sweep
    <2>1. UNCHANGED <<entries, level, ideal>>
      BY <1>8 DEF Sweep
    <2> QED BY <2>1
  <1>9. CASE gcOnce
    <2>1. /\ \A k \in Keys : entries'[k] = IF lastSeen[k] < now - TTL THEN NoBucket ELSE entries[k]
          /\ UNCHANGED <<level, ideal>>
      BY <1>9 DEF gcOnce
    <2>2. ASSUME NEW k \in Keys, entries[k] # NoBucket, lastSeen[k] < now - TTL
          PROVE  ideal[k] = Burst
      <3> DEFINE n == now - (lastSeen[k] + Stall)
      <3>1. n \in Int /\ n >= TTL - Stall /\ now >= lastSeen[k] + Stall
        BY <2>2
      <3>2. n * Rate >= Burst
        BY <3>1, FullAfterTTL
      <3>3. ideal[k] = Burst \/ ideal[k] >= n * Rate
        BY <2>2, <3>1 DEF RefillInv
      <3>4. n * Rate \in Int
        BY <3>1
      <3> HIDE DEF n
      <3> QED BY <3>2, <3>3, <3>4
    <2> QED BY <2>1, <2>2
  <1>10. CASE Tick
    <2>1. /\ \A b \in Buckets : level'[b] = Refill(level[b], Rate, Burst)
          /\ \A k \in Keys : ideal'[k] = Refill(ideal[k], Rate, Burst)
          /\ entries' = entries
      BY <1>10 DEF Tick
    <2>2. \A k \in Keys : entries[k] \in Buckets \cup {NoBucket}
      BY DEF TypeOK
    <2>3. \A k \in Keys : entries[k] # NoBucket => level'[entries[k]] <= ideal'[k]
      BY <2>1, <2>2 DEF Refill
    <2>4. \A k \in Keys : entries[k] = NoBucket => ideal'[k] = Burst
      BY <2>1 DEF Refill
    <2>5. \A k \in Keys : 0 <= ideal'[k] /\ ideal'[k] <= Burst
      BY <2>1 DEF Refill
    <2> QED BY <2>1, <2>3, <2>4, <2>5
  <1>11. CASE UNCHANGED vars
    BY <1>11 DEF vars, tokenVars, keyVars
  <1> QED BY <1>1, <1>2, <1>3, <1>4, <1>5, <1>6, <1>7, <1>8, <1>9, <1>10, <1>11, NextCases

(* Every step keeps a bucket refilling once it is left alone.              *)
LEMMA RefillStep == IInv /\ [Next]_vars => RefillInv'
  <1> SUFFICES ASSUME IInv, [Next]_vars PROVE RefillInv'
    OBVIOUS
  <1>0. /\ TypeOK /\ AllowInv /\ BucketInv /\ RefillInv
        /\ KeyOf \in [Conns -> Keys] /\ NoBucket \notin Buckets
        /\ now \in Nat /\ Stall \in Nat /\ Stall > 0 /\ TTL \in Nat /\ Stall <= TTL
        /\ Rate \in Nat /\ Rate > 0 /\ Burst \in Nat /\ Burst > 0
        /\ \A k \in Keys : lastSeen[k] \in Nat /\ ideal[k] \in Int
        /\ \A b \in Buckets : level[b] \in Nat /\ level[b] <= Burst
        /\ \A c \in Conns : h[c].since \in Nat
    BY AdmissionAssumption, StallBelowTTL DEF IInv, TypeOK
  <1> USE <1>0 DEF RefillInv, tokenVars, keyVars
  <1>1. ASSUME NEW c \in Conns, NEW ch \in Channels, NEW t \in issued \cup {NoToken},
               NEW op \in {"subscribe", "unsubscribe", "publish"}, Framed(c, op, ch, t)
        PROVE  RefillInv'
    <2>1. PICK b \in Buckets :
             /\ entries' = [entries EXCEPT ![KeyOf[c]] = b]
             /\ lastSeen' = [lastSeen EXCEPT ![KeyOf[c]] = now]
             /\ \/ entries[KeyOf[c]] = b /\ level' = level
                \/ /\ entries[KeyOf[c]] = NoBucket /\ ~InUse(b)
                   /\ level' = [level EXCEPT ![b] = Burst]
             /\ UNCHANGED <<now, ideal>>
      BY <1>1, FramedStep
    <2>2. KeyOf[c] \in Keys
      OBVIOUS
    <2>3. \A k \in Keys : (entries'[k] = entries[k] /\ lastSeen'[k] = lastSeen[k]) \/ lastSeen'[k] = now
      BY <2>1, <2>2 DEF TypeOK
    <2> QED BY <2>1, <2>3
  <1>2. ASSUME NEW c \in Conns, RateLimited(c) PROVE RefillInv'
    <2>1. UNCHANGED <<now, entries, lastSeen, ideal>>
      BY <1>2 DEF RateLimited
    <2> QED BY <2>1
  <1>3. ASSUME NEW c \in Conns, Spend(c) PROVE RefillInv'
    <2> DEFINE k == KeyOf[c]
    <2>1. k \in Keys /\ now <= lastSeen[k] + Stall
      BY <1>3 DEF Spend, AllowInv
    <2>2. ideal' = [ideal EXCEPT ![k] = ideal[k] - 1] /\ UNCHANGED <<now, entries, lastSeen>>
      BY <1>3 DEF Spend
    <2>3. 0 <= ideal'[k]
      BY BucketStep, <2>1 DEF BucketInv
    <2>4. \A l \in Keys \ {k} : ideal'[l] = ideal[l]
      BY <2>1, <2>2 DEF TypeOK
    <2> HIDE DEF k
    <2>5. now >= lastSeen[k] + Stall => (now - (lastSeen[k] + Stall)) * Rate = 0
      BY <2>1
    <2> QED BY <2>1, <2>2, <2>3, <2>4, <2>5
  <1>4. ASSUME NEW c \in Conns, Verify(c) PROVE RefillInv'
    <2>1. UNCHANGED <<now, entries, lastSeen, ideal>>
      BY <1>4 DEF Verify
    <2> QED BY <2>1
  <1>5. ASSUME NEW c \in Conns, CheckAndRecord(c) PROVE RefillInv'
    <2>1. UNCHANGED <<now, entries, lastSeen, ideal>>
      BY <1>5 DEF CheckAndRecord
    <2> QED BY <2>1
  <1>6. ASSUME NEW c \in Conns, Grant(c) PROVE RefillInv'
    <2>1. UNCHANGED <<now, entries, lastSeen, ideal>>
      BY <1>6 DEF Grant, Join, CapRefuses
    <2> QED BY <2>1
  <1>7. ASSUME NEW c \in Conns, NEW ch \in Channels, Sign(c, ch) PROVE RefillInv'
    <2>1. UNCHANGED <<now, entries, lastSeen, ideal>>
      BY <1>7 DEF Sign
    <2> QED BY <2>1
  <1>8. CASE Sweep
    <2>1. UNCHANGED <<now, entries, lastSeen, ideal>>
      BY <1>8 DEF Sweep
    <2> QED BY <2>1
  <1>9. CASE gcOnce
    <2>1. /\ \A k \in Keys : IF lastSeen[k] < now - TTL
                             THEN entries'[k] = NoBucket /\ lastSeen'[k] = 0
                             ELSE entries'[k] = entries[k] /\ lastSeen'[k] = lastSeen[k]
          /\ UNCHANGED <<now, ideal>>
      BY <1>9 DEF gcOnce
    <2> QED BY <2>1
  <1>10. CASE Tick
    <2>1. /\ \A k \in Keys : ideal'[k] = Refill(ideal[k], Rate, Burst)
          /\ now' = now + 1 /\ UNCHANGED <<entries, lastSeen>>
      BY <1>10 DEF Tick
    <2> SUFFICES ASSUME NEW k \in Keys, entries[k] # NoBucket, now + 1 >= lastSeen[k] + Stall
                 PROVE  \/ ideal'[k] = Burst
                        \/ ideal'[k] >= (now + 1 - (lastSeen[k] + Stall)) * Rate
      BY <2>1
    <2> DEFINE n == now - (lastSeen[k] + Stall)
    <2>2. n \in Int /\ n + 1 >= 0 /\ now + 1 - (lastSeen[k] + Stall) = n + 1
      OBVIOUS
    <2>3. n >= 0 => ideal[k] = Burst \/ ideal[k] >= n * Rate
      OBVIOUS
    <2> HIDE DEF n
    <2>4. (n + 1) * Rate = n * Rate + Rate /\ n * Rate \in Int
      BY <2>2
    <2>5. 0 <= ideal[k] /\ ideal[k] <= Burst
      BY DEF BucketInv
    <2>6. CASE n >= 0
      BY <2>1, <2>2, <2>3, <2>4, <2>5, <2>6 DEF Refill
    <2>7. CASE n = -1
      <3>1. (n + 1) * Rate = 0 /\ ideal'[k] >= 0
        BY <2>1, <2>5, <2>7 DEF Refill
      <3> QED BY <2>2, <3>1
    <2> QED BY <2>2, <2>6, <2>7
  <1>11. CASE UNCHANGED vars
    BY <1>11 DEF vars, tokenVars, keyVars
  <1> QED BY <1>1, <1>2, <1>3, <1>4, <1>5, <1>6, <1>7, <1>8, <1>9, <1>10, <1>11, NextCases

-----------------------------------------------------------------------------
(* It holds of the first state: nobody has asked for anything.             *)
LEMMA InitIInv == Init => IInv
  <1> SUFFICES ASSUME Init PROVE IInv
    OBVIOUS
  <1>0. /\ {Rate, Burst, TTL, ConnBurst, MaxChannels, Life, Stall, MaxTime} \subseteq Nat \ {0}
        /\ Idle \in Handler /\ Idle.pc = "idle" /\ Idle.bucket = NoBucket
    BY AdmissionAssumption DEF Handler, Idle, Channels
  <1>1. TypeOK
    <2>1. h \in [Conns -> Handler]
      BY <1>0 DEF Init
    <2> QED BY <1>0, <2>1 DEF Init, TypeOK, Handler
  <1>2. \A c \in Conns : h[c].pc = "idle" /\ h[c].bucket = NoBucket
    BY <1>0 DEF Init
  <1>3. FlowInv /\ AllowInv
    BY <1>2 DEF FlowInv, AllowInv
  <1>4. TokenInv /\ AccountInv /\ SingleUse /\ HeldWasPaid
    BY DEF Init, TokenInv, AccountInv, SingleUse, HeldWasPaid
  <1>5. BucketInv /\ RefillInv
    BY <1>0 DEF Init, BucketInv, RefillInv
  <1> QED BY <1>1, <1>3, <1>4, <1>5 DEF IInv

(* The invariant holds of every reachable state.                           *)
THEOREM Invariance == Spec => []IInv
  <1>1. IInv /\ [Next]_vars => IInv'
    <2> SUFFICES ASSUME IInv, [Next]_vars PROVE IInv'
      OBVIOUS
    <2>1. TypeOK' /\ FlowInv' /\ TokenInv' /\ SingleUse'
      BY TypeStep, FlowStep, TokenStep
    <2>2. AccountInv' /\ HeldWasPaid' /\ AllowInv' /\ BucketInv' /\ RefillInv'
      BY AccountStep, HeldStep, AllowStep, BucketStep, RefillStep
    <2> QED BY <2>1, <2>2 DEF IInv
  <1> QED BY <1>1, InitIInv, PTL DEF Spec

(* The state keeps its shape; no bucket, of a connection or of a key, goes *)
(* below zero or above its burst.                                          *)
THEOREM TypeCorrect == Spec => []TypeOK
  <1>1. IInv => TypeOK
    BY DEF IInv
  <1> QED BY <1>1, Invariance, PTL

(* VerifyTokenAgainst and CheckAndRecord are two steps, and the sweep may  *)
(* come between them: still no token that has not expired is accepted      *)
(* twice, for any number of connections, tokens and handlers.              *)
THEOREM TokensAreSingleUse == Spec => []SingleUse
  <1>1. IInv => SingleUse
    BY DEF IInv
  <1> QED BY <1>1, Invariance, PTL

(* handleSubscribe lets nobody into a private channel without a token      *)
(* signed for this socket and this channel.                                *)
THEOREM PrivateIsPaid == Spec => []HeldWasPaid
  <1>1. IInv => HeldWasPaid
    BY DEF IInv
  <1> QED BY <1>1, Invariance, PTL

(* handleSubscribe spends a token after the checks of the name, the rates  *)
(* and the membership: every acceptance ends in a join or in a refusal at  *)
(* a cap, and no private channel is joined without an acceptance of its    *)
(* own.                                                                    *)
THEOREM SpendingIsAnswered == Spec => []SpentIsAnswered
  <1>1. IInv => SpentIsAnswered
    <2> SUFFICES ASSUME IInv, NEW t \in issued
                 PROVE  /\ joined[t.jti] + capped[t.jti] <= accepted[t.jti]
                        /\ accepted[t.jti] <=
                               joined[t.jti] + capped[t.jti] + (IF h[t.sock].tok = t THEN 1 ELSE 0)
      BY DEF SpentIsAnswered
    <2>1. {accepted[t.jti], joined[t.jti], capped[t.jti]} \subseteq Nat
      BY DEF IInv, TypeOK, Token
    <2>2. accepted[t.jti] = joined[t.jti] + capped[t.jti] + (IF Spending(t) THEN 1 ELSE 0)
      BY DEF IInv, AccountInv
    <2>3. Spending(t) => h[t.sock].tok = t
      BY DEF Spending
    <2> QED BY <2>1, <2>2, <2>3
  <1> QED BY <1>1, Invariance, PTL

(* gcOnce evicts a bucket only when a new one is worth no more, although   *)
(* Allow uses the bucket after it gave up the lock: a key is never         *)
(* admitted more than one bucket that lives for ever would admit.          *)
THEOREM EvictionIsFree == Spec => []WithinBudget
  <1>1. IInv => WithinBudget
    BY DEF IInv, BucketInv, WithinBudget
  <1> QED BY <1>1, Invariance, PTL
=============================================================================
