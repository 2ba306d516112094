------------------------------ MODULE Admission ------------------------------
(***************************************************************************)
(* What a frame has to pass before it touches a channel: the checks of     *)
(* handleSubscribe, handleUnsubscribe and handlePublish in their order,    *)
(* the buckets of the connection and of its API key, the one-time tokens   *)
(* of private channels and the replay cache, with the two background loops *)
(* that forget: the sweep of expired tokens and the eviction of idle       *)
(* buckets.                                                                *)
(*                                                                         *)
(* Frames that are refused before they change anything (not UTF-8, not     *)
(* JSON, a bad or reserved name, an empty bucket of the connection) are    *)
(* the guards of the three Frame actions.  What happens to a channel after *)
(* the checks is in ChannelRegistry.                                       *)
(*                                                                         *)
(* Time is a counter of ticks.  External: rate.Limiter, a bucket that      *)
(* holds at most its burst and refills with time; and the MAC, by which a  *)
(* token is one that SignToken made, for the socket and channel it names.  *)
(***************************************************************************)
EXTENDS Integers, FiniteSets

CONSTANTS
    Conns,              \* connections, by socket id
    Keys, KeyOf,        \* API keys, and the key of each connection
    Private, Public, Reserved,   \* channel names by prefix
    StatsChannel,       \* the reserved name that may be subscribed to
    Jtis,               \* token ids
    NoToken,
    Buckets, NoBucket,  \* rate.Limiter objects of the per-key limiter
    Rate, Burst, TTL,   \* ratelimit.New
    ConnBurst,          \* burst of connRate and of controlRate (refilled by one a tick)
    MaxChannels,        \* channels per connection
    Life,               \* life of a token
    Stall,              \* the longest a goroutine stands still inside Allow
    MaxTime             \* bound: the last tick

ASSUME AdmissionAssumption ==
    /\ IsFiniteSet(Conns) /\ IsFiniteSet(Keys)
    /\ KeyOf \in [Conns -> Keys]
    /\ StatsChannel \in Reserved
    /\ {Rate, Burst, TTL, ConnBurst, MaxChannels, Life, Stall, MaxTime} \subseteq Nat \ {0}
    /\ Cardinality(Buckets) > Cardinality(Keys) + Cardinality(Conns)
    /\ NoBucket \notin Buckets
    \* main.go: a bucket idle for an hour has long been full again (200 at 100 a second)
    /\ (TTL - Stall) * Rate >= Burst

VARIABLES
    now,
    issued,             \* tokens signed so far
    seen,               \* ReplayCache.seen
    accepted,           \* history: how often VerifyTokenAgainst accepted each token
    joined,             \* history: how often a subscribe with it joined its channel,
    capped,             \* and how often a cap refused the subscribe that it had paid for
    h,                  \* the handler of each connection's readPump
    subs,               \* Conn.subs
    pub, ctl,           \* levels of connRate and controlRate
    entries,            \* Limiter.entries: the bucket of each key
    lastSeen,           \* and when it was last asked for
    level,              \* level of each bucket
    ideal               \* history: level of a bucket per key that is never evicted

tokenVars == <<issued, seen, accepted, joined, capped>>
keyVars == <<entries, lastSeen, level, ideal>>
vars == <<now, tokenVars, h, subs, pub, ctl, keyVars>>

Token == [jti : Jtis, sock : Conns, chan : Private, exp : 0..MaxTime]
Channels == Private \union Public \union Reserved

Idle == [pc |-> "idle", op |-> "none", ch |-> StatsChannel, tok |-> NoToken,
         bucket |-> NoBucket, since |-> 0]

Init ==
    /\ now = 0
    /\ issued = {} /\ seen = {}
    /\ accepted = [j \in Jtis |-> 0]
    /\ joined = [j \in Jtis |-> 0] /\ capped = [j \in Jtis |-> 0]
    /\ h = [c \in Conns |-> Idle]
    /\ subs = [c \in Conns |-> {}]
    /\ pub = [c \in Conns |-> ConnBurst]
    /\ ctl = [c \in Conns |-> ConnBurst]
    /\ entries = [k \in Keys |-> NoBucket]
    /\ lastSeen = [k \in Keys |-> 0]
    /\ level = [b \in Buckets |-> Burst]
    /\ ideal = [k \in Keys |-> Burst]

channelReserved(ch) == ch \in Reserved
reservedSubscribeAllowed(ch) == ch = StatsChannel
ChannelRequiresAuth(ch) == ch \in Private

-----------------------------------------------------------------------------
(* Limiter.Allow, first half: find or create the key's bucket under the    *)
(* lock.  The second half, Spend, uses it without the lock.                *)

InUse(b) == (\E k \in Keys : entries[k] = b) \/ (\E c \in Conns : h[c].bucket = b)

(* A bug: only a new entry gets its lastSeen.                              *)
FaultyLookup(c, op, ch, t) ==
    LET k == KeyOf[c]
        b == IF entries[k] = NoBucket THEN CHOOSE x \in Buckets : ~InUse(x) ELSE entries[k]
    IN  /\ h' = [h EXCEPT ![c] = [pc |-> "spend", op |-> op, ch |-> ch, tok |-> t,
                                  bucket |-> b, since |-> now]]
        /\ entries' = [entries EXCEPT ![k] = b]
        /\ level' = IF entries[k] = NoBucket THEN [level EXCEPT ![b] = Burst] ELSE level
        /\ lastSeen' = IF entries[k] = NoBucket THEN [lastSeen EXCEPT ![k] = now] ELSE lastSeen

Lookup(c, op, ch, t) ==
    LET k == KeyOf[c]
        b == IF entries[k] = NoBucket THEN CHOOSE x \in Buckets : ~InUse(x) ELSE entries[k]
    IN  /\ h' = [h EXCEPT ![c] = [pc |-> "spend", op |-> op, ch |-> ch, tok |-> t,
                                  bucket |-> b, since |-> now]]
        /\ entries' = [entries EXCEPT ![k] = b]
        /\ level' = IF entries[k] = NoBucket THEN [level EXCEPT ![b] = Burst] ELSE level
        /\ lastSeen' = [lastSeen EXCEPT ![k] = now]

(* allowControl, as far as the bucket of the connection.                   *)
ChargeControl(c) ==
    /\ ctl[c] > 0
    /\ ctl' = [ctl EXCEPT ![c] = @ - 1]

(* A bug: the token is verified and recorded before the rate is checked.   *)
FaultySubscribeFrame(c, ch, t) ==
    /\ h[c].pc = "idle"
    /\ channelReserved(ch) => reservedSubscribeAllowed(ch)
    /\ ChargeControl(c)
    /\ Lookup(c, "subscribe", ch, t)
    /\ IF t \in issued \ seen /\ t.sock = c /\ t.chan = ch /\ now <= t.exp
         THEN /\ seen' = seen \union {t}
              /\ accepted' = [accepted EXCEPT ![t.jti] = @ + 1]
         ELSE UNCHANGED <<seen, accepted>>
    /\ UNCHANGED <<now, issued, joined, capped, subs, pub, ideal>>

SubscribeFrame(c, ch, t) ==
    /\ h[c].pc = "idle"
    /\ channelReserved(ch) => reservedSubscribeAllowed(ch)
    /\ ChargeControl(c)
    /\ Lookup(c, "subscribe", ch, t)
    /\ UNCHANGED <<now, tokenVars, subs, pub, ideal>>

UnsubscribeFrame(c, ch) ==
    /\ h[c].pc = "idle"
    /\ ChargeControl(c)
    /\ Lookup(c, "unsubscribe", ch, NoToken)
    /\ UNCHANGED <<now, tokenVars, subs, pub, ideal>>

(* A bug: connRate is charged and its answer not looked at.                *)
FaultyPublishFrame(c, ch) ==
    /\ h[c].pc = "idle"
    /\ ~channelReserved(ch) /\ ch \in subs[c]
    /\ pub' = [pub EXCEPT ![c] = @ - 1]
    /\ Lookup(c, "publish", ch, NoToken)
    /\ UNCHANGED <<now, tokenVars, subs, ctl, ideal>>

PublishFrame(c, ch) ==
    /\ h[c].pc = "idle"
    /\ ~channelReserved(ch)
    /\ ch \in subs[c]
    /\ pub[c] > 0
    /\ pub' = [pub EXCEPT ![c] = @ - 1]
    /\ Lookup(c, "publish", ch, NoToken)
    /\ UNCHANGED <<now, tokenVars, subs, ctl, ideal>>

Answer(c) == h' = [h EXCEPT ![c] = Idle]
Goto(c, l) == h' = [h EXCEPT ![c].pc = l, ![c].bucket = NoBucket, ![c].since = 0]

(* Allow, second half: the key's bucket is empty, RATE_LIMITED ...         *)
RateLimited(c) ==
    /\ h[c].pc = "spend"
    /\ level[h[c].bucket] = 0
    /\ Answer(c)
    /\ UNCHANGED <<now, tokenVars, subs, pub, ctl, keyVars>>

(* ... or the frame goes on: a publish to the fan-out, an unsubscribe to   *)
(* its ack, a subscribe of a held channel to its ack, any other subscribe  *)
(* to the token check or past it.                                          *)
Spend(c) ==
    /\ h[c].pc = "spend"
    /\ level[h[c].bucket] > 0
    /\ level' = [level EXCEPT ![h[c].bucket] = @ - 1]
    /\ ideal' = [ideal EXCEPT ![KeyOf[c]] = @ - 1]
    /\ subs' = IF h[c].op = "unsubscribe" THEN [subs EXCEPT ![c] = @ \ {h[c].ch}] ELSE subs
    /\ IF h[c].op # "subscribe" \/ h[c].ch \in subs[c]
         THEN Answer(c)
         ELSE Goto(c, IF ChannelRequiresAuth(h[c].ch) THEN "verify" ELSE "grant")
    /\ UNCHANGED <<now, tokenVars, pub, ctl, entries, lastSeen>>

-----------------------------------------------------------------------------
(* VerifyTokenAgainst: the clock is read here ...                          *)

(* A bug: the socket is not part of what is signed.                        *)
FaultyValid(c, ch, t) ==
    t \in issued /\ t.chan = ch

Valid(c, ch, t) ==
    t \in issued /\ t.sock = c /\ t.chan = ch

Verify(c) ==
    /\ h[c].pc = "verify"
    /\ IF Valid(c, h[c].ch, h[c].tok) /\ now <= h[c].tok.exp
         THEN Goto(c, "record")
         ELSE Answer(c)
    /\ UNCHANGED <<now, tokenVars, subs, pub, ctl, keyVars>>

(* ... and CheckAndRecord comes later.                                     *)
CheckAndRecord(c) ==
    /\ h[c].pc = "record"
    /\ IF h[c].tok \in seen
         THEN Answer(c) /\ UNCHANGED <<seen, accepted>>
         ELSE /\ seen' = seen \union {h[c].tok}
              /\ accepted' = [accepted EXCEPT ![h[c].tok.jti] = @ + 1]
              /\ Goto(c, "grant")
    /\ UNCHANGED <<now, issued, joined, capped, subs, pub, ctl, keyVars>>

(* One more for the token of c's frame, if the channel asks for one.       *)
Count(c, n) == IF ChannelRequiresAuth(h[c].ch) THEN [n EXCEPT ![h[c].tok.jti] = @ + 1] ELSE n

(* The rest of handleSubscribe: the channel is joined ...                  *)
Join(c) ==
    /\ h[c].pc = "grant"
    /\ Cardinality(subs[c]) < MaxChannels
    /\ subs' = [subs EXCEPT ![c] = @ \union {h[c].ch}]
    /\ joined' = Count(c, joined)
    /\ Answer(c)
    /\ UNCHANGED <<now, issued, seen, accepted, capped, pub, ctl, keyVars>>

(* ... or refused, the token spent all the same: with LIMIT_CHANNELS, or,  *)
(* whatever c holds, with LIMIT_SUBSCRIBERS or SUBSCRIBE_FAILED (which the *)
(* channel's other members and its sweep decide, see ChannelRegistry).     *)
CapRefuses(c) ==
    /\ h[c].pc = "grant"
    /\ capped' = Count(c, capped)
    /\ Answer(c)
    /\ UNCHANGED <<now, issued, seen, accepted, joined, subs, pub, ctl, keyVars>>

-----------------------------------------------------------------------------
SignToken(j, c, ch) == [jti |-> j, sock |-> c, chan |-> ch, exp |-> now + Life]

(* POST /v1/auth/sign, with a fresh jti.                                   *)
Sign(c, ch) ==
    /\ ChannelRequiresAuth(ch)
    /\ now + Life < MaxTime
    /\ \E j \in Jtis :
         /\ \A t \in issued : t.jti # j
         /\ issued' = issued \union {SignToken(j, c, ch)}
    /\ UNCHANGED <<now, seen, accepted, joined, capped, h, subs, pub, ctl, keyVars>>

(* A bug: the sweep is one tick early.                                     *)
FaultySweep ==
    /\ seen' = {t \in seen : now + 1 < t.exp}
    /\ UNCHANGED <<now, issued, accepted, joined, capped, h, subs, pub, ctl, keyVars>>

(* ReplayCache.Sweep.                                                      *)
Sweep ==
    /\ seen' = {t \in seen : now < t.exp}
    /\ UNCHANGED <<now, issued, accepted, joined, capped, h, subs, pub, ctl, keyVars>>

gcOnce ==
    /\ entries' = [k \in Keys |-> IF lastSeen[k] < now - TTL THEN NoBucket ELSE entries[k]]
    /\ lastSeen' = [k \in Keys |-> IF lastSeen[k] < now - TTL THEN 0 ELSE lastSeen[k]]
    /\ UNCHANGED <<now, tokenVars, h, subs, pub, ctl, level, ideal>>

Refill(n, by, burst) == IF n + by > burst THEN burst ELSE n + by

Tick ==
    /\ now < MaxTime
    /\ \A c \in Conns : h[c].pc = "spend" => now - h[c].since < Stall
    /\ now' = now + 1
    /\ level' = [b \in Buckets |-> Refill(level[b], Rate, Burst)]
    /\ ideal' = [k \in Keys |-> Refill(ideal[k], Rate, Burst)]
    /\ pub' = [c \in Conns |-> Refill(pub[c], 1, ConnBurst)]
    /\ ctl' = [c \in Conns |-> Refill(ctl[c], 1, ConnBurst)]
    /\ UNCHANGED <<tokenVars, h, subs, entries, lastSeen>>

-----------------------------------------------------------------------------
Handle(c) ==
    RateLimited(c) \/ Spend(c) \/ Verify(c) \/ CheckAndRecord(c) \/ Join(c) \/ CapRefuses(c)

(* Any token may come with a subscribe, also one for another socket; it is *)
(* ignored where none is needed.                                           *)
Presented(ch) == IF ChannelRequiresAuth(ch) THEN issued \union {NoToken} ELSE {NoToken}

Next ==
    \/ \E c \in Conns, ch \in Channels :
         \/ \E t \in Presented(ch) : SubscribeFrame(c, ch, t)
         \/ UnsubscribeFrame(c, ch)
         \/ PublishFrame(c, ch)
         \/ Sign(c, ch)
    \/ \E c \in Conns : Handle(c)
    \/ Sweep \/ gcOnce \/ Tick

Spec == Init /\ [][Next]_vars

-----------------------------------------------------------------------------
(* The shape of the state.                                                 *)
TypeOK ==
    /\ now \in 0..MaxTime
    /\ issued \subseteq Token /\ seen \subseteq issued
    /\ {accepted, joined, capped} \subseteq [Jtis -> Nat]
    /\ h \in [Conns -> [pc : {"idle", "spend", "verify", "record", "grant"},
                        op : {"none", "subscribe", "unsubscribe", "publish"},
                        ch : Channels, tok : Token \union {NoToken},
                        bucket : Buckets \union {NoBucket}, since : 0..MaxTime]]
    /\ subs \in [Conns -> SUBSET Channels]
    /\ pub \in [Conns -> 0..ConnBurst] /\ ctl \in [Conns -> 0..ConnBurst]
    /\ entries \in [Keys -> Buckets \union {NoBucket}]
    /\ lastSeen \in [Keys -> 0..MaxTime]
    /\ level \in [Buckets -> 0..Burst]
    /\ ideal \in [Keys -> Int]

(* A token is accepted once in its life, however its uses interleave with  *)
(* each other and with the sweep.  From its expiry on a second acceptance  *)
(* is possible: a sweep forgets the token at or after its expiry, while a  *)
(* verifier whose clock reading was no later has yet to look it up.        *)
SingleUse ==
    \A t \in issued : accepted[t.jti] > 1 => now >= t.exp

(* Whoever holds a private channel used a token signed for this socket and *)
(* this channel.                                                           *)
HeldWasPaid ==
    \A c \in Conns : \A ch \in subs[c] \intersect Private :
        \E t \in issued : t.sock = c /\ t.chan = ch /\ accepted[t.jti] > 0

(* What a token is spent on: once no frame with it is being handled, every *)
(* acceptance was answered by a join of its channel or by a refusal at a   *)
(* cap (LIMIT_CHANNELS, LIMIT_SUBSCRIBERS, SUBSCRIBE_FAILED), which spends *)
(* the token as well; a subscribe that a rate limit refuses or that        *)
(* repeats a held channel does not.  And every join took an acceptance of  *)
(* its own.                                                                *)
SpentIsAnswered ==
    \A t \in issued :
        LET answered == joined[t.jti] + capped[t.jti]
        IN  /\ answered <= accepted[t.jti]
            /\ accepted[t.jti] <= answered + (IF h[t.sock].tok = t THEN 1 ELSE 0)

(* Evicting idle buckets gives nobody more than a limiter that keeps every *)
(* bucket for ever would: whatever was admitted, such a bucket had it.     *)
WithinBudget ==
    \A k \in Keys : ideal[k] >= 0
=============================================================================
