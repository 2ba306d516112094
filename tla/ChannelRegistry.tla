--------------------------- MODULE ChannelRegistry ---------------------------
(***************************************************************************)
(* The channel registry of wirefan and everything that touches a channel   *)
(* object: the subscribe, unsubscribe, publish and teardown paths of each  *)
(* connection, the stats publisher, and the garbage collector that sweeps  *)
(* empty channels.                                                         *)
(*                                                                         *)
(* Every connection runs its handlers on one goroutine (readPump), and     *)
(* Run's teardown starts only after that goroutine has returned, so a      *)
(* connection is one sequential process; c.subs is private to it.  What is *)
(* shared is the registry map and, per channel object, SubsMu, Subscribers *)
(* and Deleted.  An action is one critical section (or one lock-free map   *)
(* operation) of the code.  Sweep's critical section is split in three,    *)
(* because it nests the registry's own lock: other goroutines may find or  *)
(* miss the name between its steps.                                        *)
(*                                                                         *)
(* Both registries are instances: shardedReg has ShardOf = the FNV hash;   *)
(* sync.Map visits and locks one key at a time, so it is the case of one   *)
(* name per shard.                                                         *)
(*                                                                         *)
(* A channel object (a member of Chans) that no goroutine and no map can   *)
(* reach is free to be allocated again, as under Go's collector, so runs   *)
(* are unbounded while the set Chans is finite.                            *)
(***************************************************************************)
EXTENDS FiniteSets, Naturals

CONSTANTS
    Conns,          \* connections
    Names,          \* channel names
    Chans,          \* identities of channel objects
    Sweepers,       \* goroutines running Sweep (SweepLoop's one; more are allowed)
    Shards,         \* shards of the registry
    ShardOf,        \* [Names -> Shards], shardedReg.shardFor
    Stats,          \* the goroutine running PublishStatsLoop
    StatsName,      \* "_wirefan-stats"
    NoChan,         \* nil *Channel
    Nobody,         \* an unlocked SubsMu
    MaxSubs,        \* the cap handleSubscribe gives hub.Subscribe, for each name
                    \* (the program: defaultMaxSubsPerChannel for all)
    MaxChannels,    \* Conn.maxChannels of each connection
    MaxRetries      \* maxSubscribeRetries

ASSUME ConstantsAssumption ==
    /\ IsFiniteSet(Conns)
    /\ Stats \notin Conns
    /\ StatsName \in Names
    /\ NoChan \notin Chans
    /\ Nobody \notin Sweepers
    /\ ShardOf \in [Names -> Shards]
    /\ MaxRetries \in Nat \ {0}

ASSUME LimitsAssumption ==
    /\ MaxSubs \in [Names -> Nat \ {0}]
    /\ MaxChannels \in [Conns -> Nat \ {0}]

VARIABLES
    registry,       \* name -> the registered channel, or NoChan
    chanName,       \* Channel.Name
    subscribers,    \* Channel.Subscribers
    deleted,        \* Channel.Deleted
    subsMu,         \* the sweeper inside Channel.SubsMu, or Nobody
    pc,             \* where each connection, and the stats loop, stands
    want,           \* the name its handler works on
    cur,            \* the *Channel local variable of its handler
    tries,          \* failed attempts of handleSubscribe's retry loop
    subs,           \* Conn.subs: name -> channel, or NoChan
    leaving,        \* channels hub.Unsubscribe is still to be called on
    answer,         \* the last answer to the client
    snap,           \* hub.Broadcast's local slice of subscribers
    spc,            \* where each sweeper stands
    todo,           \* shards Range has not visited yet
    buf,            \* Range's copy of the current shard
    at              \* the channel whose SubsMu the sweeper holds

chanVars == <<registry, chanName, subscribers, deleted, subsMu>>
connVars == <<pc, want, cur, tries, subs, leaving, answer, snap>>
sweepVars == <<spc, todo, buf, at>>
vars == <<chanVars, connVars, sweepVars>>

Procs == Conns \cup {Stats}

Init ==
    /\ registry = [n \in Names |-> NoChan]
    /\ chanName = [ch \in Chans |-> StatsName]
    /\ subscribers = [ch \in Chans |-> {}]
    /\ deleted = [ch \in Chans |-> TRUE]
    /\ subsMu = [ch \in Chans |-> Nobody]
    /\ pc = [p \in Procs |-> "idle"]
    /\ want = [p \in Procs |-> StatsName]
    /\ cur = [p \in Procs |-> NoChan]
    /\ tries = [c \in Conns |-> 0]
    /\ subs = [c \in Conns |-> [n \in Names |-> NoChan]]
    /\ leaving = [c \in Conns |-> {}]
    /\ answer = [c \in Conns |-> "none"]
    /\ snap = [p \in Procs |-> {}]
    /\ spc = [s \in Sweepers |-> "idle"]
    /\ todo = [s \in Sweepers |-> {}]
    /\ buf = [s \in Sweepers |-> {}]
    /\ at = [s \in Sweepers |-> NoChan]

-----------------------------------------------------------------------------
(* Helpers.                                                                *)

Held(c) == {n \in Names : subs[c][n] # NoChan}
HeldChans(c) == {subs[c][n] : n \in Held(c)}

(* Nothing refers to ch: Go's collector may give its memory to a new one.  *)
Unreferenced(ch) ==
    /\ \A n \in Names : registry[n] # ch
    /\ \A p \in Procs : cur[p] # ch
    /\ \A c \in Conns : ch \notin leaving[c] /\ \A n \in Names : subs[c][n] # ch
    /\ \A s \in Sweepers : at[s] # ch /\ ch \notin buf[s]

(* The handler answers c and returns; readPump then reads the next frame   *)
(* and the locals of the handler are gone.                                 *)
Answer(c, a) ==
    /\ pc' = [pc EXCEPT ![c] = "answered"]
    /\ answer' = [answer EXCEPT ![c] = a]

ReadNext(c) ==
    /\ pc[c] = "answered"
    /\ pc' = [pc EXCEPT ![c] = "idle"]
    /\ answer' = [answer EXCEPT ![c] = "none"]
    /\ want' = [want EXCEPT ![c] = StatsName]
    /\ tries' = [tries EXCEPT ![c] = 0]
    /\ UNCHANGED <<chanVars, cur, subs, leaving, snap, sweepVars>>

-----------------------------------------------------------------------------
(* Registry.GetOrCreate, by a connection or by the stats loop: a lookup    *)
(* under the read lock, and on a miss a second lookup under the write lock *)
(* (LoadOrStore of sync.Map) that creates the channel if it is still       *)
(* missing.                                                                *)

GetHit(p) ==
    /\ pc[p] = "get"
    /\ registry[want[p]] # NoChan
    /\ cur' = [cur EXCEPT ![p] = registry[want[p]]]
    /\ pc' = [pc EXCEPT ![p] = "got"]
    /\ UNCHANGED <<chanVars, want, tries, subs, leaving, answer, snap, sweepVars>>

GetMiss(p) ==
    /\ pc[p] = "get"
    /\ registry[want[p]] = NoChan
    /\ pc' = [pc EXCEPT ![p] = "create"]
    /\ UNCHANGED <<chanVars, want, cur, tries, subs, leaving, answer, snap, sweepVars>>

CreateFound(p) ==
    /\ pc[p] = "create"
    /\ registry[want[p]] # NoChan
    /\ cur' = [cur EXCEPT ![p] = registry[want[p]]]
    /\ pc' = [pc EXCEPT ![p] = "got"]
    /\ UNCHANGED <<chanVars, want, tries, subs, leaving, answer, snap, sweepVars>>

CreateNew(p) ==
    /\ pc[p] = "create"
    /\ registry[want[p]] = NoChan
    /\ \E ch \in Chans :
         /\ Unreferenced(ch)
         /\ chanName' = [chanName EXCEPT ![ch] = want[p]]
         /\ subscribers' = [subscribers EXCEPT ![ch] = {}]
         /\ deleted' = [deleted EXCEPT ![ch] = FALSE]
         /\ registry' = [registry EXCEPT ![want[p]] = ch]
         /\ cur' = [cur EXCEPT ![p] = ch]
    /\ pc' = [pc EXCEPT ![p] = "got"]
    /\ UNCHANGED <<subsMu, want, tries, subs, leaving, answer, snap, sweepVars>>

-----------------------------------------------------------------------------
(* handleSubscribe past its frame checks.                                  *)

SubscribeHeld(c, n) ==
    /\ pc[c] = "idle"
    /\ n \in Held(c)
    /\ Answer(c, "subscribed")
    /\ UNCHANGED <<chanVars, want, cur, tries, subs, leaving, snap, sweepVars>>

SubscribeOverQuota(c, n) ==
    /\ pc[c] = "idle"
    /\ n \notin Held(c)
    /\ Cardinality(Held(c)) >= MaxChannels[c]
    /\ Answer(c, "LIMIT_CHANNELS")
    /\ UNCHANGED <<chanVars, want, cur, tries, subs, leaving, snap, sweepVars>>

(* (Seeded fault: the quota is not checked.)                               *)
FaultySubscribeStart(c, n) ==
    /\ pc[c] = "idle"
    /\ n \notin Held(c)
    /\ pc' = [pc EXCEPT ![c] = "get"]
    /\ want' = [want EXCEPT ![c] = n]
    /\ UNCHANGED <<chanVars, cur, tries, subs, leaving, answer, snap, sweepVars>>

SubscribeStart(c, n) ==
    /\ pc[c] = "idle"
    /\ n \notin Held(c)
    /\ Cardinality(Held(c)) < MaxChannels[c]
    /\ pc' = [pc EXCEPT ![c] = "get"]
    /\ want' = [want EXCEPT ![c] = n]
    /\ UNCHANGED <<chanVars, cur, tries, subs, leaving, answer, snap, sweepVars>>

(* hub.Subscribe on the channel GetOrCreate returned: one critical section *)
(* of SubsMu, with three outcomes.                                         *)
(* (Seeded faults: one retry too many; a retry loop with no bound.)        *)
FaultyRetryBound(c) ==
    /\ pc[c] = "got"
    /\ subsMu[cur[c]] = Nobody
    /\ deleted[cur[c]]
    /\ tries' = [tries EXCEPT ![c] = @ + 1]
    /\ cur' = [cur EXCEPT ![c] = NoChan]
    /\ IF tries[c] + 1 <= MaxRetries
       THEN pc' = [pc EXCEPT ![c] = "get"] /\ UNCHANGED answer
       ELSE Answer(c, "SUBSCRIBE_FAILED")
    /\ UNCHANGED <<chanVars, want, subs, leaving, snap, sweepVars>>

FaultyRetryForever(c) ==
    /\ pc[c] = "got"
    /\ subsMu[cur[c]] = Nobody
    /\ deleted[cur[c]]
    /\ cur' = [cur EXCEPT ![c] = NoChan]
    /\ pc' = [pc EXCEPT ![c] = "get"]
    /\ UNCHANGED <<chanVars, want, tries, subs, leaving, answer, snap, sweepVars>>

HubSubscribeDeleted(c) ==
    /\ pc[c] = "got"
    /\ subsMu[cur[c]] = Nobody
    /\ deleted[cur[c]]
    /\ tries' = [tries EXCEPT ![c] = @ + 1]
    /\ cur' = [cur EXCEPT ![c] = NoChan]
    /\ IF tries[c] + 1 < MaxRetries
       THEN pc' = [pc EXCEPT ![c] = "get"] /\ UNCHANGED answer
       ELSE Answer(c, "SUBSCRIBE_FAILED")
    /\ UNCHANGED <<chanVars, want, subs, leaving, snap, sweepVars>>

HubSubscribeFull(c) ==
    /\ pc[c] = "got"
    /\ subsMu[cur[c]] = Nobody
    /\ ~ deleted[cur[c]]
    /\ Cardinality(subscribers[cur[c]]) >= MaxSubs[want[c]]
    /\ cur' = [cur EXCEPT ![c] = NoChan]
    /\ Answer(c, "LIMIT_SUBSCRIBERS")
    /\ UNCHANGED <<chanVars, want, tries, subs, leaving, snap, sweepVars>>

(* (Seeded faults: Deleted is not checked under SubsMu; the cap is off by  *)
(* one.)                                                                   *)
FaultySubscribeOneTooMany(c) ==
    /\ pc[c] = "got"
    /\ subsMu[cur[c]] = Nobody
    /\ ~ deleted[cur[c]]
    /\ Cardinality(subscribers[cur[c]]) <= MaxSubs[want[c]]
    /\ subscribers' = [subscribers EXCEPT ![cur[c]] = @ \cup {c}]
    /\ subs' = [subs EXCEPT ![c][want[c]] = cur[c]]
    /\ cur' = [cur EXCEPT ![c] = NoChan]
    /\ Answer(c, "subscribed")
    /\ UNCHANGED <<registry, chanName, deleted, subsMu, want, tries, leaving, snap, sweepVars>>

FaultySubscribeUnchecked(c) ==
    /\ pc[c] = "got"
    /\ subsMu[cur[c]] = Nobody
    /\ Cardinality(subscribers[cur[c]]) < MaxSubs[want[c]]
    /\ subscribers' = [subscribers EXCEPT ![cur[c]] = @ \cup {c}]
    /\ subs' = [subs EXCEPT ![c][want[c]] = cur[c]]
    /\ cur' = [cur EXCEPT ![c] = NoChan]
    /\ Answer(c, "subscribed")
    /\ UNCHANGED <<registry, chanName, deleted, subsMu, want, tries, leaving, snap, sweepVars>>

HubSubscribe(c) ==
    /\ pc[c] = "got"
    /\ subsMu[cur[c]] = Nobody
    /\ ~ deleted[cur[c]]
    /\ Cardinality(subscribers[cur[c]]) < MaxSubs[want[c]]
    /\ subscribers' = [subscribers EXCEPT ![cur[c]] = @ \cup {c}]
    /\ subs' = [subs EXCEPT ![c][want[c]] = cur[c]]
    /\ cur' = [cur EXCEPT ![c] = NoChan]
    /\ Answer(c, "subscribed")
    /\ UNCHANGED <<registry, chanName, deleted, subsMu, want, tries, leaving, snap, sweepVars>>

-----------------------------------------------------------------------------
(* handleUnsubscribe and Run's cleanup: the channel leaves c.subs first,   *)
(* hub.Unsubscribe runs afterwards, one channel at a time.                 *)

UnsubscribeNotHeld(c, n) ==
    /\ pc[c] = "idle"
    /\ n \notin Held(c)
    /\ Answer(c, "unsubscribed")
    /\ UNCHANGED <<chanVars, want, cur, tries, subs, leaving, snap, sweepVars>>

UnsubscribeStart(c, n) ==
    /\ pc[c] = "idle"
    /\ n \in Held(c)
    /\ leaving' = [leaving EXCEPT ![c] = {subs[c][n]}]
    /\ subs' = [subs EXCEPT ![c][n] = NoChan]
    /\ want' = [want EXCEPT ![c] = n]
    /\ pc' = [pc EXCEPT ![c] = "unsubscribe"]
    /\ UNCHANGED <<chanVars, cur, tries, answer, snap, sweepVars>>

(* Both pumps have returned: Run marks the connection closed and takes the *)
(* whole of c.subs.                                                        *)
(* (Seeded fault: c.subs is dropped without unsubscribing.)                *)
FaultyTeardown(c) ==
    /\ pc[c] = "idle"
    /\ subs' = [subs EXCEPT ![c] = [n \in Names |-> NoChan]]
    /\ pc' = [pc EXCEPT ![c] = "teardown"]
    /\ UNCHANGED <<chanVars, want, cur, tries, leaving, answer, snap, sweepVars>>

TeardownStart(c) ==
    /\ pc[c] = "idle"
    /\ leaving' = [leaving EXCEPT ![c] = HeldChans(c)]
    /\ subs' = [subs EXCEPT ![c] = [n \in Names |-> NoChan]]
    /\ pc' = [pc EXCEPT ![c] = "teardown"]
    /\ UNCHANGED <<chanVars, want, cur, tries, answer, snap, sweepVars>>

HubUnsubscribe(c) ==
    /\ pc[c] \in {"unsubscribe", "teardown"}
    /\ \E ch \in leaving[c] :
         /\ subsMu[ch] = Nobody
         /\ subscribers' = [subscribers EXCEPT ![ch] = @ \ {c}]
         /\ leaving' = [leaving EXCEPT ![c] = @ \ {ch}]
    /\ UNCHANGED <<registry, chanName, deleted, subsMu,
                   pc, want, cur, tries, subs, answer, snap, sweepVars>>

UnsubscribeAck(c) ==
    /\ pc[c] = "unsubscribe"
    /\ leaving[c] = {}
    /\ Answer(c, "unsubscribed")
    /\ UNCHANGED <<chanVars, want, cur, tries, subs, leaving, snap, sweepVars>>

(* Run returns.  The client may connect again: a new Conn takes the place. *)
TeardownEnd(c) ==
    /\ pc[c] = "teardown"
    /\ leaving[c] = {}
    /\ pc' = [pc EXCEPT ![c] = "idle"]
    /\ UNCHANGED <<chanVars, want, cur, tries, subs, leaving, answer, snap, sweepVars>>

-----------------------------------------------------------------------------
(* handlePublish with the inline fan-out: the channel comes from c.subs,   *)
(* hub.Broadcast copies its subscribers under SubsMu and then sends with   *)
(* no lock held.  The stats loop broadcasts on what GetOrCreate gave it.   *)

PublishStart(c, n) ==
    /\ pc[c] = "idle"
    /\ n # StatsName
    /\ n \in Held(c)
    /\ cur' = [cur EXCEPT ![c] = subs[c][n]]
    /\ pc' = [pc EXCEPT ![c] = "broadcast"]
    /\ UNCHANGED <<chanVars, want, tries, subs, leaving, answer, snap, sweepVars>>

StatsTick ==
    /\ pc[Stats] = "idle"
    /\ pc' = [pc EXCEPT ![Stats] = "get"]
    /\ UNCHANGED <<chanVars, want, cur, tries, subs, leaving, answer, snap, sweepVars>>

HubBroadcast(p) ==
    /\ \/ p \in Conns /\ pc[p] = "broadcast"
       \/ p = Stats /\ pc[p] = "got"
    /\ subsMu[cur[p]] = Nobody
    /\ snap' = [snap EXCEPT ![p] = subscribers[cur[p]]]
    /\ cur' = [cur EXCEPT ![p] = NoChan]
    /\ pc' = [pc EXCEPT ![p] = "send"]
    /\ UNCHANGED <<chanVars, want, tries, subs, leaving, answer, sweepVars>>

BroadcastEnd(p) ==
    /\ pc[p] = "send"
    /\ snap' = [snap EXCEPT ![p] = {}]
    /\ pc' = [pc EXCEPT ![p] = "idle"]
    /\ UNCHANGED <<chanVars, want, cur, tries, subs, leaving, answer, sweepVars>>

-----------------------------------------------------------------------------
(* Sweep: SweepLoop's ticker starts a Range over the registry.             *)

SweepTick(s) ==
    /\ spc[s] = "idle"
    /\ spc' = [spc EXCEPT ![s] = "range"]
    /\ todo' = [todo EXCEPT ![s] = Shards]
    /\ UNCHANGED <<chanVars, connVars, buf, at>>

(* Range copies the channels of the next shard under its read lock.        *)
RangeShard(s) ==
    /\ spc[s] = "range"
    /\ buf[s] = {}
    /\ \E sh \in todo[s] :
         /\ todo' = [todo EXCEPT ![s] = @ \ {sh}]
         /\ buf' = [buf EXCEPT ![s] =
                      {registry[n] : n \in {m \in Names : ShardOf[m] = sh /\ registry[m] # NoChan}}]
    /\ UNCHANGED <<chanVars, connVars, spc, at>>

RangeEnd(s) ==
    /\ spc[s] = "range"
    /\ buf[s] = {}
    /\ todo[s] = {}
    /\ spc' = [spc EXCEPT ![s] = "idle"]
    /\ UNCHANGED <<chanVars, connVars, todo, buf, at>>

(* Sweep's callback takes SubsMu.  A channel with subscribers is left      *)
(* alone; an empty one stays locked for the next two steps.                *)
SweepSkip(s) ==
    /\ spc[s] = "range"
    /\ \E ch \in buf[s] :
         /\ subsMu[ch] = Nobody
         /\ subscribers[ch] # {}
         /\ buf' = [buf EXCEPT ![s] = @ \ {ch}]
    /\ UNCHANGED <<chanVars, connVars, spc, todo, at>>

(* (Seeded faults: SubsMu is released after the check; Deleted is set      *)
(* before the channel is out of the registry.)                             *)
FaultySweepUnlocked(s) ==
    /\ spc[s] = "range"
    /\ \E ch \in buf[s] :
         /\ subsMu[ch] = Nobody
         /\ subscribers[ch] = {}
         /\ at' = [at EXCEPT ![s] = ch]
         /\ buf' = [buf EXCEPT ![s] = @ \ {ch}]
    /\ spc' = [spc EXCEPT ![s] = "remove"]
    /\ UNCHANGED <<chanVars, connVars, todo>>

FaultySweepMarkFirst(s) ==
    /\ spc[s] = "range"
    /\ \E ch \in buf[s] :
         /\ subsMu[ch] = Nobody
         /\ subscribers[ch] = {}
         /\ subsMu' = [subsMu EXCEPT ![ch] = s]
         /\ deleted' = [deleted EXCEPT ![ch] = TRUE]
         /\ at' = [at EXCEPT ![s] = ch]
         /\ buf' = [buf EXCEPT ![s] = @ \ {ch}]
    /\ spc' = [spc EXCEPT ![s] = "remove"]
    /\ UNCHANGED <<registry, chanName, subscribers, connVars, todo>>

SweepLock(s) ==
    /\ spc[s] = "range"
    /\ \E ch \in buf[s] :
         /\ subsMu[ch] = Nobody
         /\ subscribers[ch] = {}
         /\ subsMu' = [subsMu EXCEPT ![ch] = s]
         /\ at' = [at EXCEPT ![s] = ch]
         /\ buf' = [buf EXCEPT ![s] = @ \ {ch}]
    /\ spc' = [spc EXCEPT ![s] = "remove"]
    /\ UNCHANGED <<registry, chanName, subscribers, deleted, connVars, todo>>

(* Registry.CompareAndDelete: only while the name still maps to at[s].     *)
(* (Seeded faults: Delete by name; a sweep that only marks.)               *)
FaultyDelete(s) ==
    /\ spc[s] = "remove"
    /\ registry' = [registry EXCEPT ![chanName[at[s]]] = NoChan]
    /\ spc' = [spc EXCEPT ![s] = "mark"]
    /\ UNCHANGED <<chanName, subscribers, deleted, subsMu, connVars, todo, buf, at>>

FaultyNoDelete(s) ==
    /\ spc[s] = "remove"
    /\ spc' = [spc EXCEPT ![s] = "mark"]
    /\ UNCHANGED <<chanVars, connVars, todo, buf, at>>

CompareAndDelete(s) ==
    /\ spc[s] = "remove"
    /\ registry' = [registry EXCEPT ![chanName[at[s]]] = IF @ = at[s] THEN NoChan ELSE @]
    /\ spc' = [spc EXCEPT ![s] = "mark"]
    /\ UNCHANGED <<chanName, subscribers, deleted, subsMu, connVars, todo, buf, at>>

MarkDeleted(s) ==
    /\ spc[s] = "mark"
    /\ deleted' = [deleted EXCEPT ![at[s]] = TRUE]
    /\ subsMu' = [subsMu EXCEPT ![at[s]] = Nobody]
    /\ at' = [at EXCEPT ![s] = NoChan]
    /\ spc' = [spc EXCEPT ![s] = "range"]
    /\ UNCHANGED <<registry, chanName, subscribers, connVars, todo, buf>>

-----------------------------------------------------------------------------
ConnRequest(c) ==
    \/ TeardownStart(c)
    \/ \E n \in Names :
         \/ SubscribeHeld(c, n) \/ SubscribeOverQuota(c, n) \/ SubscribeStart(c, n)
         \/ UnsubscribeNotHeld(c, n) \/ UnsubscribeStart(c, n) \/ PublishStart(c, n)

ConnStep(c) ==
    \/ HubSubscribeDeleted(c) \/ HubSubscribeFull(c) \/ HubSubscribe(c)
    \/ HubUnsubscribe(c) \/ UnsubscribeAck(c) \/ TeardownEnd(c) \/ ReadNext(c)

ProcStep(p) ==
    \/ GetHit(p) \/ GetMiss(p) \/ CreateFound(p) \/ CreateNew(p)
    \/ HubBroadcast(p) \/ BroadcastEnd(p)

SweepStep(s) ==
    \/ SweepTick(s) \/ RangeShard(s) \/ RangeEnd(s)
    \/ SweepSkip(s) \/ SweepLock(s) \/ CompareAndDelete(s) \/ MarkDeleted(s)

Next ==
    \/ \E c \in Conns : ConnRequest(c) \/ ConnStep(c)
    \/ \E p \in Procs : ProcStep(p)
    \/ StatsTick
    \/ \E s \in Sweepers : SweepStep(s)

Spec == Init /\ [][Next]_vars

(* Mutexes are starvation-free (Go's sync.Mutex and RWMutex hand the lock  *)
(* to a waiter of more than 1 ms), goroutines are scheduled, and the sweep *)
(* ticker keeps firing while the server runs.  Nothing is assumed about    *)
(* which requests clients send.                                            *)
Fairness ==
    /\ \A c \in Conns : SF_vars(ConnStep(c))
    /\ \A p \in Procs : SF_vars(ProcStep(p))
    /\ \A s \in Sweepers : SF_vars(SweepStep(s))

FairSpec == Spec /\ Fairness

-----------------------------------------------------------------------------
(* The shape of the state.                                                 *)
TypeOK ==
    /\ registry \in [Names -> Chans \cup {NoChan}]
    /\ chanName \in [Chans -> Names]
    /\ subscribers \in [Chans -> SUBSET Conns]
    /\ deleted \in [Chans -> BOOLEAN]
    /\ subsMu \in [Chans -> Sweepers \cup {Nobody}]
    /\ pc \in [Procs -> {"idle", "get", "create", "got", "unsubscribe",
                         "teardown", "broadcast", "send", "answered"}]
    /\ want \in [Procs -> Names]
    /\ cur \in [Procs -> Chans \cup {NoChan}]
    /\ tries \in [Conns -> 0..MaxRetries]
    /\ subs \in [Conns -> [Names -> Chans \cup {NoChan}]]
    /\ leaving \in [Conns -> SUBSET Chans]
    /\ answer \in [Conns -> {"none", "subscribed", "unsubscribed", "LIMIT_CHANNELS",
                             "LIMIT_SUBSCRIBERS", "SUBSCRIBE_FAILED"}]
    /\ snap \in [Procs -> SUBSET Conns]
    /\ spc \in [Sweepers -> {"idle", "range", "remove", "mark"}]
    /\ todo \in [Sweepers -> SUBSET Shards]
    /\ buf \in [Sweepers -> SUBSET Chans]
    /\ at \in [Sweepers -> Chans \cup {NoChan}]

(* A subscription a connection believes it holds is never stranded on a    *)
(* swept channel: its channel is the one registered under the name, and    *)
(* lists the connection (hub.Subscribe's Deleted check against Sweep).     *)
NoOrphanedSubscription ==
    \A c \in Conns, n \in Names :
        subs[c][n] # NoChan =>
            /\ registry[n] = subs[c][n]
            /\ c \in subscribers[subs[c][n]]

(* A channel lists a connection only while the connection holds it or is   *)
(* about to call hub.Unsubscribe on it: no path leaks a dead connection    *)
(* into Subscribers, where it would keep the channel from being collected. *)
NoLeakedSubscriber ==
    \A ch \in Chans : \A c \in subscribers[ch] :
        ch \in HeldChans(c) \cup leaving[c]

(* Deleted means what registry.Channel says: the channel is out of the     *)
(* registry, has no subscriber, and is never handed out again.             *)
DeletedIsDead ==
    \A ch \in Chans :
        deleted[ch] => subscribers[ch] = {} /\ \A n \in Names : registry[n] # ch

(* Seen from outside, channels, sweeps and retries do not exist: every     *)
(* answer, every change of membership and every set of recipients is one   *)
(* that Membership allows.                                                 *)
Members(n) == IF registry[n] = NoChan THEN {} ELSE subscribers[registry[n]]

M == INSTANCE Membership WITH members <- [n \in Names |-> Members(n)]

ImplementsMembership == M!Spec

(* A subscribe is always answered: the retry loop and the waits for SubsMu *)
(* come to an end, whatever the sweepers do meanwhile.                     *)
SubscribeAnswered ==
    \A c \in Conns : pc[c] \in {"get", "create", "got"} ~> answer[c] # "none"

(* A channel left empty is collected, or somebody subscribes to it.        *)
EmptyCollected ==
    \A n \in Names :
        (registry[n] # NoChan /\ Members(n) = {}) ~> (registry[n] = NoChan \/ Members(n) # {})
=============================================================================
