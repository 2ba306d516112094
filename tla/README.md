# wirefan: specifications, model checks and proofs

wirefan is a single-process WebSocket publish/subscribe server. This directory
holds TLA+ models of its concurrent core, of the store it opens and of its
browser client, the TLC configurations that check them, and TLAPS proofs of
all their safety properties.

## The system

| Part | State it keeps | Operations | What makes it correct |
|---|---|---|---|
| Channel registry, `internal/registry` | name to channel map (sharded, or `sync.Map`); per channel `Subscribers`, `SubsMu`, `Deleted` | `GetOrCreate`, `CompareAndDelete`, `Range`, `Sweep` | a subscriber is never on a channel that publishers do not find; empty channels go away |
| Subscriptions, `internal/hub/channel.go` | `Channel.Subscribers` | `Subscribe`, `Unsubscribe`, `Broadcast` | the cap; one snapshot per event |
| Stats publisher, `internal/hub/stats.go` | none | a tick: `GetOrCreate`, `Broadcast` | does not disturb the collection of its own channel |
| Handlers, `internal/conn/handler.go` | `Conn.subs` | subscribe, unsubscribe, publish; `Send`, `sendAck` | `subs` and `Subscribers` agree; every subscribe is answered |
| Connection, `internal/conn/conn.go`, `pumps.go` | `send`, `closeReq`, `closed`, `runCtx` | `Run`, `readPump`, `writePump`, `CloseFrame`, `CloseNow` | every connection that is to end ends, and leaves nothing behind |
| Policies, `internal/conn/policy.go` | none | `Apply` of three policies | never blocks; under `PolicyDisconnect` no silent loss |
| Fan-out, `internal/fanout` | worker queues, `closed` | `Broadcast`, `run`, `Close` | order per publisher, subscriber and channel; nothing accepted is lost; no send on a closed queue |
| Hub, `internal/hub/hub.go` | tracked connections, `closedKeys`, `draining` | `Add`, `Remove`, `CloseKey`, `Drain` | no connection slips past a revoke or a shutdown |
| Upgrade, `internal/server/upgrade.go` | connections per IP | `ServeHTTP` | the count is exact on every path |
| Server, `internal/server/server.go`, `health.go` | health flag | `Run`: drain, listeners, pool | the order of the shutdown |
| Admin API, `internal/server/rest.go` | none | create, list, revoke, sign | store first, then the hub |
| Key store, `internal/store` | the keys table, `user_version`, the file and its `-wal` | create, look up, list, revoke; `NewSQLite` with preflight and migrations | revocations persist; the version never lies; foreign files stay as they are |
| Tokens, `internal/auth/token.go` | seen `jti`s | verify, record, sweep | a token works once, and only for its socket and channel |
| Rate limiter, `internal/ratelimit` | buckets per key | `Allow`, `gcOnce` | evicting a bucket gives nobody extra tokens |
| Browser client, `clients/js` | socket, subscriptions, timers | connect, subscribe, publish, close | agrees with the server about every channel; every call settles; channels come back after a reconnect |

How they meet: the upgrade handler's goroutine becomes `conn.Run`, which
registers with the hub and starts two pumps. `readPump` runs the handlers one
frame at a time; subscribe and unsubscribe call into the registry and a
channel's `SubsMu`; publish calls the fan-out strategy, which runs
`hub.Broadcast` on the same goroutine or on a worker; that calls `Conn.Send` of
other connections, whose `writePump`s take the frames out. A sweeper goroutine
and the stats loop work on the registry all the while. Revokes and the
shutdown reach connections through the hub.

What is hard: the sweeper against subscribes in progress; upgrades against
revokes and the drain; two goroutines and a peer that may stall at the end of
every connection; several broadcasters and the acks on one send buffer; the
pool's `Close` against publishers blocked on full queues; a crash between the
store and the hub; two releases that migrate one file at once; tokens and
buckets that are forgotten at their expiry; a client whose answers come late,
or not at all, across reconnects. `PROJECT.json` lists these hazards line by line, with the
properties that watch them.

## Modules

| Module | Models |
|---|---|
| `Membership` | the abstract promise: names with sets of members, within a cap per name and a quota per connection; answers; events offered to the members of one instant |
| `ChannelRegistry` | registry, subscriptions, stats loop, sweepers and the handlers that use them |
| `ConnLifecycle` | upgrade, hub, `Run` and the pumps, revoke, shutdown, crash and restart |
| `Fanout` | both fan-out strategies, `Send`, the three policies, `writePump`, `Close` of the pool |
| `Migrate` | opening the key store: preflight, migrations, several processes on one file, failures and kills |
| `Admission` | the checks of a frame in their order: rates, tokens, replay cache, and the loops that forget |
| `Client` | one channel of the browser client, with the server's answers |
| `..._proofs` | theorems about each of the six models, for all constants |
| `MC...` | the same modules with constants for TLC |

### ChannelRegistry

An action is one critical section, or one lock-free map operation. `pc`,
`want`, `cur`, `tries` and `leaving` are the locals of a connection's handler,
`subs` is `Conn.subs`, and the sweepers have their own. Sweep's critical
section is three actions, `SweepLock`, `CompareAndDelete` and `MarkDeleted`,
because the registry has a lock of its own and other goroutines look the name
up in between; `subsMu` records that the sweeper holds the channel meanwhile.
`GetOrCreate` is two steps, as in the sharded registry: a lookup, and on a miss
a second lookup that may create. `sync.Map`'s `Load` and `LoadOrStore` are the
same two steps, and its `Range` is the case of one name per shard.

The two limits are functions, `MaxSubs` of names and `MaxChannels` of
connections, where the program has one number for all: an instance can then
meet a limit and miss it in the same run. In `Membership` a `Join` respects
both, and a refusal for a limit (`RefuseFull`, `RefuseQuota`) is given only
while that limit is reached; `JoinFails` is `SUBSCRIBE_FAILED`, the retries
used up, which needs room in the quota and leaves no trace.

Channel objects are identities. `CreateNew` takes any object that nothing
refers to, which is what the garbage collector provides, so behaviours are
infinite and yet the state is finite: a reused identity with stale references
would show as an orphan.

Left out: the frame checks that refuse a request before it touches a channel
(UTF-8, JSON, names, reserved names, rates, tokens), because they change none
of this state; and whether the answer reaches the client (`sendAck` drops it
when the send buffer is full). Publishing here is the inline strategy.

### ConnLifecycle

`pc` is where the handler goroutine stands, from `ServeHTTP` through `Run` and
back to the deferred decrement of the per-IP count; `rp` and `wp` are the
pumps. `closing` says a close handshake is running, started by the hub or by
`Run`; `CloseFrameEnd` is the peer's answer or the timer that closes the TCP
connection, and `Teardown` waits for it, as `ws.CloseNow` does. `Drain` is `DrainMark`, `DrainSnapshot`, then `DrainEmpty` or
`DrainForce`: the code sets `draining` in one critical section and takes its
snapshot in a second one (the comment on `Hub.draining` says one; `Add` checks
the flag, so `DrainCoversAll` holds all the same). `RevokeKey` and `CloseKey`
are apart, and the store may apply a revoke and still report an error.
`ProcessEnds` clears everything but `revoked`. A listener that fails makes
`Server.Run` return at once, which to the connections is a crash.

External: the peer, the WebSocket library (by its `Read`, `Write`, `Close` and
`CloseNow`) and the SQLite file.

### Fanout

`strategy` and `policy` are chosen initially, so one run covers all of them.
A publisher under `PerConn`, or a worker under `ShardedPool`, goes through
`Snapshot`, then for each subscriber `SendStart` (the closed flag is read
here), then the policy under `sendMu`. `PolicyDropOldest` is three steps, since
acks and `writePump` use the channel without the lock. `Close` is `CloseCall`
(waiting for the write lock, which holds back new readers), `CloseQueues` and
`CloseReturn`. Events are numbered per publisher and channel. `Stream(s)` is
what subscriber `s` was sent and will be sent, acks included (its pumps go on
while `Run` sends the close frame: `st` is `"closing"`); `InOrder` and
`NoSilentLoss` compare its positions. The latter says that an event but the
first of its source comes after its predecessor. Members are those that were
there from the start, so the first of a source is the first published.

### Migrate

`pc` is where `NewSQLite` stands in each process. A database is its
`user_version`, the number of schema steps in its keys table, whether it has
tables of others, and its rows; `live` is the committed database, `main` the
part of it in the main file, `wal` says there is a `-wal`. Preflight is four
steps (`Stat`, `StatWal`, `ReadHeader`, `Preflight`) because another process
may change the file between the system calls; `checkDatabase` is one, as it
reads one snapshot. `applyMigration` is `Begin`, `Skip` or `Apply`, `Bump` and
`Commit`. `Fail` is an error of any system call or statement, with the deferred
`ROLLBACK` and the `Close` that follow; `Crash` leaves the `-wal` behind. Every
`Start` chooses a release: one that knows version 1, as the code does today,
one that knows three, and one whose list is not contiguous, which
`validateMigrations` must refuse.

`Init` is every file an operator may point at: absent or empty, of wirefan at
any version (newer than all releases too), v0.2.0 without a version, or of
another application, in rollback or WAL mode, cleanly closed or with all its
content still in the `-wal`. Files of others that happen to use `user_version`
1 to the latest are not among them: the code cannot tell those from its own.
The step of `Preflight` that reads an `immutable=1` file is one snapshot; the
code's comment argues that a writer cannot get in between.

Two things the model shows and no property forbids. A process of the older
release that has passed `checkDatabase` goes on when a newer one migrates the
file at that moment: it skips its own steps and opens a database that it would
have refused an instant later. And `RefusedIsUntouched` is about files that
every release refuses: a file the newer one is allowed to convert may change
under an older one that refuses it.

### Admission

`h[c]` is the frame that a connection's `readPump` is handling. `Limiter.Allow`
is two steps, `Lookup` under the mutex, which sets `lastSeen`, and `Spend` or
`RateLimited` without it, so a bucket is spent of later than its `lastSeen`
says; `VerifyTokenAgainst` is `Verify`, which reads the clock, and
`CheckAndRecord`. `Join` and `CapRefuses` are the two ends of
`handleSubscribe`, which `ChannelRegistry` has in full. A frame that is
refused before it changes anything is a guard. `ideal` is a bucket per key that
is never evicted: `WithinBudget` says that all that was admitted would have
been admitted by it. This needs `(TTL - Stall) * Rate >= Burst`, an assumption
of the module: a bucket that nobody asked for during `ttl` is full again, even
if a goroutine stood still inside `Allow` for `Stall`. It follows that a stall
is shorter than `TTL`, so that the bucket a goroutine stands at is not evicted
under it. The program's values (100 a second, 200, one hour) leave room for a
stall of almost the hour.

`SpentIsAnswered` says what a token is spent on. It balances the acceptances
with their outcomes: a join, or a refusal at a cap, which spends the token too
(`docs/PROTOCOL.md` 4). What it rules out is an acceptance for a subscribe that
a rate limit refuses or that repeats a held channel, and a join without one.

`SingleUse` is stated to the tick. `VerifyTokenAgainst` accepts in the
millisecond of expiry, in which `Sweep` already forgets; so a second acceptance
is possible from that instant on (a sweep in that millisecond, or a sweep at
any later time while a verifier that read its clock before has yet to record),
and never earlier. Without the exception, as the comments state it, the
property does not hold: see findings.

### Client

One action is a macrotask with the promise reactions it causes. `cl` holds the
channel's record (`rec`, named after the call that made it, `handlers`,
`confirmed`, `inflight`, `retryTimer`), the attempts (`att`: in `authorize()`,
or sent) and the calls. `up` and `down` are the frames under way; the `Server`
actions answer them as `handleSubscribe` and `handleUnsubscribe` do, and lose an
answer when the send buffer is full. `odd` is a history of what the properties
have to except. Only acks and errors matter, so `publish` and events are left
out. A call may come without a handler; its handle then goes with the last
handler of others, as in the code. The dial, its backoff and the handshake
timer are one step, `onConnected`; a socket that is failing counts as dropped
at once; a drop with no attempt left is `close`. The server is one that names
the operation in its errors.

`ConfirmedIsHeld` is stated of every instant, not only of a client at rest.
The exceptions in `ConfirmedIsHeld` and `NoGhost` are needed, and each is
something the protocol or the client really does:

- acks name a channel, not a request. If the last handle goes while a
  resubscribe is under way and the channel is subscribed to again, the ack of
  the first confirms the record of the second (`"mixed"`); should the second
  subscribe then fail for its rate or in `authorize()`, the client believes in
  a channel the server has dropped, and later `subscribe()` calls resolve at
  once;
- an ack the server drops, or an unsubscribe it refuses for its rate, leaves
  the channel subscribed there and unknown here.

`CallSettles` is satisfied by a rejection as well. That an interrupted call
joins the attempt of the new connection is `InterruptedAdopts`, which holds when
`authorize()` returns late and is violated when it throws: see findings.

## Runs

| Run | Configuration | Shows |
|---|---|---|
| `registry` | 2 connections with quotas 2 and 1, 2 names with 2 places and 1, 4 channel objects, 1 sweeper | types; no stranded and no leaked subscriber; refinement of `Membership`, both limits and their refusals included |
| `registry_live` | 1 connection, 2 sweepers, the stats channel | a second sweep at the same time; every subscribe is answered; empty channels are collected |
| `lifecycle` | 2 connections of one key and address | revoke, drain, per-IP count and sockets |
| `lifecycle_live` | the same with one place for the address | ending connections end; a revoke is for good, also when a crash keeps `CloseKey` from running |
| `late_publish` | 1 connection | a violation: see findings |
| `fanout` | 2 publishers, 2 channels on 2 workers, 1 subscriber, queues and buffer of one | order, loss, closing |
| `fanout_live` | 2 publishers on one channel | nobody waits on a peer; `Close` returns |
| `dead_chan` | 1 publisher | a violation: see findings |
| `migrate` | 2 processes, 3 releases, every initial file, 1 key | versions and tables agree; refusals are just and leave no trace; no opener is stuck |
| `admission` | 2 connections of one key, 1 token, a private channel and the stats channel, 6 instants | single use, for the right socket; what a token is spent on; the budget |
| `client` | 2 calls, 3 attempts, 2 connections, 1 lost answer, 2 frames under way | client and server agree; every call settles; channels are restored |
| `authorize_throws` | 1 call, 2 attempts, 2 connections | a violation: see findings |

Bounds. In `registry` each limit is met by one connection or name and missed by
the other, and dropping either check breaks the refinement. Four channel
objects are enough for two names, two fetched references and a channel under
removal; `CreateNew` waits if there is none, which only
delays. `MaxRetries` is 2 where the code has 3. One shard holds both names, so
that `Range`'s copy has two channels and goes stale; the proofs cover any
sharding. Two connections make every race of the hub, since its steps are
about one connection and the administrator or the drain. In `Fanout`, two events
per publisher fill a queue and a buffer of one and still leave one to be
blocked, evicted or refused. `MaxMsgs` stops the publishers, which is why those
configurations do not check for deadlock; `BroadcastReturns` and `CloseReturns`
say that nobody hangs.

In `Migrate`, versions up to 3 let one process skip a step and apply the next;
one more version is in the initial files, as the future. In `Admission` one
token is enough, as tokens do not meet; it lives two ticks and `MaxTime` leaves
three for its sweep and for a bucket to be evicted and made again; a bucket of
two makes an extra token visible. In `Client`, two calls share an attempt or
follow each other on two records, and a second connection makes stale attempts
and resubscribes; `MaxFrames` keeps the queues short and only delays. `Spare`,
the bound on attempts, never binds: in every reachable state of the run one of
the three is free. A closed client stops, so its
configuration does not check for deadlock.

Symmetry is used in the safety runs only: connections (where they do not differ
by their quota), channel objects, sweepers, publishers, and in `Fanout` the two channels together with their
workers.

Fairness. `ChannelRegistry`: strong fairness of every handler, of the stats
loop and of the sweepers, because Go's mutexes hand themselves to a waiter and
the sweep's ticker keeps firing. `ConnLifecycle` and `Fanout`: weak fairness of
goroutines that can run, of `CloseFrame`'s timer and of the drain. Nothing is
assumed of peers, of clients' requests or of the administrator; in
`fanout_live` no `writePump` ever has to take a frame. `Migrate`: weak fairness
of each process that is opening, where waiting for the lock ends by the busy
timeout. `Client`: timers fire, frames are delivered and handled, a dial
succeeds in the end; and strong fairness of `authorize()` succeeding and of the
server accepting, without which nothing could be restored. Nothing is assumed
of the caller.

Each property of a passing run comes with a seeded fault (`Faulty...`): a
plausible bug of the code that makes TLC find the property violated.

### Findings

`late_publish`: the comment at `internal/server/server.go:185` concludes that
no new broadcast can arrive once `Drain` has returned. `Drain` does not wait
for the connections it force-closes and the listener's shutdown does not know
them, so a publish in progress can meet a closed pool. It is dropped, and
counted as published. It takes a handler that outlives the drain's grace.

`dead_chan`: the comment at `internal/conn/conn.go:263` and `docs/DESIGN.md`
3.2, invariant 5, say that after `closed` is set a `Send` in flight does not
enqueue. `Send` checks the flag before it enqueues, with nothing to keep `Run`
from setting it in between. The event is lost in both cases; what differs is
that `Send` reports success.

`authorize_throws`: the comment at `clients/js/src/index.ts:996` and
`clients/js/README.md:50` say that a `subscribe()` whose attempt a drop cut
short adopts the resubscribe once the client has reconnected. The loop does so
for a `ConnectionClosedError`, which is what a late `authorize()` ends in. One
that throws after the reconnect, perhaps because the same failure cut off its
request, rejects the call and removes its handler, while the record that the
resubscribe has confirmed stays.

A fourth has no run of its own; the exception in `SingleUse` is what states it,
and the `admission` run is violated without it. The comment at
`internal/auth/token.go:27` says that a second `VerifyTokenAgainst` with the
same jti is refused, and `docs/PROTOCOL.md` 5.10 that every token is
one-time-use. The expiry check accepts in the last millisecond, and reads the
clock before the jti is recorded; `Sweep` forgets from that millisecond on. A
token that was used can so be accepted again at its expiry. It is the same
connection and channel that it was signed for, so what is lost is only the
"once".

## Proofs

Every invariant and every action property of a passing run, and the refinement
of `Membership`, is a theorem of its `_proofs` module, for every value of the
constants that the assumption of the model allows. The assumptions say that
sentinels are distinct from what they stand in for, that limits and capacities
are positive, that maps such as `KeyOf` are functions, and that what is counted
is finite. Three say more, and the code justifies each: the heap has a bucket
for every key and connection and one to spare, and `(TTL - Stall) * Rate >=
Burst` (both `Admission`); a release has at least one migration (`Migrate`).

Each module has the same shape. None of the properties is inductive alone;
`IInv` conjoins them with what they rest on, one lemma per part shows that
every step keeps it, `Invariance` is `Spec => []IInv`, and the theorems follow.
TLC checked each `IInv` on the run's instance before it was proved.

`ChannelRegistry_proofs`: `TypeOK`, `NoOrphanedSubscription`,
`NoLeakedSubscriber`, `DeletedIsDead` and `ImplementsMembership`. `IInv` adds
what the locals of a handler mean at each point (`ConnInv`, `TargetInv`); that
a subscribe that is under way still fits into its quota (`QuotaInv`); that
the registry maps a name to a channel of that name (`RegistryInv`); that
`SubsMu` is held exactly by the sweeper that stands at a channel, and the
channel is empty meanwhile and unregistered before it is marked (`SweepInv`);
that a channel on its way out is still registered and lists the connection
(`LeavingInv`); and the heart of it, `GotInv`: a channel `GetOrCreate` has
returned is registered, or deleted, or between removal and mark by a sweeper
that holds its `SubsMu`. Hence `hub.Subscribe`, which has the lock and sees the
channel not deleted, has the registered one. `StepSimulation` maps every step
to a step of `Membership` or a stutter.

`ConnLifecycle_proofs`: `TypeOK`, `RevokedIsDoomed`, `DrainCoversAll`,
`IpCountExact` and `OpenIsCounted`. The hub tracks a connection exactly from
`Add` to the deferred `Remove` (`TrackedInv`), which is why the snapshots of
`CloseKey` and `Drain` miss nobody; `draining` is set from the first critical
section on (`DrainInv`), which is why it may be taken apart from the second;
a socket is open only where the handler still counts (`SocketInv`). The count
itself is a cardinality, changed by one request at a time (`CountKept`).

`Migrate_proofs`: `TypeOK`, `SchemaMatchesVersion`, `RefusalIsJust`,
`OpenedIsMigrated`, `KeysSurvive` and `RefusedIsUntouched`. The lock is held
exactly inside the transaction (`LockInv`), so that what it has is the
committed database, then one step more (`TxInv`). Past `checkDatabase` the
database is one of this program and has reached the version the opener counts
from, whoever else has migrated it (`ProgressInv`, with `LiveGrows`: a
committed database only moves forward). The main file is never ahead of the
`-wal` (`MainInv`), so that preflight, which may read the main file alone,
does not refuse for a reason that is no longer so. For a file that all releases
refuse, `HopelessInv` says what preflight still sees of it; hence nobody gets
as far as a handle that writes.

`Admission_proofs`: `TypeOK`, `SingleUse`, `HeldWasPaid`, `SpentIsAnswered` and
`WithinBudget`. For the tokens: a handler past `Verify` has a token for its
socket and channel (`FlowInv`), an accepted one is in the replay cache until it
expires (`TokenInv`), and acceptances are joins and refusals at a cap, plus one
while the handler that spent the token stands before its end (`AccountInv`). For the budget: who stands inside `Allow` has the bucket of its
key, asked for at most `Stall` ago (`AllowInv`); no two keys share one, and it
never holds more than the ideal (`BucketInv`); since nobody spends of a bucket
later than `Stall` after it was last asked for, it refills undisturbed
(`RefillInv`), and is full when it may be evicted (`FullAfterTTL`).

`Fanout_proofs`: `TypeOK`, `InOrder`, `NoSilentLoss` and `CloseLosesNothing`,
for both strategies and the three policies. `InOrder` depends on what is on its
way: `OrderInv` orders an event among all the places it passes, the publisher's
hands, the queue, the worker's hands, the buffer, the peer; `SentInv` puts a
new event behind them all. `PlayInv` says for a subscriber under
`PolicyDisconnect` that is not being closed that what is in play for it,
wherever it is, has no gap, and reaches up to the last that was published until
the pool closes; what a closed pool drops is behind all that is in play.
`PoolInv` is the lock of the pool: once closed, nobody stands at a queue, and a
worker that has exited left it empty.

`Client_proofs`: `TypeOK`, `NoStaleToken`, `ConfirmedIsHeld` and `NoGhost`, for
any number of calls, attempts, connections, lost answers and frames under way.
The last two compare the client with the server while what decides between them
is on the wire. `HeldInv` follows the ack of the record back to the frame that
asks for it: no unsubscribe is behind either, so an ack that arrives is still
true. For this a new record must be in no old frame (`FreshInv`) and pending
subscribes must have attempts of their own (`PendingInv`). `GhostInv` accounts
for a server that holds what the client has not confirmed: an unsubscribe is on
its way, or an ack that will be acted on. `CountInv` is needed when that ack
arrives: as long as no answer was lost, a pending unsubscribe has one coming,
so the client, which leaves the undo to it, is right to.

Only model-checked:

- liveness: `SubscribeAnswered`, `EmptyCollected`, `DoomedEnds`,
  `RevokedEndsForGood`, `BroadcastReturns`, `CloseReturns`, `OpenerSettles`,
  `CallSettles`, `WantedIsRestored`. They need fairness, hence `ENABLED`, which
  the prover does not handle;
- that the bounds on frames and attempts of `Client`, and the number of channel
  objects of `ChannelRegistry`, only delay: that is about what can still
  happen, and rests on the liveness runs;
- the three violations, which are behaviours that TLC finds.

## Not modelled, and the plan

Next: the part of `RevokedEndsForGood` that is safety (once a key is closed and
no connection of it is tracked, it stays so, across restarts too), and a
refinement that states what the fan-out promises without queues and workers.

Not modelled:

- the pool composed with the registry. A queued job names a channel object
  that may be swept before its worker runs; it can be swept only when nobody is
  subscribed to it, so the event is one offered to nobody at that instant,
  which `Membership` allows;
- `clientIP`, `ipCapKey` and the parsing of trusted proxies: a pure function of
  one request, which its unit tests reach;
- several channels in the client: they share the socket and nothing else. The
  resubscribe takes them one after another, which only delays;
- listing keys, flags and files, secrets and hashes, metrics, the load
  generator and the demo page: no concurrent state of their own;
- the WebSocket library, SQLite and `rate.Limiter`, which are environment.
