# Verification of inertia-relayer

TLA+ models of the relayer in this repository, the TLC runs that check them on
small instances, and TLAPS proofs for every value of the constants.
`PROJECT.json` maps each definition to the lines it models and lists the runs,
mutants, hazards, findings and theorems.

## The system and its parts

The relayer sits between Solana's TPU traffic, one validator, a Jito block
engine and the Inertia server.

| part | source | what it does |
|---|---|---|
| TPU ingress | `relayer/tpu.rs` | QUIC servers and sigverify (external crates) produce packet batches |
| Relayer delay thread | `proxy/mod.rs` `spawn_relayer_delay` | mirrors each batch, holds it 100 ms, discards filtered packets, sends it on |
| Filter set | `proxy/mod.rs` `FilterSet` | signatures the Inertia server asked to suppress, each for 2 s |
| Block engine delay lanes | `proxy/mod.rs` `delay_forward` | the same for block engine packets and bundles, as async tasks over broadcast channels |
| Mirror | `proxy/mirror.rs` | the QUIC connection to the Inertia server: datagrams out, filters and bundles in, reconnect with backoff, pinned certificate |
| Forwarder | `relayer/forwarder.rs` | event loop that sends batches and heartbeats to the one subscribed validator |
| Authentication | `relayer/auth/*` | challenges per IP, JWT access and refresh tokens, the interceptor in front of the forwarder |
| Block engine proxy | `blockengine/*` | subscribes upstream for the validator and serves it what the proxy lets through |
| Startup and shutdown | `main.rs`, `helper.rs`, `relayer/mod.rs` | the exit flag, signals, the panic hook, joins |
| Token key files | `relayer/mod.rs` `load_or_generate_keys` | creates the two PEM files on first start |
| Staked nodes updater | `relayer/staked_nodes_updater_service.rs` | refreshes the stake map of the QUIC servers |
| Slot subscription | `rpc.rs` | rebroadcasts slots (no receiver in this program) |

A packet's way: sigverify -> crossbeam channel -> delay thread (mirror, queue,
filter) -> bounded crossbeam channel -> forwarder event loop -> bounded tokio
channel of the subscription -> validator. A block engine response's way: upstream
stream -> pump -> broadcast channel -> lane (mirror, queue, filter) -> broadcast
channel -> the stream of each subscription.

How the modules are put together: FilterSet is shared by RelayerDelay and
DelayForward, which extend it and both implement DelayLine; KeyStore is extended
by Process, which takes every other part as a worker that ends for a reason.
BlockEngine takes a lane as the step that passes one response on, and Mirror's
bundles as `InertiaBundle`.

## Modules

**FilterSet** models `struct FilterSet`. `map` is the mutex-protected HashMap,
`len` the atomic that `is_empty` reads without the mutex, `lock` the mutex.
`insert` and `sweep` are two steps each (change the map; store `len` and
unlock), so another thread can read `len` in between. `published` is a history
variable: for each signature the instant stored by its last completed insert and
when it completed. `len` is accessed with `Relaxed` ordering; the model is
sequentially consistent, so "completed" means that its store is visible.

**RelayerDelay** extends FilterSet with the delay thread. `pc` walks through
the loop: `top` (exit test, timeout), `recv` (`RecvOk`, `RecvTimeout`,
`RecvDisconnected`), `mirror`, `push`, `sweep`, `sweepLock`, `sweepStore`,
`cutoff` (the local `now`), `release` (pop the front if due), `filter`
(`is_empty`), `scan` (under the mutex) and `send` (blocking). Every clock read
is a step of its own and the clock may tick between any two steps. Batches are
identified by their place in the sequence of arrivals; a packet is its first
signature and its discard flag. Beside the thread run the filter reader
(`Insert`, `Publish`), sigverify (`Arrive`, `CloseInput`), the forwarder (`Take`,
`CloseOutput`), `SetExit` and `Clock`.

**DelayLine** is what every delay stage promises, without threads, polls, mutexes
or sweeps: items are accepted in order, only the oldest may leave and only after
Delay, a filter younger than TTL removes what it names, an older one may, nothing
else is removed, and a closed line does nothing more. A lossy line skips items only
when it has fallen more than the channel keeps behind. RelayerDelay and
DelayForward each define `Line == INSTANCE DelayLine WITH ...`: `line` is the queue,
`hand` the batch between pop and decision, `out` what was decided, `filters` the
completed inserts. In a lane an item is accepted when `on_receive` sees it.

**Forwarder** models the event loop and the subscriptions. A stream is one call
of `subscribe_packets`; its channel is its fill level, `log` and `missed` are
histories. A batch is its number of live packets, a message its place in the
sequence of all messages cut from batches. `subscriptions` never holds two
entries (`SubscriptionsSound`, checked by the run), so the loops over subscribers
are single steps.

**DelayForward** extends FilterSet with a block engine lane (`delay_forward`),
for packets and bundles alike: a response is a sequence of units, a unit the set
of first signatures it is judged by. The biased select is three polls, `shutdown`,
`timer`, `recv`, each a step, so what one arm waits for may happen while the next
is polled. The broadcast channel is the history `arrivals` and the receiver's
position; falling more than `Capacity` behind is `RecvLagged`. Inserts and the
delay thread's sweeps change the filter set around the lane.

**Auth** models the authentication service. Up to |Handlers| calls run at once;
each method of `AuthChallenges` takes the mutex anew, so `generate_auth_challenge`
is `Generate` (capacity), `Lookup`, `Make`, `Push` and `generate_auth_tokens` is
`Tokens`, `Issue`, `Remove`; a client that goes away between the last two leaves its
challenge in the queue (`Dropped`). `remove_all_expired` pops one entry per step while
it holds the mutex. The constant `Signatures` says which holder of a key signs which
challenge; a client may name any challenge that was handed out, and `Verifies` is
`client_pubkey.verify`. A token is its claims: `refresh_access_token` and the interceptor
verify the relayer's signature and test nothing that tells an access token from a refresh
token, so `Refresh` and `Intercept` take any token, and the interceptor does not test the
expiry either. Challenge strings are unique numbers, one clock value stands for the three
`Utc::now` calls of a challenge, and the clock does not go back.

**Mirror** models `Mirror::run` and its arms. `pc` follows `run`; `outPc` follows
`mirror_bundles_out` through `open_uni`, `recv` and the two writes of a frame;
`Drop` is what the `select!` of `serve_connection` does to the arms that did not
return. Readers of bundle streams are separate tasks. Connections may be lost at
any time, writes may hang. Threads other than `mirror_control` call `send` too;
they only read the slot, so one caller is modelled. There is no clock: `backoff` is
kept, a sleep is a step.

**BlockEngine** models the block engine proxy. A call is `Request`, then the pooled
client (`GetPooledClient` reads the pool, `GetClient` awaits a connection and
inserts it) and then either `Unary` or `Subscribe`. A subscription is a stream to
the validator (`StreamPoll`), a pump from upstream (`PumpPoll`, `PumpMessage`,
`PumpPending`, `PumpEnds`; the biased select polls the token first, and the token
may be cancelled between the two polls) and a bridge from the exit flag to the token.
`Guard` is the drop guard in the stream that cancels the token when the client
leaves. `fromBlockengine` and `fromProxy` are the two pairs of broadcast channels.

**KeyStore** models `load_or_generate_keys`: each file is looked for, made, and
written in two steps, so that a kill can leave it torn; each call on the file system
(create, write, permissions, read) may fail, on which the code panics (`Fault`), and a
write that fails leaves a torn file or a whole one (`WriteFails`). Between starts an
operator may remove files. **Process** extends it with the life of the process: `Start`,
`LoadKeys`, `Spawn`, the panic hook, the signal, `End` of each worker for the reason the
code gives it (`Leaves`, with one operator for each kind of reason: the exit flag, the
cancel token, the watch channel, a disconnected neighbour, or joined threads that ended),
graceful shutdown of the two servers, which waits for open streams (`OpenStream`,
`CloseStream`) and for handlers that wait for upstream (`CallUpstream`, `Answered`),
`MainReturns`, and `Kill` at any step followed by another start. The mirror and the two
delay lanes end alike, when shutdown is set, and are one worker, `tasks`.

**RpcWorkers** models the staked nodes updater and the slot subscription on one
clock. A call takes 0 to `MaxCall`, a thread acts at the instant its sleep or
timeout ends (`Tick` does not pass it), and `StakesOf` collects the accounts of a
reply one after the other, current before delinquent, as `collect` does (`MaxAccounts`
bounds the accounts in either list). The two threads share only the exit flag.

The modules named `...Proofs` hold the theorems about the module they extend
(RelayerDelayProofs also those about FilterSet, ProcessProofs those about KeyStore),
and the modules named `MC...` give TLC its constants.

## Runs

| run | instance | checks |
|---|---|---|
| `delay` | 1 signature, 2 batches of 4 packets (live and discarded, signed and not), TTL 2, delay 1, capacity 1, clock 0..3 | `ImplementsDelayLine`: the thread implements DelayLine without loss. `FilterIndexSound`: `len` never hides a live filter. `OnlyRecentFiltersDiscard`: only discard flags change, and an expired filter discards nothing once a sweep could see it. `DueBatchForwarded`, `ExitStopsThread`, `FilterExpires`. |
| `lane` | 1 signature, 3 responses of a signed and an unsigned unit, a channel that keeps 1, TTL 1, delay 1, clock 0..2 | `ImplementsDelayLine`: a lane implements DelayLine and loses only what the channel overwrote. `DueResponseSent`, `LaneEnds`. |
| `forwarder` | 2 validators, 3 streams, 2 batches of 0 or 3 packets, messages of 2, queue of 1 | `SubscriptionsSound`: one validator, and a full queue is no disconnect. `ContiguousStream`: whole batches, in order. `SlotFreed`, `DisconnectRaisesExit`. |
| `forwarder_reconnect` | the same | `OnlyDeadStreamsDropped` is violated, see Findings |
| `auth` | 2 calls, 1 address, 2 identities, 2 challenges, clock 0..1 | `ReplacesOnlyExpiredOrConcurrent`: a client that asks again gets its challenge back. `TokensNameTheirSigner`: every token, also one renewed from a token of either kind, and every admitted identity is one whose holder signed a challenge handed out for it. `RemovesWhatItUsed`: a challenge for which tokens were returned is gone for good, and a call removes, by address, nothing but its own challenge or one handed out while it ran. `EveryCallAnswered`, `ExpiredChallengeRemoved`. |
| `auth_queue` | 2 calls, 3 addresses, capacity 1, clock 0..2 | `CapacityUpToConcurrency`: the overshoot of the capacity is bounded by the calls running. `SweepRemovesAllExpired`: stopping at the first live entry leaves no expired one. |
| `auth_two_challenges` | 2 calls, 1 address | `OneChallengePerIp` is violated, see Findings |
| `mirror_safety` | 3 connections, 3 bundles, a channel that keeps 1, backoff 1 to 20 | `SlotIsServed`: no dead connection in the slot. `MirroredInOrderOnce`: order, whole frames, and at most one bundle lost per connection beyond lag. |
| `mirror_progress` | 2 connections, 1 bundle, 1 stream of 2 frames | `AtMostOneLateFrame`, `ExitEndsMirror`, `Reconnects`, `ValidatorReported` |
| `block_engine` | 2 calls of 1 peer, 1 response and 1 bundle, channels that keep 1 | `ConnectionsBounded`: a peer costs at most as many connections as overlapping calls. `OwnItemsAhead`: a stream's receiver is behind all its own pump sent. `EndsByExitOrClient`: neither upstream nor lag ends a stream or its tasks. `LeavingStopsTasks`, `ExitEndsStreams`. |
| `process` | 2 starts, 2 key pairs | `KeysSound`: keys match unless an old verifying key was left beside a new signing key, the pair survives kills, failing calls and restarts, and a start in which no call fails comes up unless a file is torn. `MainEndsLast`: main returns after a signal, when every worker has ended. `ExitEndsWorkers`, `FailedStageRaisesExit`. `StopsWhenAsked`: a panic ends the process whatever the peers do, a signal unless a validator or upstream holds a request for ever. |
| `rpc_workers` | 1 node, stakes 1 and 2, replies of up to 1 current and 1 delinquent account, period 4, nap 1, call 0..1, clock 0..11 | `StakesOfLastAccount`: collecting in order leaves the last account of each node. `StakesFresh`: the age of the map is bounded and a failure is retried after a nap. `SlotsWatched`: silence ends a subscription. `StopInTime`. |

Where an invariant carries its module's `TypeOK`, the run checks the types with it;
the proofs cover the types of every module. `ServerHasDelayToAnswer`,
`FreshFilterApplied` and `InOrderOnce` of RelayerDelay are in no run: they are
proved for all constants (below), and on the instance of `delay` order, suppression
and the delay since the push are part of `ImplementsDelayLine`.

Why the bounds are enough to show the interesting cases: a clock of 3 with TTL 2
lets a filter be inserted, renewed, expire and be swept; capacity 1 with two
batches blocks `send`, so that filters age between the sweep and the decision on
the second batch; more signatures are covered by the proofs. In the forwarder three streams cover a connect, a reconnect and a competing validator,
and a batch cut into two messages covers a subscriber that comes in between.
A broadcast channel that keeps one response makes every second one a lag. Two
calls are enough for every race of two methods of `AuthChallenges`; three
addresses let two calls pass the capacity test and a third be refused. In `auth` one
identity signs every challenge, whoever it was made for, and the other none, so that
each of the comparisons of `generate_auth_tokens` is what refuses some call; two
challenges let the one a call used expire and be replaced before the call removes it.
Three
connections and three bundles lose a connection at each point of a frame and
continue on the next; a backoff from 1 to 20 has the ratio of the code (250 ms to
5 s). Calls, addresses and identities are symmetric in `auth_queue`. In
BlockEngine two calls of one peer are enough for both to miss the pool, and for one
stream to lag behind the other's upstream. Two starts with two key pairs are enough
for a kill at each step of the first to be met by the second. A clock of 11 with a
period of 4 holds two refreshes with a failure between them, and the slot timeout
several times.
Deadlock is not checked in these runs because the system may stop (`pc = "done"`,
the clock at its bound).

Fairness (`FairSpec`). A running thread keeps taking steps (weak fairness). A
thread waiting for the mutex gets it although inserts keep taking it (strong
fairness; the filter reader awaits datagrams between inserts). crossbeam's
`select!` picks a random ready arm, so an arm that is ready again and again is
taken (strong fairness of the arms). The event loop receives while the exit flag
is down and returns after it is up. tokio's mutex is first come, first served, so
a waiting call gets it (strong fairness of a handler's steps). In the mirror a
connect ends (QUIC's handshake timeout), succeeds if it is tried for ever, and a
read on a closed connection fails; a write on a live one may hang for ever, and
the server may never send. In the block engine proxy a client that is connected
keeps reading its stream, tasks that are ready run, and a connect ends (its timeout
is 10 s); upstream may never answer a call.
In Process each worker whose reason to end holds ends, `Restart=always` starts the
process again, and the proxy ends its own streams after the exit flag. Nothing is assumed
of validators or of upstream: tonic's graceful shutdown waits for a validator that stays
on a stream of the forwarder and for a call upstream does not answer, and the code ends
neither, which is what `HeldByPeer` says; in practice the stop timeout of systemd ends
such a wait with a kill. RpcWorkers needs no
fairness: a thread acts when its sleep or timeout is over because the clock waits for
it, which is the urgency of `recv_timeout` and `sleep` up to scheduling. Nothing is
assumed of sigverify, of signals, or of who sets the exit flag.

## Proofs

Every safety property, action property and refinement that a passing run checks is
also a theorem, for every value of the constants that satisfies the named
assumptions, the bounds of the runs included. The assumptions are that sizes, delays
and bounds are natural numbers (those the code divides by, waits on or uses as
capacities positive), that the "no value" constants are not values, that there are
finitely many concurrent calls and that signatures are pairs of an identity and a
challenge (`AuthAssumption`), that the initial backoff is at most
the largest one, that
`PK_TO_STAKE_REFRESH_DURATION` is below the updater's period (`RpcAssumption`), and that there are keys for all starts (`ProcessAssumption`).

| module | theorem: property |
|---|---|
| RelayerDelayProofs | `TypeCorrect`: `TypeOK`; `FilterIndexSoundness`: `FilterIndexSound`; `ServerDelay`: `ServerHasDelayToAnswer`; `FreshFiltersAreApplied`: `FreshFilterApplied`; `OnlyRecentFiltersAct`: `OnlyRecentFiltersDiscard`; `DeliveryOrder`: `InOrderOnce`; `DelayThreadImplementsLine`: `ImplementsDelayLine` |
| DelayForwardProofs | `LaneImplementsLine`: `ImplementsDelayLine` |
| ForwarderProofs | `OneSubscription`: `SubscriptionsSound`; `StreamsAreContiguous`: `ContiguousStream` |
| AuthProofs | `TokensAreSigned`: `TokensNameTheirSigner`; `UsedChallengeIsGone`: `RemovesWhatItUsed`; `ReplacementIsJustified`: `ReplacesOnlyExpiredOrConcurrent`; `QueueBound`: `CapacityUpToConcurrency`; `SweepIsComplete`: `SweepRemovesAllExpired` |
| MirrorProofs | `SlotHoldsTheServed`: `SlotIsServed`; `OrderOnTheWire`: `MirroredInOrderOnce`; `ReadersStop`: `AtMostOneLateFrame` |
| BlockEngineProofs | `PoolBound`: `ConnectionsBounded`; `NothingOwnIsMissed`: `OwnItemsAhead`; `StreamsEndForAReason`: `EndsByExitOrClient` |
| ProcessProofs | `KeysAreSound`: `KeysSound`; `MainIsLast`: `MainEndsLast` |
| RpcWorkersProofs | `LastAccountsArePublished`: `StakesOfLastAccount`; `StakesStayFresh`: `StakesFresh`; `SilenceIsNoticed`: `SlotsWatched`; `BothStopInTime`: `StopInTime` |

Each module defines an inductive invariant `IInv`, shows with one lemma per action or
group of actions that every step preserves it (`Invariance`), and derives its theorems.
What `IInv` adds, and why the properties do not carry themselves:

- **RelayerDelay.** `FilterInv`: while the mutex is free `len` is the size of the map;
  `len = 0` leaves at most the entry of an insert in progress; a fresh filter is in
  the map with an instant no older than its last completed insert, which is why
  `retain` keeps it. `SweepInv`: from the sweep to the end of the release loop every
  entry was completed less than TTL before that sweep, whether the sweep ran, was
  skipped (`len = 0`) or an insert came later. `DelayInv`: a mirrored packet's instant
  plus Delay is at most its batch's release instant, then at most `cutoff`, then at
  most the time of the decision. `InOrderOnce` ties the ids in the queue, in hand and
  sent to one another.
- **DelayForward.** `FilterInv` for a lane that only reads the filter set, and
  `LaneInv`: what is in hand, queued and sent was received, and a queued response
  waits for Delay after it was seen.
- **Forwarder.** `MapInv`: an entry's stream belongs to the identity it is filed under,
  and the copy that `forward_packets` sends from lives only while it runs. `TodoInv`
  and `LogInv`: a subscribed stream that has missed nothing has exactly the messages up
  to the last one done with, and a stream added meanwhile has none and is not in the
  copy; without this, a stream could begin in the middle of a batch.
- **Auth.** `MadeInv`, `QueueInv`: what is in the queue is a challenge made for its
  address and handed out. `CallInv`: a challenge about to be pushed belongs to one call
  and nobody was handed it, so none that was used and removed can come back; a call that
  has issued tokens did so for a challenge of its address.
  `RoomInv` counts the calls that have passed the capacity test and may still push.
- **Mirror.** `HandInv`: a bundle is in hand only between `recv` and the write of its
  payload, so that dropping the arms loses that one only. `WireInv`: how far the wire is
  behind the receiver. `Covered`, `Spared`: every received bundle was written, lagged,
  dropped or is in hand, and each connection drops at most one. `ReaderInv`: a reader
  that forwarded a frame after shutdown tests the flag before the next.
- **BlockEngine.** `PoolInv`: connections made plus calls still connecting are bounded by
  the calls that were on the way at once; a peer without a pooled client has none.
  `StreamInv`: a response in a channel belongs to a subscription of that lane, whose
  receiver was there before; a call that is not served yet has no bridge.
- **Process.** `FileInv` and `LoadInv` relate the files to what `load_or_generate_keys`
  has read at each of its steps, so that a kill or a failing call between any two leaves
  only states from which the next start goes on or fails on a torn file. `JoinInv`: a join that has ended has no running thread
  below it.
- **RpcWorkers.** `UpdaterInv` and `SlotInv` bound each thread's next deadline by the
  instants the properties measure from.

The refinement. In RelayerDelay and DelayForward the mapping to DelayLine is given by
the operators `Passed`, `Held`, `Deciding`, `Decided`, `Suppressed`, `Running`
(in RelayerDelay also `Offered`, which reduces a packet to the signatures it is judged by).
One lemma per kind of step shows which line step it is: the push in the delay thread
(`on_receive` in a lane) is `Accept`; popping the front is `Release`; `is_empty` and the
scan under the mutex are `Decide`; an arrival is `Offer`; a completed insert is
`Suppress`; `RecvLagged` is `Skip`; the end of the thread is `Close`; everything else,
sweeps, polls and sends included, leaves the line as it is. `Decide` is where the
invariant is needed: the filters younger than TTL must all be hit, and `len` read
without the mutex, or a map a sweep has just gone through, must not hide one. The send
needs `VerdictInv` (or `LaneInv`): a verdict is the next to be sent.

Induction over data. `StakesOf` is defined by recursion over the accounts, and the
theorem about it holds for replies of any length. The library's induction rules take a
predicate as a parameter, so `InductionOverNat` states induction for a set of naturals
instead, from the library's fact that `<` on the naturals is well-founded. With it
`MapsExist` shows that the recursive function exists and `StakesOfLast` that each prefix
of the accounts leaves the last stake of each node.

Only model-checked, because liveness under fairness is outside the prover's reach:
`DueBatchForwarded`, `ExitStopsThread`, `FilterExpires`, `DueResponseSent`, `LaneEnds`,
`SlotFreed`, `DisconnectRaisesExit`, `EveryCallAnswered`, `ExpiredChallengeRemoved`,
`ExitEndsMirror`, `Reconnects`, `ValidatorReported`, `LeavingStopsTasks`,
`ExitEndsStreams`, `ExitEndsWorkers`, `StopsWhenAsked` and `FailedStageRaisesExit`.

## Findings

`drop_connections` removes by identity (`relayer/forwarder.rs:302`). A
validator that resubscribes after the failed send on its old stream was recorded,
and before the write lock is taken, loses its new stream; `OnlyDeadStreamsDropped`
shows the run.

`generate_auth_challenge` looks for a challenge and pushes a new one under two
different locks (`relayer/auth/service.rs:151` and `:181`). Two overlapping calls
of one address are handed two challenges, of which only the last pushed exists;
the comment at `:40` says "we'll allow one challenge per IP". `OneChallengePerIp`
shows the run, `ReplacesOnlyExpiredOrConcurrent` that nothing else replaces one.

## Plan

1. Mirror composed with FilterSet, so that filters arrive only while connected.
2. Properties of DelayLine itself (order, delay, suppression) as theorems, from which
   those of both delay stages follow by refinement.

## Not modelled

- External crates: QUIC and TLS, tonic, sigverify, the JWT library. They appear as
  steps of the environment.
- The TPU configuration reply: `get_tpu_configs` changes no state and subtracts a
  constant from each configured port.
- Certificate pinning: `parse_cert_pin` reads hexadecimal digits at startup, and the
  verifier compares digests inside rustls. In Mirror a refused certificate is a
  connect that fails.
- Protocol conversion and generated code: a field-by-field copy.
- The local URLs written into the block engine's endpoint reply, packet contents
  beyond the first signature, arguments, logging and statistics: nothing in the
  program's control depends on them. Of the permissions of the key files only the failure
  to set them is modelled. `Path::exists` is taken to be right, and a kill to be one of
  the process, after which what was written to a file is still there.
- The values of the stake overrides, which are fixed at startup and kept beside the map.
- Weak memory: `len` is read with `Relaxed` ordering, see FilterSet.
