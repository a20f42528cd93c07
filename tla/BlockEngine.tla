---------------------------- MODULE BlockEngine ----------------------------
(***************************************************************************)
(* The proxy in front of the block engine (src/blockengine): the calls of  *)
(* the validator, the pools of upstream clients, and for every             *)
(* subscription its stream, its pump_upstream task and its bridge task.    *)
(*                                                                         *)
(* Calls are numbered in the order they are made.  A response is named by  *)
(* the call whose upstream it came from, or is Inertia's.                  *)
(* fromBlockengine holds what a delay lane (DelayForward) has not taken    *)
(* yet; fromProxy is the whole history of that channel, which itself keeps *)
(* the last Capacity responses.  A pooled client is only                   *)
(* present or not: tonic's Channel reconnects by itself.                   *)
(***************************************************************************)
EXTENDS Naturals, Sequences, FiniteSets

CONSTANTS
    MaxCalls,           \* bound: calls made
    Peers,              \* remote addresses; over TCP remote_addr is never None
    Capacity,           \* Blockengine::BLOCKENGINE_CHANNEL_LIMIT
    MaxItems,           \* bound: responses of all upstreams under way or passed on
    MaxBundles          \* bound: bundles of the Inertia server

Calls == 1..MaxCalls
Inertia == 0
Lanes == {"packets", "bundles"}
Pools == {"block engine", "auth"}
Methods == Lanes \cup {"unary", "auth"}

ASSUME BlockEngineAssumption ==
    /\ Peers # {} /\ Capacity \in Nat \ {0} /\ {MaxCalls, MaxItems, MaxBundles} \subseteq Nat

VARIABLES
    exit,
    pc, peer, method,   \* the calls
    pool,               \* <<pool, peer>> that have a client
    made, busy,         \* history: connections made, and most calls at once on the way to one
    fromBlockengine, fromProxy,
    rx,                 \* position of a call's receiver of fromProxy
    start,              \* history: where that receiver was subscribed
    pump, bridge,       \* the tasks of a subscription
    token,              \* calls whose cancellation token is cancelled
    left                \* history: calls whose client is gone

callVars == <<pc, peer, method>>
poolVars == <<pool, made, busy>>
channels == <<fromBlockengine, fromProxy>>
streamVars == <<rx, start>>
taskVars == <<pump, bridge, token, left>>
vars == <<exit, callVars, poolVars, channels, streamVars, taskVars>>

Keys == Pools \X Peers
Sources == Calls \cup {Inertia}
Bundles == Len(SelectSeq(fromProxy["bundles"], LAMBDA r : r = Inertia))
Items == Len(fromBlockengine["packets"]) + Len(fromBlockengine["bundles"])
            + Len(fromProxy["packets"]) + Len(fromProxy["bundles"]) - Bundles

\* Type invariant.
TypeOK ==
    /\ exit \in BOOLEAN
    /\ pc \in [Calls -> {"idle", "lookup", "connect", "call", "serve", "stream", "over"}]
    /\ peer \in [Calls -> Peers] /\ method \in [Calls -> Methods]
    /\ pool \subseteq Keys /\ made \in [Keys -> Nat] /\ busy \in [Keys -> Nat]
    /\ fromBlockengine \in [Lanes -> Seq(Calls)] /\ fromProxy \in [Lanes -> Seq(Sources)]
    /\ rx \in [Calls -> Nat] /\ start \in [Calls -> Nat]
    /\ pump \in [Calls -> {"none", "poll", "message", "done"}]
    /\ bridge \in [Calls -> {"none", "wait", "done"}]
    /\ token \subseteq Calls /\ left \subseteq Calls
    /\ \A c \in Calls : method[c] \in Lanes => start[c] <= rx[c] /\ rx[c] <= Len(fromProxy[method[c]])

Init ==
    /\ exit = FALSE
    /\ pc = [c \in Calls |-> "idle"]
    /\ peer \in [Calls -> Peers] /\ method = [c \in Calls |-> "auth"]
    /\ pool = {} /\ made = [k \in Keys |-> 0] /\ busy = [k \in Keys |-> 0]
    /\ fromBlockengine = [l \in Lanes |-> <<>>] /\ fromProxy = [l \in Lanes |-> <<>>]
    /\ rx = [c \in Calls |-> 0] /\ start = [c \in Calls |-> 0]
    /\ pump = [c \in Calls |-> "none"] /\ bridge = [c \in Calls |-> "none"]
    /\ token = {} /\ left = {}

-----------------------------------------------------------------------------
(* A call: the pooled client, then the upstream call.                      *)

Goto(c, from, to) == pc[c] = from /\ pc' = [pc EXCEPT ![c] = to]

Call(c) == UNCHANGED <<exit, peer, method, channels, streamVars, taskVars>>

\* A subscription subscribes to the proxy's channel before anything else.
Request(c, m) ==
    /\ Goto(c, "idle", "lookup") /\ \A d \in 1..(c - 1) : pc[d] # "idle"
    /\ method' = [method EXCEPT ![c] = m]
    /\ IF m \in Lanes
       THEN /\ rx' = [rx EXCEPT ![c] = Len(fromProxy[m])]
            /\ start' = [start EXCEPT ![c] = Len(fromProxy[m])]
       ELSE UNCHANGED streamVars
    /\ UNCHANGED <<exit, peer, poolVars, channels, taskVars>>

PoolOf(m) == IF m = "auth" THEN "auth" ELSE "block engine"
Key(c) == <<PoolOf(method[c]), peer[c]>>
Connecting(k) == {d \in Calls : pc[d] = "connect" /\ Key(d) = k}

GetPooledClient(c) ==
    /\ Goto(c, "lookup", IF Key(c) \in pool THEN "call" ELSE "connect")
    /\ busy' = IF Key(c) \notin pool
               THEN [busy EXCEPT ![Key(c)] =
                        IF Cardinality(Connecting(Key(c))) < @ THEN @ ELSE Cardinality(Connecting(Key(c))) + 1]
               ELSE busy
    /\ Call(c) /\ UNCHANGED <<pool, made>>

\* Mutant of Pooled: the client is not kept.
PooledNever(k) == pool

Pooled(k) == pool \cup {k}

\* get_client fails, at the latest by its timeout, or its client is inserted.
GetClient(c, connected) ==
    /\ Goto(c, "connect", IF connected THEN "call" ELSE "over")
    /\ IF connected
       THEN pool' = Pooled(Key(c)) /\ made' = [made EXCEPT ![Key(c)] = @ + 1]
       ELSE UNCHANGED <<pool, made>>
    /\ Call(c) /\ UNCHANGED busy

\* The calls that are passed through, whatever upstream answers.
Unary(c) ==
    /\ method[c] \notin Lanes /\ Goto(c, "call", "over")
    /\ Call(c) /\ UNCHANGED poolVars

-----------------------------------------------------------------------------
(* The subscriptions: serve_proxy_stream, the pump and the bridge.         *)

Task == UNCHANGED <<exit, peer, method, poolVars>>

\* Upstream answers with a stream, whose pump may run before the stream to the
\* validator exists, with PermissionDenied, or with another error.
Subscribe(c, answer) ==
    /\ method[c] \in Lanes
    /\ Goto(c, "call", IF answer = "error" THEN "over" ELSE "serve")
    /\ pump' = [pump EXCEPT ![c] = IF answer = "stream" THEN "poll" ELSE @]
    /\ Task /\ UNCHANGED <<channels, streamVars, bridge, token, left>>

\* Mutant of Receiver: proxy_stream subscribes by itself.
ReceiverOfStream(c) == Len(fromProxy[method[c]])

\* The receiver the stream is made of is the one subscribed at the start.
Receiver(c) == rx[c]

ServeProxyStream(c) ==
    /\ Goto(c, "serve", "stream")
    /\ bridge' = [bridge EXCEPT ![c] = "wait"]
    /\ rx' = [rx EXCEPT ![c] = Receiver(c)] /\ start' = [start EXCEPT ![c] = Receiver(c)]
    /\ Task /\ UNCHANGED <<channels, pump, token, left>>

\* The biased select polls the token, then upstream; the token may be cancelled in between.
PumpPoll(c) ==
    /\ pump[c] = "poll"
    /\ pump' = [pump EXCEPT ![c] = IF c \in token THEN "done" ELSE "message"]
    /\ Task /\ UNCHANGED <<pc, channels, streamVars, bridge, token, left>>

PumpMessage(c) ==
    /\ pump[c] = "message" /\ Items < MaxItems
    /\ fromBlockengine' = [fromBlockengine EXCEPT ![method[c]] = Append(@, c)]
    /\ pump' = [pump EXCEPT ![c] = "poll"]
    /\ Task /\ UNCHANGED <<pc, fromProxy, streamVars, bridge, token, left>>

\* Nothing is there; the task sleeps and is woken to poll again.
PumpPending(c) ==
    /\ pump[c] = "message" /\ pump' = [pump EXCEPT ![c] = "poll"]
    /\ Task /\ UNCHANGED <<pc, channels, streamVars, bridge, token, left>>

\* Mutant of TokenAfterPump: the end of the upstream ends the stream.
TokenAfterPumpCancels(c) == token \cup {c}

TokenAfterPump(c) == token

\* Upstream ends its stream or fails; the token is left alone.
PumpEnds(c) ==
    /\ pump[c] = "message" /\ pump' = [pump EXCEPT ![c] = "done"]
    /\ token' = TokenAfterPump(c)
    /\ Task /\ UNCHANGED <<pc, channels, streamVars, bridge, left>>

\* Mutant of BridgeReady: the bridge waits for the token only.
BridgeReadyIgnoresExit(c) == c \in token

BridgeReady(c) == exit \/ c \in token

Bridge(c) ==
    /\ bridge[c] = "wait" /\ BridgeReady(c)
    /\ bridge' = [bridge EXCEPT ![c] = "done"]
    /\ token' = token \cup {c}
    /\ Task /\ UNCHANGED <<pc, channels, streamVars, pump, left>>

-----------------------------------------------------------------------------
(* The stream: ExitAwareStream, polled while the client reads.             *)

\* A receiver that fell behind goes on with the oldest response that is kept.
AfterLag(pos, sent) == IF sent - pos > Capacity THEN sent - Capacity ELSE pos

\* poll_next: None, which drops the stream, if the token is cancelled; else the inner
\* stream skips what it lost and yields the next response, if there is one.
StreamPoll(c) ==
    LET sent == Len(fromProxy[method[c]])
    IN  /\ \/ c \in token /\ Goto(c, "stream", "over") /\ UNCHANGED rx
           \/ /\ c \notin token /\ Goto(c, "stream", "stream") /\ rx[c] < sent
              /\ rx' = [rx EXCEPT ![c] = AfterLag(@, sent) + 1]
        /\ Task /\ UNCHANGED <<channels, start, taskVars>>

\* Mutant of Guard: nothing is tied to the stream's life.
GuardNever(c) == token

\* The stream's drop guard cancels the token.
Guard(c) == IF pc[c] = "stream" THEN token \cup {c} ELSE token

\* The client goes away: tonic drops the handler where it awaits, or the stream.
ClientLeaves(c) ==
    /\ pc[c] \in {"connect", "call", "stream"} /\ pc' = [pc EXCEPT ![c] = "over"]
    /\ left' = left \cup {c}
    /\ token' = Guard(c)
    /\ Task /\ UNCHANGED <<channels, streamVars, pump, bridge>>

-----------------------------------------------------------------------------
(* The rest of the process.                                                *)

Others == UNCHANGED <<callVars, poolVars, streamVars, taskVars>>

\* A delay lane takes a response and passes it on, or loses it to lag or to its own end.
Lane(l, lost) ==
    /\ fromBlockengine[l] # <<>>
    /\ fromBlockengine' = [fromBlockengine EXCEPT ![l] = Tail(@)]
    /\ fromProxy' = IF lost THEN fromProxy
                    ELSE [fromProxy EXCEPT ![l] = Append(@, Head(fromBlockengine[l]))]
    /\ Others /\ UNCHANGED exit

\* read_bundle_stream sends a bundle of the Inertia server.
InertiaBundle ==
    /\ Bundles < MaxBundles
    /\ fromProxy' = [fromProxy EXCEPT !["bundles"] = Append(@, Inertia)]
    /\ Others /\ UNCHANGED <<exit, fromBlockengine>>

SetExit ==
    /\ ~exit /\ exit' = TRUE
    /\ Others /\ UNCHANGED channels

Handler(c) ==
    \/ GetPooledClient(c) \/ ServeProxyStream(c)
    \/ \E connected \in BOOLEAN : GetClient(c, connected)
Pump(c) == PumpPoll(c) \/ PumpMessage(c) \/ PumpPending(c) \/ PumpEnds(c)

Next ==
    \/ \E c \in Calls :
        \/ \E m \in Methods : Request(c, m)
        \/ \E answer \in {"stream", "denied", "error"} : Subscribe(c, answer)
        \/ Handler(c) \/ Unary(c) \/ StreamPoll(c) \/ Pump(c) \/ Bridge(c) \/ ClientLeaves(c)
    \/ \E l \in Lanes, lost \in BOOLEAN : Lane(l, lost)
    \/ InertiaBundle \/ SetExit

Spec == Init /\ [][Next]_vars

\* Tasks that are ready are polled, and tonic polls a stream as its client reads.
\* Nothing is assumed of upstream, which may leave a call open for ever, or of exit.
Fairness ==
    \A c \in Calls : WF_vars(Handler(c)) /\ WF_vars(StreamPoll(c)) /\ WF_vars(Pump(c)) /\ WF_vars(Bridge(c))

FairSpec == Spec /\ Fairness

-----------------------------------------------------------------------------
(* Properties.                                                             *)

\* get_pooled_client looks, awaits a connection and only then inserts: a peer costs as
\* many connections as it had calls on the way to one at the same time, never more.
ConnectionsBounded == \A k \in Keys : made[k] <= busy[k]

\* What a subscription's own upstream sent, and the proxy let through, lies ahead of
\* the receiver of its stream, however early the pump ran.
OwnItemsAhead ==
    /\ TypeOK
    /\ \A c \in Calls : method[c] \in Lanes =>
        \A i \in 1..Len(fromProxy[method[c]]) :
            fromProxy[method[c]][i] = c => i > start[c]

\* A stream and its tasks are ended by the exit flag or by its client only: an upstream that
\* ends, fails or denies the subscription, and a receiver that lags behind the channel, leave
\* the validator with what the proxy itself sends.
EndsByExitOrClient ==
    \A c \in Calls :
        c \in token \/ (bridge[c] # "none" /\ (pc[c] = "over" \/ bridge[c] = "done"))
            => exit \/ c \in left

\* When a client goes away, its pump and its bridge go too, without any traffic.
LeavingStopsTasks ==
    \A c \in Calls : (c \in left) ~> (pump[c] \in {"none", "done"} /\ bridge[c] \in {"none", "done"})

\* The exit flag ends every stream that is served, and its tasks.
ExitEndsStreams ==
    \A c \in Calls : (exit /\ bridge[c] = "wait") ~> (bridge[c] = "done" /\ pump[c] \in {"none", "done"} /\ pc[c] = "over")
=============================================================================
