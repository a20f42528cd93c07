------------------------------- MODULE Mirror -------------------------------
(***************************************************************************)
(* The connection to the Inertia server (src/proxy/mirror.rs): the task    *)
(* Mirror::run with the arms of serve_connection, and the detached tasks   *)
(* read_bundle_stream.                                                     *)
(*                                                                         *)
(* Connections are numbered in the order they are made.  A bundle response *)
(* broadcast by the block engine side is its place in that sequence; the   *)
(* broadcast channel keeps the last Capacity of them.  Each is written to  *)
(* the connection's stream as a length and a payload.  The arms run in one *)
(* task and are dropped, wherever they wait, when one of them returns.     *)
(*                                                                         *)
(* read_filters hands filters to FilterSet::insert, which FilterSet        *)
(* models; here only its end matters.  Time is left out: a sleep ends.     *)
(***************************************************************************)
EXTENDS Naturals, Sequences, FiniteSets

CONSTANTS
    Validators,         \* identities that may subscribe to the forwarder
    NoValidator,        \* ConnectedValidator::get's None
    BackoffInitial,     \* Mirror::BACKOFF_INITIAL
    BackoffMax,         \* Mirror::BACKOFF_MAX
    Capacity,           \* Blockengine::BLOCKENGINE_CHANNEL_LIMIT
    MaxConnections,     \* bound: connections made
    MaxBundles,         \* bound: bundle responses broadcast
    MaxStreams,         \* bound: streams the server opens
    MaxFrames           \* bound: frames on each of them

ASSUME MirrorAssumption ==
    /\ NoValidator \notin Validators
    /\ {BackoffInitial, BackoffMax, Capacity} \subseteq Nat \ {0}
    /\ BackoffInitial <= BackoffMax
    /\ {MaxConnections, MaxBundles, MaxStreams, MaxFrames} \subseteq Nat

VARIABLES
    exit, shutdown,     \* the exit flag and the watch channel that follows it
    pc,                 \* where run is
    conn,               \* the last connection made, 0 for none
    slot,               \* self.conn: a connection, or 0 for None
    open,               \* connections that have not failed or been closed
    datagrams,          \* connections whose peer accepts datagrams
    backoff,
    bundles,            \* history: bundle responses broadcast
    bundlesOpen,        \* some sender of that channel is left
    outPc,              \* where mirror_bundles_out is
    rxPos,              \* position of its receiver
    inHand,             \* the response being written, 0 for none
    lagged, dropped,    \* history: responses skipped, and given up when an arm ended
    wire,               \* history: what was written to the streams
    validator,          \* ConnectedValidator::get
    identity,           \* what mirror_control is about to send
    reported,           \* history: <<connection, identity>> sent as control datagrams
    readers,            \* the read_bundle_stream tasks
    late                \* history: frames each forwarded after shutdown was set

envVars == <<exit, shutdown, bundles, bundlesOpen, validator>>
runVars == <<pc, conn, slot, datagrams, backoff>>
outVars == <<outPc, rxPos, inHand, lagged, dropped, wire>>
controlVars == <<identity, reported>>
readerVars == <<readers, late>>
vars == <<envVars, runVars, open, outVars, controlVars, readerVars>>

Indices(s) == 1..Len(s)
Least(a, b) == IF a <= b THEN a ELSE b
Identities == Validators \cup {NoValidator}
Written == [conn : Nat, id : Nat, part : {"length", "payload"}]
Reader == [conn : Nat, pc : {"test", "length", "payload", "done"}, frames : Nat]

\* Type invariant.
TypeOK ==
    /\ {exit, shutdown, bundlesOpen} \subseteq BOOLEAN
    /\ pc \in {"start", "loop", "connect", "set", "serve", "clear", "check", "sleep", "finish", "done"}
    /\ conn \in Nat /\ slot \in 0..conn /\ open \subseteq 1..conn /\ datagrams \subseteq 1..conn
    /\ backoff \in BackoffInitial..BackoffMax
    /\ bundles \in Nat
    /\ outPc \in {"none", "open", "recv", "length", "payload"}
    /\ rxPos \in 0..bundles /\ inHand \in 0..rxPos
    /\ lagged \subseteq 1..rxPos /\ dropped \subseteq 1..rxPos
    /\ wire \in Seq(Written)
    /\ validator \in Identities /\ identity \in Identities
    /\ reported \subseteq (1..conn) \X Validators
    /\ readers \in Seq(Reader) /\ late \in [Indices(readers) -> Nat]

Init ==
    /\ exit = FALSE /\ shutdown = FALSE /\ bundles = 0 /\ bundlesOpen = TRUE
    /\ validator = NoValidator
    /\ pc = "start" /\ conn = 0 /\ slot = 0 /\ open = {} /\ datagrams = {}
    /\ backoff = BackoffInitial
    /\ outPc = "none" /\ rxPos = 0 /\ inHand = 0 /\ lagged = {} /\ dropped = {} /\ wire = <<>>
    /\ identity = NoValidator /\ reported = {}
    /\ readers = <<>> /\ late = <<>>

-----------------------------------------------------------------------------
(* run                                                                     *)

\* The endpoint is built, or run returns at once.
Start ==
    /\ pc = "start"
    /\ pc' \in {"loop", "done"}
    /\ UNCHANGED <<envVars, conn, slot, datagrams, backoff, open, outVars, controlVars, readerVars>>

\* while !*self.shutdown.borrow()
Loop ==
    /\ pc = "loop"
    /\ pc' = IF shutdown THEN "finish" ELSE "connect"
    /\ UNCHANGED <<envVars, conn, slot, datagrams, backoff, open, outVars, controlVars, readerVars>>



\* connect returns a connection; it resets the backoff.
Connected(accepts) ==
    /\ pc = "connect" /\ conn < MaxConnections
    /\ conn' = conn + 1
    /\ open' = open \cup {conn + 1}
    /\ datagrams' = IF accepts THEN datagrams \cup {conn + 1} ELSE datagrams
    /\ backoff' = BackoffInitial
    /\ pc' = "set"
    /\ UNCHANGED <<envVars, slot, outVars, controlVars, readerVars>>

\* Mutant of AfterFailure: run returns.
AfterFailureReturns == "finish"

AfterFailure == "check"

\* connect fails, for whatever reason; at the latest when the handshake times out.
ConnectFailed ==
    /\ pc = "connect"
    /\ pc' = AfterFailure
    /\ UNCHANGED <<envVars, conn, slot, datagrams, backoff, open, outVars, controlVars, readerVars>>

\* self.set(Some(conn)), and serve_connection starts its arms.
SetConnection ==
    /\ pc = "set"
    /\ slot' = conn
    /\ pc' = "serve" /\ outPc' = "open"
    /\ UNCHANGED <<envVars, conn, datagrams, backoff, open, rxPos, inHand, lagged, dropped, wire, controlVars, readerVars>>

\* Mutant of Cleared: the slot keeps the connection.
ClearedNot == slot

Cleared == 0

\* self.set(None)
ClearConnection ==
    /\ pc = "clear"
    /\ slot' = Cleared
    /\ pc' = "check"
    /\ UNCHANGED <<envVars, conn, datagrams, backoff, open, outVars, controlVars, readerVars>>

Check ==
    /\ pc = "check"
    /\ pc' = IF shutdown THEN "finish" ELSE "sleep"
    /\ UNCHANGED <<envVars, conn, slot, datagrams, backoff, open, outVars, controlVars, readerVars>>



Sleep ==
    /\ pc = "sleep"
    /\ backoff' = Least(backoff * 2, BackoffMax)
    /\ pc' = "loop"
    /\ UNCHANGED <<envVars, conn, slot, datagrams, open, outVars, controlVars, readerVars>>

\* Mutant of LeftOpen: the endpoint is not closed.
LeftOpenAll == open

LeftOpen == {}

\* endpoint.close ends every connection that is left.
Finish ==
    /\ pc = "finish"
    /\ pc' = "done"
    /\ open' = LeftOpen
    /\ UNCHANGED <<envVars, conn, slot, datagrams, backoff, outVars, controlVars, readerVars>>

-----------------------------------------------------------------------------
(* serve_connection: one arm returns, the others are dropped.  Each arm    *)
(* polls shutdown before what it waits for; the flag may be set between    *)
(* the two, so shutdown enables an arm's end and disables nothing.         *)

\* Mutant of Receiver: it is made anew for the next connection.
ReceiverAnew == [pos |-> bundles, dropped |-> dropped \cup ({inHand} \ {0})]

Receiver == [pos |-> rxPos, dropped |-> dropped \cup ({inHand} \ {0})]

\* What an arm had in hand is gone; the bundle receiver outlives the connection.
Drop ==
    /\ outPc' = "none" /\ inHand' = 0
    /\ rxPos' = Receiver.pos /\ dropped' = Receiver.dropped
    /\ identity' = NoValidator
    /\ UNCHANGED <<lagged, wire, reported>>

ServeEnds ==
    /\ pc = "serve" /\ pc' = "clear"
    /\ Drop
    /\ UNCHANGED <<envVars, conn, slot, datagrams, backoff, open, readerVars>>

\* accept_uni fails, or shutdown.
ReadBundlesEnds == (shutdown \/ conn \notin open) /\ ServeEnds

\* read_datagram fails, or shutdown.
ReadFiltersEnds == (shutdown \/ conn \notin open) /\ ServeEnds

MirrorControlEnds == shutdown /\ ServeEnds

\* open_uni or a write fails (the peer may also stop only the stream), the
\* channel is closed and empty, or shutdown; not while a write is pending.
MirrorBundlesOutEnds ==
    /\ \/ outPc = "open" /\ conn \notin open
       \/ outPc \in {"length", "payload"}
       \/ outPc = "recv" /\ (shutdown \/ (~bundlesOpen /\ rxPos = bundles))
    /\ ServeEnds

Out == /\ pc = "serve"
       /\ UNCHANGED <<envVars, runVars, open, controlVars, readerVars>>

OpenUni ==
    /\ outPc = "open" /\ conn \in open
    /\ outPc' = "recv"
    /\ Out /\ UNCHANGED <<rxPos, inHand, lagged, dropped, wire>>

RecvBundle ==
    /\ outPc = "recv" /\ bundles - rxPos \in 1..Capacity
    /\ rxPos' = rxPos + 1 /\ inHand' = rxPos + 1
    /\ outPc' = "length"
    /\ Out /\ UNCHANGED <<lagged, dropped, wire>>

RecvLagged ==
    /\ outPc = "recv" /\ bundles - rxPos > Capacity
    /\ rxPos' = bundles - Capacity
    /\ lagged' = lagged \cup (rxPos + 1)..(bundles - Capacity)
    /\ Out /\ UNCHANGED <<outPc, inHand, dropped, wire>>

WriteLength ==
    /\ outPc = "length" /\ conn \in open
    /\ wire' = Append(wire, [conn |-> conn, id |-> inHand, part |-> "length"])
    /\ outPc' = "payload"
    /\ Out /\ UNCHANGED <<rxPos, inHand, lagged, dropped>>

WritePayload ==
    /\ outPc = "payload" /\ conn \in open
    /\ wire' = Append(wire, [conn |-> conn, id |-> inHand, part |-> "payload"])
    /\ outPc' = "recv" /\ inHand' = 0
    /\ Out /\ UNCHANGED <<rxPos, lagged, dropped>>

\* Mutant of Reports: an identity is sent only when it changed, over all connections.
ReportsChanges(v) == v # NoValidator /\ \A c \in 1..conn : <<c, v>> \notin reported

Reports(v) == v # NoValidator

\* mirror_control's interval ticks and a validator is connected.
ControlTick ==
    /\ pc = "serve" /\ identity = NoValidator
    /\ Reports(validator)
    /\ identity' = validator
    /\ UNCHANGED <<envVars, runVars, open, outVars, reported, readerVars>>

\* Mirror::send: through whatever connection the slot holds; a failure is counted.
Send ==
    /\ pc = "serve" /\ identity # NoValidator
    /\ reported' = IF slot \in open \cap datagrams
                   THEN reported \cup {<<slot, identity>>} ELSE reported
    /\ identity' = NoValidator
    /\ UNCHANGED <<envVars, runVars, open, outVars, readerVars>>

-----------------------------------------------------------------------------
(* read_bundles and the tasks it spawns.                                   *)

Still == UNCHANGED <<envVars, runVars, open, outVars, controlVars>>

AcceptUni ==
    /\ pc = "serve" /\ conn \in open /\ Len(readers) < MaxStreams
    /\ readers' = Append(readers, [conn |-> conn, pc |-> "test", frames |-> 0])
    /\ late' = Append(late, 0)
    /\ Still

Becomes(r, where) == readers' = [readers EXCEPT ![r].pc = where]

\* Mutant of ReaderStops: the flag is not looked at again.
ReaderStopsNever == FALSE

ReaderStops == shutdown

\* while !*shutdown.borrow()
ReaderTest(r) ==
    /\ readers[r].pc = "test"
    /\ Becomes(r, IF ReaderStops THEN "done" ELSE "length")
    /\ Still /\ UNCHANGED late

\* The length arrives, and is within MAX_BUNDLE_FRAME or not.
ReaderLength(r, fits) ==
    /\ readers[r].pc = "length" /\ readers[r].conn \in open /\ readers[r].frames < MaxFrames
    /\ Becomes(r, IF fits THEN "payload" ELSE "done")
    /\ Still /\ UNCHANGED late

\* The payload arrives; it is broadcast if it decodes.
ReaderPayload(r, decodes) ==
    /\ readers[r].pc = "payload" /\ readers[r].conn \in open
    /\ readers' = [readers EXCEPT ![r].pc = "test", ![r].frames = @ + 1]
    /\ late' = IF shutdown /\ decodes THEN [late EXCEPT ![r] = @ + 1] ELSE late
    /\ Still

\* read_exact fails: the stream ended or was reset, or the connection is gone.
ReaderFails(r) ==
    /\ readers[r].pc \in {"length", "payload"}
    /\ Becomes(r, "done")
    /\ Still /\ UNCHANGED late

-----------------------------------------------------------------------------
(* The rest of the process and the network.                                *)

Others == UNCHANGED <<runVars, outVars, controlVars, readerVars>>

\* A connection fails or is closed by the peer.
Lose(c) ==
    /\ c \in open /\ open' = open \ {c}
    /\ Others /\ UNCHANGED envVars

Broadcast ==
    /\ bundlesOpen /\ bundles < MaxBundles /\ bundles' = bundles + 1
    /\ Others /\ UNCHANGED <<exit, shutdown, bundlesOpen, validator, open>>

\* The block engine service, which holds the senders, ends after the exit flag is set.
CloseBundles ==
    /\ exit /\ bundlesOpen /\ bundlesOpen' = FALSE
    /\ Others /\ UNCHANGED <<exit, shutdown, bundles, validator, open>>

SetExit ==
    /\ ~exit /\ exit' = TRUE
    /\ Others /\ UNCHANGED <<shutdown, bundles, bundlesOpen, validator, open>>

ShutdownWatch ==
    /\ exit /\ ~shutdown /\ shutdown' = TRUE
    /\ Others /\ UNCHANGED <<exit, bundles, bundlesOpen, validator, open>>

\* A validator subscribes to the forwarder or leaves it.
Subscribe(v) ==
    /\ validator # v /\ validator' = v
    /\ Others /\ UNCHANGED <<exit, shutdown, bundles, bundlesOpen, open>>

Connect == ConnectFailed \/ \E accepts \in BOOLEAN : Connected(accepts)
Run == Start \/ Loop \/ SetConnection \/ ClearConnection \/ Check \/ Sleep \/ Finish
Ends == ReadBundlesEnds \/ ReadFiltersEnds \/ MirrorControlEnds
ReaderStep(r) ==
    \/ ReaderTest(r) \/ ReaderFails(r)
    \/ \E fits \in BOOLEAN : ReaderLength(r, fits)
    \/ \E decodes \in BOOLEAN : ReaderPayload(r, decodes)

Next ==
    \/ Connect \/ Run \/ Ends \/ MirrorBundlesOutEnds
    \/ OpenUni \/ RecvBundle \/ RecvLagged \/ WriteLength \/ WritePayload
    \/ ControlTick \/ Send \/ AcceptUni
    \/ \E r \in Indices(readers) : ReaderStep(r)
    \/ \E c \in open : Lose(c)
    \/ \E v \in Identities : Subscribe(v)
    \/ Broadcast \/ CloseBundles \/ SetExit \/ ShutdownWatch

Spec == Init /\ [][Next]_vars

\* Tasks that are ready are polled; a connect ends, at the latest by its timeout,
\* and succeeds if it is tried for ever; the interval keeps ticking; a read on a
\* connection that is gone fails.  Nothing is assumed of the peer's reading
\* (a write may hang), of its streams, or of who sets the exit flag.
Fairness ==
    /\ WF_vars(Connect) /\ SF_vars(Connected(TRUE)) /\ WF_vars(Run) /\ WF_vars(Ends)
    /\ WF_vars(ControlTick) /\ WF_vars(Send) /\ WF_vars(ShutdownWatch)
    /\ \A r \in 1..MaxStreams :
        /\ WF_vars(r \in Indices(readers) /\ ReaderTest(r))
        /\ WF_vars(r \in Indices(readers) /\ readers[r].conn \notin open /\ ReaderFails(r))

FairSpec == Spec /\ Fairness

-----------------------------------------------------------------------------
(* Properties.                                                             *)

\* The slot that every thread sends packets through holds the connection being
\* served or nothing: a lost connection is never left in it while run sleeps or
\* connects again, and never survives its successor.
SlotIsServed ==
    /\ TypeOK
    /\ slot # 0 => slot = conn /\ pc \in {"serve", "clear"}

\* Over all connections bundles are written in the order they were broadcast, each
\* at most once, and a payload directly follows its length on the same stream:
\* dropping an arm in the middle of a frame never mixes two frames.  Every bundle the
\* mirror's receiver has passed was written, is being written, or is one of those the
\* channel reported as lagged; beyond that a connection costs at most the one bundle
\* that was in hand when its arms were dropped.
MirroredInOrderOnce ==
    /\ \A i, j \in Indices(wire) : i < j /\ wire[i].part = wire[j].part => wire[i].id < wire[j].id
    /\ \A i \in Indices(wire) : wire[i].part = "payload" =>
            i > 1 /\ wire[i - 1] = [wire[i] EXCEPT !.part = "length"]
    /\ 1..rxPos = {wire[i].id : i \in {k \in Indices(wire) : wire[k].part = "payload"}}
                    \cup lagged \cup dropped \cup ({inHand} \ {0})
    /\ Cardinality(dropped) <= IF pc \in {"set", "serve"} THEN conn - 1 ELSE conn

\* A bundle reader that outlives its connection's arms forwards at most the one
\* frame it was reading when shutdown was set.
AtMostOneLateFrame == \A r \in Indices(late) : late[r] <= 1

\* The exit flag ends run, even while a write hangs or the peer is unreachable, and
\* with it every bundle reader, which itself waits for the stream only.
ExitEndsMirror ==
    exit ~> (pc = "done" /\ \A r \in Indices(readers) : readers[r].pc = "done")

\* A mirror without a connection gets one again, if its endpoint could be built, the
\* server can be reached and the process is not stopping.
Reconnects == (pc \notin {"start", "serve", "done"} /\ conn < MaxConnections) ~> (pc = "serve" \/ exit)

\* A connected validator is reported on every connection that takes datagrams and
\* lives long enough, also when an earlier connection had reported it.
ValidatorReported ==
    \A v \in Validators, c \in 1..MaxConnections :
        (pc = "serve" /\ conn = c /\ c \in datagrams /\ validator = v)
            ~> (<<c, v>> \in reported \/ c \notin open \/ pc # "serve" \/ validator # v)
=============================================================================
