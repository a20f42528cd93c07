------------------------------- MODULE Process -------------------------------
(***************************************************************************)
(* The process as a whole: main, the threads and tasks its constructors    *)
(* spawn, how each of them ends, and how the service manager starts the    *)
(* process again.  What the workers do while they run is modelled by the   *)
(* other modules; here a worker runs or has ended.                         *)
(***************************************************************************)
EXTENDS KeyStore, FiniteSets

CONSTANTS
    MaxStarts           \* bound: times the process is started

ASSUME ProcessAssumption == MaxStarts \in Nat /\ MaxStarts <= MaxKeys

VARIABLES
    status,             \* the process: "down", "starting", "up"
    used,               \* history: pairs of keys it was up with since the signing key was removed
    starts,
    exit,               \* the flag all workers share
    cancel, shutdown,   \* the token of the QUIC servers and the watch channel of the proxy
    signal,             \* a signal was delivered to the servers
    streams,            \* servers that have an open stream
    waiting,            \* handlers of the block engine server wait for upstream
    ended,              \* workers that have ended
    panicked            \* a worker panicked and sits in the panic hook

runVars == <<exit, cancel, shutdown, signal, streams, waiting, ended, panicked>>
lifeVars == <<status, used, starts>>
vars == <<keyVars, runVars, lifeVars>>

Servers == {"relayer server", "block engine server"}
Joins == {"tpu", "relayer", "proxy"}
\* "tasks" are the mirror and the two delay lanes, which end alike.
Loops == {"slot", "snus", "quic", "quic fwd", "sigverify", "delay", "event", "tasks"}
Workers == Servers \cup Joins \cup Loops

\* Type invariant.
TypeOK ==
    /\ KeyTypeOK
    /\ status \in {"down", "starting", "up"}
    /\ used \subseteq (1..MaxKeys) \X (1..MaxKeys) /\ starts \in 0..MaxStarts
    /\ {exit, cancel, shutdown, signal, waiting, panicked} \subseteq BOOLEAN
    /\ streams \subseteq Servers /\ ended \subseteq Workers

Fresh ==
    /\ exit' = FALSE /\ cancel' = FALSE /\ shutdown' = FALSE /\ signal' = FALSE
    /\ streams' = {} /\ waiting' = FALSE /\ ended' = {} /\ panicked' = FALSE

Init ==
    /\ KeyInit
    /\ status = "down" /\ used = {} /\ starts = 0
    /\ exit = FALSE /\ cancel = FALSE /\ shutdown = FALSE /\ signal = FALSE
    /\ streams = {} /\ waiting = FALSE /\ ended = {} /\ panicked = FALSE

-----------------------------------------------------------------------------
(* Start and end of the process.                                           *)

\* The service manager starts the process, whatever ended it; main begins.
Start ==
    /\ status = "down" /\ starts < MaxStarts
    /\ status' = "starting" /\ starts' = starts + 1
    /\ Load("signing")
    /\ UNCHANGED <<runVars, used, fileVars>>

LoadKeys ==
    /\ status = "starting" /\ LoadStep
    /\ UNCHANGED <<runVars, lifeVars>>

\* The keys are there, and the constructors spawn the workers.
Spawn ==
    /\ status = "starting" /\ step = "loaded"
    /\ status' = "up" /\ used' = used \cup {<<private, public>>}
    /\ UNCHANGED <<keyVars, runVars, starts>>

Down == status' = "down" /\ Fresh /\ Load("idle") /\ UNCHANGED <<fileVars, used, starts>>

\* load_or_generate_keys or Relayer::new panics in main: the hook ends the process.
StartFails == status = "starting" /\ step = "failed" /\ Down

Kill == status # "down" /\ Down

\* The pair the process was up with is to last until the operator removes its signing key,
\* or a verifying key that did not belong to it.
RemoveKeys(files) ==
    /\ status = "down" /\ RemoveFiles(files)
    /\ used' = IF "signing" \in files \/ rotated THEN {} ELSE used
    /\ UNCHANGED <<runVars, status, starts>>

\* What the joins of a join thread or task, and of main, wait for.
JoinedBy(j) ==
    CASE j = "tpu" -> {"snus", "quic", "quic fwd", "sigverify"}
      [] j = "relayer" -> {"tpu", "event"}
      [] j = "proxy" -> {"tasks"}

\* Mutant of JoinedByMain: main does not join the relayer's thread.
JoinedByMainFew == {"relayer server", "block engine server", "proxy", "slot", "delay"}

JoinedByMain == {"relayer server", "block engine server", "proxy", "slot", "relayer", "delay"}

MainReturns ==
    /\ status = "up" /\ JoinedByMain \subseteq ended /\ ~panicked
    /\ Down

-----------------------------------------------------------------------------
(* The workers.                                                            *)

Up == status = "up" /\ UNCHANGED <<keyVars, lifeVars>>

\* serve_with_shutdown(shutdown_signal): the servers stop on a signal only.
Stops == signal

\* The loop of slot-subscribe.
SlotLeaves == exit

\* Mutant of SnusLeaves: the staked nodes updater does not look at the flag.
SnusLeavesNever == FALSE

SnusLeaves == exit

\* The delay thread: the flag, or one of its channels has no other end.
DelayLeaves == exit \/ {"sigverify", "event"} \cap ended # {}

\* The forwarder's event loop: the flag, or the delay thread is gone.
EventLeaves == exit \/ "delay" \in ended

\* A graceful shutdown waits for open streams and for handlers that wait for upstream.
ServerLeaves(s) ==
    /\ Stops /\ s \notin streams
    /\ s = "block engine server" => ~waiting

\* When a worker's loop is left; sigverify notices that both QUIC servers have ended.
Leaves(w) ==
    \/ w = "slot" /\ SlotLeaves
    \/ w = "snus" /\ SnusLeaves
    \/ w = "delay" /\ DelayLeaves
    \/ w = "event" /\ EventLeaves
    \/ w \in {"quic", "quic fwd"} /\ cancel
    \/ w = "tasks" /\ shutdown
    \/ w = "sigverify" /\ {"quic", "quic fwd"} \subseteq ended
    \/ w \in Joins /\ JoinedBy(w) \subseteq ended
    \/ w \in Servers /\ ServerLeaves(w)

\* Mutant of Raised: the forwarder's thread ends silently.
RaisedNever(w) == exit

\* The forwarder's thread raises the exit flag when its input is gone.
Raised(w) == exit \/ w = "event"

End(w) ==
    /\ Up /\ w \in Workers \ ended /\ Leaves(w)
    /\ ended' = ended \cup {w} /\ exit' = Raised(w)
    /\ UNCHANGED <<cancel, shutdown, signal, streams, waiting, panicked>>

\* tpu-cancel-watcher and shutdown_watch follow the exit flag.
CancelWatcher ==
    /\ Up /\ exit /\ ~cancel /\ cancel' = TRUE
    /\ UNCHANGED <<exit, shutdown, signal, streams, waiting, ended, panicked>>

ShutdownWatch ==
    /\ Up /\ exit /\ ~shutdown /\ shutdown' = TRUE
    /\ UNCHANGED <<exit, cancel, signal, streams, waiting, ended, panicked>>

\* shutdown_signal returns in both servers and raises the flag.
ShutdownSignal ==
    /\ Up /\ ~signal /\ signal' = TRUE /\ exit' = TRUE
    /\ UNCHANGED <<cancel, shutdown, streams, waiting, ended, panicked>>

\* A validator opens a stream of the forwarder, as long as the server takes requests.
OpenStream ==
    /\ Up /\ ~Stops /\ streams' = streams \cup {"relayer server"}
    /\ UNCHANGED <<exit, cancel, shutdown, signal, waiting, ended, panicked>>

\* A handler of the block engine server passes a request on and waits, without a timeout.
CallUpstream ==
    /\ Up /\ ~Stops /\ ~waiting /\ waiting' = TRUE
    /\ UNCHANGED <<exit, cancel, shutdown, signal, streams, ended, panicked>>

\* The wait of a handler, of the last one or not, is over: upstream answers or fails, or the
\* validator gives up.  A subscription that is served becomes a stream, also after the signal.
Answered(served) ==
    /\ Up /\ waiting /\ waiting' \in BOOLEAN
    /\ streams' = streams \cup {s \in {"block engine server"} : served}
    /\ UNCHANGED <<exit, cancel, shutdown, signal, ended, panicked>>

\* Mutant of BlockEngineEnds: its streams do not follow the exit flag.
BlockEngineEndsNever == FALSE

\* The block engine proxy ends its streams after the exit flag is set (BlockEngine).
BlockEngineEnds == exit

\* A stream ends by its client, if the proxy does not end it.  The senders of the
\* forwarder's streams stay in packet_subscriptions: only the client ends those.
CloseStream(s, byClient) ==
    /\ Up /\ s \in streams /\ streams' = streams \ {s}
    /\ byClient \/ (s = "block engine server" /\ BlockEngineEnds)
    /\ UNCHANGED <<exit, cancel, shutdown, signal, waiting, ended, panicked>>

\* The hook raises the flag and waits; main cannot join a worker that sits in it.
Panic ==
    /\ Up /\ ~(Loops \subseteq ended) /\ ~panicked
    /\ panicked' = TRUE /\ exit' = TRUE
    /\ UNCHANGED <<cancel, shutdown, signal, streams, waiting, ended>>

PanicExit == status = "up" /\ panicked /\ Down

\* A stage of the ingress, which is external, ends by itself.
StageFails(w) ==
    /\ Up /\ w \notin ended /\ ended' = ended \cup {w}
    /\ UNCHANGED <<exit, cancel, shutdown, signal, streams, waiting, panicked>>

Next ==
    \/ Start \/ LoadKeys \/ Spawn \/ StartFails \/ Kill \/ MainReturns \/ Panic \/ PanicExit
    \/ \E files \in (SUBSET {"signing", "verifying"}) \ {{}} : RemoveKeys(files)
    \/ \E w \in Workers : End(w)
    \/ \E w \in {"quic", "quic fwd", "sigverify"} : StageFails(w)
    \/ CancelWatcher \/ ShutdownWatch \/ ShutdownSignal \/ OpenStream
    \/ CallUpstream \/ \E served \in BOOLEAN : Answered(served)
    \/ \E s \in Servers, byClient \in BOOLEAN : CloseStream(s, byClient)

Spec == Init /\ [][Next]_vars

\* Every worker, watcher and join runs; Restart=always; the proxy ends its own streams.
\* Nothing is asked of the validators and of upstream.
Fairness ==
    /\ WF_vars(Start) /\ WF_vars(LoadKeys) /\ WF_vars(Spawn) /\ WF_vars(StartFails)
    /\ WF_vars(MainReturns) /\ WF_vars(PanicExit) /\ WF_vars(CancelWatcher) /\ WF_vars(ShutdownWatch)
    /\ \A w \in Workers : WF_vars(End(w))
    /\ WF_vars(CloseStream("block engine server", FALSE))

FairSpec == Spec /\ Fairness

-----------------------------------------------------------------------------
(* Properties.                                                             *)

\* main returns only after a signal, and when every thread and task it is answerable for
\* has ended, also those that only a join thread waits for: an exit flag that a worker
\* raised stops the workers, and the servers keep the process alive.
MainEndsLast == [][MainReturns => signal /\ Workers = ended]_vars

\* Once the exit flag is up, whoever raised it, every loop and join thread ends; no
\* two of them wait for each other.
ExitEndsWorkers == (status = "up" /\ exit) ~> (status = "down" \/ Loops \cup Joins \subseteq ended)

\* What a graceful shutdown waits for without end: a validator that stays on a stream of the
\* forwarder, and a call that upstream does not answer.
HeldByPeer == status = "up" /\ ("relayer server" \in streams \/ waiting)

\* A panic ends the process whatever the peers do, and a signal unless a validator or
\* upstream holds a request for ever: streams of the block engine server, also those that
\* open after the signal, do not hold it.
StopsWhenAsked ==
    /\ (status = "up" /\ panicked) ~> (status = "down")
    /\ (status = "up" /\ signal) ~> (status = "down" \/ []HeldByPeer)

\* The end of any stage of the packet path reaches the exit flag of the whole process.
FailedStageRaisesExit ==
    (status = "up" /\ ended \cap {"sigverify", "delay", "event"} # {}) ~> (status = "down" \/ exit)

\* Whatever moment of an earlier start a kill or a failing call on the file system hit:
\* tokens can be verified by the process that signs them, unless an old verifying key was
\* left beside a new signing key; restarts, and an operator who removes only the verifying
\* key, leave the pair as it was, so that tokens handed out before stay valid; and a start in
\* which no call fails comes up unless it found a file whose writing was interrupted.
KeysSound ==
    /\ TypeOK
    /\ status = "up" => private = public \/ rotated
    /\ Cardinality(used) <= 1
    /\ step = "failed" => fault \/ Torn \in {signing, verifying}
=============================================================================
