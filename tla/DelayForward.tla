---------------------------- MODULE DelayForward ----------------------------
(***************************************************************************)
(* A lane of block engine traffic (src/proxy/mod.rs, delay_forward): an    *)
(* async task that receives responses from a broadcast channel, holds them *)
(* for Delay, removes what the FilterSet suppresses and broadcasts the     *)
(* rest to the validator's streams.  There are two such lanes:             *)
(*   packets  on_receive = mirror_be_packets, on_release = filter_be_packets *)
(*   bundles  on_receive does nothing,        on_release = filter_be_bundles *)
(* A response is a sequence of units, a unit the set of first signatures   *)
(* it is judged by: at most one for a packet, one per packet for a bundle. *)
(*                                                                         *)
(* tokio's broadcast channel keeps the last Capacity responses.  The       *)
(* sender never blocks; a receiver that fell further behind is told so     *)
(* once (Lagged) and goes on with the oldest one kept.                     *)
(*                                                                         *)
(* The biased select polls its arms in the order written; each poll is a   *)
(* step here, so what an arm waits for may happen after it was polled.     *)
(***************************************************************************)
EXTENDS FilterSet, Sequences

CONSTANTS
    Delay,          \* Proxy::PACKET_DELAY
    Capacity,       \* Blockengine::BLOCKENGINE_CHANNEL_LIMIT
    Responses,      \* the responses the block engine may send: sequences of units
    MaxResponses    \* bound: how many it sends

ASSUME LaneAssumption ==
    /\ Delay \in Nat /\ Capacity \in Nat \ {0} /\ MaxResponses \in Nat
    /\ Responses \subseteq Seq(SUBSET Signatures)

VARIABLES
    exit,           \* the process-wide exit flag
    shutdown,       \* the watch channel of shutdown_watch
    arrivals,       \* history: every response broadcast by the block engine side
    inOpen,         \* some sender of the input channel is left
    pc,             \* where the task is
    received,       \* position of its receiver: responses received or skipped
    queue,          \* VecDeque of [release_at, id]; history: when on_receive saw it
    cur,            \* the response in hand, 0 for none
    seen,           \* history: when on_receive saw it
    cutoff,         \* the local `now' of the release loop (0 outside it)
    verdict,        \* what on_release returned, until it is sent
    sent            \* history: the responses sent, in order: [id, kept]

laneVars == <<pc, received, queue, cur, seen, cutoff, verdict, sent>>
envVars == <<exit, shutdown, arrivals, inOpen>>
vars == <<now, filterVars, laneVars, envVars>>

Indices(s) == 1..Len(s)
Entry == [release_at : Nat, id : Nat, seen : Nat]
Verdict == [id : Nat, kept : SUBSET Nat]
noVerdict == [id |-> 0, kept |-> {}]

\* Type invariant of the lane.
TypeOK ==
    /\ FilterTypeOK
    /\ exit \in BOOLEAN /\ shutdown \in BOOLEAN /\ inOpen \in BOOLEAN
    /\ arrivals \in Seq(Responses)
    /\ pc \in {"shutdown", "timer", "recv", "received", "push", "cutoff", "release",
               "filter", "scan", "send", "done"}
    /\ received \in 0..Len(arrivals)
    /\ queue \in Seq(Entry)
    /\ cur \in 0..received /\ seen \in Nat /\ cutoff \in Nat
    /\ verdict \in Verdict
    /\ sent \in Seq(Verdict)

Init ==
    /\ FilterInit
    /\ exit = FALSE /\ shutdown = FALSE /\ inOpen = TRUE /\ arrivals = <<>>
    /\ pc = "shutdown" /\ received = 0 /\ queue = <<>>
    /\ cur = 0 /\ seen = 0 /\ cutoff = 0 /\ verdict = noVerdict /\ sent = <<>>

-----------------------------------------------------------------------------
(* The select.                                                             *)

\* shutdown.changed()
PollShutdown ==
    /\ pc = "shutdown"
    /\ pc' = IF shutdown THEN "done" ELSE "timer"
    /\ UNCHANGED <<received, queue, cur, seen, cutoff, verdict, sent>>

\* Mutant of FrontDue: release_due is made once, before the loop, when the queue is empty.
FrontDueNever == FALSE

FrontDue == queue # <<>> /\ Head(queue).release_at <= now

\* release_due: the sleep until the front's release time, or for ever.
PollTimer ==
    /\ pc = "timer"
    /\ pc' = IF FrontDue THEN "cutoff" ELSE "recv"
    /\ UNCHANGED <<received, queue, cur, seen, cutoff, verdict, sent>>

RecvOk ==
    /\ pc = "recv" /\ Len(arrivals) - received \in 1..Capacity
    /\ received' = received + 1
    /\ cur' = received + 1
    /\ pc' = "received"
    /\ UNCHANGED <<queue, seen, cutoff, verdict, sent>>

\* recv fails with Lagged(n): the n oldest are gone, the task only logs it.
RecvLagged ==
    /\ pc = "recv" /\ Len(arrivals) - received > Capacity
    /\ received' = Len(arrivals) - Capacity
    /\ pc' = "shutdown"
    /\ UNCHANGED <<queue, cur, seen, cutoff, verdict, sent>>

\* Mutant of AfterClosed: `continue' instead of `break'.
AfterClosedContinues == "shutdown"

AfterClosed == "done"

RecvClosed ==
    /\ pc = "recv" /\ Len(arrivals) = received /\ ~inOpen
    /\ pc' = AfterClosed
    /\ UNCHANGED <<received, queue, cur, seen, cutoff, verdict, sent>>

\* No arm is ready; the task is woken and polls them again.
RecvPending ==
    /\ pc = "recv" /\ Len(arrivals) = received /\ inOpen
    /\ pc' = "shutdown"
    /\ UNCHANGED <<received, queue, cur, seen, cutoff, verdict, sent>>

\* on_receive(&resp): mirror_be_packets hands the packets to Mirror::send.
OnReceive ==
    /\ pc = "received"
    /\ seen' = now
    /\ pc' = "push"
    /\ UNCHANGED <<received, queue, cur, cutoff, verdict, sent>>

Push ==
    /\ pc = "push"
    /\ queue' = Append(queue, [release_at |-> now + Delay, id |-> cur, seen |-> seen])
    /\ cur' = 0 /\ seen' = 0
    /\ pc' = "shutdown"
    /\ UNCHANGED <<received, cutoff, verdict, sent>>

-----------------------------------------------------------------------------
(* The release loop.                                                       *)

Cutoff ==
    /\ pc = "cutoff"
    /\ cutoff' = now
    /\ pc' = "release"
    /\ UNCHANGED <<received, queue, cur, seen, verdict, sent>>

Release ==
    /\ pc = "release"
    /\ IF queue # <<>> /\ Head(queue).release_at <= cutoff
       THEN /\ cur' = Head(queue).id /\ seen' = Head(queue).seen
            /\ queue' = Tail(queue)
            /\ pc' = "filter"
            /\ UNCHANGED cutoff
       ELSE /\ pc' = "shutdown" /\ cutoff' = 0
            /\ UNCHANGED <<cur, seen, queue>>
    /\ UNCHANGED <<received, verdict, sent>>

\* The units on_release keeps: filter_be_packets drops a packet whose first
\* signature is blocked, filter_be_bundles a bundle with such a packet.
Kept(units, blocked) == {i \in Indices(units) : units[i] \cap blocked = {}}

\* Mutant of NothingFiltered: the shortcut is taken when one filter is in the set.
NothingFilteredOffByOne == len <= 1

NothingFiltered == IsEmpty

\* The is_empty test of both filters.
FilterTest ==
    /\ pc = "filter"
    /\ IF NothingFiltered
       THEN /\ verdict' = [id |-> cur, kept |-> Indices(arrivals[cur])]
            /\ cur' = 0 /\ seen' = 0
            /\ pc' = "send"
       ELSE pc' = "scan" /\ UNCHANGED <<cur, seen, verdict>>
    /\ UNCHANGED <<received, queue, cutoff, sent>>

\* The retain, under the mutex (a response without a batch takes no mutex and
\* has no units).
FilterScan ==
    /\ pc = "scan" /\ (lock = "free" \/ arrivals[cur] = <<>>)
    /\ verdict' = [id |-> cur, kept |-> Kept(arrivals[cur], Blocked)]
    /\ cur' = 0 /\ seen' = 0
    /\ pc' = "send"
    /\ UNCHANGED <<received, queue, cutoff, sent>>

\* tx.send never blocks; without a receiver the response is dropped.
Send ==
    /\ pc = "send"
    /\ sent' = Append(sent, verdict)
    /\ verdict' = noVerdict
    /\ pc' = "release"
    /\ UNCHANGED <<received, queue, cur, seen, cutoff>>

-----------------------------------------------------------------------------
(* The rest of the process.                                                *)

\* A pump broadcasts a response; the last sender goes away.
Broadcast(r) ==
    /\ inOpen /\ Len(arrivals) < MaxResponses
    /\ arrivals' = Append(arrivals, r)
    /\ UNCHANGED <<exit, shutdown, inOpen>>

CloseInput ==
    /\ inOpen /\ inOpen' = FALSE
    /\ UNCHANGED <<exit, shutdown, arrivals>>

SetExit ==
    /\ ~exit /\ exit' = TRUE
    /\ UNCHANGED <<shutdown, arrivals, inOpen>>

\* shutdown_watch polls the exit flag and then sends true.
ShutdownWatch ==
    /\ exit /\ ~shutdown /\ shutdown' = TRUE
    /\ UNCHANGED <<exit, arrivals, inOpen>>

Task ==
    \/ PollShutdown \/ PollTimer \/ RecvOk \/ RecvLagged \/ RecvClosed \/ RecvPending
    \/ OnReceive \/ Push \/ Cutoff \/ Release \/ FilterTest \/ Send

Lane == (Task \/ FilterScan) /\ UNCHANGED <<now, filterVars, envVars>>
Insert(s) == InsertEntry(s) /\ UNCHANGED <<now, laneVars, envVars>>
Publish == InsertPublish /\ UNCHANGED <<now, laneVars, envVars>>
SweepStart == ~IsEmpty /\ SweepRetain("relayer") /\ UNCHANGED <<now, laneVars, envVars>>
SweepEnd == SweepPublish("relayer") /\ UNCHANGED <<now, laneVars, envVars>>
Clock == Tick /\ UNCHANGED <<filterVars, laneVars, envVars>>
Environment ==
    /\ (\E r \in Responses : Broadcast(r)) \/ CloseInput \/ SetExit \/ ShutdownWatch
    /\ UNCHANGED <<now, filterVars, laneVars>>

Next ==
    Lane \/ (\E s \in Signatures : Insert(s)) \/ Publish \/ SweepStart \/ SweepEnd \/ Clock \/ Environment

Spec == Init /\ [][Next]_vars

\* The task, the holders of the mutex, shutdown_watch and the clock keep going;
\* a task waiting for the mutex gets it although others keep taking it.
Fairness ==
    /\ WF_vars(Task /\ UNCHANGED <<now, filterVars, envVars>>)
    /\ SF_vars(FilterScan /\ UNCHANGED <<now, filterVars, envVars>>)
    /\ WF_vars(Publish) /\ WF_vars(SweepEnd) /\ WF_vars(Clock)
    /\ WF_vars(ShutdownWatch /\ UNCHANGED <<now, filterVars, laneVars>>)

FairSpec == Spec /\ Fairness

-----------------------------------------------------------------------------
(* Properties.                                                             *)

OutOf(r) == [id |-> r.id, removed |-> Indices(arrivals[r.id]) \ r.kept]

\* The line's state in terms of the lane's: a response counts as accepted when
\* on_receive sees it (and mirrors it), and as decided on before it is sent.
Passed == IF pc = "received" THEN received - 1 ELSE received
Held == [i \in Indices(queue) |-> [id |-> queue[i].id, since |-> queue[i].seen]]
        \o (IF pc = "push" THEN <<[id |-> cur, since |-> seen]>> ELSE <<>>)
Deciding == IF pc \in {"filter", "scan"} THEN cur ELSE 0
Decided == [i \in Indices(sent) |-> OutOf(sent[i])]
            \o (IF pc = "send" THEN <<OutOf(verdict)>> ELSE <<>>)
Suppressed == [s \in DOMAIN published |-> published[s].at]
Running == pc # "done"

Line == INSTANCE DelayLine WITH
    Items <- Responses, Lossy <- TRUE, Retained <- Capacity,
    offered <- arrivals, next <- Passed, line <- Held, hand <- Deciding, out <- Decided,
    filters <- Suppressed, open <- Running

\* A lane implements a delay line that loses only what the broadcast channel overwrote:
\* responses leave in order, at least Delay after on_receive, without what a fresh filter
\* names and with all that no filter names, however polls and clock interleave.  Its
\* state is well-typed throughout.
ImplementsDelayLine == []TypeOK /\ Line!Spec

\* A queued response that falls due is sent, unless the lane is shut down or its
\* channel closed first (its queue is then dropped): receiving, lagging and
\* filtering never starve the release.
DueResponseSent ==
    \A n \in 1..MaxResponses :
        (\E i \in Indices(queue) : queue[i].id = n /\ queue[i].release_at <= MaxTime)
            ~> ((\E i \in Indices(sent) : sent[i].id = n) \/ exit \/ ~inOpen)

\* The exit flag, or the end of the last sender, ends the lane.
LaneEnds == (exit \/ ~inOpen) ~> (pc = "done")
=============================================================================
