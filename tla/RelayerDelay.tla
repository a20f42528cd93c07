---------------------------- MODULE RelayerDelay ----------------------------
(***************************************************************************)
(* The thread "proxy-relayer-delay" (src/proxy/mod.rs, spawn_relayer_delay)*)
(* between the sigverify stage and the forwarder's event loop.  It mirrors *)
(* every batch to the Inertia server, holds it for Delay, marks the packets*)
(* whose signature is in the FilterSet as discarded, and sends the batch   *)
(* on through a bounded channel whose send blocks.                         *)
(*                                                                         *)
(* Beside the thread run: the mirror's filter reader (insert), the         *)
(* sigverify stage (Arrive, CloseInput), the forwarder's event loop (Take, *)
(* CloseOutput), whoever sets the exit flag, and the clock.                *)
(*                                                                         *)
(* The two crossbeam channels are FIFO and are kept as a history and a     *)
(* count: the input holds arrivals[received + 1 ..], the output holds      *)
(* forwarded[taken + 1 ..].                                                *)
(***************************************************************************)
EXTENDS FilterSet, Sequences

CONSTANTS
    Delay,          \* Proxy::PACKET_DELAY
    IdleTick,       \* Proxy::IDLE_TICK
    Capacity,       \* Tpu::TPU_QUEUE_CAPACITY of the channel to the forwarder
    Batches,        \* the packet batches sigverify may emit: sequences of packets
    MaxBatches      \* bound: how many batches arrive

Packet == [sig : Signatures \cup {NoSig}, discard : BOOLEAN]

ASSUME DelayAssumption == Delay \in Nat /\ IdleTick \in Nat
ASSUME CapacityAssumption == Capacity \in Nat \ {0}
ASSUME BatchesAssumption == Batches \subseteq Seq(Packet) /\ MaxBatches \in Nat

VARIABLES
    exit,           \* the process-wide exit flag
    arrivals,       \* history: every batch put on the input channel
    received,       \* how many of them the thread has received
    inOpen,         \* sigverify still holds the input's sender
    pc,             \* where the thread is
    deadline,       \* when its recv_timeout gives up (0 outside the wait)
    queue,          \* VecDeque of [release_at, id]
    cur,            \* id of the batch in hand (an index of arrivals), 0 for none
    cutoff,         \* the local `now' of the release loop (0 outside it)
    verdict,        \* the batch discard_filtered returned, until it is sent
    forwarded,      \* history: every batch put on the output channel
    taken,          \* how many of them the forwarder has received
    outOpen,        \* the forwarder still holds the output's receiver
    mirrored,       \* history: the packets of batches not yet sent that were handed
                    \* to Mirror::send, and when
    sweptAt         \* history: when this iteration's sweep looked at the set

threadVars == <<received, pc, deadline, queue, cur, cutoff, verdict, forwarded, mirrored, sweptAt>>
envVars == <<exit, arrivals, inOpen, taken, outOpen>>
vars == <<now, filterVars, threadVars, envVars>>

Indices(s) == 1..Len(s)
noVerdict == [id |-> 0, packets |-> <<>>, decidedAt |-> 0, fresh |-> {}, recent |-> {}]
Entry == [release_at : Nat, id : Nat]
SentBatch == [id : Nat, packets : Seq(Packet)]
Verdict == [id : Nat, packets : Seq(Packet), decidedAt : Nat,
            fresh : SUBSET Signatures, recent : SUBSET Signatures]

\* Type invariant of the filter set and of the delay thread.
TypeOK ==
    /\ FilterTypeOK
    /\ exit \in BOOLEAN /\ inOpen \in BOOLEAN /\ outOpen \in BOOLEAN
    /\ arrivals \in Seq(Batches)
    /\ received \in 0..Len(arrivals)
    /\ pc \in {"top", "recv", "mirror", "push", "sweep", "sweepLock", "sweepStore",
               "cutoff", "release", "filter", "scan", "send", "done"}
    /\ deadline \in Nat /\ cutoff \in Nat /\ sweptAt \in Nat
    /\ queue \in Seq(Entry)
    /\ cur \in 0..received
    /\ verdict \in Verdict
    /\ forwarded \in Seq(SentBatch)
    /\ taken \in 0..Len(forwarded)
    /\ mirrored \subseteq [id : Nat, index : Nat, at : Nat]

Init ==
    /\ FilterInit
    /\ exit = FALSE /\ inOpen = TRUE /\ outOpen = TRUE
    /\ arrivals = <<>> /\ received = 0
    /\ pc = "top" /\ deadline = 0 /\ queue = <<>> /\ cur = 0 /\ cutoff = 0
    /\ verdict = noVerdict
    /\ forwarded = <<>> /\ taken = 0
    /\ mirrored = {} /\ sweptAt = 0

-----------------------------------------------------------------------------
(* The loop head and recv_timeout.                                         *)

Later(a, b) == IF a > b THEN a ELSE b

\* while !exit: compute the timeout from the front of the queue (saturating:
\* a release time in the past gives a zero timeout).
Top ==
    /\ pc = "top"
    /\ IF exit
       THEN pc' = "done" /\ UNCHANGED deadline
       ELSE /\ pc' = "recv"
            /\ deadline' = IF queue = <<>> THEN now + IdleTick
                           ELSE Later(Head(queue).release_at, now)
    /\ UNCHANGED <<received, queue, cur, cutoff, verdict, forwarded, mirrored, sweptAt>>

RecvOk ==
    /\ pc = "recv" /\ received < Len(arrivals)
    /\ received' = received + 1
    /\ cur' = received + 1
    /\ deadline' = 0
    /\ pc' = "mirror"
    /\ UNCHANGED <<queue, cutoff, verdict, forwarded, mirrored, sweptAt>>

\* Mutants of AfterTimeout: `continue', which skips sweep and release; and a sweep that
\* is only done after a batch was received.
AfterTimeoutContinues == "top"
AfterTimeoutSkipsSweep == "cutoff"

AfterTimeout == "sweep"

\* recv_timeout reports Timeout only when it finds the channel empty and its
\* senders alive.  A wait that would end after MaxTime ends at MaxTime.
RecvTimeout ==
    /\ pc = "recv" /\ received = Len(arrivals) /\ inOpen
    /\ now >= deadline \/ now = MaxTime
    /\ deadline' = 0
    /\ pc' = AfterTimeout
    /\ UNCHANGED <<received, queue, cur, cutoff, verdict, forwarded, mirrored, sweptAt>>

RecvDisconnected ==
    /\ pc = "recv" /\ received = Len(arrivals) /\ ~inOpen
    /\ deadline' = 0
    /\ pc' = "done"
    /\ UNCHANGED <<received, queue, cur, cutoff, verdict, forwarded, mirrored, sweptAt>>

\* mirror_banking_batch: every packet not already discarded goes to Mirror::send.
MirrorBatch ==
    /\ pc = "mirror"
    /\ mirrored' = mirrored \cup
         {[id |-> cur, index |-> i, at |-> now] :
             i \in {j \in Indices(arrivals[cur]) : ~arrivals[cur][j].discard}}
    /\ pc' = "push"
    /\ UNCHANGED <<received, deadline, queue, cur, cutoff, verdict, forwarded, sweptAt>>

\* Mutant of Queued: the delay is forgotten.
QueuedUndelayed == Append(queue, [release_at |-> now, id |-> cur])

Queued == Append(queue, [release_at |-> now + Delay, id |-> cur])

\* queue.push_back((Instant::now() + delay, batch)): the clock is read again,
\* after the mirroring.
Push ==
    /\ pc = "push"
    /\ queue' = Queued
    /\ cur' = 0
    /\ pc' = "sweep"
    /\ UNCHANGED <<received, deadline, cutoff, verdict, forwarded, mirrored, sweptAt>>

-----------------------------------------------------------------------------
(* filter_set.sweep() and the release loop.                                *)

\* sweep's is_empty test.
SweepTest ==
    /\ pc = "sweep"
    /\ IF IsEmpty THEN pc' = "cutoff" /\ sweptAt' = now
                  ELSE pc' = "sweepLock" /\ UNCHANGED sweptAt
    /\ UNCHANGED <<filterVars, received, deadline, queue, cur, cutoff, verdict, forwarded, mirrored>>

SweepLock ==
    /\ pc = "sweepLock"
    /\ SweepRetain("relayer")
    /\ sweptAt' = now
    /\ pc' = "sweepStore"
    /\ UNCHANGED <<received, deadline, queue, cur, cutoff, verdict, forwarded, mirrored>>

SweepStore ==
    /\ pc = "sweepStore"
    /\ SweepPublish("relayer")
    /\ pc' = "cutoff"
    /\ UNCHANGED <<received, deadline, queue, cur, cutoff, verdict, forwarded, mirrored, sweptAt>>

\* let now = Instant::now()
Cutoff ==
    /\ pc = "cutoff"
    /\ cutoff' = now
    /\ pc' = "release"
    /\ UNCHANGED <<received, deadline, queue, cur, verdict, forwarded, mirrored, sweptAt>>

\* The head of the release loop: pop the front if it is due, else leave the loop.
Release ==
    /\ pc = "release"
    /\ IF queue # <<>> /\ Head(queue).release_at <= cutoff
       THEN /\ cur' = Head(queue).id
            /\ queue' = Tail(queue)
            /\ pc' = "filter"
            /\ UNCHANGED <<cutoff, sweptAt>>
       ELSE /\ pc' = "top" /\ cutoff' = 0 /\ sweptAt' = 0
            /\ UNCHANGED <<cur, queue>>
    /\ UNCHANGED <<received, deadline, verdict, forwarded, mirrored>>

\* Mutant of DiscardFiltered: the flag is assigned, not set.
DiscardFilteredAssigns(packets, blocked) ==
    [i \in Indices(packets) |-> [sig |-> packets[i].sig, discard |-> packets[i].sig \in blocked]]

\* discard_filtered's loop over the packets.
DiscardFiltered(packets, blocked) ==
    [i \in Indices(packets) |->
        [sig |-> packets[i].sig, discard |-> packets[i].discard \/ packets[i].sig \in blocked]]

\* The batch discard_filtered returns, with three history fields: the time, the
\* filters fresh at that time, and those this iteration's sweep could not drop.
Decide(packets) ==
    [id |-> cur, packets |-> packets, decidedAt |-> now, fresh |-> Fresh,
     recent |-> {s \in DOMAIN published : sweptAt < published[s].since + TTL}]

\* discard_filtered's is_empty test: an empty set returns the batch unchanged.
FilterTest ==
    /\ pc = "filter"
    /\ IF IsEmpty
       THEN /\ verdict' = Decide(arrivals[cur])
            /\ cur' = 0
            /\ pc' = "send"
       ELSE pc' = "scan" /\ UNCHANGED <<cur, verdict>>
    /\ UNCHANGED <<filterVars, received, deadline, queue, cutoff, forwarded, mirrored, sweptAt>>

\* The rest of discard_filtered, under the mutex.  It is one step: the mutex
\* keeps the map fixed and nothing else it reads is shared.
FilterScan ==
    /\ pc = "scan" /\ lock = "free"
    /\ verdict' = Decide(DiscardFiltered(arrivals[cur], Blocked))
    /\ cur' = 0
    /\ pc' = "send"
    /\ UNCHANGED <<filterVars, received, deadline, queue, cutoff, forwarded, mirrored, sweptAt>>

\* tx.send blocks while the channel is full.
Send ==
    /\ pc = "send" /\ outOpen
    /\ Len(forwarded) - taken < Capacity
    /\ forwarded' = Append(forwarded, [id |-> verdict.id, packets |-> verdict.packets])
    /\ mirrored' = {m \in mirrored : m.id # verdict.id}
    /\ verdict' = noVerdict
    /\ pc' = "release"
    /\ UNCHANGED <<received, deadline, queue, cur, cutoff, sweptAt>>

\* tx.send fails once the receiver is gone: the thread returns.
SendFailed ==
    /\ pc = "send" /\ ~outOpen
    /\ pc' = "done"
    /\ UNCHANGED <<received, deadline, queue, cur, cutoff, verdict, forwarded, mirrored, sweptAt>>

-----------------------------------------------------------------------------
(* The environment.                                                        *)

Arrive(b) ==
    /\ inOpen /\ Len(arrivals) < MaxBatches
    /\ arrivals' = Append(arrivals, b)
    /\ UNCHANGED <<exit, inOpen, taken, outOpen>>

CloseInput ==
    /\ inOpen /\ inOpen' = FALSE
    /\ UNCHANGED <<exit, arrivals, taken, outOpen>>

SetExit ==
    /\ ~exit /\ exit' = TRUE
    /\ UNCHANGED <<arrivals, inOpen, taken, outOpen>>

Take ==
    /\ outOpen /\ taken < Len(forwarded)
    /\ taken' = taken + 1
    /\ UNCHANGED <<exit, arrivals, inOpen, outOpen>>

\* Mutant of EventLoopEnds: the event loop outlives the exit flag.
EventLoopEndsIgnoresExit == pc = "done"

EventLoopEnds == exit \/ pc = "done"

\* The event loop returns, dropping the receiver, when it sees the exit flag
\* or a disconnected channel.
CloseOutput ==
    /\ outOpen /\ EventLoopEnds
    /\ outOpen' = FALSE
    /\ UNCHANGED <<exit, arrivals, inOpen, taken>>

\* The steps that need no mutex, and those that wait for it.
FreeStep ==
    \/ (Top \/ RecvOk \/ RecvTimeout \/ RecvDisconnected \/ MirrorBatch \/ Push
        \/ Cutoff \/ Release \/ Send \/ SendFailed) /\ UNCHANGED filterVars
    \/ SweepTest \/ SweepStore \/ FilterTest
LockStep == SweepLock \/ FilterScan

Thread == (FreeStep \/ LockStep) /\ UNCHANGED <<now, envVars>>
Insert(s) == InsertEntry(s) /\ UNCHANGED <<now, threadVars, envVars>>
Publish == InsertPublish /\ UNCHANGED <<now, threadVars, envVars>>
Clock == Tick /\ UNCHANGED <<filterVars, threadVars, envVars>>
Environment ==
    /\ (\E b \in Batches : Arrive(b)) \/ CloseInput \/ SetExit \/ Take \/ CloseOutput
    /\ UNCHANGED <<now, filterVars, threadVars>>

Next == Thread \/ (\E s \in Signatures : Insert(s)) \/ Publish \/ Clock \/ Environment

Spec == Init /\ [][Next]_vars

\* The thread, the inserter inside the mutex and the clock keep going; the event
\* loop receives until the exit flag is set and then returns; a thread waiting
\* for the mutex gets it even if inserts keep taking it.
Fairness ==
    /\ WF_vars(FreeStep /\ UNCHANGED <<now, envVars>>)
    /\ SF_vars(LockStep /\ UNCHANGED <<now, envVars>>)
    /\ WF_vars(Publish)
    /\ WF_vars(Clock)
    /\ WF_vars(~exit /\ Take /\ UNCHANGED <<now, filterVars, threadVars>>)
    /\ WF_vars(CloseOutput /\ UNCHANGED <<now, filterVars, threadVars>>)

FairSpec == Spec /\ Fairness

-----------------------------------------------------------------------------
(* Properties.                                                             *)

\* The atomic `len' never hides a live filter: a signature whose last completed
\* insert is younger than TTL is in the map and is_empty is false, also while
\* another insert or a sweep is between changing the map and storing `len';
\* and `len' is the size of the map whenever the mutex is free (FilterSet).
FilterIndexSound ==
    /\ \A s \in Fresh : s \in DOMAIN map /\ ~IsEmpty
    /\ lock = "free" => len = Cardinality(DOMAIN map)

\* The Inertia server has at least Delay to answer: when discard_filtered has
\* decided on a batch, at least Delay has passed since each of its packets was
\* handed to Mirror::send.
ServerHasDelayToAnswer ==
    pc = "send" => \A m \in mirrored :
        m.id = verdict.id => verdict.decidedAt >= m.at + Delay

\* A packet whose signature has a filter younger than TTL when discard_filtered
\* decides (also on its is_empty shortcut) is sent discarded.
FreshFilterApplied ==
    pc = "send" => \A j \in Indices(verdict.packets) :
        verdict.packets[j].sig \in verdict.fresh => verdict.packets[j].discard

\* Nothing else is changed: the batch sent has the packets that arrived, and a
\* packet is newly discarded only for a filter whose insert completed less than
\* TTL before this iteration's sweep, so an expired filter discards nothing
\* once a sweep could see it.
OnlyRecentFiltersDiscard ==
    pc = "send" =>
        LET before == arrivals[verdict.id]  after == verdict.packets IN
        /\ Len(after) = Len(before)
        /\ \A j \in Indices(before) :
            /\ after[j].sig = before[j].sig
            /\ before[j].discard => after[j].discard
            /\ after[j].discard /\ ~before[j].discard => before[j].sig \in verdict.recent

\* The batches in the thread's hand, on their way out and on their way in.
Releasing == IF pc \in {"filter", "scan", "send"} THEN 1 ELSE 0
Accepting == IF pc \in {"mirror", "push"} THEN 1 ELSE 0

\* Batches leave in the order they came, each once, and while the thread runs
\* every batch it received is sent, in its hand or in the queue.
InOrderOnce ==
    /\ \A i \in Indices(forwarded) : forwarded[i].id = i
    /\ pc \in {"filter", "scan"} => cur = Len(forwarded) + 1
    /\ pc = "send" => verdict.id = Len(forwarded) + 1
    /\ pc # "done" =>
        /\ \A i \in Indices(queue) : queue[i].id = Len(forwarded) + Releasing + i
        /\ Len(forwarded) + Releasing + Len(queue) + Accepting = received

\* What a packet is judged by: nothing, if it arrived discarded or has no signature.
UnitOf(p) == IF p.discard THEN {} ELSE {p.sig} \ {NoSig}
ItemOf(b) == [i \in Indices(b) |-> UnitOf(b[i])]

\* What was decided on a batch: the packets newly discarded.
OutOf(b) ==
    [id |-> b.id,
     removed |-> {i \in Indices(b.packets) : b.packets[i].discard /\ ~arrivals[b.id][i].discard}]

\* The line's state in terms of the thread's: a batch is accepted when it is queued,
\* in hand until discard_filtered has decided, and decided on before it is sent.
Offered == [i \in Indices(arrivals) |-> ItemOf(arrivals[i])]
Passed == received - Accepting
Held == [i \in Indices(queue) |-> [id |-> queue[i].id, since |-> queue[i].release_at - Delay]]
Deciding == IF pc \in {"filter", "scan"} THEN cur ELSE 0
Decided == [i \in Indices(forwarded) |-> OutOf(forwarded[i])]
            \o (IF verdict.id = 0 THEN <<>> ELSE <<OutOf(verdict)>>)
Suppressed == [s \in DOMAIN published |-> published[s].at]
Running == pc # "done"

Line == INSTANCE DelayLine WITH
    Items <- {ItemOf(b) : b \in Batches}, Lossy <- FALSE, Retained <- 0,
    offered <- Offered, next <- Passed, line <- Held, hand <- Deciding, out <- Decided,
    filters <- Suppressed, open <- Running

\* The thread implements a delay line that loses nothing: every step of the thread, of
\* insert and of sweep is a step of the line or none, so order, delay and suppression
\* hold together for each batch, whatever happens between recv, push, pop and send.
ImplementsDelayLine == Line!Spec

\* A queued batch that falls due is sent, whatever the filters and the event
\* loop do, unless the exit flag is set or the input is disconnected first (the
\* thread then drops its queue).
DueBatchForwarded ==
    \A n \in 1..MaxBatches :
        (\E i \in Indices(queue) : queue[i].id = n /\ queue[i].release_at <= MaxTime)
            ~> (Len(forwarded) >= n \/ exit \/ ~inOpen)

\* The exit flag ends the thread even if the output channel is full: the event
\* loop then drops the receiver and the blocked send fails.
ExitStopsThread == exit ~> (pc = "done")

\* A filter that is not renewed leaves the set once it is TTL old, as long as
\* the delay thread runs: sweep has no other caller.
FilterExpires ==
    \A s \in Signatures : \A t \in 0..(MaxTime - TTL) :
        (s \in DOMAIN map /\ map[s] = t)
            ~> (s \notin DOMAIN map \/ map[s] # t \/ exit \/ ~inOpen)
=============================================================================
