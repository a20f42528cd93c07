------------------------- MODULE RelayerDelayProofs -------------------------
(***************************************************************************)
(* Proofs about RelayerDelay.  The invariants checked by TLC are not       *)
(* inductive on their own; IInv strengthens them with what the mutex, the  *)
(* counter `len', the sweep and the queue guarantee between the steps.     *)
(***************************************************************************)
EXTENDS RelayerDelay, FiniteSetTheorems, SequenceTheorems, TLAPS

InProgress(s) == lock = "mirror" /\ s = inserting.sig

\* The filter set: `len' is exact when the mutex is free, zero only if the map
\* holds nothing but an insert in progress, and a fresh filter is in the map
\* with an instant at least as late as its last completed insert.
FilterInv ==
    /\ IsFiniteSet(DOMAIN map)
    /\ lock = "free" => len = Cardinality(DOMAIN map)
    /\ lock = "mirror" => /\ inserting.sig \in DOMAIN map
                          /\ map[inserting.sig] = inserting.at
                          /\ inserting.at <= now
    /\ \A s \in DOMAIN published : published[s].at <= now /\ published[s].since <= now
    /\ \A s \in DOMAIN published : now < published[s].at + TTL =>
            s \in DOMAIN map /\ published[s].at <= map[s] /\ len # 0
    /\ \A s \in DOMAIN map :
            InProgress(s) \/ (s \in DOMAIN published /\ map[s] <= published[s].since)
    /\ len = 0 => \A s \in DOMAIN map : InProgress(s)

\* After this iteration's sweep, every filter in the map was completed recently
\* enough that the sweep could not have dropped it.
SweepInv ==
    /\ lock = "relayer" <=> pc = "sweepStore"
    /\ pc \in {"sweepStore", "cutoff", "release", "filter", "scan", "send"} =>
        /\ sweptAt <= now
        /\ \A s \in DOMAIN map :
              InProgress(s) \/ (s \in DOMAIN published /\ sweptAt < published[s].since + TTL)

\* From the mirroring of a packet to the decision on its batch.
DelayInv ==
    /\ pc \in {"mirror", "push"} => cur = received
    /\ pc \in {"release", "filter", "scan", "send"} => cutoff <= now
    /\ \A m \in mirrored : m.at <= now
    /\ \A m \in mirrored : \A i \in Indices(queue) :
            m.id = queue[i].id => m.at + Delay <= queue[i].release_at
    /\ pc \in {"filter", "scan"} => \A m \in mirrored : m.id = cur => m.at + Delay <= cutoff
    /\ ServerHasDelayToAnswer

IInv ==
    /\ TypeOK /\ InOrderOnce /\ FilterInv /\ SweepInv /\ DelayInv
    /\ FreshFilterApplied /\ OnlyRecentFiltersDiscard

-----------------------------------------------------------------------------
(* Lemmas about the operators.                                             *)

\* HashMap::insert yields a map with the key added, bound to the value.
LEMMA PutProperties ==
    ASSUME NEW f, NEW k, NEW v
    PROVE  /\ DOMAIN Put(f, k, v) = DOMAIN f \cup {k}
           /\ Put(f, k, v)[k] = v
           /\ \A x \in DOMAIN f : x # k => Put(f, k, v)[x] = f[x]
    BY DEF Put

\* Put preserves the type of a map.
LEMMA PutType ==
    ASSUME NEW S, NEW T, NEW f, f \in [DOMAIN f -> T], DOMAIN f \subseteq S,
           NEW k \in S, NEW v \in T
    PROVE  /\ Put(f, k, v) \in [DOMAIN Put(f, k, v) -> T]
           /\ DOMAIN Put(f, k, v) \subseteq S
    BY DEF Put

\* discard_filtered keeps the number of packets and their signatures, and sets
\* discard exactly on the packets whose signature is blocked.
LEMMA DiscardFilteredProperties ==
    ASSUME NEW packets \in Seq(Packet), NEW blocked
    PROVE  /\ DiscardFiltered(packets, blocked) \in Seq(Packet)
           /\ Len(DiscardFiltered(packets, blocked)) = Len(packets)
           /\ \A i \in Indices(packets) :
                /\ DiscardFiltered(packets, blocked)[i].sig = packets[i].sig
                /\ DiscardFiltered(packets, blocked)[i].discard
                        <=> packets[i].discard \/ packets[i].sig \in blocked
<1> DEFINE d == DiscardFiltered(packets, blocked)
<1>1. \A i \in 1..Len(packets) : packets[i] \in Packet
  BY ElementOfSeq
<1>2. \A i \in 1..Len(packets) :
        /\ d[i] \in Packet
        /\ d[i].sig = packets[i].sig
        /\ d[i].discard <=> packets[i].discard \/ packets[i].sig \in blocked
  BY <1>1, Zenon DEF DiscardFiltered, Indices, Packet
<1>3. Len(packets) \in Nat
  OBVIOUS
<1>4. d \in [1..Len(packets) -> Packet]
  BY <1>2 DEF DiscardFiltered, Indices
<1>5. d \in Seq(Packet) /\ Len(d) = Len(packets)
  BY <1>3, <1>4
<1> QED
  BY <1>2, <1>5 DEF Indices

\* VecDeque::pop_front on a queue that is not empty.
LEMMA PopFront ==
    ASSUME NEW S, NEW q \in Seq(S), q # <<>>
    PROVE  /\ Head(q) = q[1] /\ 1 \in 1..Len(q) /\ Head(q) \in S
           /\ Tail(q) \in Seq(S) /\ Len(Tail(q)) = Len(q) - 1
           /\ \A i \in 1..Len(q) - 1 : Tail(q)[i] = q[i + 1]
<1>1. Len(q) \in Nat \ {0}
  BY EmptySeq
<1>2. Head(q) = q[1]
  BY <1>1
<1> QED
  BY <1>1, <1>2, HeadTailProperties

-----------------------------------------------------------------------------
(* Every part of IInv holds initially and is preserved by every step.      *)

\* The initial state satisfies the inductive invariant.
LEMMA InitIInv == Init => IInv
<1> SUFFICES ASSUME Init PROVE IInv
  OBVIOUS
<1> USE DEF Init, FilterInit, noVerdict, notInserting
<1>1. TypeOK
  <2>1. FilterTypeOK
    BY DEF FilterTypeOK
  <2>2. verdict \in Verdict
    <3>1. <<>> \in Seq(Packet)
      OBVIOUS
    <3> QED
      BY <3>1 DEF Verdict
  <2>3. /\ arrivals \in Seq(Batches) /\ Len(arrivals) = 0
        /\ forwarded \in Seq(SentBatch) /\ Len(forwarded) = 0
        /\ queue \in Seq(Entry)
    OBVIOUS
  <2>4. /\ received \in 0..Len(arrivals) /\ taken \in 0..Len(forwarded) /\ cur \in 0..received
        /\ deadline \in Nat /\ cutoff \in Nat /\ sweptAt \in Nat
    BY <2>3
  <2>5. /\ exit \in BOOLEAN /\ inOpen \in BOOLEAN /\ outOpen \in BOOLEAN
        /\ pc = "top" /\ mirrored = {}
    BY Zenon
  <2> HIDE DEF Init
  <2> QED
    BY <2>1, <2>2, <2>3, <2>4, <2>5 DEF TypeOK
<1>2. InOrderOnce
  BY DEF InOrderOnce, Indices, Releasing, Accepting
<1>3. FilterInv
  <2>1. DOMAIN map = {} /\ DOMAIN published = {}
    OBVIOUS
  <2> QED
    BY <2>1, FS_EmptySet DEF FilterInv
<1>4. SweepInv /\ DelayInv
  BY DEF SweepInv, DelayInv, ServerHasDelayToAnswer, Indices
<1>5. FreshFilterApplied /\ OnlyRecentFiltersDiscard
  BY DEF FreshFilterApplied, OnlyRecentFiltersDiscard
<1> QED
  BY <1>1, <1>2, <1>3, <1>4, <1>5 DEF IInv

\* The batch in hand is one that arrived.
LEMMA InHand ==
    ASSUME TypeOK, InOrderOnce, DelayInv
    PROVE  /\ pc \in {"filter", "scan", "mirror", "push"} => cur \in 1..Len(arrivals)
           /\ pc \in {"filter", "scan", "mirror", "push"} => arrivals[cur] \in Seq(Packet)
           /\ pc = "send" => verdict.id \in 1..Len(arrivals)
           /\ pc = "send" => arrivals[verdict.id] \in Seq(Packet)
<1>1. /\ Len(arrivals) \in Nat /\ Len(queue) \in Nat /\ Len(forwarded) \in Nat
      /\ received \in 0..Len(arrivals)
  BY DEF TypeOK
<1>2. \A i \in 1..Len(arrivals) : arrivals[i] \in Seq(Packet)
  BY BatchesAssumption, ElementOfSeq DEF TypeOK
<1>3. ASSUME pc \in {"filter", "scan"} PROVE cur = Len(forwarded) + 1 /\ cur <= received
  <2>1. Releasing = 1 /\ Accepting = 0
    BY <1>3 DEF Releasing, Accepting
  <2>2. cur = Len(forwarded) + 1 /\ Len(forwarded) + Releasing + Len(queue) + Accepting = received
    BY <1>3 DEF InOrderOnce
  <2> QED
    BY <1>1, <2>1, <2>2
<1>4. pc = "send" => verdict.id = Len(forwarded) + 1 /\ verdict.id <= received
  BY <1>1 DEF InOrderOnce, Releasing, Accepting
<1>5. pc \in {"mirror", "push"} => cur = received /\ received >= 1
  BY <1>1 DEF InOrderOnce, DelayInv, Releasing, Accepting
<1> QED
  BY <1>1, <1>2, <1>3, <1>4, <1>5

\* The two channels, the queue and the batch in hand stay in order.
LEMMA OrderStep ==
    ASSUME TypeOK, InOrderOnce, DelayInv, [Next]_vars
    PROVE  InOrderOnce'
<1> USE DEF Indices
<1>0. /\ Len(queue) \in Nat /\ Len(forwarded) \in Nat /\ Len(arrivals) \in Nat
      /\ received \in Nat
  BY DEF TypeOK
<1>q. queue \in Seq(Entry)
  BY DEF TypeOK
<1>f. forwarded \in Seq(SentBatch)
  BY DEF TypeOK
<1>1. CASE UNCHANGED <<pc, received, cur, verdict.id, queue, forwarded>>
  BY <1>1, Zenon DEF InOrderOnce, Releasing, Accepting
<1>2. CASE Top
  BY <1>2, Zenon DEF Top, InOrderOnce, Releasing, Accepting
<1>3. CASE RecvOk
  <2>1. Releasing = 0 /\ Accepting = 0 /\ Releasing' = 0 /\ Accepting' = 1
    BY <1>3 DEF RecvOk, Releasing, Accepting
  <2>2. /\ \A i \in 1..Len(queue) : queue[i].id = Len(forwarded) + i
        /\ Len(forwarded) + Len(queue) = received
        /\ \A i \in 1..Len(forwarded) : forwarded[i].id = i
    BY <1>0, <1>3, <2>1 DEF RecvOk, InOrderOnce
  <2>3. pc' = "mirror" /\ received' = received + 1 /\ UNCHANGED <<queue, forwarded>>
    BY <1>3 DEF RecvOk
  <2> QED
    BY <1>0, <2>1, <2>2, <2>3 DEF InOrderOnce
<1>4. CASE RecvTimeout \/ RecvDisconnected \/ MirrorBatch \/ SweepTest \/ SweepLock \/ SweepStore \/ Cutoff \/ SendFailed
  <2>1. /\ Releasing = Releasing' \/ pc' = "done"
        /\ Accepting = Accepting' /\ pc # "done" /\ pc' \notin {"filter", "scan", "send"}
        /\ UNCHANGED <<received, queue, forwarded>>
    BY <1>4 DEF RecvTimeout, AfterTimeout, RecvDisconnected, MirrorBatch, SweepTest, SweepLock, SweepStore,
                Cutoff, SendFailed, Releasing, Accepting
  <2> QED
    BY <2>1 DEF InOrderOnce
<1>5. CASE Push
  <2>1. /\ Len(queue') = Len(queue) + 1
        /\ \A i \in 1..Len(queue) : queue'[i] = queue[i]
        /\ queue'[Len(queue) + 1].id = received
    BY <1>0, <1>q, <1>5 DEF Push, Queued, DelayInv
  <2>2. Releasing = 0 /\ Accepting = 1 /\ Releasing' = 0 /\ Accepting' = 0
    BY <1>5 DEF Push, Queued, Releasing, Accepting
  <2> QED
    <3>1. /\ \A i \in 1..Len(queue) : queue[i].id = Len(forwarded) + i
          /\ Len(forwarded) + Len(queue) + 1 = received
          /\ \A i \in 1..Len(forwarded) : forwarded[i].id = i
      BY <1>0, <1>5, <2>2 DEF Push, Queued, InOrderOnce
    <3>2. /\ \A i \in 1..Len(queue') : queue'[i].id = Len(forwarded) + i
          /\ Len(forwarded) + Len(queue') = received
      <4>1. Len(queue') = Len(queue) + 1
        BY <2>1
      <4>2. Len(forwarded) + Len(queue) + 1 = received
        BY <3>1
      <4>3. Len(forwarded) + Len(queue') = received
        BY <1>0, <4>1, <4>2
      <4>4. ASSUME NEW i \in 1..Len(queue') PROVE queue'[i].id = Len(forwarded) + i
        <5>1. i \in 1..Len(queue) \/ i = Len(queue) + 1
          BY <1>0, <4>1
        <5>2. CASE i \in 1..Len(queue)
          BY <2>1, <3>1, <5>2
        <5>3. CASE i = Len(queue) + 1
          <6>1. queue'[i].id = received
            BY <2>1, <5>3
          <6> QED
            BY <1>0, <4>2, <5>3, <6>1
        <5> QED
          BY <5>1, <5>2, <5>3
      <4> QED
        BY <4>3, <4>4
    <3>3. pc' = "sweep" /\ received' = received /\ forwarded' = forwarded
      BY <1>5 DEF Push, Queued
    <3> QED
      BY <1>0, <2>2, <3>1, <3>2, <3>3 DEF InOrderOnce
<1>6. CASE Release
  <2>1. CASE queue # <<>> /\ Head(queue).release_at <= cutoff
    <3>0. queue' = Tail(queue) /\ cur' = Head(queue).id
      BY <1>6, <2>1 DEF Release
    <3>1. /\ Len(queue') = Len(queue) - 1
          /\ \A i \in 1..Len(queue) - 1 : queue'[i] = queue[i + 1]
          /\ cur' = queue[1].id /\ 1 \in 1..Len(queue)
      BY <1>q, <2>1, <3>0, PopFront
    <3>2. Releasing = 0 /\ Accepting = 0 /\ Releasing' = 1 /\ Accepting' = 0
      BY <1>6, <2>1 DEF Release, Releasing, Accepting
    <3>3. cur' = Len(forwarded) + 1
      BY <1>0, <1>6, <3>1, <3>2 DEF Release, InOrderOnce
    <3>4. /\ \A i \in 1..Len(queue) : queue[i].id = Len(forwarded) + i
          /\ Len(forwarded) + Len(queue) = received
          /\ \A i \in 1..Len(forwarded) : forwarded[i].id = i
      BY <1>0, <1>6, <3>2 DEF Release, InOrderOnce
    <3>5. /\ \A i \in 1..Len(queue') : queue'[i].id = Len(forwarded) + 1 + i
          /\ Len(forwarded) + 1 + Len(queue') = received
      <4>1. ASSUME NEW i \in 1..Len(queue') PROVE queue'[i].id = Len(forwarded) + 1 + i
        <5>1. i \in 1..Len(queue) - 1 /\ i + 1 \in 1..Len(queue)
          BY <1>0, <3>1
        <5>2. queue'[i] = queue[i + 1] /\ queue[i + 1].id = Len(forwarded) + (i + 1)
          BY <3>1, <3>4, <5>1
        <5> QED
          BY <1>0, <5>2
      <4>2. Len(forwarded) + 1 + Len(queue') = received
        <5>1. Len(queue') = Len(queue) - 1
          BY <3>1
        <5>2. Len(forwarded) + Len(queue) = received
          BY <3>4
        <5> QED
          BY <1>0, <5>1, <5>2
      <4> QED
        BY <4>1, <4>2
    <3>6. pc' = "filter" /\ received' = received /\ forwarded' = forwarded
      BY <1>6, <2>1 DEF Release
    <3> QED
      BY <1>0, <3>2, <3>3, <3>4, <3>5, <3>6 DEF InOrderOnce
  <2>2. CASE ~(queue # <<>> /\ Head(queue).release_at <= cutoff)
    BY <1>0, <1>6, <2>2, Zenon DEF Release, InOrderOnce, Releasing, Accepting
  <2> QED
    BY <2>1, <2>2
<1>7. CASE FilterTest \/ FilterScan
  <2>1. pc \in {"filter", "scan"} /\ pc' \in {"scan", "send"}
        /\ (pc' = "scan" => cur' = cur) /\ (pc' = "send" => verdict'.id = cur)
    BY <1>7 DEF FilterTest, FilterScan, Decide
  <2> QED
    BY <1>0, <1>7, <2>1, Zenon DEF FilterTest, FilterScan, InOrderOnce, Releasing, Accepting
<1>8. CASE Send
  BY <1>0, <1>f, <1>8 DEF Send, InOrderOnce, Releasing, Accepting
<1> QED
  <2>1. CASE UNCHANGED vars
    BY <1>1, <2>1 DEF vars, threadVars
  <2>2. CASE (\E s \in Signatures : Insert(s)) \/ Publish \/ Clock \/ Environment
    BY <1>1, <2>2 DEF Insert, Publish, Clock, Environment, threadVars
  <2>3. CASE Thread
    BY <1>2, <1>3, <1>4, <1>5, <1>6, <1>7, <1>8, <2>3 DEF Thread, FreeStep, LockStep
  <2> QED
    BY <2>1, <2>2, <2>3 DEF Next

\* The filter set's variables keep their types.
LEMMA FilterTypeStep ==
    ASSUME TypeOK, FilterInv, [Next]_vars
    PROVE  FilterTypeOK'
<1> USE DEF FilterTypeOK
<1>0. FilterTypeOK
  BY DEF TypeOK
<1>1. Cardinality(DOMAIN map) \in Nat
  BY FS_CardinalityType DEF FilterInv
<1>2. CASE UNCHANGED <<now, filterVars>>
  BY <1>0, <1>2 DEF filterVars
<1>3. ASSUME NEW s \in Signatures, Insert(s) PROVE FilterTypeOK'
  <2>1. /\ map' = Put(map, s, now) /\ lock' = "mirror" /\ inserting' = [sig |-> s, at |-> now]
        /\ UNCHANGED <<now, len, published>>
    BY <1>3 DEF Insert, InsertEntry
  <2>2. map' \in [DOMAIN map' -> Nat] /\ DOMAIN map' \subseteq Signatures
    BY <1>0, <2>1, PutType, Zenon
  <2> QED
    BY <1>0, <2>1, <2>2
<1>4. CASE Publish
  <2>1. inserting.sig \in Signatures
    BY <1>0, <1>4 DEF Publish, InsertPublish, LenAfterInsert, FilterInv
  <2>2. /\ published' = Put(published, inserting.sig, [at |-> inserting.at, since |-> now])
        /\ len' = Cardinality(DOMAIN map) /\ lock' = "free" /\ inserting' = notInserting
        /\ UNCHANGED <<now, map>>
    BY <1>4 DEF Publish, InsertPublish, LenAfterInsert
  <2>3. [at |-> inserting.at, since |-> now] \in Insertion
    BY <1>0 DEF Insertion
  <2>4. /\ published' \in [DOMAIN published' -> Insertion]
        /\ DOMAIN published' \subseteq Signatures
    <3>1. published \in [DOMAIN published -> Insertion] /\ DOMAIN published \subseteq Signatures
      BY <1>0
    <3>2. LET p == Put(published, inserting.sig, [at |-> inserting.at, since |-> now]) IN
          p \in [DOMAIN p -> Insertion] /\ DOMAIN p \subseteq Signatures
      BY <2>1, <2>3, <3>1, PutType, Zenon
    <3> QED
      BY <2>2, <3>2
  <2> QED
    BY <1>0, <1>1, <2>2, <2>4 DEF notInserting
<1>5. CASE Clock
  BY <1>0, <1>5 DEF Clock, Tick, filterVars
<1>6. CASE Thread
  <2>1. CASE SweepLock
    BY <1>0, <1>6, <2>1 DEF SweepLock, SweepRetain, Thread
  <2>2. CASE SweepStore
    BY <1>0, <1>1, <1>6, <2>2 DEF SweepStore, SweepPublish, Thread
  <2> QED
    BY <1>2, <1>6, <2>1, <2>2 DEF Thread, FreeStep, LockStep, SweepTest, FilterTest, FilterScan
<1> QED
  <2>1. CASE UNCHANGED vars \/ Environment
    BY <1>2, <2>1 DEF vars, Environment
  <2> QED
    BY <1>3, <1>4, <1>5, <1>6, <2>1 DEF Next

\* What discard_filtered returns is a verdict.
LEMMA DecideType ==
    ASSUME FilterTypeOK, cur \in Nat, NEW packets \in Seq(Packet)
    PROVE  Decide(packets) \in Verdict
<1>1. Fresh \in SUBSET Signatures
  BY DEF FilterTypeOK, Fresh
<1>2. {s \in DOMAIN published : sweptAt < published[s].since + TTL} \in SUBSET Signatures
  BY DEF FilterTypeOK
<1>3. now \in Nat
  BY DEF FilterTypeOK
<1> QED
  BY <1>1, <1>2, <1>3 DEF Decide, Verdict

\* Every variable keeps its type.
LEMMA TypeStep ==
    ASSUME TypeOK, InOrderOnce, FilterInv, DelayInv, [Next]_vars
    PROVE  TypeOK'
<1>0. FilterTypeOK'
  BY FilterTypeStep
<1>1. CASE UNCHANGED vars
  BY <1>0, <1>1 DEF vars, threadVars, envVars, TypeOK
<1>2. CASE (\E s \in Signatures : Insert(s)) \/ Publish \/ Clock
  <2>1. UNCHANGED <<threadVars, envVars>>
    BY <1>2 DEF Insert, Publish, Clock
  <2> QED
    BY <1>0, <2>1 DEF threadVars, envVars, TypeOK
<1>3. CASE Environment
  <2>0. UNCHANGED threadVars
    BY <1>3 DEF Environment
  <2>1. ASSUME NEW b \in Batches, Arrive(b) PROVE TypeOK'
    <3>1. /\ arrivals' \in Seq(Batches) /\ Len(arrivals') = Len(arrivals) + 1
          /\ Len(arrivals) \in Nat
      BY <2>1 DEF Arrive, TypeOK
    <3>2. received' \in 0..Len(arrivals')
      BY <2>0, <3>1 DEF threadVars, TypeOK
    <3> QED
      BY <1>0, <2>0, <2>1, <3>1, <3>2 DEF Arrive, TypeOK, threadVars
  <2>2. CASE CloseInput \/ SetExit \/ CloseOutput
    BY <1>0, <2>0, <2>2, Zenon DEF CloseInput, SetExit, CloseOutput, EventLoopEnds, TypeOK, threadVars
  <2>3. CASE Take
    <3>1. taken' \in 0..Len(forwarded)
      BY <2>3 DEF Take, TypeOK
    <3> QED
      BY <1>0, <2>0, <2>3, <3>1 DEF Take, TypeOK, threadVars
  <2> QED
    BY <1>3, <2>1, <2>2, <2>3 DEF Environment
<1>4. CASE Thread
  <2>0. UNCHANGED <<now, envVars>>
    BY <1>4 DEF Thread
  <2>a. /\ exit' \in BOOLEAN /\ inOpen' \in BOOLEAN /\ outOpen' \in BOOLEAN
        /\ arrivals' = arrivals /\ arrivals' \in Seq(Batches) /\ taken' = taken /\ now \in Nat
    BY <2>0 DEF envVars, TypeOK, FilterTypeOK
  <2>b. /\ Len(arrivals) \in Nat /\ received \in 0..Len(arrivals) /\ received \in Nat
        /\ cur \in 0..received /\ cur \in Nat
    BY DEF TypeOK
  <2>1. CASE Top \/ RecvTimeout \/ RecvDisconnected \/ SweepTest \/ SweepLock \/ SweepStore \/ Cutoff \/ SendFailed
    <3>1. UNCHANGED <<received, queue, cur, verdict, forwarded, mirrored>>
      BY <2>1 DEF Top, RecvTimeout, AfterTimeout, RecvDisconnected, SweepTest, SweepLock, SweepStore, Cutoff, SendFailed
    <3>2. pc' \in {"recv", "sweep", "sweepLock", "sweepStore", "cutoff", "release", "done"}
      BY <2>1 DEF Top, RecvTimeout, AfterTimeout, RecvDisconnected, SweepTest, SweepLock, SweepStore, Cutoff, SendFailed
    <3>3. cutoff' \in Nat /\ sweptAt' \in Nat
      BY <2>1, <2>a DEF Top, RecvTimeout, AfterTimeout, RecvDisconnected, SweepTest, SweepLock, SweepStore, Cutoff, SendFailed, TypeOK
    <3>4. CASE Top
      <4>1. queue # <<>> => Head(queue).release_at \in Nat
        <5>1. queue # <<>> => Head(queue) \in Entry
          BY PopFront DEF TypeOK
        <5> QED
          BY <5>1 DEF Entry
      <4>2. deadline' \in Nat
        BY <2>a, <3>4, <4>1, DelayAssumption DEF Top, Later, TypeOK
      <4> QED
        BY <1>0, <2>a, <3>1, <3>2, <3>3, <4>2 DEF TypeOK
    <3>5. CASE ~Top
      <4>1. deadline' \in Nat
        BY <2>1, <3>5 DEF RecvTimeout, AfterTimeout, RecvDisconnected, SweepTest, SweepLock, SweepStore, Cutoff, SendFailed, TypeOK
      <4> QED
        BY <1>0, <2>a, <3>1, <3>2, <3>3, <4>1 DEF TypeOK
    <3> QED
      BY <3>4, <3>5
  <2>2. CASE RecvOk
    <3>1. received' \in 0..Len(arrivals) /\ cur' \in 0..received' /\ deadline' \in Nat
      BY <2>2, <2>b DEF RecvOk
    <3> QED
      BY <1>0, <2>2, <2>a, <3>1 DEF RecvOk, TypeOK
  <2>3. CASE MirrorBatch
    <3>1. Len(arrivals[cur]) \in Nat
      BY <2>3, InHand DEF MirrorBatch
    <3>2. mirrored' \subseteq [id : Nat, index : Nat, at : Nat]
      BY <2>3, <2>a, <2>b, <3>1 DEF MirrorBatch, TypeOK, Indices
    <3> QED
      BY <1>0, <2>3, <2>a, <3>2 DEF MirrorBatch, TypeOK
  <2>4. CASE Push
    <3>1. [release_at |-> now + Delay, id |-> cur] \in Entry
      BY <2>a, <2>b, DelayAssumption DEF Entry
    <3>2. queue' \in Seq(Entry)
      BY <2>4, <3>1, AppendProperties DEF Push, Queued, TypeOK
    <3>3. cur' \in 0..received
      BY <2>4, <2>b DEF Push, Queued
    <3> QED
      BY <1>0, <2>4, <2>a, <3>2, <3>3 DEF Push, Queued, TypeOK
  <2>5. CASE Release
    <3>1. CASE queue # <<>> /\ Head(queue).release_at <= cutoff
      <4>1. queue' = Tail(queue) /\ cur' = Head(queue).id
        BY <2>5, <3>1 DEF Release
      <4>a. Head(queue) = queue[1] /\ 1 \in 1..Len(queue) /\ Head(queue) \in Entry /\ Tail(queue) \in Seq(Entry)
        BY <3>1, PopFront DEF TypeOK
      <4>2. /\ queue' \in Seq(Entry)
            /\ cur' \in Nat /\ cur' = queue[1].id /\ 1 \in 1..Len(queue)
        BY <4>1, <4>a DEF Entry
      <4>3. Releasing = 0 /\ Accepting = 0
        BY <2>5 DEF Release, Releasing, Accepting
      <4>4. queue[1].id = Len(forwarded) + 1 /\ Len(forwarded) + Len(queue) = received
        <5>1. Len(forwarded) \in Nat /\ Len(queue) \in Nat
          BY DEF TypeOK
        <5> QED
          BY <2>5, <4>2, <4>3, <5>1 DEF InOrderOnce, Release, Indices
      <4>5. cur' <= received
        <5>1. Len(forwarded) \in Nat /\ Len(queue) \in Nat
          BY DEF TypeOK
        <5> QED
          BY <4>2, <4>4, <5>1
      <4> QED
        BY <1>0, <2>5, <2>a, <3>1, <4>2, <4>5 DEF Release, TypeOK
    <3>2. CASE ~(queue # <<>> /\ Head(queue).release_at <= cutoff)
      BY <1>0, <2>5, <2>a, <3>2 DEF Release, TypeOK
    <3> QED
      BY <3>1, <3>2
  <2>6. CASE FilterTest \/ FilterScan
    <3>1. arrivals[cur] \in Seq(Packet)
      BY <2>6, InHand DEF FilterTest, FilterScan
    <3>2. DiscardFiltered(arrivals[cur], Blocked) \in Seq(Packet)
      BY <3>1, DiscardFilteredProperties
    <3>3. Decide(arrivals[cur]) \in Verdict /\ Decide(DiscardFiltered(arrivals[cur], Blocked)) \in Verdict
      BY <2>b, <3>1, <3>2, DecideType DEF TypeOK
    <3>4. verdict' \in Verdict
      BY <2>6, <3>3 DEF FilterTest, FilterScan, TypeOK
    <3>5. cur' \in 0..received /\ pc' \in {"scan", "send"}
      BY <2>6, <2>b DEF FilterTest, FilterScan
    <3> QED
      BY <1>0, <2>6, <2>a, <3>4, <3>5 DEF FilterTest, FilterScan, TypeOK
  <2>7. CASE Send
    <3>1. [id |-> verdict.id, packets |-> verdict.packets] \in SentBatch
      BY DEF TypeOK, Verdict, SentBatch
    <3>2. /\ forwarded' \in Seq(SentBatch)
          /\ Len(forwarded') = Len(forwarded) + 1 /\ Len(forwarded) \in Nat
      BY <2>7, <3>1, AppendProperties DEF Send, TypeOK
    <3>3. taken' \in 0..Len(forwarded')
      BY <2>a, <3>2 DEF TypeOK
    <3>4. verdict' \in Verdict
      <4>1. <<>> \in Seq(Packet)
        OBVIOUS
      <4> QED
        BY <2>7, <4>1 DEF Send, noVerdict, Verdict
    <3>5. mirrored' \subseteq [id : Nat, index : Nat, at : Nat]
      BY <2>7 DEF Send, TypeOK
    <3> QED
      BY <1>0, <2>7, <2>a, <3>2, <3>3, <3>4, <3>5 DEF Send, TypeOK
  <2> QED
    BY <1>4, <2>1, <2>2, <2>3, <2>4, <2>5, <2>6, <2>7 DEF Thread, FreeStep, LockStep
<1> QED
  BY <1>1, <1>2, <1>3, <1>4 DEF Next

\* `len' is zero exactly when the map it was taken from is empty.
LEMMA CardinalityZero ==
    ASSUME NEW S, IsFiniteSet(S)
    PROVE  Cardinality(S) \in Nat /\ (Cardinality(S) = 0 <=> S = {})
    BY FS_CardinalityType, FS_EmptySet

\* The filter set keeps its invariant, whoever works on it.
LEMMA FilterStep ==
    ASSUME TypeOK, FilterInv, SweepInv, [Next]_vars
    PROVE  FilterInv'
<1>t. /\ now \in Nat /\ TTL \in Nat /\ TTL > 0 /\ len \in Nat
      /\ \A s \in DOMAIN map : map[s] \in Nat
      /\ \A s \in DOMAIN published : published[s].at \in Nat /\ published[s].since \in Nat
      /\ DOMAIN map \subseteq Signatures /\ inserting.at \in Nat
  BY TTLAssumption DEF TypeOK, FilterTypeOK, Insertion
<1>1. CASE UNCHANGED <<now, filterVars>>
  BY <1>1 DEF filterVars, FilterInv, InProgress
<1>2. ASSUME NEW s \in Signatures, Insert(s) PROVE FilterInv'
  <2>1. /\ lock = "free" /\ lock' = "mirror" /\ inserting' = [sig |-> s, at |-> now]
        /\ map' = Put(map, s, now) /\ UNCHANGED <<now, len, published>>
    BY <1>2 DEF Insert, InsertEntry
  <2>2. /\ DOMAIN map' = DOMAIN map \cup {s} /\ map'[s] = now
        /\ \A x \in DOMAIN map : x # s => map'[x] = map[x]
    BY <2>1 DEF Put
  <2>3. IsFiniteSet(DOMAIN map')
    BY <2>2, FS_AddElement DEF FilterInv
  <2>4. len = 0 => DOMAIN map = {}
    BY <2>1, CardinalityZero, Zenon DEF FilterInv
  <2>5. \A x \in DOMAIN published : now < published[x].at + TTL =>
            x \in DOMAIN map' /\ published[x].at <= map'[x] /\ len # 0
    BY <1>t, <2>1, <2>2 DEF FilterInv
  <2>6. \A x \in DOMAIN map' : InProgress(x)' \/ (x \in DOMAIN published /\ map'[x] <= published[x].since)
    BY <2>1, <2>2 DEF FilterInv, InProgress
  <2> QED
    BY <1>t, <2>1, <2>2, <2>3, <2>4, <2>5, <2>6 DEF FilterInv, InProgress
<1>3. CASE Publish
  <2>1. /\ lock = "mirror" /\ lock' = "free" /\ len' = Cardinality(DOMAIN map)
        /\ published' = Put(published, inserting.sig, [at |-> inserting.at, since |-> now])
        /\ UNCHANGED <<now, map>>
    BY <1>3 DEF Publish, InsertPublish, LenAfterInsert
  <2>2. /\ DOMAIN published' = DOMAIN published \cup {inserting.sig}
        /\ published'[inserting.sig] = [at |-> inserting.at, since |-> now]
        /\ \A x \in DOMAIN published : x # inserting.sig => published'[x] = published[x]
    BY <2>1, SMTT(30) DEF Put
  <2>3. /\ inserting.sig \in DOMAIN map /\ map[inserting.sig] = inserting.at /\ inserting.at <= now
        /\ IsFiniteSet(DOMAIN map)
    BY <2>1, Zenon DEF FilterInv
  <2>4. len' # 0 /\ len' \in Nat
    BY <2>1, <2>3, CardinalityZero
  <2>5. \A x \in DOMAIN published' : published'[x].at <= now /\ published'[x].since <= now
    BY <1>t, <2>2, <2>3 DEF FilterInv
  <2>6. \A x \in DOMAIN published' : now < published'[x].at + TTL =>
            x \in DOMAIN map /\ published'[x].at <= map[x]
    BY <1>t, <2>2, <2>3 DEF FilterInv
  <2>7. \A x \in DOMAIN map : x \in DOMAIN published' /\ map[x] <= published'[x].since
    BY <1>t, <2>2, <2>3 DEF FilterInv, InProgress
  <2> QED
    BY <2>1, <2>3, <2>4, <2>5, <2>6, <2>7 DEF FilterInv
<1>4. CASE Clock
  <2>1. now' = now + 1 /\ UNCHANGED <<map, len, lock, inserting, published>>
    BY <1>4 DEF Clock, Tick, filterVars
  <2>2. /\ lock = "mirror" => inserting.at <= now'
        /\ \A s \in DOMAIN published : published[s].at <= now' /\ published[s].since <= now'
        /\ \A s \in DOMAIN published : now' < published[s].at + TTL => now < published[s].at + TTL
    BY <1>t, <2>1, SMTT(30) DEF FilterInv
  <2> QED
    BY <2>1, <2>2 DEF FilterInv, InProgress
<1>5. CASE SweepLock /\ UNCHANGED now
  <2>1. /\ lock = "free" /\ lock' = "relayer" /\ UNCHANGED <<now, len, inserting, published>>
        /\ map' = [s \in {x \in DOMAIN map : now - map[x] < TTL} |-> map[s]]
    BY <1>5 DEF SweepLock, SweepRetain
  <2>2. /\ DOMAIN map' \subseteq DOMAIN map
        /\ \A s \in DOMAIN map' : map'[s] = map[s]
        /\ \A s \in DOMAIN map : now - map[s] < TTL => s \in DOMAIN map'
    BY <2>1, SMTT(30)
  <2>3. IsFiniteSet(DOMAIN map')
    BY <2>2, FS_Subset, SMTT(30) DEF FilterInv
  <2>4. len = 0 => DOMAIN map = {}
    BY <2>1, CardinalityZero, Zenon DEF FilterInv
  <2>5. \A s \in DOMAIN published : now < published[s].at + TTL =>
            s \in DOMAIN map' /\ published[s].at <= map'[s] /\ len # 0
    BY <1>t, <2>2 DEF FilterInv
  <2>6. \A s \in DOMAIN map' : s \in DOMAIN published /\ map'[s] <= published[s].since
    BY <2>1, <2>2 DEF FilterInv, InProgress
  <2> QED
    BY <2>1, <2>2, <2>3, <2>4, <2>5, <2>6 DEF FilterInv
<1>6. CASE SweepStore /\ UNCHANGED now
  <2>1. /\ lock = "relayer" /\ lock' = "free" /\ len' = Cardinality(DOMAIN map)
        /\ UNCHANGED <<now, map, inserting, published>>
    BY <1>6 DEF SweepStore, SweepPublish
  <2>2. len' \in Nat /\ (len' = 0 <=> DOMAIN map = {})
    BY <2>1, CardinalityZero, Zenon DEF FilterInv
  <2> QED
    BY <2>1, <2>2 DEF FilterInv, InProgress
<1> QED
  <2>1. CASE Thread
    BY <1>1, <1>5, <1>6, <2>1 DEF Thread, FreeStep, LockStep, SweepTest, FilterTest, FilterScan
  <2>2. CASE UNCHANGED vars \/ Environment
    BY <1>1, <2>2 DEF vars, Environment
  <2> QED
    BY <1>2, <1>3, <1>4, <2>1, <2>2 DEF Next

\* What a sweep leaves in the map stays recent until the release loop is over.
LEMMA SweepStep ==
    ASSUME TypeOK, FilterInv, SweepInv, [Next]_vars
    PROVE  SweepInv'
<1> DEFINE Swept == {"sweepStore", "cutoff", "release", "filter", "scan", "send"}
<1>t. /\ now \in Nat /\ TTL \in Nat /\ TTL > 0 /\ sweptAt \in Nat
      /\ \A s \in DOMAIN map : map[s] \in Nat
      /\ \A s \in DOMAIN published : published[s].since \in Nat
  BY TTLAssumption DEF TypeOK, FilterTypeOK, Insertion
<1>1. CASE UNCHANGED <<now, filterVars, pc, sweptAt>>
  BY <1>1 DEF filterVars, SweepInv, InProgress
<1>2. ASSUME NEW s \in Signatures, Insert(s) PROVE SweepInv'
  <2>1. /\ lock = "free" /\ lock' = "mirror" /\ inserting'.sig = s
        /\ map' = Put(map, s, now) /\ UNCHANGED <<now, published, pc, sweptAt>>
    BY <1>2, SMTT(30) DEF Insert, InsertEntry, threadVars
  <2>2. DOMAIN map' = DOMAIN map \cup {s}
    BY <2>1 DEF Put
  <2> QED
    BY <2>1, <2>2 DEF SweepInv, InProgress
<1>3. CASE Publish
  <2>1. /\ lock = "mirror" /\ lock' = "free" /\ UNCHANGED <<now, map, pc, sweptAt>>
        /\ published' = Put(published, inserting.sig, [at |-> inserting.at, since |-> now])
    BY <1>3 DEF Publish, InsertPublish, LenAfterInsert, threadVars
  <2>2. /\ DOMAIN published' = DOMAIN published \cup {inserting.sig}
        /\ published'[inserting.sig] = [at |-> inserting.at, since |-> now]
        /\ \A x \in DOMAIN published : x # inserting.sig => published'[x] = published[x]
    BY <2>1 DEF Put
  <2>3. published'[inserting.sig].since = now
    BY <2>2
  <2>4. ASSUME pc \in Swept, NEW s \in DOMAIN map
        PROVE  s \in DOMAIN published' /\ sweptAt < published'[s].since + TTL
    <3>1. CASE s = inserting.sig
      BY <1>t, <2>2, <2>3, <2>4, <3>1 DEF SweepInv
    <3>2. CASE s # inserting.sig
      BY <2>2, <2>4, <3>2 DEF SweepInv, InProgress
    <3> QED
      BY <3>1, <3>2
  <2> QED
    BY <2>1, <2>4 DEF SweepInv
<1>4. CASE Clock
  <2>1. now' = now + 1 /\ UNCHANGED <<map, lock, inserting, published, pc, sweptAt>>
    BY <1>4 DEF Clock, Tick, filterVars, threadVars
  <2> QED
    BY <1>t, <2>1 DEF SweepInv, InProgress
<1>5. CASE SweepTest /\ UNCHANGED now
  <2>1. CASE len = 0
    BY <1>t, <1>5, <2>1, SMTT(30) DEF SweepTest, IsEmpty, filterVars, SweepInv, FilterInv, InProgress
  <2>2. CASE len # 0
    BY <1>5, <2>2 DEF SweepTest, IsEmpty, filterVars, SweepInv
  <2> QED
    BY <2>1, <2>2
<1>6. CASE SweepLock /\ UNCHANGED now
  <2>1. /\ lock = "free" /\ lock' = "relayer" /\ UNCHANGED <<now, inserting, published>>
        /\ map' = [s \in {x \in DOMAIN map : now - map[x] < TTL} |-> map[s]]
        /\ sweptAt' = now /\ pc' = "sweepStore"
    BY <1>6 DEF SweepLock, SweepRetain
  <2>2. \A s \in DOMAIN map' : s \in DOMAIN map /\ now - map[s] < TTL
    BY <2>1
  <2>3. \A s \in DOMAIN map : s \in DOMAIN published /\ map[s] <= published[s].since
    BY <2>1 DEF FilterInv, InProgress
  <2>4. \A s \in DOMAIN map' : s \in DOMAIN published /\ now < published[s].since + TTL
    BY <1>t, <2>2, <2>3
  <2> QED
    BY <1>t, <2>1, <2>4 DEF SweepInv
<1>7. CASE SweepStore /\ UNCHANGED now
  BY <1>7 DEF SweepStore, SweepPublish, SweepInv, InProgress
<1>8. CASE /\ Top \/ RecvOk \/ RecvTimeout \/ RecvDisconnected \/ MirrorBatch \/ Push
             \/ Cutoff \/ Release \/ Send \/ SendFailed \/ FilterTest \/ FilterScan
           /\ UNCHANGED <<now, filterVars>>
  <2>1. /\ pc # "sweepStore" /\ pc' # "sweepStore"
        /\ pc' \in Swept => pc \in Swept /\ sweptAt' = sweptAt
        /\ UNCHANGED <<now, map, lock, inserting, published>>
    BY <1>8 DEF Top, RecvOk, RecvTimeout, AfterTimeout, RecvDisconnected, MirrorBatch, Push, Queued, Cutoff, Release,
                Send, SendFailed, FilterTest, FilterScan, filterVars
  <2> QED
    BY <2>1, SMTT(30) DEF SweepInv, InProgress
<1> QED
  <2>1. CASE Thread
    BY <1>5, <1>6, <1>7, <1>8, <2>1 DEF Thread, FreeStep, LockStep, FilterTest, FilterScan
  <2>2. CASE UNCHANGED vars \/ Environment
    BY <1>1, <2>2 DEF vars, Environment, threadVars
  <2> QED
    BY <1>2, <1>3, <1>4, <2>1, <2>2 DEF Next

\* From Mirror::send to discard_filtered at least Delay passes.
LEMMA DelayStep ==
    ASSUME TypeOK, InOrderOnce, DelayInv, [Next]_vars
    PROVE  DelayInv'
<1> USE DEF Indices
<1>t. /\ now \in Nat /\ Delay \in Nat /\ cutoff \in Nat
      /\ Len(queue) \in Nat /\ Len(forwarded) \in Nat /\ received \in Nat
  BY DelayAssumption DEF TypeOK, FilterTypeOK
<1>q. queue \in Seq(Entry)
  BY DEF TypeOK
<1>m. \A m \in mirrored : m.at \in Nat /\ m.id \in Nat
  BY DEF TypeOK
<1>1. CASE UNCHANGED <<now, pc, received, cur, cutoff, verdict, queue, mirrored>>
  BY <1>1 DEF DelayInv, ServerHasDelayToAnswer
<1>2. CASE Clock
  <2>1. now' = now + 1 /\ UNCHANGED <<pc, received, cur, cutoff, verdict, queue, mirrored>>
    BY <1>2 DEF Clock, Tick, threadVars
  <2> QED
    BY <1>t, <1>m, <2>1 DEF DelayInv, ServerHasDelayToAnswer
<1>3. CASE /\ Top \/ RecvOk \/ RecvTimeout \/ RecvDisconnected \/ SweepTest \/ SweepLock \/ SweepStore
             \/ Cutoff \/ SendFailed
           /\ UNCHANGED now
  <2>1. /\ UNCHANGED <<now, queue, mirrored>> /\ pc' \notin {"push", "filter", "scan", "send"}
        /\ pc' = "mirror" => cur' = received'
        /\ pc' = "release" => cutoff' = now
    BY <1>3, SMTT(30) DEF Top, RecvOk, RecvTimeout, AfterTimeout, RecvDisconnected, SweepTest, SweepLock, SweepStore, Cutoff, SendFailed
  <2> QED
    BY <1>t, <2>1 DEF DelayInv, ServerHasDelayToAnswer
<1>4. CASE MirrorBatch /\ UNCHANGED now
  <2>1. /\ pc = "mirror" /\ pc' = "push" /\ UNCHANGED <<now, queue, cur, received>>
        /\ \A m \in mirrored' : m \in mirrored \/ (m.id = cur /\ m.at = now)
    BY <1>4 DEF MirrorBatch
  <2>2. cur = received
    BY <2>1 DEF DelayInv
  <2>3. Releasing = 0 /\ Accepting = 1
    BY <2>1 DEF Releasing, Accepting
  <2>4. \A i \in 1..Len(queue) : queue[i].id # received
    BY <1>t, <2>1, <2>3 DEF InOrderOnce
  <2>5. \A m \in mirrored' : m.at <= now'
    BY <1>t, <2>1 DEF DelayInv
  <2>6. ASSUME NEW m \in mirrored', NEW i \in 1..Len(queue'), m.id = queue'[i].id
        PROVE  m.at + Delay <= queue'[i].release_at
    <3>1. m \in mirrored
      BY <2>1, <2>2, <2>4, <2>6
    <3> QED
      BY <2>1, <2>6, <3>1 DEF DelayInv
  <2>7. cur' = received' /\ pc' = "push"
    BY <2>1, <2>2
  <2> QED
    BY <2>5, <2>6, <2>7 DEF DelayInv, ServerHasDelayToAnswer
<1>5. CASE Push /\ UNCHANGED now
  <2>1. /\ pc' = "sweep" /\ UNCHANGED <<now, mirrored>>
        /\ Len(queue') = Len(queue) + 1
        /\ \A i \in 1..Len(queue) : queue'[i] = queue[i]
        /\ queue'[Len(queue) + 1].release_at = now + Delay
    BY <1>t, <1>q, <1>5 DEF Push, Queued
  <2>2. \A m \in mirrored : m.at + Delay <= now + Delay
    BY <1>t, <1>m DEF DelayInv
  <2>3. \A m \in mirrored : \A i \in 1..Len(queue') :
            m.id = queue'[i].id => m.at + Delay <= queue'[i].release_at
    BY <1>t, <2>1, <2>2 DEF DelayInv
  <2> QED
    BY <2>1, <2>3 DEF DelayInv, ServerHasDelayToAnswer
<1>6. CASE Release /\ UNCHANGED now
  <2>1. CASE queue # <<>> /\ Head(queue).release_at <= cutoff
    <3>1. /\ queue' = Tail(queue) /\ cur' = Head(queue).id /\ pc = "release" /\ pc' = "filter"
          /\ UNCHANGED <<now, cutoff, mirrored>>
      BY <1>6, <2>1 DEF Release
    <3>2. /\ Len(queue') = Len(queue) - 1 /\ 1 \in 1..Len(queue)
          /\ \A i \in 1..Len(queue) - 1 : queue'[i] = queue[i + 1]
          /\ cur' = queue[1].id /\ queue[1].release_at <= cutoff /\ queue[1] \in Entry
      BY <1>q, <2>1, <3>1, PopFront
    <3>3. queue[1].release_at \in Nat
      BY <3>2 DEF Entry
    <3>4. \A m \in mirrored : m.id = cur' => m.at + Delay <= cutoff
      BY <1>t, <1>m, <3>2, <3>3 DEF DelayInv
    <3>5. \A m \in mirrored : \A i \in 1..Len(queue') :
            m.id = queue'[i].id => m.at + Delay <= queue'[i].release_at
      BY <1>t, <3>2 DEF DelayInv
    <3> QED
      BY <3>1, <3>4, <3>5 DEF DelayInv, ServerHasDelayToAnswer
  <2>2. CASE ~(queue # <<>> /\ Head(queue).release_at <= cutoff)
    BY <1>6, <2>2 DEF Release, DelayInv, ServerHasDelayToAnswer
  <2> QED
    BY <2>1, <2>2
<1>7. CASE (FilterTest \/ FilterScan) /\ UNCHANGED now
  <2>1. /\ pc \in {"filter", "scan"} /\ pc' \in {"scan", "send"} /\ UNCHANGED <<now, queue, cutoff, mirrored>>
        /\ pc' = "scan" => cur' = cur
        /\ pc' = "send" => verdict'.id = cur /\ verdict'.decidedAt = now
    BY <1>7 DEF FilterTest, FilterScan, Decide
  <2> QED
    BY <1>t, <1>m, <2>1, SMTT(30) DEF DelayInv, ServerHasDelayToAnswer
<1>8. CASE Send /\ UNCHANGED now
  <2>1. /\ pc = "send" /\ pc' = "release" /\ UNCHANGED <<now, queue, cutoff>> /\ mirrored' \subseteq mirrored
    BY <1>8 DEF Send
  <2> QED
    BY <2>1 DEF DelayInv, ServerHasDelayToAnswer
<1> QED
  <2>1. CASE UNCHANGED vars \/ (\E s \in Signatures : Insert(s)) \/ Publish \/ Environment
    BY <1>1, <2>1 DEF vars, Insert, Publish, Environment, threadVars
  <2>2. CASE Thread
    BY <1>3, <1>4, <1>5, <1>6, <1>7, <1>8, <2>2 DEF Thread, FreeStep, LockStep
  <2> QED
    BY <1>2, <2>1, <2>2 DEF Next

\* What discard_filtered decides, on its shortcut and under the mutex, meets the
\* two properties of a verdict, and nothing changes the verdict until it is sent.
LEMMA VerdictStep ==
    ASSUME IInv, [Next]_vars
    PROVE  FreshFilterApplied' /\ OnlyRecentFiltersDiscard'
<1> USE DEF Indices
<1>i. TypeOK /\ InOrderOnce /\ FilterInv /\ SweepInv /\ DelayInv
      /\ FreshFilterApplied /\ OnlyRecentFiltersDiscard
  BY SMTT(30) DEF IInv
<1>1. CASE UNCHANGED <<pc, verdict, arrivals>>
  BY <1>1, <1>i DEF FreshFilterApplied, OnlyRecentFiltersDiscard
<1>2. ASSUME NEW b \in Batches, Arrive(b), UNCHANGED <<pc, verdict>>
      PROVE  FreshFilterApplied' /\ OnlyRecentFiltersDiscard'
  <2>1. pc = "send" => arrivals'[verdict.id] = arrivals[verdict.id]
    <3>1. arrivals \in Seq(Batches) /\ arrivals' = Append(arrivals, b)
      BY <1>2, <1>i DEF Arrive, TypeOK
    <3>2. pc = "send" => verdict.id \in 1..Len(arrivals)
      BY <1>i, InHand
    <3> QED
      BY <3>1, <3>2, AppendProperties
  <2> QED
    BY <1>2, <1>i, <2>1 DEF FreshFilterApplied, OnlyRecentFiltersDiscard
<1>3. CASE pc' # "send"
  BY <1>3 DEF FreshFilterApplied, OnlyRecentFiltersDiscard
<1>4. CASE (FilterTest \/ FilterScan) /\ pc' = "send" /\ UNCHANGED arrivals
  <2> DEFINE batch == arrivals[cur]
             recent == {s \in DOMAIN published : sweptAt < published[s].since + TTL}
  <2>0. pc \in {"filter", "scan"} /\ batch \in Seq(Packet)
    BY <1>4, <1>i, InHand DEF FilterTest, FilterScan
  <2>1. CASE FilterTest
    <3>1. len = 0 /\ verdict' = Decide(batch)
      BY <1>4, <2>1 DEF FilterTest, IsEmpty
    <3>2. verdict'.packets = batch /\ verdict'.id = cur /\ verdict'.fresh = Fresh
      BY <3>1 DEF Decide
    <3>3. Fresh = {}
      BY <1>i, <3>1 DEF Fresh, FilterInv
    <3> QED
      BY <1>4, <3>2, <3>3 DEF FreshFilterApplied, OnlyRecentFiltersDiscard
  <2>2. CASE FilterScan
    <3> DEFINE out == DiscardFiltered(batch, Blocked)
    <3>1. lock = "free" /\ pc = "scan" /\ verdict' = Decide(out)
      BY <2>2, SMTT(30) DEF FilterScan
    <3>2. /\ verdict'.packets = out /\ verdict'.id = cur
          /\ verdict'.fresh = Fresh /\ verdict'.recent = recent
      BY <3>1 DEF Decide
    <3>3. Fresh \subseteq Blocked
      BY <1>i, SMTT(30) DEF Fresh, FilterInv, Blocked
    <3>4. Blocked \subseteq recent
      BY <1>i, <3>1 DEF Blocked, SweepInv, InProgress
    <3>5. /\ Len(out) = Len(batch)
          /\ \A j \in 1..Len(batch) :
                /\ out[j].sig = batch[j].sig
                /\ out[j].discard <=> batch[j].discard \/ batch[j].sig \in Blocked
      BY <2>0, DiscardFilteredProperties
    <3> HIDE DEF out, recent, batch
    <3>6. FreshFilterApplied'
      BY <3>2, <3>3, <3>5 DEF FreshFilterApplied
    <3>7. arrivals'[verdict'.id] = batch
      BY <1>4, <3>2 DEF batch
    <3>8. OnlyRecentFiltersDiscard'
      BY <3>2, <3>4, <3>5, <3>7 DEF OnlyRecentFiltersDiscard
    <3> QED
      BY <3>6, <3>8
  <2> QED
    BY <1>4, <2>1, <2>2
<1> QED
  <2>1. CASE UNCHANGED vars \/ (\E s \in Signatures : Insert(s)) \/ Publish \/ Clock
    BY <1>1, <2>1 DEF vars, Insert, Publish, Clock, threadVars, envVars
  <2>2. CASE Environment
    BY <1>1, <1>2, <2>2 DEF Environment, threadVars, CloseInput, SetExit, Take, CloseOutput, EventLoopEnds
  <2>3. CASE Thread
    <3>1. arrivals' = arrivals
      BY <2>3, SMTT(30) DEF Thread, envVars
    <3>2. pc' # "send" \/ FilterTest \/ FilterScan
      BY <2>3 DEF Thread, FreeStep, LockStep, Top, RecvOk, RecvTimeout, AfterTimeout, RecvDisconnected, MirrorBatch,
                  Push, Queued, SweepTest, SweepLock, SweepStore, Cutoff, Release, Send, SendFailed
    <3> QED
      BY <1>3, <1>4, <3>1, <3>2
  <2> QED
    BY <2>1, <2>2, <2>3 DEF Next

\* Every step preserves the inductive invariant.
LEMMA NextIInv == IInv /\ [Next]_vars => IInv'
<1> SUFFICES ASSUME IInv, [Next]_vars PROVE IInv'
  OBVIOUS
<1>1. TypeOK /\ InOrderOnce /\ FilterInv /\ SweepInv /\ DelayInv
  BY DEF IInv
<1>2. TypeOK' /\ InOrderOnce' /\ FilterInv' /\ SweepInv' /\ DelayInv'
  BY <1>1, TypeStep, OrderStep, FilterStep, SweepStep, DelayStep
<1>3. FreshFilterApplied' /\ OnlyRecentFiltersDiscard'
  BY VerdictStep
<1> QED
  BY <1>2, <1>3 DEF IInv

-----------------------------------------------------------------------------
(* The theorems.                                                           *)

\* The inductive invariant holds in every reachable state.
THEOREM Invariance == Spec => []IInv
  BY InitIInv, NextIInv, PTL DEF Spec

\* The delay thread and the filter set stay within their types, for every set
\* of batches, delay, TTL and channel capacity.
THEOREM TypeCorrect == Spec => []TypeOK
<1>1. IInv => TypeOK
  BY DEF IInv
<1> QED
  BY <1>1, Invariance, PTL

\* is_empty's unlocked read of `len' never hides a filter younger than TTL
\* (FilterSet::insert, sweep and is_empty).
THEOREM FilterIndexSoundness == Spec => []FilterIndexSound
<1>1. IInv => FilterIndexSound
  BY DEF IInv, FilterInv, FilterIndexSound, Fresh, IsEmpty
<1> QED
  BY <1>1, Invariance, PTL

\* A batch is decided on at least Delay after its packets were mirrored
\* (spawn_relayer_delay).
THEOREM ServerDelay == Spec => []ServerHasDelayToAnswer
<1>1. IInv => ServerHasDelayToAnswer
  BY DEF IInv, DelayInv
<1> QED
  BY <1>1, Invariance, PTL

\* discard_filtered discards every packet with a filter younger than TTL.
THEOREM FreshFiltersAreApplied == Spec => []FreshFilterApplied
<1>1. IInv => FreshFilterApplied
  BY DEF IInv
<1> QED
  BY <1>1, Invariance, PTL

\* discard_filtered changes nothing but the discard flag of packets whose filter
\* completed less than TTL before the iteration's sweep.
THEOREM OnlyRecentFiltersAct == Spec => []OnlyRecentFiltersDiscard
<1>1. IInv => OnlyRecentFiltersDiscard
  BY DEF IInv
<1> QED
  BY <1>1, Invariance, PTL

\* The delay queue loses, repeats and reorders no batch while the thread runs
\* (spawn_relayer_delay).
THEOREM DeliveryOrder == Spec => []InOrderOnce
<1>1. IInv => InOrderOnce
  BY DEF IInv
<1> QED
  BY <1>1, Invariance, PTL

-----------------------------------------------------------------------------
(* The delay thread implements DelayLine.                                  *)

\* A verdict exists from the decision to the send, and is the next to be sent;
\* also when the thread has ended before it could send it.
VerdictInv ==
    /\ verdict.id # 0 => pc \in {"send", "done"} /\ verdict.id = Len(forwarded) + 1
    /\ Len(forwarded) + (IF verdict.id = 0 THEN 0 ELSE 1) <= received

\* A sequence with one element behind it, or none.
LEMMA OneMore ==
    ASSUME NEW n \in Nat, NEW f, f = [i \in 1..n |-> f[i]], NEW e
    PROVE  /\ f \o <<>> = f
           /\ f \o <<e>> = Append(f, e)
           /\ f \o <<e>> = [i \in 1..(n + 1) |-> IF i = n + 1 THEN e ELSE f[i]]
<1> DEFINE S == {f[i] : i \in 1..n} \cup {e}
<1>1. f \in [1..n -> S]
  OBVIOUS
<1>2. f \in Seq(S) /\ Len(f) = n /\ e \in S
  BY <1>1
<1> HIDE DEF S
<1>3. f \o <<>> = f
  BY <1>2, ConcatEmptySeq
<1>4. f \o <<e>> = Append(f, e)
  BY <1>2, AppendIsConcat
<1>5. /\ Append(f, e) \in Seq(S) /\ Len(Append(f, e)) = n + 1
      /\ \A i \in 1..n : Append(f, e)[i] = f[i]
      /\ Append(f, e)[n + 1] = e
  BY <1>2, AppendProperties
<1>6. Append(f, e) = [i \in 1..(n + 1) |-> Append(f, e)[i]]
  BY <1>5
<1>7. [i \in 1..(n + 1) |-> Append(f, e)[i]] = [i \in 1..(n + 1) |-> IF i = n + 1 THEN e ELSE f[i]]
  BY <1>5
<1> QED
  BY <1>3, <1>4, <1>6, <1>7

\* What VerdictInv says is preserved by every step.
LEMMA VerdictInvStep ==
    ASSUME IInv, IInv', VerdictInv, [Next]_vars
    PROVE  VerdictInv'
<1>1. /\ Len(forwarded) \in Nat /\ received \in Nat /\ Len(forwarded') \in Nat /\ received' \in Nat
      /\ Len(queue') \in Nat
  BY DEF IInv, TypeOK
<1>2. CASE UNCHANGED <<received, verdict, forwarded>> /\ (pc' = pc \/ pc' = "done" \/ verdict.id = 0)
  BY <1>2 DEF VerdictInv
<1>3. CASE RecvOk
  <2>1. /\ received' = received + 1 /\ UNCHANGED <<verdict, forwarded>> /\ verdict.id = 0
        /\ Len(forwarded) <= received
    BY <1>1, <1>3 DEF VerdictInv, RecvOk
  <2> QED
    BY <1>1, <2>1 DEF VerdictInv
<1>4. CASE verdict'.id = 0 /\ pc' # "done"
  <2>1. Releasing' \in 0..1 /\ Accepting' \in 0..1
    BY DEF Releasing, Accepting
  <2>2. Len(forwarded') + Releasing' + Len(queue') + Accepting' = received'
    BY <1>4 DEF IInv, InOrderOnce
  <2> QED
    BY <1>1, <1>4, <2>1, <2>2 DEF VerdictInv
<1>5. CASE pc' = "send"
  BY <1>1, <1>5 DEF IInv, InOrderOnce, VerdictInv, Releasing, Accepting
<1>6. CASE Thread
  <2>1. CASE FilterTest \/ FilterScan
    <3>1. pc \in {"filter", "scan"} /\ (pc' = "send" \/ (pc' = "scan" /\ verdict' = verdict))
      BY <2>1 DEF FilterTest, FilterScan
    <3> QED
      BY <3>1, <1>4, <1>5 DEF VerdictInv
  <2>2. CASE Send
    BY <2>2, <1>4 DEF Send, noVerdict
  <2>3. CASE SendFailed
    BY <2>3, <1>2 DEF SendFailed
  <2>4. CASE \/ Top \/ RecvTimeout \/ RecvDisconnected \/ MirrorBatch \/ Push \/ Cutoff \/ Release
             \/ SweepTest \/ SweepStore \/ SweepLock
    <3>1. pc \notin {"send", "done"} /\ UNCHANGED <<received, verdict, forwarded>>
      BY <2>4 DEF Top, RecvTimeout, RecvDisconnected, MirrorBatch, Push, Cutoff, Release,
                  SweepTest, SweepStore, SweepLock
    <3> QED
      BY <3>1, <1>2 DEF VerdictInv
  <2> QED
    BY <1>3, <1>6, <2>1, <2>2, <2>3, <2>4 DEF Thread, FreeStep, LockStep
<1>7. CASE ~Thread
  <2>1. UNCHANGED threadVars
    BY <1>7 DEF Next, Insert, Publish, Clock, Environment, vars
  <2> QED
    BY <2>1, <1>2 DEF threadVars
<1> QED
  BY <1>6, <1>7

\* The parts of the line that a step leaves alone.
LEMMA LineFrame ==
    /\ arrivals' = arrivals => Offered' = Offered
    /\ UNCHANGED <<received, pc>> => Passed' = Passed
    /\ queue' = queue => Held' = Held
    /\ UNCHANGED <<pc, cur>> => Deciding' = Deciding
    /\ UNCHANGED <<arrivals, forwarded, verdict>> => Decided' = Decided
    /\ published' = published => Suppressed' = Suppressed
<1>1. arrivals' = arrivals => Offered' = Offered
  BY DEF Offered, Indices, ItemOf, UnitOf
<1>2. queue' = queue => Held' = Held
  BY DEF Held, Indices
<1>3. UNCHANGED <<arrivals, forwarded, verdict>> => Decided' = Decided
  BY DEF Decided, OutOf, Indices
<1> QED
  BY <1>1, <1>2, <1>3 DEF Passed, Accepting, Deciding, Suppressed

\* The line starts empty.
LEMMA LineInit == Init => Line!Init
<1> SUFFICES ASSUME Init PROVE Line!Init
  OBVIOUS
<1>1. Passed = 0 /\ Deciding = 0 /\ Running
  <2>1. pc = "top" /\ received = 0
    BY DEF Init
  <2>2. Accepting = 0
    BY <2>1 DEF Accepting
  <2> QED
    BY <2>1, <2>2 DEF Passed, Deciding, Running
<1>4. Offered = <<>>
  BY DEF Init, Offered, Indices
<1>5. Held = <<>>
  BY DEF Init, Held, Indices
<1>2. Decided = <<>>
  <2>1. [i \in Indices(forwarded) |-> OutOf(forwarded[i])] = <<>> /\ verdict.id = 0
    BY DEF Init, Indices, noVerdict
  <2> QED
    BY <2>1 DEF Decided
<1>3. Suppressed = [s \in {} |-> 0] /\ now = 0
  BY DEF Init, FilterInit, Suppressed
<1> QED
  BY <1>1, <1>2, <1>3, <1>4, <1>5 DEF Line!Init, Running

\* The steps of the thread that the line does not see, and those that end it.
LEMMA QuietOrClose ==
    ASSUME IInv, UNCHANGED <<now, envVars>>,
           \/ /\ Top \/ RecvOk \/ RecvTimeout \/ RecvDisconnected \/ MirrorBatch \/ Cutoff \/ SendFailed
              /\ UNCHANGED filterVars
           \/ SweepTest \/ SweepStore \/ SweepLock
    PROVE  Line!Close \/ UNCHANGED Line!vars
<1>1. /\ UNCHANGED <<now, arrivals, queue, forwarded, verdict, published>>
      /\ pc \notin {"filter", "scan", "done"} /\ pc' \notin {"filter", "scan"}
  <2>1. UNCHANGED <<arrivals, published>>
    BY DEF envVars, filterVars, SweepTest, SweepStore, SweepLock, SweepPublish, SweepRetain
  <2>2. UNCHANGED <<queue, forwarded, verdict>>
    BY DEF Top, RecvOk, RecvTimeout, RecvDisconnected, MirrorBatch, Cutoff, SendFailed, SweepTest,
           SweepStore, SweepLock
  <2>3. pc \notin {"filter", "scan", "done"} /\ pc' \notin {"filter", "scan"}
    BY DEF Top, RecvOk, RecvTimeout, RecvDisconnected, MirrorBatch, Cutoff, SendFailed, SweepTest,
           SweepStore, SweepLock, AfterTimeout
  <2> QED
    BY <2>1, <2>2, <2>3
<1>2. /\ Offered' = Offered /\ Held' = Held /\ Decided' = Decided /\ Suppressed' = Suppressed
      /\ Deciding' = Deciding
  BY <1>1, LineFrame DEF Deciding
<1>3. Passed' = Passed
  <2>1. received \in Nat
    BY DEF IInv, TypeOK
  <2>2. CASE RecvOk
    <3>1. received' = received + 1 /\ pc = "recv" /\ pc' = "mirror"
      BY <2>2 DEF RecvOk
    <3> QED
      BY <2>1, <3>1 DEF Passed, Accepting
  <2>3. CASE MirrorBatch
    <3>1. received' = received /\ pc = "mirror" /\ pc' = "push"
      BY <2>3 DEF MirrorBatch
    <3> QED
      BY <3>1 DEF Passed, Accepting
  <2>4. CASE Top \/ RecvTimeout \/ RecvDisconnected \/ Cutoff \/ SendFailed
              \/ SweepTest \/ SweepStore \/ SweepLock
    <3>1. /\ received' = received
          /\ pc \notin {"mirror", "push"} /\ pc' \notin {"mirror", "push"}
      BY <2>4 DEF Top, RecvTimeout, RecvDisconnected, Cutoff, SendFailed,
                  SweepTest, SweepStore, SweepLock, AfterTimeout
    <3> QED
      BY <3>1 DEF Passed, Accepting
  <2> QED
    BY <2>2, <2>3, <2>4
<1>4. Running
  BY <1>1 DEF Running
<1>5. CASE Running'
  BY <1>1, <1>2, <1>3, <1>4, <1>5 DEF Line!vars, Running
<1>6. CASE ~Running'
  BY <1>1, <1>2, <1>3, <1>4, <1>6 DEF Line!Close, Running
<1> QED
  BY <1>5, <1>6

\* queue.push_back is the line's Accept: the batch pushed is the next one, and
\* it is held from now on.
LEMMA PushAccepts ==
    ASSUME IInv, Push, UNCHANGED <<now, filterVars, envVars>>
    PROVE  Line!Accept
<1>1. /\ pc = "push" /\ pc' = "sweep" /\ queue' = Append(queue, [release_at |-> now + Delay, id |-> cur])
      /\ UNCHANGED <<now, arrivals, received, forwarded, verdict, published>>
  BY DEF envVars, Push, Queued, filterVars
<1>2. /\ Offered' = Offered /\ Decided' = Decided /\ Suppressed' = Suppressed
      /\ Deciding' = Deciding /\ Running /\ Running'
  BY <1>1, LineFrame DEF Deciding, Running
<1>3. /\ received \in Nat /\ received >= 1 /\ cur = received /\ received <= Len(arrivals)
      /\ Len(arrivals) \in Nat /\ now \in Nat /\ Delay \in Nat
  <2>1. cur \in 1..Len(arrivals) /\ cur = received
    BY <1>1, InHand DEF IInv, DelayInv
  <2> QED
    BY <2>1, DelayAssumption DEF IInv, TypeOK, FilterTypeOK
<1>4. Passed = received - 1 /\ Passed' = received
  BY <1>1, <1>3 DEF Passed, Accepting
<1>5. Offered = [i \in 1..Len(arrivals) |-> ItemOf(arrivals[i])] /\ Len(Offered) = Len(arrivals)
  BY <1>3 DEF Offered, Indices
<1>6. Held' = Append(Held, [id |-> received, since |-> now])
  <2>1. /\ queue \in Seq(Entry) /\ Len(queue) \in Nat /\ Len(queue') = Len(queue) + 1
        /\ \A i \in 1..Len(queue) : queue'[i] = queue[i]
        /\ queue'[Len(queue) + 1] = [release_at |-> now + Delay, id |-> cur]
    BY <1>1 DEF IInv, TypeOK
  <2>2. PICK n \in Nat : n = Len(queue)
    BY <2>1
  <2>3. PICK e : e = [id |-> received, since |-> now]
    OBVIOUS
  <2>4. Held = [i \in 1..n |-> Held[i]]
    BY <2>2 DEF Held, Indices
  <2>5. Append(Held, e) = [i \in 1..(n + 1) |-> IF i = n + 1 THEN e ELSE Held[i]]
    BY <2>4, OneMore
  <2>6. Held' = [i \in 1..(n + 1) |-> IF i = n + 1 THEN e ELSE Held[i]]
    <3>1. Held' = [i \in 1..(n + 1) |->
                     [id |-> queue'[i].id, since |-> queue'[i].release_at - Delay]]
      BY <2>1, <2>2 DEF Held, Indices
    <3>2. ASSUME NEW i \in 1..(n + 1)
          PROVE  [id |-> queue'[i].id, since |-> queue'[i].release_at - Delay]
                    = IF i = n + 1 THEN e ELSE Held[i]
      <4>1. CASE i = n + 1
        BY <4>1, <2>1, <2>2, <2>3, <1>3
      <4>2. CASE i # n + 1
        <5>1. i \in 1..Len(queue)
          BY <4>2, <2>2
        <5> QED
          BY <5>1, <4>2, <2>1 DEF Held, Indices
      <4> QED
        BY <4>1, <4>2
    <3> QED
      BY <3>1, <3>2
  <2> QED
    BY <2>3, <2>5, <2>6
<1>7. Passed < Len(Offered) /\ Passed' = Passed + 1 /\ Passed + 1 = received
  BY <1>3, <1>4, <1>5
<1> QED
  BY <1>1, <1>2, <1>6, <1>7 DEF Line!Accept, Running

\* A sequence without its first element.
LEMMA OneLess ==
    ASSUME NEW n \in Nat \ {0}, NEW f, f = [i \in 1..n |-> f[i]]
    PROVE  f # <<>> /\ Head(f) = f[1] /\ Tail(f) = [i \in 1..(n - 1) |-> f[i + 1]]
<1> DEFINE S == {f[i] : i \in 1..n}
<1>1. f \in [1..n -> S]
  OBVIOUS
<1>2. f \in Seq(S) /\ Len(f) = n
  BY <1>1
<1> HIDE DEF S
<1>3. f # <<>>
  BY <1>2
<1>4. /\ Head(f) = f[1] /\ Tail(f) \in Seq(S) /\ Len(Tail(f)) = n - 1
      /\ \A i \in 1..(n - 1) : Tail(f)[i] = f[i + 1]
  BY <1>2, <1>3, PopFront
<1>5. Tail(f) = [i \in 1..(n - 1) |-> Tail(f)[i]]
  BY <1>4
<1>6. [i \in 1..(n - 1) |-> Tail(f)[i]] = [i \in 1..(n - 1) |-> f[i + 1]]
  BY <1>4
<1> QED
  BY <1>3, <1>4, <1>5, <1>6

\* The release loop takes the front only when it is due; leaving the loop is
\* nothing to the line.
LEMMA ReleaseReleases ==
    ASSUME IInv, Release, UNCHANGED <<now, filterVars, envVars>>
    PROVE  Line!Release \/ UNCHANGED Line!vars
<1>1. /\ pc = "release" /\ cutoff <= now
      /\ UNCHANGED <<now, arrivals, received, forwarded, verdict, published>>
  BY DEF IInv, DelayInv, envVars, Release, filterVars
<1>2. /\ Offered' = Offered /\ Decided' = Decided /\ Suppressed' = Suppressed
      /\ Deciding = 0 /\ Running /\ Running'
  BY <1>1, LineFrame DEF Deciding, Running, Release
<1>3. Passed' = Passed
  BY <1>1 DEF Passed, Accepting, Release
<1>4. CASE ~(queue # <<>> /\ Head(queue).release_at <= cutoff)
  <2>1. queue' = queue /\ pc' = "top"
    BY <1>4 DEF Release
  <2>2. Held' = Held /\ Deciding' = 0
    BY <2>1, LineFrame DEF Deciding
  <2> QED
    BY <1>1, <1>2, <1>3, <2>2 DEF Line!vars, Running
<1>5. CASE queue # <<>> /\ Head(queue).release_at <= cutoff
  <2>1. /\ queue' = Tail(queue) /\ pc' = "filter" /\ cur' = Head(queue).id
        /\ queue \in Seq(Entry)
    BY <1>5 DEF Release, IInv, TypeOK
  <2>2. /\ Head(queue) = queue[1] /\ 1 \in 1..Len(queue) /\ Len(Tail(queue)) = Len(queue) - 1
        /\ \A i \in 1..(Len(queue) - 1) : Tail(queue)[i] = queue[i + 1]
        /\ queue[1] \in Entry
    BY <1>5, <2>1, PopFront
  <2>3. PICK n \in Nat \ {0} : n = Len(queue)
    BY <2>1, <2>2
  <2>4. Held = [i \in 1..n |-> Held[i]] /\ Held[1] = [id |-> queue[1].id, since |-> queue[1].release_at - Delay]
    BY <2>2, <2>3 DEF Held, Indices
  <2>5. Held # <<>> /\ Head(Held) = Held[1] /\ Tail(Held) = [i \in 1..(n - 1) |-> Held[i + 1]]
    BY <2>4, OneLess
  <2>6. Held' = [i \in 1..(n - 1) |-> Held[i + 1]]
    <3>1. Held' = [i \in 1..(n - 1) |->
                     [id |-> queue'[i].id, since |-> queue'[i].release_at - Delay]]
      BY <2>1, <2>2, <2>3 DEF Held, Indices
    <3>2. ASSUME NEW i \in 1..(n - 1)
          PROVE  [id |-> queue'[i].id, since |-> queue'[i].release_at - Delay] = Held[i + 1]
      <4>1. queue'[i] = queue[i + 1] /\ i + 1 \in 1..Len(queue)
        BY <2>1, <2>2, <2>3
      <4> QED
        BY <4>1 DEF Held, Indices
    <3> QED
      BY <3>1, <3>2
  <2>7. Head(Held).id = cur' /\ Head(Held).since + Delay <= now
    <3>1. queue[1].release_at \in Nat /\ queue[1].release_at <= cutoff /\ cutoff \in Nat /\ now \in Nat
      BY <1>5, <2>2 DEF Entry, IInv, TypeOK, FilterTypeOK
    <3>2. queue[1].release_at <= now
      BY <1>1, <3>1
    <3> QED
      BY <2>1, <2>2, <2>4, <2>5, <3>1, <3>2, DelayAssumption
  <2>8. Deciding' = cur'
    BY <2>1 DEF Deciding
  <2> QED
    BY <1>1, <1>2, <1>3, <2>5, <2>6, <2>7, <2>8 DEF Line!Release, Running
<1> QED
  BY <1>4, <1>5

\* What DelayLine's Hit says of a batch: the packets not discarded before whose
\* signature is one of the given ones.
LEMMA HitPackets ==
    ASSUME NEW id \in 1..Len(arrivals), arrivals[id] \in Seq(Packet), NEW sigs \in SUBSET Signatures
    PROVE  Line!Hit(id, sigs)
              = {i \in Indices(arrivals[id]) : ~arrivals[id][i].discard /\ arrivals[id][i].sig \in sigs}
<1> DEFINE b == arrivals[id]
<1>1. Offered[id] = ItemOf(b)
  BY DEF Offered, Indices
<1>2. Len(b) \in Nat /\ ItemOf(b) = [i \in 1..Len(b) |-> UnitOf(b[i])]
  BY DEF ItemOf, Indices
<1>3. Len(ItemOf(b)) = Len(b)
  BY <1>2
<1>4. ASSUME NEW i \in 1..Len(b)
      PROVE  ItemOf(b)[i] \cap sigs # {} <=> ~b[i].discard /\ b[i].sig \in sigs
  <2>1. ItemOf(b)[i] = IF b[i].discard THEN {} ELSE {b[i].sig} \ {NoSig}
    BY <1>2 DEF UnitOf
  <2> QED
    BY <2>1, NoSigAssumption
<1> HIDE DEF b
<1>5. Line!Hit(id, sigs) = {i \in 1..Len(ItemOf(b)) : ItemOf(b)[i] \cap sigs # {}}
  BY <1>1 DEF Line!Hit
<1>6. Line!Hit(id, sigs) = {i \in 1..Len(b) : ~b[i].discard /\ b[i].sig \in sigs}
  BY <1>3, <1>4, <1>5
<1> QED
  BY <1>6 DEF b, Indices

\* What has been sent, in the line's terms.
SentOut == [i \in Indices(forwarded) |-> OutOf(forwarded[i])]

\* What is decided on is what was sent, and the verdict if there is one; in the
\* state before a step and in the one after it.
LEMMA DecidedForms ==
    ASSUME Len(forwarded) \in Nat, Len(forwarded') \in Nat
    PROVE  /\ verdict.id = 0 => Decided = SentOut
           /\ verdict.id # 0 => Decided = Append(SentOut, OutOf(verdict))
           /\ verdict'.id = 0 => Decided' = SentOut'
           /\ verdict'.id # 0 => Decided' = Append(SentOut', OutOf(verdict)')
<1>1. ASSUME NEW n \in Nat, NEW f, NEW v, f = [i \in 1..n |-> f[i]]
      PROVE  f \o <<>> = f /\ f \o <<v>> = Append(f, v)
  BY <1>1, OneMore
<1>2. SentOut = [i \in 1..Len(forwarded) |-> SentOut[i]]
  BY DEF SentOut, Indices
<1>3. SentOut' = [i \in 1..Len(forwarded') |-> SentOut'[i]]
  BY DEF SentOut, Indices
<1>4. /\ Decided = SentOut \o (IF verdict.id = 0 THEN <<>> ELSE <<OutOf(verdict)>>)
      /\ Decided' = SentOut' \o (IF verdict'.id = 0 THEN <<>> ELSE <<OutOf(verdict)'>>)
  BY DEF Decided, SentOut
<1>5. SentOut \o <<>> = SentOut /\ SentOut \o <<OutOf(verdict)>> = Append(SentOut, OutOf(verdict))
  BY <1>1, <1>2
<1>6. /\ SentOut' \o <<>> = SentOut'
      /\ SentOut' \o <<OutOf(verdict)'>> = Append(SentOut', OutOf(verdict)')
  BY <1>1, <1>3
<1> QED
  BY <1>4, <1>5, <1>6

\* discard_filtered, on either of its paths, is the line's Decide: what it newly
\* discards was hit by a filter, and it discards all that a fresh filter hits.
LEMMA FilteringDecides ==
    ASSUME IInv, VerdictInv, UNCHANGED <<now, envVars>>,
           FilterTest \/ FilterScan
    PROVE  Line!Decide \/ UNCHANGED Line!vars
<1>1. /\ pc \in {"filter", "scan"}
      /\ UNCHANGED <<now, arrivals, received, queue, forwarded, published>>
  BY DEF envVars, filterVars, FilterTest, FilterScan
<1>2. /\ cur \in 1..Len(arrivals) /\ arrivals[cur] \in Seq(Packet)
      /\ Len(arrivals) \in Nat /\ Len(forwarded) \in Nat /\ verdict.id = 0
  BY <1>1, InHand DEF IInv, TypeOK, VerdictInv
<1>3. Offered' = Offered /\ Held' = Held /\ Suppressed' = Suppressed
  BY <1>1, LineFrame
<1>4. Running /\ Deciding = cur /\ cur # 0
  BY <1>1, <1>2 DEF Running, Deciding
<1>5. CASE pc' = "scan"
  <2>1. UNCHANGED <<cur, verdict>>
    BY <1>5 DEF FilterTest, FilterScan
  <2>2. Deciding' = Deciding /\ Passed' = Passed /\ Decided' = Decided /\ Running'
    BY <1>1, <1>5, <2>1, LineFrame DEF Deciding, Passed, Accepting, Running
  <2> QED
    BY <1>1, <1>3, <1>4, <2>2 DEF Line!vars, Running
<1>6. CASE pc' # "scan"
  <2>1. pc' = "send"
    BY <1>6 DEF FilterTest, FilterScan
  <2>2. Deciding' = 0 /\ Passed' = Passed /\ Running'
    BY <1>1, <2>1 DEF Deciding, Passed, Accepting, Running
  <2> DEFINE b == arrivals[cur]
             Blocks(blk) == /\ blk \subseteq DOMAIN published /\ Fresh \subseteq blk
                            /\ verdict'.id = cur
                            /\ Len(verdict'.packets) = Len(b)
                            /\ \A i \in 1..Len(b) :
                                 verdict'.packets[i].discard <=> b[i].discard \/ b[i].sig \in blk
  <2>3. \E blk : Blocks(blk)
    <3>1. CASE FilterTest
      <4>1. IsEmpty /\ verdict' = Decide(arrivals[cur])
        BY <3>1, <1>6 DEF FilterTest
      <4>2. Fresh = {}
        BY <4>1 DEF IsEmpty, Fresh, IInv, FilterInv
      <4>3. verdict'.id = cur /\ verdict'.packets = b
        BY <4>1 DEF Decide
      <4>4. Blocks({})
        BY <4>2, <4>3
      <4> QED
        BY <4>4
    <3>2. CASE FilterScan
      <4>1. lock = "free" /\ verdict' = Decide(DiscardFiltered(b, DOMAIN map))
        BY <3>2 DEF FilterScan, Blocked
      <4>2. verdict'.id = cur /\ verdict'.packets = DiscardFiltered(b, DOMAIN map)
        BY <4>1 DEF Decide
      <4>3. DOMAIN map \subseteq DOMAIN published /\ Fresh \subseteq DOMAIN map
        BY <4>1 DEF IInv, FilterInv, InProgress, Fresh
      <4>4. /\ Len(DiscardFiltered(b, DOMAIN map)) = Len(b)
            /\ \A i \in 1..Len(b) :
                  DiscardFiltered(b, DOMAIN map)[i].discard <=> b[i].discard \/ b[i].sig \in DOMAIN map
        BY <1>2, DiscardFilteredProperties DEF Indices
      <4>5. Blocks(DOMAIN map)
        BY <4>2, <4>3, <4>4
      <4> QED
        BY <4>5
    <3> QED
      BY <3>1, <3>2
  <2>4. PICK blk : Blocks(blk)
    BY <2>3
  <2>5. PICK R : R = {i \in 1..Len(b) : ~b[i].discard /\ b[i].sig \in blk}
    OBVIOUS
  <2>6. Decided' = Append(Decided, [id |-> cur, removed |-> R])
    <3>1. Decided = SentOut /\ SentOut' = SentOut
      BY <1>1, <1>2, DecidedForms DEF SentOut, OutOf, Indices
    <3>2. OutOf(verdict)' = [id |-> cur, removed |-> R]
      <4>1. OutOf(verdict)' = [id |-> cur, removed |-> {i \in 1..Len(b) :
                                verdict'.packets[i].discard /\ ~b[i].discard}]
        BY <1>1, <2>4 DEF OutOf, Indices
      <4>2. {i \in 1..Len(b) : verdict'.packets[i].discard /\ ~b[i].discard} = R
        BY <2>4, <2>5
      <4> QED
        BY <4>1, <4>2
    <3> QED
      BY <1>1, <1>2, <1>4, <2>4, <3>1, <3>2, DecidedForms
  <2>7. /\ DOMAIN Suppressed = DOMAIN published /\ DOMAIN published \subseteq Signatures
        /\ {s \in DOMAIN Suppressed : now < Suppressed[s] + TTL} = Fresh
    BY DEF Suppressed, Fresh, IInv, TypeOK, FilterTypeOK
  <2>8. R \in SUBSET Line!Hit(cur, DOMAIN Suppressed)
    <3>1. Line!Hit(cur, DOMAIN published) = {i \in Indices(b) : ~b[i].discard /\ b[i].sig \in DOMAIN published}
      BY <1>2, <2>7, HitPackets
    <3> QED
      BY <2>4, <2>5, <2>7, <3>1 DEF Indices
  <2>9. Line!Hit(cur, {s \in DOMAIN Suppressed : now < Suppressed[s] + TTL}) \subseteq R
    <3>1. Fresh \in SUBSET Signatures
      BY <2>4, <2>7
    <3>2. Line!Hit(cur, Fresh) = {i \in Indices(b) : ~b[i].discard /\ b[i].sig \in Fresh}
      BY <1>2, <3>1, HitPackets
    <3> QED
      BY <2>4, <2>5, <2>7, <3>2 DEF Indices
  <2> QED
    BY <1>1, <1>3, <1>4, <2>2, <2>6, <2>8, <2>9 DEF Line!Decide, Running
<1> QED
  BY <1>5, <1>6

\* tx.send is nothing to the line: what is sent was decided on before.
LEMMA SendIsQuiet ==
    ASSUME IInv, VerdictInv, Send, UNCHANGED <<now, filterVars, envVars>>
    PROVE  UNCHANGED Line!vars
<1>1. /\ pc = "send" /\ pc' = "release" /\ verdict' = noVerdict
      /\ forwarded' = Append(forwarded, [id |-> verdict.id, packets |-> verdict.packets])
      /\ UNCHANGED <<now, arrivals, received, queue, published>>
  BY DEF envVars, filterVars, Send
<1>2. /\ Offered' = Offered /\ Held' = Held /\ Suppressed' = Suppressed
      /\ Passed' = Passed /\ Deciding' = Deciding /\ Running /\ Running'
  BY <1>1, LineFrame DEF Passed, Accepting, Deciding, Running
<1>s. forwarded \in Seq(SentBatch)
  BY DEF IInv, TypeOK
<1>3. PICK n \in Nat : n = Len(forwarded)
  BY <1>s
<1>4. /\ Len(forwarded') = n + 1
      /\ \A i \in 1..n : forwarded'[i] = forwarded[i]
      /\ forwarded'[n + 1] = [id |-> verdict.id, packets |-> verdict.packets]
  <2>1. PICK e : e = [id |-> verdict.id, packets |-> verdict.packets]
    OBVIOUS
  <2>2. forwarded' = Append(forwarded, e)
    BY <1>1, <2>1
  <2> QED
    BY <1>s, <1>3, <2>1, <2>2
<1>5. verdict.id # 0 /\ verdict'.id = 0
  BY <1>1, InHand DEF IInv, noVerdict
<1>6. Decided = Append(SentOut, OutOf(verdict)) /\ Decided' = SentOut'
  BY <1>3, <1>4, <1>5, DecidedForms, SMTT(30)
<1>7. PICK e : e = OutOf(verdict)
  OBVIOUS
<1>8. SentOut = [i \in 1..n |-> SentOut[i]]
  BY <1>3 DEF SentOut, Indices
<1>9. Append(SentOut, e) = [i \in 1..(n + 1) |-> IF i = n + 1 THEN e ELSE SentOut[i]]
  BY <1>8, OneMore
<1>10. SentOut' = [i \in 1..(n + 1) |-> IF i = n + 1 THEN e ELSE SentOut[i]]
  <2>1. SentOut' = [i \in 1..(n + 1) |-> SentOut'[i]]
    BY <1>4 DEF SentOut, Indices
  <2>2. ASSUME NEW i \in 1..n PROVE SentOut'[i] = SentOut[i] /\ i # n + 1
    <3>1. forwarded'[i] = forwarded[i] /\ i \in 1..(n + 1)
      BY <1>4
    <3>2. OutOf(forwarded[i])' = OutOf(forwarded[i])
      BY <1>1, <3>1 DEF OutOf, Indices
    <3>3. SentOut'[i] = OutOf(forwarded[i])'
      BY <1>4, <3>1 DEF SentOut, Indices
    <3>4. SentOut[i] = OutOf(forwarded[i])
      BY <1>3 DEF SentOut, Indices
    <3> QED
      BY <3>2, <3>3, <3>4
  <2>3. SentOut'[n + 1] = e
    <3>1. SentOut'[n + 1] = OutOf(forwarded[n + 1])'
      BY <1>4 DEF SentOut, Indices
    <3>2. forwarded'[n + 1].id = verdict.id /\ forwarded'[n + 1].packets = verdict.packets
      BY <1>4
    <3>3. OutOf(forwarded[n + 1])' = OutOf(verdict)
      BY <1>1, <3>2 DEF OutOf, Indices
    <3> QED
      BY <1>7, <3>1, <3>3
  <2>4. \A i \in 1..(n + 1) : SentOut'[i] = IF i = n + 1 THEN e ELSE SentOut[i]
    <3> SUFFICES ASSUME NEW i \in 1..(n + 1)
                 PROVE  SentOut'[i] = IF i = n + 1 THEN e ELSE SentOut[i]
      OBVIOUS
    <3>1. i = n + 1 \/ i \in 1..n
      OBVIOUS
    <3> QED
      BY <2>2, <2>3, <3>1
  <2> QED
    BY <2>1, <2>4
<1>11. Decided' = Decided
  BY <1>6, <1>7, <1>9, <1>10
<1> QED
  BY <1>1, <1>2, <1>11 DEF Line!vars, Running

\* A batch that arrives is offered to the line; what was decided before is not
\* touched, as it refers to batches that had arrived.
LEMMA ArriveOffers ==
    ASSUME IInv, VerdictInv, NEW b \in Batches, Arrive(b), UNCHANGED <<now, filterVars, threadVars>>
    PROVE  Line!Offer
<1>1. /\ arrivals' = Append(arrivals, b)
      /\ UNCHANGED <<now, received, pc, queue, cur, verdict, forwarded, published>>
  BY DEF Arrive, filterVars, threadVars
<1>2. /\ Held' = Held /\ Suppressed' = Suppressed /\ Passed' = Passed /\ Deciding' = Deciding
      /\ Running' = Running
  BY <1>1, LineFrame DEF Running
<1>a. arrivals \in Seq(Batches)
  BY DEF IInv, TypeOK
<1>3. PICK n \in Nat : n = Len(arrivals)
  BY <1>a
<1>4. Len(arrivals') = n + 1 /\ (\A i \in 1..n : arrivals'[i] = arrivals[i]) /\ arrivals'[n + 1] = b
  BY <1>1, <1>3, <1>a
<1>5. Offered' = Append(Offered, ItemOf(b))
  <2>1. PICK e : e = ItemOf(b)
    OBVIOUS
  <2>2. Offered = [i \in 1..n |-> Offered[i]]
    BY <1>3 DEF Offered, Indices
  <2>3. Append(Offered, e) = [i \in 1..(n + 1) |-> IF i = n + 1 THEN e ELSE Offered[i]]
    BY <2>2, OneMore
  <2>4. Offered' = [i \in 1..(n + 1) |-> ItemOf(arrivals'[i])]
    BY <1>4 DEF Offered, Indices, ItemOf, UnitOf
  <2>5. ASSUME NEW i \in 1..(n + 1)
        PROVE  ItemOf(arrivals'[i]) = IF i = n + 1 THEN e ELSE Offered[i]
    <3>1. CASE i = n + 1
      BY <3>1, <1>4, <2>1
    <3>2. CASE i # n + 1
      <4>1. i \in 1..n /\ arrivals'[i] = arrivals[i]
        BY <3>2, <1>4
      <4>2. Offered[i] = ItemOf(arrivals[i])
        BY <4>1, <1>3 DEF Offered, Indices
      <4> QED
        BY <4>1, <4>2, <3>2
    <3> QED
      BY <3>1, <3>2
  <2> QED
    BY <2>1, <2>3, <2>4, <2>5
<1>6. Decided' = Decided
  <2>1. PICK k \in Nat : k = Len(forwarded)
    BY DEF IInv, TypeOK
  <2>2. received \in 0..n /\ k <= received /\ (verdict.id # 0 => verdict.id = k + 1 /\ k + 1 <= received)
    BY <1>3, <2>1 DEF IInv, TypeOK, VerdictInv
  <2>3. ASSUME NEW i \in 1..k PROVE OutOf(forwarded[i])' = OutOf(forwarded[i])
    <3>1. forwarded[i].id = i /\ i \in 1..n /\ forwarded'[i] = forwarded[i]
      BY <1>1, <2>1, <2>2 DEF IInv, InOrderOnce, Indices
    <3>2. arrivals'[forwarded[i].id] = arrivals[forwarded[i].id]
      BY <1>4, <3>1
    <3> QED
      BY <3>1, <3>2 DEF OutOf, Indices
  <2>4. SentOut' = SentOut
    <3>1. SentOut' = [i \in 1..k |-> OutOf(forwarded[i])']
      BY <1>1, <2>1 DEF SentOut, Indices, OutOf
    <3>2. SentOut = [i \in 1..k |-> OutOf(forwarded[i])]
      BY <2>1 DEF SentOut, Indices
    <3> QED
      BY <2>3, <3>1, <3>2
  <2>5. verdict.id # 0 => OutOf(verdict)' = OutOf(verdict)
    <3> SUFFICES ASSUME verdict.id # 0 PROVE OutOf(verdict)' = OutOf(verdict)
      OBVIOUS
    <3>1. arrivals'[verdict.id] = arrivals[verdict.id]
      BY <1>4, <2>2
    <3> QED
      BY <1>1, <3>1 DEF OutOf, Indices
  <2> QED
    BY <1>1, <2>1, <2>4, <2>5, DecidedForms
<1> QED
  BY <1>1, <1>2, <1>5, <1>6 DEF Line!Offer, Running

\* The end of insert is the line's Suppress, with the instant read at its start.
LEMMA PublishSuppresses ==
    ASSUME IInv, Publish
    PROVE  \E s \in Signatures : Line!Suppress(s)
<1>1. /\ lock = "mirror" /\ UNCHANGED <<now, threadVars, envVars>>
      /\ published' = Put(published, inserting.sig, [at |-> inserting.at, since |-> now])
  BY DEF Publish, InsertPublish
<1>2. UNCHANGED <<arrivals, received, pc, queue, cur, verdict, forwarded>>
  BY <1>1 DEF threadVars, envVars
<1>3. /\ Offered' = Offered /\ Held' = Held /\ Passed' = Passed /\ Deciding' = Deciding
      /\ Decided' = Decided /\ Running' = Running
  BY <1>2, LineFrame DEF Running
<1>4. inserting.sig \in Signatures /\ inserting.at \in 0..now
  BY <1>1 DEF IInv, TypeOK, FilterTypeOK, FilterInv
<1>5. PICK s \in Signatures, t \in 0..now : s = inserting.sig /\ t = inserting.at
  BY <1>4
<1>6. Suppressed' = [x \in DOMAIN Suppressed \cup {s} |-> IF x = s THEN t ELSE Suppressed[x]]
  <2>1. published' = Put(published, s, [at |-> t, since |-> now])
    BY <1>1, <1>5
  <2>2. /\ DOMAIN published' = DOMAIN published \cup {s} /\ published'[s] = [at |-> t, since |-> now]
        /\ \A x \in DOMAIN published : x # s => published'[x] = published[x]
    BY <2>1 DEF Put
  <2>3. DOMAIN Suppressed = DOMAIN published
    BY DEF Suppressed
  <2>4. Suppressed' = [x \in DOMAIN published \cup {s} |-> published'[x].at]
    BY <2>2 DEF Suppressed
  <2>5. ASSUME NEW x \in DOMAIN published \cup {s}
        PROVE  published'[x].at = IF x = s THEN t ELSE Suppressed[x]
    BY <2>2 DEF Suppressed
  <2> QED
    BY <2>3, <2>4, <2>5
<1>7. Line!Suppress(s)
  BY <1>1, <1>3, <1>6 DEF Line!Suppress, Running
<1> QED
  BY <1>7

\* Every step of the thread, of insert and of the environment is a step of the
\* line or none.
LEMMA StepSimulation ==
    ASSUME IInv, VerdictInv, [Next]_vars
    PROVE  [Line!Next]_(Line!vars)
<1>1. CASE Thread
  <2>1. UNCHANGED <<now, envVars>>
    BY <1>1 DEF Thread
  <2>2. CASE \/ /\ Top \/ RecvOk \/ RecvTimeout \/ RecvDisconnected \/ MirrorBatch \/ Cutoff \/ SendFailed
                /\ UNCHANGED filterVars
             \/ SweepTest \/ SweepStore \/ SweepLock
    BY <2>1, <2>2, QuietOrClose DEF Line!Next
  <2>3. CASE Push /\ UNCHANGED filterVars
    BY <2>1, <2>3, PushAccepts DEF Line!Next
  <2>4. CASE Release /\ UNCHANGED filterVars
    BY <2>1, <2>4, ReleaseReleases DEF Line!Next
  <2>5. CASE FilterTest \/ FilterScan
    BY <2>1, <2>5, FilteringDecides DEF Line!Next
  <2>6. CASE Send /\ UNCHANGED filterVars
    BY <2>1, <2>6, SendIsQuiet
  <2> QED
    BY <1>1, <2>2, <2>3, <2>4, <2>5, <2>6 DEF Thread, FreeStep, LockStep
<1>2. ASSUME NEW s \in Signatures, Insert(s) PROVE UNCHANGED Line!vars
  <2>1. UNCHANGED <<now, arrivals, received, pc, queue, cur, verdict, forwarded, published>>
    BY <1>2 DEF Insert, InsertEntry, threadVars, envVars
  <2> QED
    BY <2>1, LineFrame DEF Line!vars, Running
<1>3. CASE Publish
  BY <1>3, PublishSuppresses DEF Line!Next
<1>4. CASE Clock
  <2>1. /\ now' = now + 1
        /\ UNCHANGED <<arrivals, received, pc, queue, cur, verdict, forwarded, published>>
    BY <1>4 DEF Clock, Tick, filterVars, threadVars, envVars
  <2>2. Line!Tick
    BY <2>1, LineFrame DEF Line!Tick, Running
  <2> QED
    BY <2>2 DEF Line!Next
<1>5. CASE Environment
  <2>1. UNCHANGED <<now, filterVars, threadVars>>
    BY <1>5 DEF Environment
  <2>2. ASSUME NEW b \in Batches, Arrive(b) PROVE Line!Next
    BY <2>1, <2>2, ArriveOffers DEF Line!Next
  <2>3. CASE CloseInput \/ SetExit \/ Take \/ CloseOutput
    <3>1. UNCHANGED <<now, arrivals, received, pc, queue, cur, verdict, forwarded, published>>
      BY <2>1, <2>3 DEF CloseInput, SetExit, Take, CloseOutput, filterVars, threadVars
    <3> QED
      BY <3>1, LineFrame DEF Line!vars, Running
  <2> QED
    BY <1>5, <2>2, <2>3 DEF Environment
<1>6. CASE UNCHANGED vars
  <2>1. UNCHANGED <<now, arrivals, received, pc, queue, cur, verdict, forwarded, published>>
    BY <1>6 DEF vars, threadVars, envVars, filterVars
  <2> QED
    BY <2>1, LineFrame DEF Line!vars, Running
<1> QED
  BY <1>1, <1>2, <1>3, <1>4, <1>5, <1>6 DEF Next

\* spawn_relayer_delay implements the delay line: with any delays, capacity and
\* batches, every behaviour of the thread, of insert and sweep and of the two
\* channels is a behaviour of DelayLine that loses nothing.
THEOREM DelayThreadImplementsLine == Spec => ImplementsDelayLine
<1>1. Init => IInv /\ VerdictInv
  <2> SUFFICES ASSUME Init PROVE IInv /\ VerdictInv
    OBVIOUS
  <2>1. verdict.id = 0 /\ received = 0 /\ Len(forwarded) = 0
    BY DEF Init, noVerdict
  <2> QED
    BY <2>1, InitIInv DEF VerdictInv
<1>2. IInv /\ VerdictInv /\ [Next]_vars => (IInv /\ VerdictInv)'
  <2> SUFFICES ASSUME IInv, VerdictInv, [Next]_vars PROVE IInv' /\ VerdictInv'
    OBVIOUS
  <2>1. IInv'
    BY NextIInv
  <2> QED
    BY <2>1, VerdictInvStep
<1>3. IInv /\ VerdictInv /\ [Next]_vars => [Line!Next]_(Line!vars)
  BY StepSimulation
<1> QED
  BY <1>1, <1>2, <1>3, LineInit, PTL DEF Spec, ImplementsDelayLine, Line!Spec

=============================================================================
