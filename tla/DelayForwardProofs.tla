------------------------- MODULE DelayForwardProofs -------------------------
(***************************************************************************)
(* Proofs about DelayForward: a lane of block engine traffic implements    *)
(* DelayLine.  IInv collects what the mutex and the counter `len'          *)
(* guarantee to a lane that runs beside the sweeping thread, and what the  *)
(* polls of the select leave in the task's hands.                          *)
(***************************************************************************)
EXTENDS DelayForward, FiniteSetTheorems, SequenceTheorems, TLAPS

InProgress(s) == lock = "mirror" /\ s = inserting.sig

\* The filter set: `len' is exact when the mutex is free, zero only if the map
\* holds nothing but an insert in progress, a fresh filter is in the map, and
\* what is in the map was inserted.
FilterInv ==
    /\ IsFiniteSet(DOMAIN map)
    /\ lock = "free" => len = Cardinality(DOMAIN map)
    /\ lock = "mirror" => /\ inserting.sig \in DOMAIN map
                          /\ map[inserting.sig] = inserting.at
                          /\ inserting.at <= now
    /\ \A s \in DOMAIN published : published[s].at <= now
    /\ \A s \in DOMAIN published : now < published[s].at + TTL =>
            s \in DOMAIN map /\ published[s].at <= map[s] /\ len # 0
    /\ \A s \in DOMAIN map : InProgress(s) \/ s \in DOMAIN published

\* The response in the task's hand, those in its queue and those it has decided
\* on are responses it received, and a queued one waits for Delay after it was
\* seen.
LaneInv ==
    /\ pc \in {"received", "push"} => cur = received
    /\ pc \in {"received", "push", "filter", "scan"} => cur \in 1..received
    /\ pc \in {"release", "filter", "scan", "send"} => cutoff <= now
    /\ pc = "push" => seen <= now
    /\ \A i \in Indices(queue) : /\ queue[i].id \in 1..received
                                 /\ queue[i].seen + Delay <= queue[i].release_at
    /\ pc = "send" => verdict.id \in 1..received
    /\ \A i \in Indices(sent) : sent[i].id \in 1..received

IInv == TypeOK /\ FilterInv /\ LaneInv

-----------------------------------------------------------------------------
(* Lemmas about the operators.                                             *)

\* HashMap::insert preserves the type of a map.
LEMMA PutType ==
    ASSUME NEW S, NEW T, NEW f, f \in [DOMAIN f -> T], DOMAIN f \subseteq S,
           NEW k \in S, NEW v \in T
    PROVE  /\ Put(f, k, v) \in [DOMAIN Put(f, k, v) -> T]
           /\ DOMAIN Put(f, k, v) \subseteq S
    BY DEF Put

\* `len' is zero exactly when the map it was taken from is empty.
LEMMA CardinalityZero ==
    ASSUME NEW S, IsFiniteSet(S)
    PROVE  Cardinality(S) \in Nat /\ (Cardinality(S) = 0 <=> S = {})
    BY FS_CardinalityType, FS_EmptySet

\* A sequence with one element behind it, or none.
LEMMA OneMore ==
    ASSUME NEW n \in Nat, NEW f, f = [i \in 1..n |-> f[i]], NEW e
    PROVE  /\ f \o <<>> = f
           /\ f \o <<e>> = Append(f, e)
           /\ Append(f, e) = [i \in 1..(n + 1) |-> IF i = n + 1 THEN e ELSE f[i]]
<1> DEFINE S == {f[i] : i \in 1..n} \cup {e}
<1>1. f \in [1..n -> S]
  OBVIOUS
<1>2. f \in Seq(S) /\ Len(f) = n /\ e \in S
  BY <1>1
<1> HIDE DEF S
<1>3. f \o <<>> = f
  BY <1>2, ConcatEmptySeq
<1>4. f \o <<e>> = Append(f, e)
  BY <1>2, AppendIsConcat
<1>5. /\ Append(f, e) \in Seq(S) /\ Len(Append(f, e)) = n + 1
      /\ \A i \in 1..n : Append(f, e)[i] = f[i]
      /\ Append(f, e)[n + 1] = e
  BY <1>2, AppendProperties
<1>6. Append(f, e) = [i \in 1..(n + 1) |-> Append(f, e)[i]]
  BY <1>5
<1>7. [i \in 1..(n + 1) |-> Append(f, e)[i]] = [i \in 1..(n + 1) |-> IF i = n + 1 THEN e ELSE f[i]]
  BY <1>5
<1> QED
  BY <1>3, <1>4, <1>6, <1>7

\* VecDeque::pop_front on a queue that is not empty.
LEMMA PopFront ==
    ASSUME NEW S, NEW q \in Seq(S), q # <<>>
    PROVE  /\ Head(q) = q[1] /\ 1 \in 1..Len(q) /\ q[1] \in S /\ Len(q) \in Nat \ {0}
           /\ Tail(q) \in Seq(S) /\ Len(Tail(q)) = Len(q) - 1
           /\ \A i \in 1..(Len(q) - 1) : Tail(q)[i] = q[i + 1]
<1>1. Len(q) \in Nat \ {0}
  BY EmptySeq
<1>2. Head(q) = q[1]
  BY <1>1
<1> QED
  BY <1>1, <1>2, HeadTailProperties

\* A sequence without its first element.
LEMMA OneLess ==
    ASSUME NEW n \in Nat \ {0}, NEW f, f = [i \in 1..n |-> f[i]]
    PROVE  f # <<>> /\ Head(f) = f[1] /\ Tail(f) = [i \in 1..(n - 1) |-> f[i + 1]]
<1> DEFINE S == {f[i] : i \in 1..n}
<1>1. f \in [1..n -> S]
  OBVIOUS
<1>2. f \in Seq(S) /\ Len(f) = n
  BY <1>1
<1> HIDE DEF S
<1>3. f # <<>>
  BY <1>2
<1>4. /\ Head(f) = f[1] /\ Tail(f) \in Seq(S) /\ Len(Tail(f)) = n - 1
      /\ \A i \in 1..(n - 1) : Tail(f)[i] = f[i + 1]
  BY <1>2, <1>3, PopFront
<1>5. Tail(f) = [i \in 1..(n - 1) |-> Tail(f)[i]]
  BY <1>4
<1>6. [i \in 1..(n - 1) |-> Tail(f)[i]] = [i \in 1..(n - 1) |-> f[i + 1]]
  BY <1>4
<1> QED
  BY <1>3, <1>4, <1>5, <1>6

-----------------------------------------------------------------------------
(* Every part of IInv holds initially and is preserved by every step.      *)

\* The initial state satisfies the inductive invariant.
LEMMA InitIInv == Init => IInv
<1> SUFFICES ASSUME Init PROVE IInv
  OBVIOUS
<1> USE DEF Init, FilterInit, noVerdict, notInserting
<1>1. TypeOK
  <2>1. FilterTypeOK
    BY DEF FilterTypeOK
  <2>2. arrivals \in Seq(Responses) /\ Len(arrivals) = 0 /\ queue \in Seq(Entry) /\ sent \in Seq(Verdict)
    OBVIOUS
  <2>3. verdict \in Verdict /\ seen \in Nat /\ cutoff \in Nat
    BY DEF Verdict
  <2>4. received \in 0..Len(arrivals) /\ cur \in 0..received
    BY <2>2
  <2>5. exit \in BOOLEAN /\ shutdown \in BOOLEAN /\ inOpen \in BOOLEAN /\ pc = "shutdown"
    BY Zenon
  <2> HIDE DEF Init
  <2> QED
    BY <2>1, <2>2, <2>3, <2>4, <2>5 DEF TypeOK
<1>2. FilterInv
  <2>1. DOMAIN map = {} /\ DOMAIN published = {}
    OBVIOUS
  <2> QED
    BY <2>1, FS_EmptySet DEF FilterInv
<1>3. LaneInv
  BY DEF LaneInv, Indices
<1> QED
  BY <1>1, <1>2, <1>3 DEF IInv

\* The steps that leave the filter set alone.
LEMMA FilterFrame ==
    ASSUME [Next]_vars,
           ~\E s \in Signatures : Insert(s), ~Publish, ~SweepStart, ~SweepEnd
    PROVE  UNCHANGED filterVars /\ (UNCHANGED now \/ now' = now + 1)
    BY DEF Next, Lane, Clock, Tick, Environment, vars

\* The filter set's variables keep their types.
LEMMA FilterTypeStep ==
    ASSUME FilterTypeOK, FilterInv, [Next]_vars
    PROVE  FilterTypeOK'
<1> USE DEF FilterTypeOK
<1>1. Cardinality(DOMAIN map) \in Nat
  BY FS_CardinalityType DEF FilterInv
<1>2. CASE UNCHANGED filterVars /\ (UNCHANGED now \/ now' = now + 1)
  BY <1>2 DEF filterVars
<1>3. ASSUME NEW s \in Signatures, Insert(s) PROVE FilterTypeOK'
  <2>1. /\ map' = Put(map, s, now) /\ lock' = "mirror" /\ inserting' = [sig |-> s, at |-> now]
        /\ UNCHANGED <<now, len, published>>
    BY <1>3 DEF Insert, InsertEntry
  <2>2. map' \in [DOMAIN map' -> Nat] /\ DOMAIN map' \subseteq Signatures
    BY <2>1, PutType, Zenon
  <2> QED
    BY <2>1, <2>2
<1>4. CASE Publish
  <2>1. /\ lock = "mirror" /\ len' = Cardinality(DOMAIN map) /\ lock' = "free" /\ inserting' = notInserting
        /\ published' = Put(published, inserting.sig, [at |-> inserting.at, since |-> now])
        /\ UNCHANGED <<now, map>>
    BY <1>4 DEF Publish, InsertPublish, LenAfterInsert
  <2>2. inserting.sig \in Signatures /\ [at |-> inserting.at, since |-> now] \in Insertion
    BY <2>1 DEF FilterInv, Insertion
  <2>3. published' \in [DOMAIN published' -> Insertion] /\ DOMAIN published' \subseteq Signatures
    <3> HIDE DEF FilterTypeOK
    <3>1. published \in [DOMAIN published -> Insertion] /\ DOMAIN published \subseteq Signatures
      BY DEF FilterTypeOK
    <3>2. LET p == Put(published, inserting.sig, [at |-> inserting.at, since |-> now]) IN
          p \in [DOMAIN p -> Insertion] /\ DOMAIN p \subseteq Signatures
      BY <2>2, <3>1, PutType, Zenon
    <3> QED
      BY <2>1, <3>2
  <2> QED
    BY <1>1, <2>1, <2>3 DEF notInserting
<1>5. CASE SweepStart
  BY <1>5 DEF SweepStart, SweepRetain
<1>6. CASE SweepEnd
  BY <1>1, <1>6 DEF SweepEnd, SweepPublish
<1> QED
  BY <1>2, <1>3, <1>4, <1>5, <1>6, FilterFrame

\* The filter set keeps its invariant, whoever works on it.
LEMMA FilterStep ==
    ASSUME FilterTypeOK, FilterInv, [Next]_vars
    PROVE  FilterInv'
<1>t. /\ now \in Nat /\ TTL \in Nat /\ TTL > 0 /\ len \in Nat
      /\ \A s \in DOMAIN map : map[s] \in Nat
      /\ \A s \in DOMAIN published : published[s].at \in Nat
      /\ DOMAIN map \subseteq Signatures /\ inserting.at \in Nat
  BY TTLAssumption DEF FilterTypeOK, Insertion
<1>1. CASE UNCHANGED <<now, filterVars>>
  BY <1>1 DEF filterVars, FilterInv, InProgress
<1>2. CASE UNCHANGED filterVars /\ now' = now + 1
  <2>1. now' = now + 1 /\ UNCHANGED <<map, len, lock, inserting, published>>
    BY <1>2 DEF filterVars
  <2>2. /\ lock = "mirror" => inserting.at <= now'
        /\ \A s \in DOMAIN published : published[s].at <= now'
        /\ \A s \in DOMAIN published : now' < published[s].at + TTL => now < published[s].at + TTL
    BY <1>t, <2>1, SMTT(30) DEF FilterInv
  <2> QED
    BY <2>1, <2>2 DEF FilterInv, InProgress
<1>3. ASSUME NEW s \in Signatures, Insert(s) PROVE FilterInv'
  <2>1. /\ lock = "free" /\ lock' = "mirror" /\ inserting' = [sig |-> s, at |-> now]
        /\ map' = Put(map, s, now) /\ UNCHANGED <<now, len, published>>
    BY <1>3 DEF Insert, InsertEntry
  <2>2. /\ DOMAIN map' = DOMAIN map \cup {s} /\ map'[s] = now
        /\ \A x \in DOMAIN map : x # s => map'[x] = map[x]
    BY <2>1 DEF Put
  <2>3. IsFiniteSet(DOMAIN map')
    BY <2>2, FS_AddElement DEF FilterInv
  <2>4. \A x \in DOMAIN published : now < published[x].at + TTL =>
            x \in DOMAIN map' /\ published[x].at <= map'[x] /\ len # 0
    BY <1>t, <2>1, <2>2 DEF FilterInv
  <2>5. \A x \in DOMAIN map' : InProgress(x)' \/ x \in DOMAIN published
    BY <2>1, <2>2 DEF FilterInv, InProgress
  <2> QED
    BY <1>t, <2>1, <2>2, <2>3, <2>4, <2>5 DEF FilterInv
<1>4. CASE Publish
  <2>1. /\ lock = "mirror" /\ lock' = "free" /\ len' = Cardinality(DOMAIN map)
        /\ published' = Put(published, inserting.sig, [at |-> inserting.at, since |-> now])
        /\ UNCHANGED <<now, map>>
    BY <1>4 DEF Publish, InsertPublish, LenAfterInsert
  <2>2. /\ DOMAIN published' = DOMAIN published \cup {inserting.sig}
        /\ published'[inserting.sig] = [at |-> inserting.at, since |-> now]
        /\ \A x \in DOMAIN published : x # inserting.sig => published'[x] = published[x]
    BY <2>1, SMTT(30) DEF Put
  <2>3. /\ inserting.sig \in DOMAIN map /\ map[inserting.sig] = inserting.at /\ inserting.at <= now
        /\ IsFiniteSet(DOMAIN map)
    BY <2>1, SMTT(30) DEF FilterInv
  <2>4. len' # 0 /\ len' \in Nat
    BY <2>1, <2>3, CardinalityZero
  <2>5. \A x \in DOMAIN published' : published'[x].at <= now
    BY <1>t, <2>2, <2>3 DEF FilterInv
  <2>6. \A x \in DOMAIN published' : now < published'[x].at + TTL =>
            x \in DOMAIN map /\ published'[x].at <= map[x]
    BY <1>t, <2>2, <2>3 DEF FilterInv
  <2>7. \A x \in DOMAIN map : x \in DOMAIN published'
    BY <2>2 DEF FilterInv, InProgress
  <2> QED
    BY <2>1, <2>3, <2>4, <2>5, <2>6, <2>7 DEF FilterInv
<1>5. CASE SweepStart
  <2>1. /\ lock = "free" /\ lock' = "relayer" /\ UNCHANGED <<now, len, inserting, published>>
        /\ map' = [s \in {x \in DOMAIN map : now - map[x] < TTL} |-> map[s]]
    BY <1>5 DEF SweepStart, SweepRetain
  <2>2. /\ DOMAIN map' \subseteq DOMAIN map
        /\ \A s \in DOMAIN map' : map'[s] = map[s]
        /\ \A s \in DOMAIN map : now - map[s] < TTL => s \in DOMAIN map'
    BY <2>1, SMTT(30)
  <2>3. IsFiniteSet(DOMAIN map')
    BY <2>2, FS_Subset, SMTT(30) DEF FilterInv
  <2>4. \A s \in DOMAIN published : now < published[s].at + TTL =>
            s \in DOMAIN map' /\ published[s].at <= map'[s] /\ len # 0
    BY <1>t, <2>2 DEF FilterInv
  <2>5. \A s \in DOMAIN map' : s \in DOMAIN published
    BY <2>1, <2>2 DEF FilterInv, InProgress
  <2> QED
    BY <2>1, <2>2, <2>3, <2>4, <2>5 DEF FilterInv
<1>6. CASE SweepEnd
  <2>1. /\ lock = "relayer" /\ lock' = "free" /\ len' = Cardinality(DOMAIN map)
        /\ UNCHANGED <<now, map, inserting, published>>
    BY <1>6 DEF SweepEnd, SweepPublish
  <2>2. len' \in Nat /\ (len' = 0 <=> DOMAIN map = {})
    BY <2>1, CardinalityZero, Zenon DEF FilterInv
  <2> QED
    BY <2>1, <2>2 DEF FilterInv, InProgress
<1> QED
  BY <1>1, <1>2, <1>3, <1>4, <1>5, <1>6, FilterFrame

\* A response that was received is a sequence of units.
LEMMA ResponseType ==
    ASSUME TypeOK, NEW id \in 1..received
    PROVE  /\ id \in 1..Len(arrivals) /\ arrivals[id] \in Seq(SUBSET Signatures)
           /\ Len(arrivals[id]) \in Nat
<1>1. id \in 1..Len(arrivals) /\ arrivals \in Seq(Responses)
  BY DEF TypeOK
<1>2. arrivals[id] \in Responses
  BY <1>1, ElementOfSeq
<1>3. arrivals[id] \in Seq(SUBSET Signatures)
  BY <1>2, LaneAssumption
<1> QED
  BY <1>1, <1>3

\* Every variable keeps its type.
LEMMA TypeStep ==
    ASSUME IInv, [Next]_vars
    PROVE  TypeOK'
<1>0. FilterTypeOK' /\ TypeOK /\ LaneInv
  BY FilterTypeStep DEF IInv, TypeOK
<1>1. CASE UNCHANGED <<laneVars, envVars>>
  BY <1>0, <1>1 DEF laneVars, envVars, TypeOK
<1>2. CASE Environment
  <2>0. UNCHANGED laneVars
    BY <1>2 DEF Environment
  <2>1. ASSUME NEW r \in Responses, Broadcast(r) PROVE TypeOK'
    <3>1. arrivals' \in Seq(Responses) /\ Len(arrivals') = Len(arrivals) + 1 /\ Len(arrivals) \in Nat
      BY <1>0, <2>1 DEF Broadcast, TypeOK
    <3>2. received' \in 0..Len(arrivals')
      BY <1>0, <2>0, <3>1 DEF laneVars, TypeOK
    <3> QED
      BY <1>0, <2>0, <2>1, <3>1, <3>2 DEF Broadcast, TypeOK, laneVars
  <2>2. CASE CloseInput \/ SetExit \/ ShutdownWatch
    BY <1>0, <2>0, <2>2, Zenon DEF CloseInput, SetExit, ShutdownWatch, TypeOK, laneVars
  <2> QED
    BY <1>2, <2>1, <2>2 DEF Environment
<1>3. CASE Lane
  <2>0. UNCHANGED <<now, envVars>>
    BY <1>3 DEF Lane
  <2>a. /\ exit' \in BOOLEAN /\ shutdown' \in BOOLEAN /\ inOpen' \in BOOLEAN
        /\ arrivals' = arrivals /\ arrivals' \in Seq(Responses) /\ now \in Nat
    BY <1>0, <2>0 DEF envVars, TypeOK, FilterTypeOK
  <2>b. /\ Len(arrivals) \in Nat /\ received \in 0..Len(arrivals) /\ received \in Nat
        /\ cur \in 0..received /\ cur \in Nat /\ seen \in Nat /\ 0 \in 0..received
    BY <1>0 DEF TypeOK
  <2>1. CASE PollShutdown \/ PollTimer \/ RecvClosed \/ RecvPending \/ OnReceive \/ Cutoff
    <3>1. UNCHANGED <<received, queue, cur, verdict, sent>>
      BY <2>1 DEF PollShutdown, PollTimer, RecvClosed, RecvPending, OnReceive, Cutoff
    <3>2. pc' \in {"done", "timer", "cutoff", "recv", "shutdown", "push", "release"}
      BY <2>1 DEF PollShutdown, PollTimer, RecvClosed, AfterClosed, RecvPending, OnReceive, Cutoff
    <3>3. seen' \in Nat /\ cutoff' \in Nat
      BY <1>0, <2>1, <2>a DEF PollShutdown, PollTimer, RecvClosed, RecvPending, OnReceive, Cutoff, TypeOK
    <3> QED
      BY <1>0, <2>a, <3>1, <3>2, <3>3 DEF TypeOK
  <2>2. CASE RecvOk
    <3>1. received' \in 0..Len(arrivals) /\ cur' \in 0..received'
      BY <2>2, <2>b, LaneAssumption DEF RecvOk
    <3> QED
      BY <1>0, <2>2, <2>a, <3>1 DEF RecvOk, TypeOK
  <2>3. CASE RecvLagged
    <3>1. received' \in 0..Len(arrivals) /\ cur' \in 0..received'
      BY <2>3, <2>b, LaneAssumption DEF RecvLagged
    <3> QED
      BY <1>0, <2>3, <2>a, <3>1 DEF RecvLagged, TypeOK
  <2>4. CASE Push
    <3>1. [release_at |-> now + Delay, id |-> cur, seen |-> seen] \in Entry
      BY <2>a, <2>b, LaneAssumption DEF Entry
    <3>2. queue' \in Seq(Entry)
      BY <1>0, <2>4, <3>1, AppendProperties DEF Push, TypeOK
    <3>3. cur' \in 0..received /\ seen' \in Nat
      BY <2>4, <2>b DEF Push
    <3> QED
      BY <1>0, <2>4, <2>a, <3>2, <3>3 DEF Push, TypeOK
  <2>5. CASE Release
    <3>1. CASE queue # <<>> /\ Head(queue).release_at <= cutoff
      <4>1. queue' = Tail(queue) /\ cur' = Head(queue).id /\ seen' = Head(queue).seen
        BY <2>5, <3>1 DEF Release
      <4>2. Head(queue) = queue[1] /\ 1 \in 1..Len(queue) /\ queue[1] \in Entry /\ Tail(queue) \in Seq(Entry)
        BY <1>0, <3>1, PopFront DEF TypeOK
      <4>3. cur' \in 0..received /\ seen' \in Nat
        BY <1>0, <2>b, <4>1, <4>2 DEF LaneInv, Entry, Indices
      <4> QED
        BY <1>0, <2>5, <2>a, <3>1, <4>1, <4>2, <4>3 DEF Release, TypeOK
    <3>2. CASE ~(queue # <<>> /\ Head(queue).release_at <= cutoff)
      BY <1>0, <2>5, <2>a, <3>2 DEF Release, TypeOK
    <3> QED
      BY <3>1, <3>2
  <2>6. CASE FilterTest \/ FilterScan
    <3>1. cur \in 1..received
      BY <1>0, <2>6 DEF LaneInv, FilterTest, FilterScan
    <3>2. Len(arrivals[cur]) \in Nat
      BY <1>0, <3>1, ResponseType
    <3>3. verdict' \in Verdict
      BY <1>0, <2>6, <2>b, <3>2 DEF FilterTest, FilterScan, TypeOK, Verdict, Kept, Indices
    <3>4. cur' \in 0..received /\ pc' \in {"scan", "send"} /\ seen' \in Nat
      BY <2>6, <2>b DEF FilterTest, FilterScan
    <3> QED
      BY <1>0, <2>6, <2>a, <3>3, <3>4 DEF FilterTest, FilterScan, TypeOK
  <2>7. CASE Send
    <3>1. sent' \in Seq(Verdict) /\ verdict' \in Verdict
      BY <1>0, <2>7, AppendProperties DEF Send, TypeOK, noVerdict, Verdict
    <3> QED
      BY <1>0, <2>7, <2>a, <3>1 DEF Send, TypeOK
  <2> QED
    BY <1>3, <2>1, <2>2, <2>3, <2>4, <2>5, <2>6, <2>7 DEF Lane, Task
<1> QED
  BY <1>1, <1>2, <1>3 DEF Next, Insert, Publish, SweepStart, SweepEnd, Clock, vars

\* What the task holds stays among what it received.
LEMMA LaneStep ==
    ASSUME IInv, [Next]_vars
    PROVE  LaneInv'
<1>0. TypeOK /\ LaneInv /\ now \in Nat /\ received \in Nat /\ Len(arrivals) \in Nat
  BY DEF IInv, TypeOK, FilterTypeOK
<1>1. CASE UNCHANGED laneVars /\ now' \in {now, now + 1}
  <2>1. /\ UNCHANGED <<pc, received, queue, cur, seen, cutoff, verdict, sent>>
        /\ now <= now' /\ cutoff \in Nat /\ seen \in Nat /\ now' \in Nat
    BY <1>0, <1>1 DEF laneVars, TypeOK
  <2>2. (cutoff <= now => cutoff <= now') /\ (seen <= now => seen <= now')
    BY <1>0, <2>1
  <2> QED
    BY <1>0, <2>1, <2>2 DEF LaneInv, Indices
<1>2. CASE Lane
  <2>0. now' = now /\ arrivals' = arrivals
    BY <1>2 DEF Lane, envVars
  <2>1. CASE PollShutdown \/ PollTimer \/ RecvClosed \/ RecvPending \/ OnReceive \/ Cutoff
    <3>1. UNCHANGED <<received, queue, cur, verdict, sent>>
      BY <2>1 DEF PollShutdown, PollTimer, RecvClosed, RecvPending, OnReceive, Cutoff
    <3>2. \/ pc' \in {"done", "timer", "cutoff", "recv", "shutdown"}
          \/ pc = "received" /\ pc' = "push" /\ seen' = now
          \/ pc' = "release" /\ cutoff' = now
      BY <2>1 DEF PollShutdown, PollTimer, RecvClosed, AfterClosed, RecvPending, OnReceive, Cutoff
    <3> QED
      BY <1>0, <2>0, <3>1, <3>2 DEF LaneInv, Indices
  <2>2. CASE RecvOk \/ RecvLagged
    <3>1. /\ UNCHANGED <<queue, sent>> /\ received <= received' /\ received' \in Nat
          /\ pc' = "shutdown" \/ (pc' = "received" /\ cur' = received' /\ received' >= 1)
      BY <1>0, <2>2, LaneAssumption, SMTT(30) DEF RecvOk, RecvLagged, TypeOK
    <3>2. \A i \in Nat : i \in 1..received => i \in 1..received'
      BY <1>0, <3>1
    <3>3. pc' \in {"received", "push", "filter", "scan"} => cur' = received' /\ cur' \in 1..received'
      BY <3>1
    <3>4. \A i \in Indices(queue) : queue[i].id \in 1..received'
      BY <1>0, <3>2 DEF LaneInv
    <3>5. \A i \in Indices(sent) : sent[i].id \in 1..received'
      BY <1>0, <3>2 DEF LaneInv
    <3> QED
      BY <1>0, <3>1, <3>3, <3>4, <3>5 DEF LaneInv, Indices
  <2>3. CASE Push
    <3>1. /\ pc = "push" /\ pc' = "shutdown" /\ UNCHANGED <<received, sent>>
          /\ queue' = Append(queue, [release_at |-> now + Delay, id |-> cur, seen |-> seen])
      BY <2>3 DEF Push
    <3>2. /\ Len(queue) \in Nat /\ Len(queue') = Len(queue) + 1
          /\ \A i \in 1..Len(queue) : queue'[i] = queue[i]
          /\ queue'[Len(queue) + 1] = [release_at |-> now + Delay, id |-> cur, seen |-> seen]
      BY <1>0, <3>1 DEF TypeOK
    <3>3. cur \in 1..received /\ seen + Delay <= now + Delay
      BY <1>0, <3>1, LaneAssumption DEF LaneInv, TypeOK
    <3>4. ASSUME NEW i \in Indices(queue')
          PROVE  queue'[i].id \in 1..received /\ queue'[i].seen + Delay <= queue'[i].release_at
      <4>1. CASE i = Len(queue) + 1
        BY <4>1, <3>2, <3>3
      <4>2. CASE i # Len(queue) + 1
        <5>1. i \in 1..Len(queue)
          BY <4>2, <3>2 DEF Indices
        <5> QED
          BY <1>0, <3>2, <5>1 DEF LaneInv, Indices
      <4> QED
        BY <4>1, <4>2
    <3> QED
      BY <1>0, <3>1, <3>4 DEF LaneInv, Indices
  <2>4. CASE Release
    <3>1. CASE queue # <<>> /\ Head(queue).release_at <= cutoff
      <4>1. /\ queue' = Tail(queue) /\ cur' = Head(queue).id /\ pc = "release" /\ pc' = "filter"
            /\ UNCHANGED <<received, sent, cutoff>>
        BY <2>4, <3>1 DEF Release
      <4>2. /\ Head(queue) = queue[1] /\ 1 \in 1..Len(queue) /\ Len(queue) \in Nat
            /\ Len(Tail(queue)) = Len(queue) - 1
            /\ \A i \in 1..(Len(queue) - 1) : Tail(queue)[i] = queue[i + 1]
        BY <1>0, <3>1, PopFront DEF TypeOK
      <4>3. cur' \in 1..received
        BY <1>0, <4>1, <4>2 DEF LaneInv, Indices
      <4>4. ASSUME NEW i \in Indices(queue')
            PROVE  queue'[i].id \in 1..received /\ queue'[i].seen + Delay <= queue'[i].release_at
        <5>1. queue'[i] = queue[i + 1] /\ i + 1 \in 1..Len(queue)
          BY <4>1, <4>2 DEF Indices
        <5> QED
          BY <1>0, <5>1 DEF LaneInv, Indices
      <4> QED
        BY <1>0, <2>0, <4>1, <4>3, <4>4 DEF LaneInv, Indices
    <3>2. CASE ~(queue # <<>> /\ Head(queue).release_at <= cutoff)
      BY <1>0, <2>0, <2>4, <3>2 DEF Release, LaneInv, Indices
    <3> QED
      BY <3>1, <3>2
  <2>5. CASE FilterTest \/ FilterScan
    <3>1. /\ pc \in {"filter", "scan"} /\ UNCHANGED <<received, queue, cutoff, sent>>
          /\ (pc' = "send" /\ verdict'.id = cur) \/ (pc' = "scan" /\ cur' = cur)
      BY <2>5 DEF FilterTest, FilterScan
    <3> QED
      BY <1>0, <2>0, <3>1 DEF LaneInv, Indices
  <2>6. CASE Send
    <3>1. /\ pc = "send" /\ pc' = "release" /\ UNCHANGED <<received, queue, cutoff>>
          /\ sent' = Append(sent, verdict)
      BY <2>6 DEF Send
    <3>2. /\ Len(sent) \in Nat /\ Len(sent') = Len(sent) + 1 /\ sent'[Len(sent) + 1] = verdict
          /\ \A i \in 1..Len(sent) : sent'[i] = sent[i]
      BY <1>0, <3>1 DEF TypeOK
    <3>3. ASSUME NEW i \in Indices(sent') PROVE sent'[i].id \in 1..received
      <4>1. i = Len(sent) + 1 \/ i \in 1..Len(sent)
        BY <3>2 DEF Indices
      <4> QED
        BY <1>0, <3>1, <3>2, <4>1 DEF LaneInv, Indices
    <3> QED
      BY <1>0, <2>0, <3>1, <3>3 DEF LaneInv, Indices
  <2> QED
    BY <1>2, <2>1, <2>2, <2>3, <2>4, <2>5, <2>6 DEF Lane, Task
<1> QED
  BY <1>1, <1>2 DEF Next, Insert, Publish, SweepStart, SweepEnd, Clock, Tick, Environment, vars

\* Every step preserves the inductive invariant.
LEMMA NextIInv == IInv /\ [Next]_vars => IInv'
<1> SUFFICES ASSUME IInv, [Next]_vars PROVE IInv'
  OBVIOUS
<1>1. FilterTypeOK /\ FilterInv
  BY DEF IInv, TypeOK
<1> QED
  BY <1>1, TypeStep, FilterStep, LaneStep DEF IInv

-----------------------------------------------------------------------------
(* The lane implements DelayLine.                                          *)

QueueHeld == [i \in Indices(queue) |-> [id |-> queue[i].id, since |-> queue[i].seen]]
SentOut == [i \in Indices(sent) |-> OutOf(sent[i])]

\* The parts of the line that a step leaves alone.
LEMMA LineFrame ==
    /\ UNCHANGED <<pc, received>> => Passed' = Passed
    /\ UNCHANGED <<pc, queue, cur, seen>> => Held' = Held
    /\ UNCHANGED queue /\ pc # "push" /\ pc' # "push" => Held' = Held
    /\ UNCHANGED <<pc, cur>> => Deciding' = Deciding
    /\ UNCHANGED <<pc, arrivals, sent, verdict>> => Decided' = Decided
    /\ UNCHANGED <<arrivals, sent>> /\ pc # "send" /\ pc' # "send" => Decided' = Decided
    /\ UNCHANGED published => Suppressed' = Suppressed
    /\ UNCHANGED pc => Running' = Running
<1>1. UNCHANGED queue => QueueHeld' = QueueHeld
  BY DEF QueueHeld, Indices
<1>2. UNCHANGED <<arrivals, sent>> => SentOut' = SentOut
  BY DEF SentOut, OutOf, Indices
<1>3. UNCHANGED <<pc, arrivals, sent, verdict>> => Decided' = Decided
  BY DEF Decided, OutOf, Indices
<1>4. UNCHANGED <<pc, queue, cur, seen>> => Held' = Held
  BY DEF Held, Indices
<1>5. UNCHANGED queue /\ pc # "push" /\ pc' # "push" => Held' = Held
  <2>1. Held = QueueHeld \o (IF pc = "push" THEN <<[id |-> cur, since |-> seen]>> ELSE <<>>)
    BY DEF Held, QueueHeld
  <2>2. Held' = QueueHeld' \o (IF pc' = "push" THEN <<[id |-> cur', since |-> seen']>> ELSE <<>>)
    BY DEF Held, QueueHeld
  <2> QED
    BY <1>1, <2>1, <2>2
<1>6. UNCHANGED <<arrivals, sent>> /\ pc # "send" /\ pc' # "send" => Decided' = Decided
  <2>1. Decided = SentOut \o (IF pc = "send" THEN <<OutOf(verdict)>> ELSE <<>>)
    BY DEF Decided, SentOut
  <2>2. Decided' = SentOut' \o (IF pc' = "send" THEN <<OutOf(verdict)'>> ELSE <<>>)
    BY DEF Decided, SentOut
  <2> QED
    BY <1>2, <2>1, <2>2
<1> QED
  BY <1>3, <1>4, <1>5, <1>6 DEF Passed, Deciding, Suppressed, Running

\* What the line holds is the queue and, in between on_receive and push_back, the
\* response in hand; what is decided on is what was sent and, before it is sent,
\* the verdict.  In the state before a step and in the one after it.
LEMMA Forms ==
    ASSUME TypeOK, TypeOK'
    PROVE  /\ pc # "push" => Held = QueueHeld
           /\ pc = "push" => Held = Append(QueueHeld, [id |-> cur, since |-> seen])
           /\ pc' # "push" => Held' = QueueHeld'
           /\ pc' = "push" => Held' = Append(QueueHeld', [id |-> cur', since |-> seen'])
           /\ pc # "send" => Decided = SentOut
           /\ pc = "send" => Decided = Append(SentOut, OutOf(verdict))
           /\ pc' # "send" => Decided' = SentOut'
           /\ pc' = "send" => Decided' = Append(SentOut', OutOf(verdict)')
<1>0. Len(queue) \in Nat /\ Len(queue') \in Nat /\ Len(sent) \in Nat /\ Len(sent') \in Nat
  BY DEF TypeOK
<1>1. ASSUME NEW n \in Nat, NEW f, NEW v, f = [i \in 1..n |-> f[i]]
      PROVE  f \o <<>> = f /\ f \o <<v>> = Append(f, v)
  BY <1>1, OneMore
<1>2. /\ QueueHeld = [i \in 1..Len(queue) |-> QueueHeld[i]]
      /\ QueueHeld' = [i \in 1..Len(queue') |-> QueueHeld'[i]]
  BY DEF QueueHeld, Indices
<1>3. /\ SentOut = [i \in 1..Len(sent) |-> SentOut[i]]
      /\ SentOut' = [i \in 1..Len(sent') |-> SentOut'[i]]
  BY DEF SentOut, Indices
<1>4. /\ QueueHeld \o <<>> = QueueHeld /\ QueueHeld' \o <<>> = QueueHeld'
      /\ QueueHeld \o <<[id |-> cur, since |-> seen]>> = Append(QueueHeld, [id |-> cur, since |-> seen])
      /\ QueueHeld' \o <<[id |-> cur', since |-> seen']>>
            = Append(QueueHeld', [id |-> cur', since |-> seen'])
  BY <1>0, <1>1, <1>2
<1>5. /\ SentOut \o <<>> = SentOut /\ SentOut' \o <<>> = SentOut'
      /\ SentOut \o <<OutOf(verdict)>> = Append(SentOut, OutOf(verdict))
      /\ SentOut' \o <<OutOf(verdict)'>> = Append(SentOut', OutOf(verdict)')
  BY <1>0, <1>1, <1>3
<1>6. /\ Held = QueueHeld \o (IF pc = "push" THEN <<[id |-> cur, since |-> seen]>> ELSE <<>>)
      /\ Held' = QueueHeld' \o (IF pc' = "push" THEN <<[id |-> cur', since |-> seen']>> ELSE <<>>)
  BY DEF Held, QueueHeld
<1>7. /\ Decided = SentOut \o (IF pc = "send" THEN <<OutOf(verdict)>> ELSE <<>>)
      /\ Decided' = SentOut' \o (IF pc' = "send" THEN <<OutOf(verdict)'>> ELSE <<>>)
  BY DEF Decided, SentOut
<1> QED
  BY <1>4, <1>5, <1>6, <1>7

\* The line starts empty.
LEMMA LineInit == Init => Line!Init
<1> SUFFICES ASSUME Init PROVE Line!Init
  OBVIOUS
<1>1. pc = "shutdown" /\ received = 0 /\ arrivals = <<>> /\ now = 0
  BY DEF Init, FilterInit
<1>2. Passed = 0 /\ Deciding = 0 /\ Running
  BY <1>1 DEF Passed, Deciding, Running
<1>3. Held = <<>>
  <2>1. [i \in Indices(queue) |-> [id |-> queue[i].id, since |-> queue[i].seen]] = <<>>
    BY DEF Init, Indices
  <2> QED
    BY <1>1, <2>1 DEF Held
<1>4. Decided = <<>>
  <2>1. [i \in Indices(sent) |-> OutOf(sent[i])] = <<>>
    BY DEF Init, Indices
  <2> QED
    BY <1>1, <2>1 DEF Decided
<1>5. Suppressed = [s \in {} |-> 0]
  BY DEF Init, FilterInit, Suppressed
<1> QED
  BY <1>1, <1>2, <1>3, <1>4, <1>5 DEF Line!Init, Running

\* The polls that the line does not see, those that end it, and Lagged, which is
\* the line's Skip.
LEMMA PollsAreQuiet ==
    ASSUME IInv, UNCHANGED <<now, filterVars, envVars>>,
           PollShutdown \/ PollTimer \/ RecvOk \/ RecvLagged \/ RecvClosed \/ RecvPending \/ Cutoff
    PROVE  Line!Skip \/ Line!Close \/ UNCHANGED Line!vars
<1>1. /\ UNCHANGED <<now, arrivals, queue, sent, verdict, published>>
      /\ pc \in {"shutdown", "timer", "recv", "cutoff"}
      /\ pc' \in {"shutdown", "timer", "recv", "received", "cutoff", "release", "done"}
  BY DEF envVars, filterVars, PollShutdown, PollTimer, RecvOk, RecvLagged, RecvClosed, RecvPending,
         Cutoff, AfterClosed
<1>2. /\ Held' = Held /\ Decided' = Decided /\ Suppressed' = Suppressed /\ Deciding' = Deciding
      /\ Running
  BY <1>1, LineFrame DEF Deciding, Running
<1>3. Len(arrivals) \in Nat /\ received \in 0..Len(arrivals) /\ Capacity \in Nat
  BY LaneAssumption DEF IInv, TypeOK
<1>4. CASE RecvLagged
  <2>1. /\ Running' /\ Passed = received /\ Passed' = Len(arrivals) - Capacity
        /\ Len(arrivals) - received > Capacity
    BY <1>4 DEF RecvLagged, Running, Passed
  <2> QED
    BY <1>1, <1>2, <2>1 DEF Line!Skip, Running
<1>5. CASE ~RecvLagged
  <2>1. Passed' = Passed
    BY <1>3, <1>5 DEF PollShutdown, PollTimer, RecvOk, RecvClosed, RecvPending, Cutoff, AfterClosed, Passed
  <2>2. CASE Running'
    BY <1>1, <1>2, <2>1, <2>2 DEF Line!vars, Running
  <2>3. CASE ~Running'
    BY <1>1, <1>2, <2>1, <2>3 DEF Line!Close, Running
  <2> QED
    BY <2>2, <2>3
<1> QED
  BY <1>4, <1>5

\* on_receive is the line's Accept: the response seen is the next one.
LEMMA OnReceiveAccepts ==
    ASSUME IInv, TypeOK', OnReceive, UNCHANGED <<now, filterVars, envVars>>
    PROVE  Line!Accept
<1>1. /\ pc = "received" /\ pc' = "push" /\ seen' = now
      /\ UNCHANGED <<now, arrivals, received, queue, cur, sent, verdict, published>>
  BY DEF envVars, filterVars, OnReceive
<1>2. /\ Decided' = Decided /\ Suppressed' = Suppressed /\ Deciding' = Deciding
      /\ Running /\ Running'
  BY <1>1, LineFrame DEF Deciding, Running
<1>3. /\ cur = received /\ received \in Nat /\ received >= 1
      /\ received <= Len(arrivals) /\ Len(arrivals) \in Nat
  BY <1>1 DEF IInv, TypeOK, LaneInv
<1>4. Passed = received - 1 /\ Passed' = received
  BY <1>1 DEF Passed
<1>5. Passed < Len(arrivals) /\ Passed' = Passed + 1 /\ Passed + 1 = cur
  BY <1>3, <1>4
<1>6. Held' = Append(Held, [id |-> cur, since |-> now])
  <2>1. QueueHeld' = QueueHeld
    BY <1>1 DEF QueueHeld, Indices
  <2>2. Held = QueueHeld /\ Held' = Append(QueueHeld', [id |-> cur', since |-> seen'])
    BY <1>1, Forms DEF IInv
  <2> QED
    BY <1>1, <2>1, <2>2
<1> QED
  BY <1>1, <1>2, <1>5, <1>6 DEF Line!Accept, Running

\* queue.push_back is nothing to the line: the response was accepted before.
LEMMA PushIsQuiet ==
    ASSUME IInv, TypeOK', Push, UNCHANGED <<now, filterVars, envVars>>
    PROVE  UNCHANGED Line!vars
<1>1. /\ pc = "push" /\ pc' = "shutdown"
      /\ queue' = Append(queue, [release_at |-> now + Delay, id |-> cur, seen |-> seen])
      /\ UNCHANGED <<now, arrivals, received, sent, verdict, published>>
  BY DEF envVars, filterVars, Push
<1>2. /\ Decided' = Decided /\ Suppressed' = Suppressed /\ Deciding' = Deciding
      /\ Passed' = Passed /\ Running /\ Running'
  BY <1>1, LineFrame DEF Deciding, Running, Passed
<1>3. PICK n \in Nat : n = Len(queue)
  BY DEF IInv, TypeOK
<1>4. PICK e : e = [id |-> cur, since |-> seen]
  OBVIOUS
<1>5. /\ Len(queue') = n + 1 /\ \A i \in 1..n : queue'[i] = queue[i]
      /\ queue'[n + 1] = [release_at |-> now + Delay, id |-> cur, seen |-> seen]
  BY <1>1, <1>3 DEF IInv, TypeOK
<1>6. QueueHeld = [i \in 1..n |-> QueueHeld[i]]
  BY <1>3 DEF QueueHeld, Indices
<1>7. Append(QueueHeld, e) = [i \in 1..(n + 1) |-> IF i = n + 1 THEN e ELSE QueueHeld[i]]
  BY <1>6, OneMore
<1>8. QueueHeld' = [i \in 1..(n + 1) |-> IF i = n + 1 THEN e ELSE QueueHeld[i]]
  <2>1. QueueHeld' = [i \in 1..(n + 1) |-> [id |-> queue'[i].id, since |-> queue'[i].seen]]
    BY <1>5 DEF QueueHeld, Indices
  <2>2. ASSUME NEW i \in 1..(n + 1)
        PROVE  [id |-> queue'[i].id, since |-> queue'[i].seen] = IF i = n + 1 THEN e ELSE QueueHeld[i]
    <3>1. CASE i = n + 1
      BY <3>1, <1>4, <1>5
    <3>2. CASE i # n + 1
      <4>1. i \in 1..n /\ i \in 1..Len(queue)
        BY <3>2, <1>3
      <4> QED
        BY <4>1, <3>2, <1>5 DEF QueueHeld, Indices
    <3> QED
      BY <3>1, <3>2
  <2> QED
    BY <2>1, <2>2
<1>9. Held' = Held
  <2>1. Held = Append(QueueHeld, [id |-> cur, since |-> seen]) /\ Held' = QueueHeld'
    BY <1>1, Forms DEF IInv
  <2> QED
    BY <1>4, <1>7, <1>8, <2>1
<1> QED
  BY <1>1, <1>2, <1>9 DEF Line!vars, Running

\* The release loop takes the front only when it is due; leaving the loop is
\* nothing to the line.
LEMMA ReleaseReleases ==
    ASSUME IInv, TypeOK', Release, UNCHANGED <<now, filterVars, envVars>>
    PROVE  Line!Release \/ UNCHANGED Line!vars
<1>1. /\ pc = "release" /\ pc' \in {"filter", "shutdown"} /\ cutoff <= now
      /\ UNCHANGED <<now, arrivals, received, sent, verdict, published>>
  BY DEF IInv, LaneInv, envVars, Release, filterVars
<1>2. /\ Decided' = Decided /\ Suppressed' = Suppressed /\ Passed' = Passed
      /\ Deciding = 0 /\ Running /\ Running'
  BY <1>1, LineFrame DEF Deciding, Running, Passed
<1>3. CASE ~(queue # <<>> /\ Head(queue).release_at <= cutoff)
  <2>1. queue' = queue /\ pc' = "shutdown"
    BY <1>3 DEF Release
  <2>2. Held' = Held /\ Deciding' = 0
    BY <1>1, <2>1, LineFrame DEF Deciding
  <2> QED
    BY <1>1, <1>2, <2>2 DEF Line!vars, Running
<1>4. CASE queue # <<>> /\ Head(queue).release_at <= cutoff
  <2>1. queue' = Tail(queue) /\ pc' = "filter" /\ cur' = Head(queue).id
    BY <1>4 DEF Release
  <2>2. /\ Head(queue) = queue[1] /\ 1 \in 1..Len(queue) /\ queue[1] \in Entry
        /\ Len(queue) \in Nat \ {0} /\ Len(Tail(queue)) = Len(queue) - 1
        /\ \A i \in 1..(Len(queue) - 1) : Tail(queue)[i] = queue[i + 1]
    BY <1>4, PopFront DEF IInv, TypeOK
  <2>3. PICK n \in Nat \ {0} : n = Len(queue)
    BY <2>2
  <2>4. Held = QueueHeld /\ Held' = QueueHeld'
    BY <1>1, Forms DEF IInv
  <2>5. /\ QueueHeld = [i \in 1..n |-> QueueHeld[i]]
        /\ QueueHeld[1] = [id |-> queue[1].id, since |-> queue[1].seen]
    BY <2>2, <2>3 DEF QueueHeld, Indices
  <2>6. /\ QueueHeld # <<>> /\ Head(QueueHeld) = QueueHeld[1]
        /\ Tail(QueueHeld) = [i \in 1..(n - 1) |-> QueueHeld[i + 1]]
    BY <2>5, OneLess
  <2>7. QueueHeld' = [i \in 1..(n - 1) |-> QueueHeld[i + 1]]
    <3>1. QueueHeld' = [i \in 1..(n - 1) |-> [id |-> queue'[i].id, since |-> queue'[i].seen]]
      BY <2>1, <2>2, <2>3 DEF QueueHeld, Indices
    <3>2. ASSUME NEW i \in 1..(n - 1)
          PROVE  [id |-> queue'[i].id, since |-> queue'[i].seen] = QueueHeld[i + 1]
      <4>1. queue'[i] = queue[i + 1] /\ i + 1 \in 1..Len(queue)
        BY <2>1, <2>2, <2>3
      <4> QED
        BY <4>1 DEF QueueHeld, Indices
    <3> QED
      BY <3>1, <3>2
  <2>8. queue[1].seen + Delay <= now
    <3>1. /\ queue[1].release_at \in Nat /\ queue[1].seen \in Nat /\ cutoff \in Nat /\ now \in Nat
          /\ queue[1].release_at <= cutoff /\ Delay \in Nat
      BY <1>4, <2>2, LaneAssumption DEF Entry, IInv, TypeOK, FilterTypeOK
    <3>2. queue[1].seen + Delay <= queue[1].release_at
      BY <2>2 DEF IInv, LaneInv, Indices
    <3> QED
      BY <1>1, <3>1, <3>2
  <2>9. Head(Held).id = cur' /\ Head(Held).since + Delay <= now /\ Held # <<>> /\ Held' = Tail(Held)
    BY <2>1, <2>2, <2>4, <2>5, <2>6, <2>7, <2>8
  <2>10. Deciding' = cur'
    BY <2>1 DEF Deciding
  <2> QED
    BY <1>1, <1>2, <2>9, <2>10 DEF Line!Release, Running
<1> QED
  BY <1>3, <1>4

\* filter_be_packets and filter_be_bundles, on either of their paths, are the
\* line's Decide: what they remove was hit by a filter, and they remove all that
\* a fresh filter hits.
LEMMA FilteringDecides ==
    ASSUME IInv, TypeOK', FilterTest \/ FilterScan, UNCHANGED <<now, filterVars, envVars>>
    PROVE  Line!Decide \/ UNCHANGED Line!vars
<1>1. /\ pc \in {"filter", "scan"} /\ pc' \in {"scan", "send"}
      /\ UNCHANGED <<now, arrivals, received, queue, sent, published>>
  BY DEF envVars, filterVars, FilterTest, FilterScan
<1>2. /\ cur \in 1..received /\ arrivals[cur] \in Seq(SUBSET Signatures)
      /\ Len(arrivals[cur]) \in Nat /\ cur # 0
  BY <1>1, ResponseType DEF IInv, LaneInv
<1>3. Held' = Held /\ Suppressed' = Suppressed /\ Passed' = Passed /\ Running /\ Running' /\ Deciding = cur
  BY <1>1, LineFrame DEF Passed, Running, Deciding
<1>4. CASE pc' = "scan"
  <2>1. UNCHANGED <<cur, verdict>>
    BY <1>4 DEF FilterTest, FilterScan
  <2>2. Deciding' = Deciding /\ Decided' = Decided
    BY <1>1, <1>4, <2>1, LineFrame DEF Deciding
  <2> QED
    BY <1>1, <1>3, <2>2 DEF Line!vars, Running
<1>5. CASE pc' = "send"
  <2> DEFINE b == arrivals[cur]
             Young == {s \in DOMAIN Suppressed : now < Suppressed[s] + TTL}
             Blocks(blk) == /\ verdict'.id = cur
                            /\ 1..Len(b) \ verdict'.kept = {i \in 1..Len(b) : b[i] \cap blk # {}}
                            /\ Len(b) = 0 \/ (blk \subseteq DOMAIN published /\ Fresh \subseteq blk)
  <2>1. \E blk : Blocks(blk)
    <3>1. CASE FilterTest
      <4>1. len = 0 /\ verdict'.id = cur /\ verdict'.kept = 1..Len(b)
        BY <1>5, <3>1 DEF FilterTest, NothingFiltered, IsEmpty, Indices
      <4>2. Fresh = {}
        BY <4>1 DEF Fresh, IInv, FilterInv
      <4>3. Blocks({})
        BY <4>1, <4>2
      <4> QED
        BY <4>3
    <3>2. CASE FilterScan
      <4>1. /\ lock = "free" \/ b = <<>>
            /\ verdict'.kept = {i \in 1..Len(b) : b[i] \cap DOMAIN map = {}}
        BY <3>2 DEF FilterScan, Kept, Blocked, Indices
      <4>2. verdict'.id = cur
        BY <3>2 DEF FilterScan
      <4>3. lock = "free" \/ Len(b) = 0
        BY <4>1
      <4>4. lock = "free" => DOMAIN map \subseteq DOMAIN published /\ Fresh \subseteq DOMAIN map
        BY DEF IInv, FilterInv, InProgress, Fresh
      <4>5. Blocks(DOMAIN map)
        BY <4>1, <4>2, <4>3, <4>4
      <4> QED
        BY <4>5
    <3> QED
      BY <3>1, <3>2
  <2>2. PICK blk : Blocks(blk)
    BY <2>1
  <2>3. PICK R : R = {i \in 1..Len(b) : b[i] \cap blk # {}}
    OBVIOUS
  <2>4. Decided' = Append(Decided, [id |-> cur, removed |-> R])
    <3>1. SentOut' = SentOut
      BY <1>1 DEF SentOut, OutOf, Indices
    <3>2. OutOf(verdict)' = [id |-> cur, removed |-> R]
      BY <1>1, <2>2, <2>3 DEF OutOf, Indices
    <3>3. Decided = SentOut /\ Decided' = Append(SentOut', OutOf(verdict)')
      BY <1>1, <1>5, Forms DEF IInv
    <3> QED
      BY <3>1, <3>2, <3>3
  <2>5. DOMAIN Suppressed = DOMAIN published /\ Young = Fresh
    BY DEF Suppressed, Fresh
  <2>6. ASSUME NEW sigs PROVE Line!Hit(cur, sigs) = {i \in 1..Len(b) : b[i] \cap sigs # {}}
    BY DEF Line!Hit
  <2>7. R \in SUBSET Line!Hit(cur, DOMAIN Suppressed)
    BY <1>2, <2>2, <2>3, <2>5, <2>6, SMTT(30)
  <2>8. Line!Hit(cur, Young) \subseteq R
    <3> HIDE DEF Young
    <3>1. Line!Hit(cur, Young) = {i \in 1..Len(b) : b[i] \cap Young # {}}
      BY <2>6
    <3>2. Len(b) = 0 \/ Young \subseteq blk
      BY <2>2, <2>5
    <3> QED
      BY <1>2, <2>3, <3>1, <3>2
  <2>9. Deciding' = 0
    BY <1>5 DEF Deciding
  <2> QED
    BY <1>1, <1>2, <1>3, <2>4, <2>7, <2>8, <2>9 DEF Line!Decide, Running
<1> QED
  BY <1>1, <1>4, <1>5

\* tx.send is nothing to the line: what is sent was decided on before.
LEMMA SendIsQuiet ==
    ASSUME IInv, TypeOK', Send, UNCHANGED <<now, filterVars, envVars>>
    PROVE  UNCHANGED Line!vars
<1>1. /\ pc = "send" /\ pc' = "release" /\ sent' = Append(sent, verdict)
      /\ UNCHANGED <<now, arrivals, received, queue, published>>
  BY DEF envVars, filterVars, Send
<1>2. /\ Held' = Held /\ Suppressed' = Suppressed /\ Passed' = Passed /\ Deciding' = Deciding
      /\ Running /\ Running'
  BY <1>1, LineFrame DEF Passed, Deciding, Running
<1>3. PICK n \in Nat : n = Len(sent)
  BY DEF IInv, TypeOK
<1>4. Len(sent') = n + 1 /\ (\A i \in 1..n : sent'[i] = sent[i]) /\ sent'[n + 1] = verdict
  BY <1>1, <1>3 DEF IInv, TypeOK
<1>5. PICK e : e = OutOf(verdict)
  OBVIOUS
<1>6. SentOut = [i \in 1..n |-> SentOut[i]]
  BY <1>3 DEF SentOut, Indices
<1>7. Append(SentOut, e) = [i \in 1..(n + 1) |-> IF i = n + 1 THEN e ELSE SentOut[i]]
  BY <1>6, OneMore
<1>8. SentOut' = [i \in 1..(n + 1) |-> IF i = n + 1 THEN e ELSE SentOut[i]]
  <2>1. SentOut' = [i \in 1..(n + 1) |-> OutOf(sent[i])']
    BY <1>4 DEF SentOut, Indices
  <2>2. ASSUME NEW i \in 1..(n + 1)
        PROVE  OutOf(sent[i])' = IF i = n + 1 THEN e ELSE SentOut[i]
    <3>1. CASE i = n + 1
      <4>1. sent'[i].id = verdict.id /\ sent'[i].kept = verdict.kept
        BY <3>1, <1>4
      <4>2. OutOf(sent[i])' = OutOf(verdict)
        BY <4>1, <1>1 DEF OutOf, Indices
      <4> QED
        BY <3>1, <4>2, <1>5
    <3>2. CASE i # n + 1
      <4>1. i \in 1..n /\ i \in 1..Len(sent) /\ sent'[i] = sent[i]
        BY <3>2, <1>3, <1>4
      <4>2. OutOf(sent[i])' = OutOf(sent[i])
        BY <4>1, <1>1 DEF OutOf, Indices
      <4> QED
        BY <4>1, <4>2, <3>2 DEF SentOut, Indices
    <3> QED
      BY <3>1, <3>2
  <2> QED
    BY <2>1, <2>2
<1>9. Decided' = Decided
  <2>1. Decided = Append(SentOut, OutOf(verdict)) /\ Decided' = SentOut'
    BY <1>1, Forms DEF IInv
  <2> QED
    BY <1>5, <1>7, <1>8, <2>1
<1> QED
  BY <1>1, <1>2, <1>9 DEF Line!vars, Running

\* A response that is broadcast is offered to the line; what was decided before
\* is not touched, as it refers to responses received before.
LEMMA BroadcastOffers ==
    ASSUME IInv, TypeOK', NEW r \in Responses, Broadcast(r), UNCHANGED <<now, filterVars, laneVars>>
    PROVE  Line!Offer
<1>1. /\ arrivals' = Append(arrivals, r)
      /\ UNCHANGED <<now, pc, received, queue, cur, seen, verdict, sent, published>>
  BY DEF Broadcast, filterVars, laneVars
<1>2. /\ Held' = Held /\ Suppressed' = Suppressed /\ Passed' = Passed /\ Deciding' = Deciding
      /\ Running' = Running
  BY <1>1, LineFrame
<1>3. ASSUME NEW i \in 1..received PROVE arrivals'[i] = arrivals[i]
  <2>1. arrivals \in Seq(Responses) /\ Len(arrivals) \in Nat /\ i \in 1..Len(arrivals)
    BY DEF IInv, TypeOK
  <2> QED
    BY <1>1, <2>1
<1>4. SentOut' = SentOut
  <2>1. PICK n \in Nat : n = Len(sent)
    BY DEF IInv, TypeOK
  <2>2. ASSUME NEW i \in 1..n PROVE OutOf(sent[i])' = OutOf(sent[i])
    <3>1. sent[i].id \in 1..received /\ sent'[i] = sent[i]
      BY <1>1, <2>1 DEF IInv, LaneInv, Indices
    <3>2. arrivals'[sent[i].id] = arrivals[sent[i].id]
      BY <1>3, <3>1
    <3> QED
      BY <3>1, <3>2 DEF OutOf, Indices
  <2>3. SentOut' = [i \in 1..n |-> OutOf(sent[i])']
    BY <1>1, <2>1 DEF SentOut, Indices, OutOf
  <2>4. SentOut = [i \in 1..n |-> OutOf(sent[i])]
    BY <2>1 DEF SentOut, Indices
  <2> QED
    BY <2>2, <2>3, <2>4
<1>5. pc = "send" => OutOf(verdict)' = OutOf(verdict)
  <2> SUFFICES ASSUME pc = "send" PROVE OutOf(verdict)' = OutOf(verdict)
    OBVIOUS
  <2>1. arrivals'[verdict.id] = arrivals[verdict.id]
    BY <1>3 DEF IInv, LaneInv
  <2> QED
    BY <1>1, <2>1 DEF OutOf, Indices
<1>6. Decided' = Decided
  BY <1>1, <1>4, <1>5, Forms DEF IInv
<1> QED
  BY <1>1, <1>2, <1>6 DEF Line!Offer, Running

\* The end of insert is the line's Suppress, with the instant read at its start.
LEMMA PublishSuppresses ==
    ASSUME IInv, Publish
    PROVE  \E s \in Signatures : Line!Suppress(s)
<1>1. /\ lock = "mirror" /\ UNCHANGED <<now, laneVars, envVars>>
      /\ published' = Put(published, inserting.sig, [at |-> inserting.at, since |-> now])
  BY DEF Publish, InsertPublish
<1>2. UNCHANGED <<arrivals, pc, received, queue, cur, seen, verdict, sent>>
  BY <1>1 DEF laneVars, envVars
<1>3. /\ Held' = Held /\ Passed' = Passed /\ Deciding' = Deciding
      /\ Decided' = Decided /\ Running' = Running
  BY <1>2, LineFrame
<1>4. inserting.sig \in Signatures /\ inserting.at \in 0..now
  BY <1>1, SMTT(30) DEF IInv, TypeOK, FilterTypeOK, FilterInv
<1>5. PICK s \in Signatures, t \in 0..now : s = inserting.sig /\ t = inserting.at
  BY <1>4
<1>6. Suppressed' = [x \in DOMAIN Suppressed \cup {s} |-> IF x = s THEN t ELSE Suppressed[x]]
  <2>1. published' = Put(published, s, [at |-> t, since |-> now])
    BY <1>1, <1>5
  <2>2. /\ DOMAIN published' = DOMAIN published \cup {s} /\ published'[s] = [at |-> t, since |-> now]
        /\ \A x \in DOMAIN published : x # s => published'[x] = published[x]
    BY <2>1 DEF Put
  <2>3. DOMAIN Suppressed = DOMAIN published
    BY DEF Suppressed
  <2>4. Suppressed' = [x \in DOMAIN published \cup {s} |-> published'[x].at]
    BY <2>2 DEF Suppressed
  <2>5. ASSUME NEW x \in DOMAIN published \cup {s}
        PROVE  published'[x].at = IF x = s THEN t ELSE Suppressed[x]
    BY <2>2 DEF Suppressed
  <2> QED
    BY <2>3, <2>4, <2>5
<1>7. Line!Suppress(s)
  BY <1>1, <1>2, <1>3, <1>6 DEF Line!Suppress, Running
<1> QED
  BY <1>7

\* Every step of the lane, of the filter set and of the environment is a step of
\* the line or none.
LEMMA StepSimulation ==
    ASSUME IInv, IInv', [Next]_vars
    PROVE  [Line!Next]_(Line!vars)
<1>0. TypeOK'
  BY DEF IInv
<1>1. CASE Lane
  <2>1. UNCHANGED <<now, filterVars, envVars>>
    BY <1>1 DEF Lane
  <2>2. CASE PollShutdown \/ PollTimer \/ RecvOk \/ RecvLagged \/ RecvClosed \/ RecvPending \/ Cutoff
    BY <2>1, <2>2, PollsAreQuiet DEF Line!Next
  <2>3. CASE OnReceive
    BY <1>0, <2>1, <2>3, OnReceiveAccepts DEF Line!Next
  <2>4. CASE Push
    BY <1>0, <2>1, <2>4, PushIsQuiet
  <2>5. CASE Release
    BY <1>0, <2>1, <2>5, ReleaseReleases DEF Line!Next
  <2>6. CASE FilterTest \/ FilterScan
    BY <1>0, <2>1, <2>6, FilteringDecides DEF Line!Next
  <2>7. CASE Send
    BY <1>0, <2>1, <2>7, SendIsQuiet
  <2> QED
    BY <1>1, <2>2, <2>3, <2>4, <2>5, <2>6, <2>7 DEF Lane, Task
<1>2. CASE UNCHANGED <<now, arrivals, pc, received, queue, cur, seen, verdict, sent, published>>
  BY <1>2, LineFrame DEF Line!vars, Running
<1>3. ASSUME NEW s \in Signatures, Insert(s) PROVE UNCHANGED Line!vars
  <2>1. UNCHANGED <<now, arrivals, pc, received, queue, cur, seen, verdict, sent, published>>
    BY <1>3 DEF Insert, InsertEntry, laneVars, envVars
  <2> QED
    BY <2>1, LineFrame DEF Line!vars, Running
<1>4. CASE SweepStart \/ SweepEnd \/ UNCHANGED vars
  <2>1. UNCHANGED <<now, arrivals, pc, received, queue, cur, seen, verdict, sent, published>>
    BY <1>4 DEF SweepStart, SweepRetain, SweepEnd, SweepPublish, vars, filterVars, laneVars, envVars
  <2> QED
    BY <1>2, <2>1
<1>5. CASE Publish
  BY <1>5, PublishSuppresses DEF Line!Next
<1>6. CASE Clock
  <2>1. now' = now + 1 /\ UNCHANGED <<arrivals, pc, received, queue, cur, seen, verdict, sent, published>>
    BY <1>6 DEF Clock, Tick, filterVars, laneVars, envVars
  <2>2. Line!Tick
    BY <2>1, LineFrame DEF Line!Tick, Running
  <2> QED
    BY <2>2 DEF Line!Next
<1>7. CASE Environment
  <2>1. UNCHANGED <<now, filterVars, laneVars>>
    BY <1>7 DEF Environment
  <2>2. ASSUME NEW r \in Responses, Broadcast(r) PROVE Line!Next
    BY <1>0, <2>1, <2>2, BroadcastOffers DEF Line!Next
  <2>3. CASE CloseInput \/ SetExit \/ ShutdownWatch
    <3>1. UNCHANGED <<now, arrivals, pc, received, queue, cur, seen, verdict, sent, published>>
      BY <2>1, <2>3 DEF CloseInput, SetExit, ShutdownWatch, filterVars, laneVars
    <3> QED
      BY <1>2, <3>1
  <2> QED
    BY <1>7, <2>2, <2>3 DEF Environment
<1> QED
  BY <1>1, <1>3, <1>4, <1>5, <1>6, <1>7 DEF Next

-----------------------------------------------------------------------------
(* The theorems.                                                           *)

\* The inductive invariant of a lane and the filter set it consults holds in
\* every reachable state.
THEOREM Invariance == Spec => []IInv
  BY InitIInv, NextIInv, PTL DEF Spec

\* delay_forward implements the delay line: with any delay, TTL, broadcast
\* capacity and responses, every behaviour of a lane beside insert and sweep is
\* a behaviour of DelayLine that skips only what the broadcast channel overwrote.
THEOREM LaneImplementsLine == Spec => ImplementsDelayLine
<1>1. IInv => TypeOK
  BY DEF IInv
<1>2. IInv /\ IInv' /\ [Next]_vars => [Line!Next]_(Line!vars)
  BY StepSimulation
<1> QED
  BY <1>1, <1>2, Invariance, LineInit, PTL DEF Spec, ImplementsDelayLine, Line!Spec

=============================================================================
