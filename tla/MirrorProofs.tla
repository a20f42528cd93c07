---------------------------- MODULE MirrorProofs ----------------------------
(***************************************************************************)
(* Proofs about Mirror, for every channel capacity and any number of       *)
(* connections, bundles, streams and frames.                               *)
(*                                                                         *)
(* HandInv says when mirror_bundles_out has a bundle in hand: the last one *)
(* its receiver took, and only between taking it and writing its payload,  *)
(* so that dropping the arms loses that one and nothing else.  WireInv     *)
(* says how far the streams are behind the receiver, which is what makes   *)
(* the order on the wire inductive.  ReaderInv says that a reader which    *)
(* forwarded a frame after shutdown looks at the flag before the next one. *)
(***************************************************************************)
EXTENDS Mirror, FiniteSetTheorems, TLAPS

\* The type invariant in the groups of variables that change together.
EnvType ==
    /\ exit \in BOOLEAN /\ shutdown \in BOOLEAN /\ bundlesOpen \in BOOLEAN
    /\ validator \in Identities
RunType ==
    /\ pc \in {"start", "loop", "connect", "set", "serve", "clear", "check", "sleep", "finish", "done"}
    /\ conn \in Nat /\ slot \in 0..conn /\ open \subseteq 1..conn /\ datagrams \subseteq 1..conn
    /\ backoff \in BackoffInitial..BackoffMax
OutType ==
    /\ outPc \in {"none", "open", "recv", "length", "payload"}
    /\ bundles \in Nat /\ rxPos \in 0..bundles /\ inHand \in 0..rxPos
    /\ lagged \subseteq 1..rxPos /\ dropped \subseteq 1..rxPos
    /\ wire \in Seq(Written)
ControlType == identity \in Identities /\ reported \subseteq (1..conn) \X Validators
ReaderType == readers \in Seq(Reader) /\ late \in [Indices(readers) -> Nat]

\* What run and the arms are doing together.
HandInv ==
    /\ slot # 0 => slot = conn /\ pc \in {"serve", "clear"}
    /\ pc \in {"set", "serve", "clear"} => conn > 0
    /\ pc # "serve" => outPc = "none"
    /\ inHand = IF outPc \in {"length", "payload"} THEN rxPos ELSE 0
    /\ outPc \in {"length", "payload"} => rxPos > 0

\* What was written is at most what was received, and what is in hand is new but
\* for its length.
WireInv ==
    /\ \A i \in Indices(wire) : wire[i].id <= rxPos
    /\ outPc = "length" => \A i \in Indices(wire) : wire[i].id < rxPos
    /\ outPc = "payload" =>
            /\ wire # <<>> /\ wire[Len(wire)] = [conn |-> conn, id |-> rxPos, part |-> "length"]
            /\ \A i \in 1..(Len(wire) - 1) : wire[i].id < rxPos

\* A frame forwarded after shutdown was the last of its reader.
ReaderInv ==
    \A r \in Indices(readers) :
        late[r] # 0 => late[r] = 1 /\ shutdown /\ readers[r].pc \in {"test", "done"}

\* What is on the wire with its payload.
Payloads == {wire[i].id : i \in {k \in Indices(wire) : wire[k].part = "payload"}}

Covered == 1..rxPos = Payloads \cup lagged \cup dropped \cup ({inHand} \ {0})

Ordered ==
    /\ \A i, j \in Indices(wire) : i < j /\ wire[i].part = wire[j].part => wire[i].id < wire[j].id
    /\ \A i \in Indices(wire) : wire[i].part = "payload" =>
            i > 1 /\ wire[i - 1] = [wire[i] EXCEPT !.part = "length"]

Spared == Cardinality(dropped) <= IF pc \in {"set", "serve"} THEN conn - 1 ELSE conn

IInv ==
    /\ EnvType /\ RunType /\ OutType /\ ControlType /\ ReaderType
    /\ HandInv /\ WireInv /\ Ordered /\ Covered /\ Spared /\ ReaderInv

-----------------------------------------------------------------------------

\* What was dropped can be counted.
LEMMA DroppedFinite ==
    ASSUME OutType
    PROVE  IsFiniteSet(dropped) /\ Cardinality(dropped) \in Nat
  <1>1. IsFiniteSet(1..rxPos)
    BY FS_Interval DEF OutType
  <1>2. IsFiniteSet(dropped)
    BY <1>1, FS_Subset DEF OutType
  <1> QED
    BY <1>2, FS_CardinalityType

\* The mirror starts with no connection, bundle or reader.
LEMMA InitStep == Init => IInv
  <1> SUFFICES ASSUME Init PROVE IInv
    OBVIOUS
  <1>1. EnvType
    BY Zenon DEF Init, EnvType, Identities
  <1>2. RunType
    BY MirrorAssumption DEF Init, RunType
  <1>3. OutType
    BY DEF Init, OutType
  <1>4. ControlType
    BY DEF Init, ControlType, Identities
  <1>5. ReaderType
    BY DEF Init, ReaderType, Indices
  <1>7. HandInv /\ WireInv /\ ReaderInv
    BY DEF Init, HandInv, WireInv, ReaderInv, Indices
  <1>8. Ordered /\ Covered
    BY DEF Init, Ordered, Covered, Payloads, Indices
  <1>9. Spared
    BY FS_EmptySet DEF Init, Spared
  <1> QED
    BY <1>1, <1>2, <1>3, <1>4, <1>5, <1>7, <1>8, <1>9 DEF IInv

\* Nothing but the connection loop moves: the arms are not running.
LEMMA RunStep ==
    ASSUME IInv, Connect \/ Run
    PROVE  IInv'
  <1>1. HandInv /\ WireInv /\ Ordered /\ Covered /\ Spared /\ ReaderInv
    BY DEF IInv
  <1>2. EnvType /\ RunType /\ OutType /\ ControlType /\ ReaderType
    BY DEF IInv
  <1>3. /\ UNCHANGED <<exit, shutdown, bundlesOpen, bundles, validator>>
        /\ UNCHANGED <<rxPos, inHand, lagged, dropped, wire, identity, reported, readers, late>>
    BY DEF Connect, Connected, ConnectFailed, Run, Start, Loop, SetConnection, ClearConnection,
           Check, Sleep, Finish, envVars, outVars, controlVars, readerVars
  <1>4. /\ pc # "serve" /\ outPc = "none" /\ inHand = 0
        /\ outPc' = IF pc' = "serve" THEN "open" ELSE "none"
    BY <1>1 DEF HandInv, Connect, Connected, ConnectFailed, Run, Start, Loop, SetConnection,
           ClearConnection, Check, Sleep, Finish, outVars, AfterFailure
  <1>5. conn' \in Nat /\ conn <= conn' /\ slot' \in 0..conn'
    BY <1>2 DEF RunType, Connect, Connected, ConnectFailed, Run, Start, Loop, SetConnection,
           ClearConnection, Check, Sleep, Finish, Cleared
  <1>13. /\ open' \subseteq open \cup (IF conn' = conn THEN {} ELSE {conn'})
         /\ datagrams' \subseteq datagrams \cup (IF conn' = conn THEN {} ELSE {conn'})
    BY <1>2 DEF RunType, Connect, Connected, ConnectFailed, Run, Start, Loop, SetConnection,
           ClearConnection, Check, Sleep, Finish, LeftOpen
  <1>6. open' \subseteq 1..conn' /\ datagrams' \subseteq 1..conn'
    <2>1. 1..conn \cup (IF conn' = conn THEN {} ELSE {conn'}) \subseteq 1..conn'
      BY <1>2, <1>5 DEF RunType
    <2> QED
      BY <1>2, <1>13, <2>1 DEF RunType
  <1>7. backoff' \in BackoffInitial..BackoffMax
    BY <1>2, MirrorAssumption DEF RunType, Connect, Connected, ConnectFailed, Run, Start, Loop,
           SetConnection, ClearConnection, Check, Sleep, Finish, Least
  <1>8. pc' \in {"start", "loop", "connect", "set", "serve", "clear", "check", "sleep", "finish", "done"}
    BY DEF Connect, Connected, ConnectFailed, Run, Start, Loop, SetConnection,
           ClearConnection, Check, Sleep, Finish, AfterFailure
  <1>9. EnvType' /\ RunType' /\ OutType' /\ ControlType' /\ ReaderType'
    <2>1. EnvType' /\ ReaderType' /\ RunType'
      BY <1>2, <1>3, <1>5, <1>6, <1>7, <1>8, Zenon DEF EnvType, ReaderType, RunType, Indices
    <2>2. OutType'
      BY <1>2, <1>3, <1>4 DEF OutType
    <2>3. ControlType'
      <3>1. 1..conn \subseteq 1..conn'
        BY <1>2, <1>5 DEF RunType
      <3> QED
        BY <3>1, <1>2, <1>3 DEF ControlType
    <2> QED
      BY <2>1, <2>2, <2>3
  <1>10. HandInv'
    <2>1. slot' # 0 => slot' = conn' /\ pc' \in {"serve", "clear"}
      BY <1>1, <1>2 DEF HandInv, RunType, Connect, Connected, ConnectFailed, Run, Start, Loop,
           SetConnection, ClearConnection, Check, Sleep, Finish, Cleared
    <2>2. pc' \in {"set", "serve", "clear"} => conn' > 0
      BY <1>1, <1>2 DEF HandInv, RunType, Connect, Connected, ConnectFailed, Run, Start, Loop,
           SetConnection, ClearConnection, Check, Sleep, Finish, AfterFailure
    <2> QED
      BY <2>1, <2>2, <1>3, <1>4 DEF HandInv
  <1>11. WireInv' /\ Ordered' /\ Covered' /\ ReaderInv'
    BY <1>1, <1>3, <1>4 DEF WireInv, Ordered, Covered, ReaderInv, Indices, Payloads
  <1>12. Spared'
    <2>1. Cardinality(dropped) \in Nat
      BY <1>2, DroppedFinite
    <2>2. /\ conn' = conn \/ (conn' = conn + 1 /\ pc' = "set")
          /\ pc' = "set" => conn' = conn + 1
          /\ pc' = "serve" => pc = "set"
          /\ pc = "set" => pc' = "serve"
      <3>1. CASE Connect
        BY <3>1 DEF Connect, Connected, ConnectFailed, AfterFailure
      <3>2. CASE Run
        BY <3>2 DEF Run, Start, Loop, SetConnection, ClearConnection, Check, Sleep, Finish
      <3> QED
        BY <3>1, <3>2
    <2>3. /\ dropped' = dropped /\ conn \in Nat /\ conn' \in Nat
          /\ Cardinality(dropped) <= IF pc \in {"set", "serve"} THEN conn - 1 ELSE conn
      BY <1>1, <1>2, <1>3, <1>5 DEF Spared, RunType
    <2>4. Cardinality(dropped') = Cardinality(dropped)
      BY <2>3
    <2>5. PICK c \in Nat : c = Cardinality(dropped)
      BY <2>1
    <2>6. c <= IF pc' \in {"set", "serve"} THEN conn' - 1 ELSE conn'
      <3>1. c <= IF pc \in {"set", "serve"} THEN conn - 1 ELSE conn
        BY <2>3, <2>5
      <3>2. conn \in Nat /\ conn' \in Nat /\ pc # "serve"
        BY <2>3, <1>4
      <3>3. CASE pc = "set"
        BY <3>1, <3>2, <3>3, <2>2
      <3>4. CASE pc # "set"
        <4>1. c <= conn
          BY <3>1, <3>2, <3>4
        <4>2. CASE pc' = "set"
          BY <3>2, <4>1, <4>2, <2>2
        <4>3. CASE pc' # "set"
          <5>1. pc' # "serve" /\ conn' = conn
            BY <4>3, <3>4, <2>2
          <5> QED
            BY <5>1, <4>1, <4>3
        <4> QED
          BY <4>2, <4>3
      <3> QED
        BY <3>3, <3>4
    <2> QED
      BY <2>4, <2>5, <2>6 DEF Spared
  <1> QED
    BY <1>9, <1>10, <1>11, <1>12 DEF IInv

\* serve_connection returns: the bundle in hand, if there is one, is the only
\* one given up, and the receiver stays where it is.
LEMMA ServeEndsStep ==
    ASSUME IInv, ServeEnds
    PROVE  IInv'
  <1>1. HandInv /\ WireInv /\ Ordered /\ Covered /\ Spared /\ ReaderInv
    BY DEF IInv
  <1>2. EnvType /\ RunType /\ OutType /\ ControlType /\ ReaderType
    BY DEF IInv
  <1>3. /\ pc = "serve" /\ pc' = "clear" /\ outPc' = "none" /\ inHand' = 0 /\ rxPos' = rxPos
        /\ dropped' = dropped \cup ({inHand} \ {0}) /\ identity' = NoValidator
        /\ UNCHANGED <<lagged, wire, reported, exit, shutdown, bundles, bundlesOpen, validator>>
        /\ UNCHANGED <<conn, slot, datagrams, backoff, open, readers, late>>
    BY DEF ServeEnds, Drop, Receiver, envVars, readerVars
  <1>4. EnvType' /\ ReaderType' /\ RunType' /\ ControlType'
    <2>1. EnvType' /\ ReaderType'
      BY <1>2, <1>3, Zenon DEF EnvType, ReaderType, Indices
    <2>2. RunType'
      BY <1>2, <1>3 DEF RunType
    <2>3. ControlType'
      BY <1>2, <1>3 DEF ControlType, Identities
    <2> QED
      BY <2>1, <2>2, <2>3
  <1>5. OutType'
    <2>1. {inHand} \ {0} \subseteq 1..rxPos
      BY <1>2 DEF OutType
    <2> QED
      BY <1>2, <1>3, <2>1 DEF OutType
  <1>6. HandInv'
    BY <1>1, <1>3 DEF HandInv
  <1>7. WireInv' /\ Ordered' /\ ReaderInv'
    BY <1>1, <1>3 DEF WireInv, Ordered, ReaderInv, Indices
  <1>8. Covered'
    <2>1. Payloads' = Payloads
      BY <1>3 DEF Payloads, Indices
    <2> QED
      BY <1>1, <1>3, <2>1 DEF Covered
  <1>9. Spared'
    <2>1. IsFiniteSet(dropped) /\ Cardinality(dropped) \in Nat
      BY <1>2, DroppedFinite
    <2>2. /\ conn \in Nat /\ conn > 0 /\ conn' = conn
          /\ Cardinality(dropped) <= conn - 1
      BY <1>1, <1>2, <1>3 DEF Spared, HandInv, RunType
    <2>3. /\ Cardinality(dropped \cup {inHand}) \in Nat
          /\ Cardinality(dropped \cup {inHand}) <= Cardinality(dropped) + 1
      <3>1. IsFiniteSet(dropped \cup {inHand})
        BY <2>1, FS_AddElement
      <3>2. Cardinality(dropped \cup {inHand}) \in Nat
        BY <3>1, FS_CardinalityType
      <3>3. \/ Cardinality(dropped \cup {inHand}) = Cardinality(dropped)
            \/ Cardinality(dropped \cup {inHand}) = Cardinality(dropped) + 1
        BY <2>1, FS_AddElement
      <3> QED
        BY <3>2, <3>3, <2>1
    <2>4. dropped' = dropped \/ dropped' = dropped \cup {inHand}
      BY <1>3
    <2>5. Cardinality(dropped') <= conn
      <3>1. CASE dropped' = dropped
        <4>1. Cardinality(dropped') = Cardinality(dropped)
          BY <3>1
        <4> QED
          BY <4>1, <2>1, <2>2
      <3>2. CASE dropped' = dropped \cup {inHand}
        <4>1. Cardinality(dropped') = Cardinality(dropped \cup {inHand})
          BY <3>2
        <4> QED
          BY <4>1, <2>1, <2>2, <2>3
      <3> QED
        BY <2>4, <3>1, <3>2
    <2> QED
      BY <1>3, <2>2, <2>5 DEF Spared
  <1> QED
    BY <1>4, <1>5, <1>6, <1>7, <1>8, <1>9 DEF IInv

\* What an action of mirror_bundles_out leaves alone.
LEMMA OutFrame ==
    ASSUME IInv, Out, dropped' = dropped, OutType', WireInv', Ordered', Covered',
           inHand' = IF outPc' \in {"length", "payload"} THEN rxPos' ELSE 0,
           outPc' \in {"length", "payload"} => rxPos' > 0
    PROVE  IInv'
  <1>1. /\ pc = "serve" /\ UNCHANGED <<exit, shutdown, bundles, bundlesOpen, validator, open>>
        /\ UNCHANGED <<pc, conn, slot, datagrams, backoff, identity, reported, readers, late>>
    BY DEF Out, envVars, runVars, controlVars, readerVars
  <1>2. EnvType' /\ RunType' /\ ControlType' /\ ReaderType'
    BY <1>1, Zenon DEF IInv, EnvType, RunType, ControlType, ReaderType, Indices
  <1>3. HandInv' /\ ReaderInv' /\ Spared'
    BY <1>1 DEF IInv, HandInv, ReaderInv, Spared, Indices
  <1> QED
    BY <1>2, <1>3 DEF IInv

\* The receiver moves on; the wire does not change.
LEMMA ReceiveStep ==
    ASSUME IInv, OpenUni \/ RecvBundle \/ RecvLagged
    PROVE  IInv'
  <1>1. HandInv /\ WireInv /\ Ordered /\ Covered /\ OutType
    BY DEF IInv
  <1>2. /\ Out /\ dropped' = dropped /\ wire' = wire /\ bundles' = bundles
        /\ outPc \in {"open", "recv"} /\ inHand = 0
    BY <1>1 DEF OpenUni, RecvBundle, RecvLagged, Out, envVars, HandInv
  <1>3. Ordered' /\ Payloads' = Payloads
    BY <1>1, <1>2 DEF Ordered, Payloads, Indices
  <1>4. Capacity \in Nat \ {0} /\ rxPos \in Nat /\ bundles \in Nat
        /\ \A i \in Indices(wire) : wire[i].id \in Nat /\ wire[i].id <= rxPos
    <2>1. \A i \in Indices(wire) : wire[i] \in Written
      BY <1>1 DEF OutType, Indices
    <2> QED
      BY <1>1, <2>1, MirrorAssumption DEF OutType, WireInv, Written
  <1>5. CASE OpenUni
    <2>1. outPc' = "recv" /\ rxPos' = rxPos /\ inHand' = 0 /\ lagged' = lagged
      BY <1>2, <1>5 DEF OpenUni
    <2>2. OutType' /\ WireInv' /\ Covered'
      BY <1>1, <1>2, <1>3, <2>1 DEF OutType, WireInv, Covered, Indices
    <2> QED
      BY <1>2, <1>3, <2>1, <2>2, OutFrame
  <1>6. CASE RecvBundle
    <2>1. /\ outPc' = "length" /\ rxPos' = rxPos + 1 /\ inHand' = rxPos + 1 /\ lagged' = lagged
          /\ rxPos + 1 \in 1..bundles
      BY <1>4, <1>6 DEF RecvBundle
    <2>2. 1..rxPos' = 1..rxPos \cup {rxPos + 1}
      BY <1>4, <2>1
    <2>3. OutType'
      BY <1>1, <1>2, <1>4, <2>1, <2>2 DEF OutType
    <2>4. WireInv'
      BY <1>2, <1>4, <2>1 DEF WireInv, Indices
    <2>5. Covered'
      BY <1>1, <1>2, <1>3, <1>4, <2>1, <2>2 DEF Covered
    <2> QED
      BY <1>2, <1>3, <1>4, <2>1, <2>3, <2>4, <2>5, OutFrame
  <1>7. CASE RecvLagged
    <2>1. /\ outPc' = "recv" /\ inHand' = 0 /\ rxPos' = bundles - Capacity
          /\ lagged' = lagged \cup (rxPos + 1)..rxPos'
          /\ rxPos' \in 0..bundles /\ rxPos < rxPos'
      BY <1>2, <1>4, <1>7 DEF RecvLagged
    <2>2. 1..rxPos' = 1..rxPos \cup (rxPos + 1)..rxPos'
      BY <1>4, <2>1
    <2>3. OutType'
      BY <1>1, <1>2, <1>4, <2>1, <2>2 DEF OutType
    <2>4. WireInv'
      BY <1>2, <1>4, <2>1 DEF WireInv, Indices
    <2>5. Covered'
      BY <1>1, <1>2, <1>3, <2>1, <2>2 DEF Covered
    <2> QED
      BY <1>2, <1>3, <2>1, <2>3, <2>4, <2>5, OutFrame
  <1> QED
    BY <1>5, <1>6, <1>7

\* What a write puts behind what is there.
LEMMA WrittenLast ==
    ASSUME OutType, NEW w \in Written, wire' = Append(wire, w)
    PROVE  /\ wire' \in Seq(Written) /\ Len(wire) \in Nat /\ Len(wire') = Len(wire) + 1
           /\ Indices(wire') = Indices(wire) \cup {Len(wire) + 1}
           /\ wire'[Len(wire) + 1] = w
           /\ \A i \in Indices(wire) : wire'[i] = wire[i] /\ wire[i] \in Written /\ wire[i].id \in Nat
  <1>1. wire \in Seq(Written)
    BY DEF OutType
  <1>2. \A i \in Indices(wire) : wire[i] \in Written
    BY <1>1 DEF Indices
  <1>3. \A i \in Indices(wire) : wire[i].id \in Nat
    BY <1>2 DEF Written
  <1> QED
    BY <1>1, <1>2, <1>3 DEF Indices

\* The length of a bundle is written when nothing of it is on the wire.
LEMMA WriteLengthStep ==
    ASSUME IInv, WriteLength
    PROVE  IInv'
  <1>1. HandInv /\ WireInv /\ Ordered /\ Covered /\ OutType /\ RunType
    BY DEF IInv
  <1>2. PICK w : w = [conn |-> conn, id |-> inHand, part |-> "length"]
    OBVIOUS
  <1>3. /\ Out /\ dropped' = dropped /\ lagged' = lagged /\ rxPos' = rxPos /\ inHand' = inHand
        /\ outPc = "length" /\ outPc' = "payload" /\ inHand = rxPos /\ rxPos > 0
        /\ wire' = Append(wire, w) /\ bundles' = bundles /\ conn' = conn
    BY <1>1, <1>2 DEF WriteLength, HandInv, Out, envVars, runVars
  <1>4. w \in Written /\ w.id = rxPos /\ w.part = "length" /\ rxPos \in Nat
    BY <1>1, <1>2, <1>3 DEF Written, OutType, RunType
  <1>5. /\ wire' \in Seq(Written) /\ Len(wire) \in Nat /\ Len(wire') = Len(wire) + 1
        /\ Indices(wire') = Indices(wire) \cup {Len(wire) + 1}
        /\ wire'[Len(wire) + 1] = w
        /\ \A i \in Indices(wire) : wire'[i] = wire[i] /\ wire[i] \in Written /\ wire[i].id \in Nat
    BY <1>1, <1>3, <1>4, WrittenLast
  <1>6. \A i \in Indices(wire) : wire'[i].id < rxPos
    BY <1>1, <1>3, <1>5 DEF WireInv
  <1>7. OutType'
    BY <1>1, <1>3, <1>5 DEF OutType
  <1>8. WireInv'
    <2>1. wire' # <<>> /\ wire'[Len(wire')] = [conn |-> conn', id |-> rxPos', part |-> "length"]
      BY <1>2, <1>3, <1>5
    <2>2. 1..(Len(wire') - 1) = Indices(wire)
      BY <1>5 DEF Indices
    <2>3. \A i \in Indices(wire') : wire'[i].id <= rxPos'
      <3>1. ASSUME NEW i \in Indices(wire) PROVE wire'[i].id <= rxPos'
        <4>1. wire'[i].id \in Nat /\ wire'[i].id < rxPos
          BY <1>5, <1>6
        <4>2. rxPos' = rxPos /\ rxPos \in Nat
          BY <1>3, <1>4
        <4> QED
          BY <4>1, <4>2
      <3>2. wire'[Len(wire) + 1].id <= rxPos'
        BY <1>3, <1>4, <1>5
      <3> QED
        BY <3>1, <3>2, <1>5
    <2> QED
      BY <2>1, <2>2, <2>3, <1>3, <1>6 DEF WireInv
  <1>9. Ordered'
    <2>1. ASSUME NEW i \in Indices(wire'), NEW j \in Indices(wire'), i < j, wire'[i].part = wire'[j].part
          PROVE  wire'[i].id < wire'[j].id
      <3>1. i \in Indices(wire)
        BY <2>1, <1>5 DEF Indices
      <3>2. CASE j \in Indices(wire)
        BY <2>1, <3>1, <3>2, <1>1, <1>5 DEF Ordered
      <3>3. CASE j = Len(wire) + 1
        BY <3>1, <3>3, <1>4, <1>5, <1>6
      <3> QED
        BY <3>2, <3>3, <1>5
    <2>2. ASSUME NEW i \in Indices(wire'), wire'[i].part = "payload"
          PROVE  i > 1 /\ wire'[i - 1] = [wire'[i] EXCEPT !.part = "length"]
      <3>1. i \in Indices(wire)
        BY <2>2, <1>4, <1>5
      <3>2. i > 1 /\ wire[i - 1] = [wire[i] EXCEPT !.part = "length"]
        BY <2>2, <3>1, <1>1, <1>5 DEF Ordered
      <3>3. i - 1 \in Indices(wire)
        BY <3>1, <3>2, <1>5 DEF Indices
      <3> QED
        BY <3>1, <3>2, <3>3, <1>5
    <2> QED
      BY <2>1, <2>2 DEF Ordered
  <1>10. Covered'
    <2>1. Payloads' = Payloads
      BY <1>4, <1>5 DEF Payloads
    <2> QED
      BY <1>1, <1>3, <2>1 DEF Covered
  <1> QED
    BY <1>3, <1>7, <1>8, <1>9, <1>10, OutFrame

\* The payload is written directly behind its length, on the same connection.
LEMMA WritePayloadStep ==
    ASSUME IInv, WritePayload
    PROVE  IInv'
  <1>1. HandInv /\ WireInv /\ Ordered /\ Covered /\ OutType /\ RunType
    BY DEF IInv
  <1>2. PICK w : w = [conn |-> conn, id |-> inHand, part |-> "payload"]
    OBVIOUS
  <1>3. /\ Out /\ dropped' = dropped /\ lagged' = lagged /\ rxPos' = rxPos /\ inHand' = 0
        /\ outPc = "payload" /\ outPc' = "recv" /\ inHand = rxPos /\ rxPos > 0
        /\ wire' = Append(wire, w) /\ bundles' = bundles
    BY <1>1, <1>2 DEF WritePayload, HandInv, Out, envVars
  <1>4. w \in Written /\ w.id = rxPos /\ w.part = "payload" /\ rxPos \in Nat
    BY <1>1, <1>2, <1>3 DEF Written, OutType, RunType
  <1>5. /\ wire' \in Seq(Written) /\ Len(wire) \in Nat /\ Len(wire') = Len(wire) + 1
        /\ Indices(wire') = Indices(wire) \cup {Len(wire) + 1}
        /\ wire'[Len(wire) + 1] = w
        /\ \A i \in Indices(wire) : wire'[i] = wire[i] /\ wire[i] \in Written /\ wire[i].id \in Nat
    BY <1>1, <1>3, <1>4, WrittenLast
  <1>6. /\ Len(wire) > 0 /\ wire[Len(wire)] = [conn |-> conn, id |-> rxPos, part |-> "length"]
        /\ \A i \in 1..(Len(wire) - 1) : wire[i].id < rxPos
    BY <1>1, <1>3, <1>5 DEF WireInv, OutType
  <1>7. OutType'
    BY <1>1, <1>3, <1>5 DEF OutType
  <1>8. WireInv'
    <2>1. \A i \in Indices(wire') : wire'[i].id <= rxPos'
      <3>1. ASSUME NEW i \in Indices(wire) PROVE wire'[i].id <= rxPos'
        BY <1>1, <1>3, <1>5 DEF WireInv
      <3>2. wire'[Len(wire) + 1].id <= rxPos'
        BY <1>3, <1>4, <1>5
      <3> QED
        BY <3>1, <3>2, <1>5
    <2> QED
      BY <2>1, <1>3 DEF WireInv
  <1>9. Ordered'
    <2>1. ASSUME NEW i \in Indices(wire'), NEW j \in Indices(wire'), i < j, wire'[i].part = wire'[j].part
          PROVE  wire'[i].id < wire'[j].id
      <3>1. i \in Indices(wire)
        BY <2>1, <1>5 DEF Indices
      <3>2. CASE j \in Indices(wire)
        BY <2>1, <3>1, <3>2, <1>1, <1>5 DEF Ordered
      <3>3. CASE j = Len(wire) + 1
        <4>1. wire[i].part = "payload" /\ wire[Len(wire)].part = "length"
          <5>1. wire'[j].part = "payload" /\ wire'[i] = wire[i]
            BY <3>1, <3>3, <1>4, <1>5
          <5> QED
            BY <5>1, <2>1, <1>6
        <4>2. i # Len(wire)
          BY <4>1
        <4>3. i \in 1..(Len(wire) - 1)
          BY <4>2, <3>1, <1>5 DEF Indices
        <4> QED
          BY <4>3, <3>1, <3>3, <1>4, <1>5, <1>6
      <3> QED
        BY <3>2, <3>3, <1>5
    <2>2. ASSUME NEW i \in Indices(wire'), wire'[i].part = "payload"
          PROVE  i > 1 /\ wire'[i - 1] = [wire'[i] EXCEPT !.part = "length"]
      <3>1. CASE i \in Indices(wire)
        <4>1. i > 1 /\ wire[i - 1] = [wire[i] EXCEPT !.part = "length"]
          BY <2>2, <3>1, <1>1, <1>5 DEF Ordered
        <4>2. i - 1 \in Indices(wire)
          BY <3>1, <4>1, <1>5 DEF Indices
        <4> QED
          BY <3>1, <4>1, <4>2, <1>5
      <3>2. CASE i = Len(wire) + 1
        <4>1. i > 1 /\ i - 1 = Len(wire) /\ Len(wire) \in Indices(wire)
          BY <3>2, <1>5, <1>6 DEF Indices
        <4>2. wire'[i] = w /\ wire'[i - 1] = [conn |-> conn, id |-> rxPos, part |-> "length"]
          BY <3>2, <4>1, <1>5, <1>6
        <4>3. [w EXCEPT !.part = "length"] = [conn |-> conn, id |-> rxPos, part |-> "length"]
          BY <1>2, <1>3
        <4> QED
          BY <4>1, <4>2, <4>3
      <3> QED
        BY <3>1, <3>2, <1>5
    <2> QED
      BY <2>1, <2>2 DEF Ordered
  <1>10. Covered'
    <2>1. Payloads' = Payloads \cup {rxPos}
      BY <1>4, <1>5 DEF Payloads
    <2> QED
      BY <1>1, <1>3, <2>1 DEF Covered
  <1> QED
    BY <1>3, <1>7, <1>8, <1>9, <1>10, OutFrame

\* mirror_control: only what was reported and what is about to be changes.
LEMMA ControlStep ==
    ASSUME IInv, ControlTick \/ Send
    PROVE  IInv'
  <1>1. UNCHANGED <<envVars, runVars, open, outVars, readerVars>>
    BY DEF ControlTick, Send
  <1>2. identity' \in Identities
    BY DEF IInv, EnvType, ControlTick, Send, Identities
  <1>3. reported' \subseteq (1..conn) \X Validators
    <2>1. CASE reported' = reported
      BY <2>1 DEF IInv, ControlType
    <2>2. CASE slot \in open \cap datagrams /\ Send
      <3>1. slot \in 1..conn /\ identity \in Validators
        BY <2>2 DEF IInv, RunType, ControlType, Identities, Send
      <3> QED
        BY <2>2, <3>1 DEF IInv, ControlType, Send
    <2> QED
      BY <2>1, <2>2 DEF ControlTick, Send
  <1>4. ControlType'
    BY <1>1, <1>2, <1>3 DEF ControlType, runVars
  <1>5. EnvType' /\ RunType' /\ OutType' /\ ReaderType'
    BY <1>1, Zenon DEF IInv, EnvType, RunType, OutType, ReaderType, Indices, envVars, runVars, outVars,
                readerVars
  <1>6. HandInv' /\ WireInv' /\ Ordered' /\ Covered' /\ Spared' /\ ReaderInv'
    BY <1>1 DEF IInv, HandInv, WireInv, Ordered, Covered, Payloads, Spared, ReaderInv, Indices,
                envVars, runVars, outVars, readerVars
  <1> QED
    BY <1>4, <1>5, <1>6 DEF IInv

\* read_bundles and its readers touch nothing but the readers.
LEMMA ReaderFrame ==
    ASSUME IInv, Still, ReaderType', ReaderInv'
    PROVE  IInv'
  <1>1. UNCHANGED <<envVars, runVars, open, outVars, controlVars>>
    BY DEF Still
  <1>2. EnvType' /\ RunType' /\ OutType' /\ ControlType'
    BY <1>1, Zenon DEF IInv, EnvType, RunType, OutType, ControlType, envVars, runVars, outVars, controlVars
  <1>3. HandInv' /\ WireInv' /\ Ordered' /\ Covered' /\ Spared'
    BY <1>1 DEF IInv, HandInv, WireInv, Ordered, Covered, Payloads, Spared, Indices, envVars, runVars, outVars
  <1> QED
    BY <1>2, <1>3 DEF IInv

\* A new reader has forwarded nothing.
LEMMA AcceptUniStep ==
    ASSUME IInv, AcceptUni
    PROVE  IInv'
  <1>1. PICK new : new = [conn |-> conn, pc |-> "test", frames |-> 0]
    OBVIOUS
  <1>2. /\ new \in Reader /\ readers \in Seq(Reader) /\ readers' = Append(readers, new)
        /\ late \in [Indices(readers) -> Nat] /\ late' = Append(late, 0) /\ shutdown' = shutdown
    BY <1>1 DEF IInv, RunType, ReaderType, AcceptUni, Reader, Still, envVars
  <1>3. /\ readers' \in Seq(Reader) /\ Indices(readers') = Indices(readers) \cup {Len(readers) + 1}
        /\ \A r \in Indices(readers) : readers'[r] = readers[r]
    BY <1>2 DEF Indices
  <1>4. /\ late' \in [Indices(readers') -> Nat] /\ late'[Len(readers) + 1] = 0
        /\ \A r \in Indices(readers) : late'[r] = late[r]
    <2>1. late \in Seq(Nat) /\ Len(late) = Len(readers) /\ Len(readers) \in Nat
      BY <1>2 DEF Indices
    <2>2. late' \in Seq(Nat) /\ Len(late') = Len(readers) + 1
      BY <2>1, <1>2
    <2>3. late' \in [1..(Len(readers) + 1) -> Nat]
      BY <2>2
    <2>4. Indices(readers') = 1..(Len(readers) + 1)
      BY <2>1, <1>3 DEF Indices
    <2>5. late'[Len(readers) + 1] = 0 /\ \A r \in 1..Len(readers) : late'[r] = late[r]
      BY <2>1, <1>2
    <2> QED
      BY <2>3, <2>4, <2>5 DEF Indices
  <1>5. ReaderType'
    BY <1>3, <1>4 DEF ReaderType
  <1>6. ReaderInv'
    BY <1>2, <1>3, <1>4 DEF IInv, ReaderInv
  <1> QED
    BY <1>5, <1>6, ReaderFrame DEF AcceptUni

\* A reader takes its frame and looks at shutdown before it reads on.
LEMMA ReaderStepStep ==
    ASSUME IInv, NEW r \in Indices(readers), ReaderStep(r)
    PROVE  IInv'
  <1>1. /\ Still /\ shutdown' = shutdown /\ readers \in Seq(Reader) /\ readers[r] \in Reader
        /\ late \in [Indices(readers) -> Nat]
    BY DEF IInv, ReaderType, Indices, ReaderStep, ReaderTest, ReaderFails, ReaderLength, ReaderPayload,
           Still, envVars
  <1> DEFINE Move(entry) ==
                /\ readers' = [readers EXCEPT ![r] = entry] /\ entry \in Reader
                /\ \/ late' = late /\ (shutdown => entry.pc = "done" \/ readers[r].pc \in {"length", "payload"})
                   \/ /\ late' = [late EXCEPT ![r] = late[r] + 1]
                      /\ readers[r].pc = "payload" /\ entry.pc = "test" /\ shutdown
  <1>7. ASSUME NEW where \in {"test", "length", "payload", "done"}, Becomes(r, where), late' = late,
               shutdown => where = "done" \/ readers[r].pc \in {"length", "payload"}
        PROVE  \E entry : Move(entry)
    <2>1. PICK entry : entry = [readers[r] EXCEPT !.pc = where]
      OBVIOUS
    <2>2. entry \in Reader /\ entry.pc = where
      BY <2>1, <1>1 DEF Reader
    <2>3. readers' = [readers EXCEPT ![r] = entry]
      BY <1>7, <2>1 DEF Becomes
    <2> QED
      BY <1>7, <2>2, <2>3
  <1>8. ASSUME NEW decodes \in BOOLEAN, ReaderPayload(r, decodes) PROVE \E entry : Move(entry)
    <2>1. PICK entry : entry = [conn |-> readers[r].conn, pc |-> "test", frames |-> readers[r].frames + 1]
      OBVIOUS
    <2>2. entry \in Reader /\ entry.pc = "test"
      BY <2>1, <1>1 DEF Reader
    <2>3. readers' = [readers EXCEPT ![r] = entry]
      <3>1. readers \in [1..Len(readers) -> Reader] /\ r \in 1..Len(readers)
        BY <1>1 DEF Indices
      <3>2. readers' = [readers EXCEPT ![r].pc = "test", ![r].frames = @ + 1]
        BY <1>8 DEF ReaderPayload
      <3>3. \A q \in 1..Len(readers) : readers'[q] = IF q = r THEN entry ELSE readers[q]
        BY <3>1, <3>2, <2>1 DEF Reader
      <3>4. DOMAIN readers' = 1..Len(readers) /\ readers' = [q \in 1..Len(readers) |-> readers'[q]]
        BY <3>1, <3>2
      <3> QED
        BY <3>1, <3>3, <3>4
    <2>4. /\ readers[r].pc = "payload"
          /\ late' = late \/ (shutdown /\ late' = [late EXCEPT ![r] = late[r] + 1])
      BY <1>8 DEF ReaderPayload
    <2> QED
      BY <2>2, <2>3, <2>4
  <1>9. \E entry : Move(entry)
    <2>1. CASE ReaderTest(r)
      BY <2>1, <1>7 DEF ReaderTest, ReaderStops
    <2>2. CASE ReaderFails(r)
      BY <2>2, <1>7 DEF ReaderFails
    <2>3. ASSUME NEW fits \in BOOLEAN, ReaderLength(r, fits) PROVE \E entry : Move(entry)
      BY <2>3, <1>7 DEF ReaderLength
    <2> QED
      BY <2>1, <2>2, <2>3, <1>8 DEF ReaderStep
  <1>2. PICK entry : Move(entry)
    BY <1>9
  <1>3. /\ readers' \in Seq(Reader) /\ Indices(readers') = Indices(readers) /\ readers'[r] = entry
        /\ \A q \in Indices(readers) : q # r => readers'[q] = readers[q]
    BY <1>1, <1>2 DEF Indices
  <1>4. late' \in [Indices(readers) -> Nat] /\ \A q \in Indices(readers) : q # r => late'[q] = late[q]
    BY <1>1, <1>2
  <1>5. ReaderType'
    BY <1>3, <1>4 DEF ReaderType
  <1>6. ReaderInv'
    <2>1. \A q \in Indices(readers) : late[q] # 0 =>
                late[q] = 1 /\ shutdown /\ readers[q].pc \in {"test", "done"}
      BY DEF IInv, ReaderInv
    <2>2. late'[r] # 0 => late'[r] = 1 /\ shutdown /\ entry.pc \in {"test", "done"}
      BY <2>1, <1>1, <1>2
    <2> QED
      BY <2>1, <2>2, <1>1, <1>3, <1>4 DEF ReaderInv
  <1> QED
    BY <1>1, <1>5, <1>6, ReaderFrame

\* The rest of the process and the network: connections only go, bundles only
\* come, and the flags are never taken back.
LEMMA OthersStep ==
    ASSUME IInv,
           \/ (\E c \in open : Lose(c)) \/ (\E v \in Identities : Subscribe(v))
           \/ Broadcast \/ CloseBundles \/ SetExit \/ ShutdownWatch
    PROVE  IInv'
  <1>1. /\ UNCHANGED <<pc, conn, slot, datagrams, backoff, outPc, rxPos, inHand, lagged, dropped, wire>>
        /\ UNCHANGED <<identity, reported, readers, late>>
    BY DEF Lose, Subscribe, Broadcast, CloseBundles, SetExit, ShutdownWatch, Others,
           runVars, outVars, controlVars, readerVars
  <1>2. open' \subseteq open
    BY DEF Lose, Subscribe, Broadcast, CloseBundles, SetExit, ShutdownWatch
  <1>3. bundles' = bundles \/ bundles' = bundles + 1
    BY DEF Lose, Subscribe, Broadcast, CloseBundles, SetExit, ShutdownWatch, envVars
  <1>4. /\ exit' = exit \/ exit' = TRUE
        /\ shutdown' = shutdown \/ shutdown' = TRUE
        /\ bundlesOpen' = bundlesOpen \/ bundlesOpen' = FALSE
        /\ validator' = validator \/ validator' \in Identities
    BY Zenon DEF Lose, Subscribe, Broadcast, CloseBundles, SetExit, ShutdownWatch, envVars
  <1>5. EnvType'
    BY <1>4, Zenon DEF IInv, EnvType
  <1>6. RunType' /\ ControlType' /\ ReaderType'
    BY <1>1, <1>2 DEF IInv, RunType, ControlType, ReaderType, Indices
  <1>7. OutType'
    BY <1>1, <1>3 DEF IInv, OutType
  <1>8. HandInv' /\ WireInv' /\ Ordered' /\ Covered' /\ Spared'
    BY <1>1 DEF IInv, HandInv, WireInv, Ordered, Covered, Payloads, Spared, Indices
  <1>9. ReaderInv'
    BY <1>1, <1>4 DEF IInv, ReaderInv, Indices
  <1> QED
    BY <1>5, <1>6, <1>7, <1>8, <1>9 DEF IInv

\* Every step keeps the invariant, action by action.
LEMMA NextStep == IInv /\ [Next]_vars => IInv'
  <1> SUFFICES ASSUME IInv, [Next]_vars PROVE IInv'
    OBVIOUS
  <1>1. CASE Connect \/ Run
    BY <1>1, RunStep
  <1>2. CASE Ends \/ MirrorBundlesOutEnds
    BY <1>2, ServeEndsStep DEF Ends, ReadBundlesEnds, ReadFiltersEnds, MirrorControlEnds,
                               MirrorBundlesOutEnds
  <1>3. CASE OpenUni \/ RecvBundle \/ RecvLagged
    BY <1>3, ReceiveStep
  <1>4. CASE WriteLength
    BY <1>4, WriteLengthStep
  <1>5. CASE WritePayload
    BY <1>5, WritePayloadStep
  <1>6. CASE ControlTick \/ Send
    BY <1>6, ControlStep
  <1>7. CASE AcceptUni
    BY <1>7, AcceptUniStep
  <1>8. CASE \E r \in Indices(readers) : ReaderStep(r)
    BY <1>8, ReaderStepStep
  <1>9. CASE \/ (\E c \in open : Lose(c)) \/ (\E v \in Identities : Subscribe(v))
             \/ Broadcast \/ CloseBundles \/ SetExit \/ ShutdownWatch
    BY <1>9, OthersStep
  <1>10. CASE UNCHANGED vars
    <2>1. Still /\ UNCHANGED readerVars
      BY <1>10 DEF vars, Still
    <2>2. ReaderType' /\ ReaderInv'
      BY <2>1 DEF IInv, ReaderType, ReaderInv, Still, Indices, readerVars, envVars
    <2> QED
      BY <2>1, <2>2, ReaderFrame
  <1> QED
    BY <1>1, <1>2, <1>3, <1>4, <1>5, <1>6, <1>7, <1>8, <1>9, <1>10 DEF Next

-----------------------------------------------------------------------------

\* The invariant of the mirror: what is in hand, on the wire and with the
\* readers, in every reachable state of any number of connections.
THEOREM Invariance == Spec => []IInv
  BY InitStep, NextStep, PTL DEF Spec

\* self.conn holds the connection serve_connection serves or nothing: run never
\* leaves a lost connection in it while it sleeps or connects again.
THEOREM SlotHoldsTheServed == Spec => []SlotIsServed
  <1>1. IInv => SlotIsServed
    <2> SUFFICES ASSUME IInv PROVE SlotIsServed
      OBVIOUS
    <2>1. {exit, shutdown, bundlesOpen} \subseteq BOOLEAN
      BY Zenon DEF IInv, EnvType
    <2>2. TypeOK
      BY <2>1, Zenon DEF IInv, TypeOK, EnvType, RunType, OutType, ControlType, ReaderType
    <2> QED
      BY <2>2 DEF IInv, HandInv, SlotIsServed
  <1> QED
    BY <1>1, Invariance, PTL

\* mirror_bundles_out writes bundles in the order they were broadcast, each at
\* most once and never mixing two frames, over all connections; what it does not
\* write was reported as lagged or is the one bundle a connection's end may cost.
THEOREM OrderOnTheWire == Spec => []MirroredInOrderOnce
  <1>1. IInv => MirroredInOrderOnce
    BY Zenon DEF IInv, MirroredInOrderOnce, Ordered, Covered, Spared, Payloads
  <1> QED
    BY <1>1, Invariance, PTL

\* read_bundle_stream forwards at most one frame after shutdown was set, however
\* many readers there are and however many frames wait.
THEOREM ReadersStop == Spec => []AtMostOneLateFrame
  <1>1. IInv => AtMostOneLateFrame
    <2> SUFFICES ASSUME IInv, NEW r \in Indices(late) PROVE late[r] <= 1
      BY DEF AtMostOneLateFrame
    <2>1. late \in [1..Len(readers) -> Nat] /\ Len(readers) \in Nat
      BY DEF IInv, ReaderType, Indices
    <2>2. Len(late) = Len(readers)
      BY <2>1
    <2>3. r \in Indices(readers) /\ late[r] \in Nat
      BY <2>1, <2>2 DEF Indices
    <2> QED
      BY <2>3 DEF IInv, ReaderInv
  <1> QED
    BY <1>1, Invariance, PTL
=============================================================================
