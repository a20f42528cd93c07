---------------------------- MODULE ProcessProofs ----------------------------
(***************************************************************************)
(* Proofs about Process and KeyStore.  FileInv says which pairs of key     *)
(* files a kill or a failing call at any moment, and an operator who       *)
(* removes files, can leave; LoadInv what load_or_generate_keys has read of them so far;      *)
(* JoinInv which workers a worker that has ended leaves behind.            *)
(***************************************************************************)
EXTENDS Process, FiniteSetTheorems, TLAPS

Key == 1..MaxKeys

\* A verifying key belongs to the signing key unless one was left behind; the signing key
\* the process was up with is still in its file, and so is a verifying key it did not make.
FileInv ==
    /\ rotated => verifying # Absent
    /\ ~rotated /\ verifying # Absent => signing \in Key /\ verifying \in {signing, Torn}
    /\ used # {} => signing \in Key /\ (rotated => verifying \in Key)
    /\ used \subseteq {<<signing, IF rotated THEN verifying ELSE signing>>}

\* What has been read is what the files hold.
LoadInv ==
    /\ status = "down" <=> step = "idle"
    /\ status = "up" => step = "loaded"
    /\ step = "writeSigning" => signing = Torn /\ keys \in Key /\ (verifying = Absent \/ rotated)
    /\ step \in {"verifying", "writeVerifying", "parse", "loaded"} => private = signing /\ private # Absent
    /\ step = "writeVerifying" => verifying = Torn /\ private # Torn /\ ~rotated
    /\ step \in {"parse", "loaded"} => public = verifying /\ public # Absent
    /\ step = "loaded" => Torn \notin {private, public}
    /\ step = "failed" => fault \/ Torn \in {signing, verifying}

\* A server ends on a signal only, and a join when all it waits for has ended.
JoinInv ==
    /\ ended \cap Servers # {} => signal
    /\ \A j \in ended \cap Joins : JoinedBy(j) \subseteq ended

IInv == TypeOK /\ FileInv /\ LoadInv /\ JoinInv

-----------------------------------------------------------------------------
(* Lemmas.                                                                 *)

\* A file that is absent or torn holds no key.
LEMMA NoKey == MaxKeys \in Nat /\ Absent # Torn /\ Absent \notin Key /\ Torn \notin Key /\ Key \subseteq File
  BY KeyStoreAssumption DEF Key, File

\* Before the first start there are no files and no workers.
LEMMA InitIInv == Init => IInv
<1> SUFFICES ASSUME Init PROVE IInv
  OBVIOUS
<1>1. TypeOK
  <2>1. KeyTypeOK
    <3>1. Absent \in File /\ 0 \in 0..MaxKeys
      BY NoKey DEF File
    <3> QED
      BY <3>1 DEF Init, KeyInit, KeyTypeOK
  <2>2. /\ starts \in 0..MaxStarts /\ used \subseteq (1..MaxKeys) \X (1..MaxKeys)
        /\ streams \subseteq Servers /\ ended \subseteq Workers
    BY ProcessAssumption DEF Init
  <2> QED
    BY <2>1, <2>2 DEF Init, TypeOK
<1>2. FileInv /\ LoadInv
  BY NoKey DEF Init, KeyInit, FileInv, LoadInv
<1>3. JoinInv
  BY DEF Init, JoinInv
<1> QED
  BY <1>1, <1>2, <1>3 DEF IInv

\* The steps of load_or_generate_keys and Relayer::new: a kill may come between any two.
LEMMA LoadStepIInv ==
    ASSUME IInv, LoadKeys
    PROVE  IInv'
<1>0. TypeOK /\ FileInv /\ LoadInv /\ JoinInv /\ UNCHANGED <<runVars, lifeVars>> /\ status = "starting"
  BY DEF IInv, LoadKeys
<1>1. JoinInv'
  BY <1>0 DEF JoinInv, runVars
<1>2. ASSUME KeyTypeOK'
      PROVE  TypeOK'
  BY <1>0, <1>2 DEF TypeOK, runVars, lifeVars
<1> USE NoKey
<1>3. CASE LoadSigning
  <2>1. KeyTypeOK'
    <3>1. {signing', verifying', private', public'} \subseteq File /\ rotated' \in BOOLEAN /\ fault' \in BOOLEAN
      BY <1>0, <1>3 DEF LoadSigning, Fault, TypeOK, KeyTypeOK, fileVars, File
    <3>2. step' \in {"verifying", "writeSigning", "failed"}
      BY <1>3 DEF LoadSigning, Fault
    <3>3. keys' \in 0..MaxKeys
      BY <1>0, <1>3 DEF LoadSigning, Fault, TypeOK, KeyTypeOK, fileVars
    <3> QED
      BY <3>1, <3>2, <3>3 DEF KeyTypeOK
  <2>2. FileInv'
    BY <1>0, <1>3 DEF LoadSigning, Fault, FileInv, TypeOK, KeyTypeOK, fileVars, lifeVars, Reusable, File, Key
  <2>3. LoadInv'
    BY <1>0, <1>3 DEF LoadSigning, Fault, LoadInv, FileInv, TypeOK, KeyTypeOK, fileVars, lifeVars, Reusable, Key
  <2> QED
    BY <1>1, <1>2, <2>1, <2>2, <2>3 DEF IInv
<1>4. CASE WriteSigning
  <2>1. KeyTypeOK'
    BY <1>0, <1>4 DEF WriteSigning, Fault, WriteFails, LoadInv, TypeOK, KeyTypeOK, File
  <2>2. FileInv'
    BY <1>0, <1>4 DEF WriteSigning, Fault, WriteFails, FileInv, LoadInv, lifeVars
  <2>3. LoadInv'
    BY <1>0, <1>4 DEF WriteSigning, Fault, WriteFails, LoadInv, lifeVars
  <2> QED
    BY <1>1, <1>2, <2>1, <2>2, <2>3 DEF IInv
<1>5. CASE LoadVerifying
  <2>1. KeyTypeOK'
    BY <1>0, <1>5 DEF LoadVerifying, Fault, TypeOK, KeyTypeOK, fileVars, File
  <2>2. FileInv'
    BY <1>0, <1>5 DEF LoadVerifying, Fault, FileInv, LoadInv, TypeOK, KeyTypeOK, File, fileVars, lifeVars, Derivable, Key
  <2>3. LoadInv'
    BY <1>0, <1>5 DEF LoadVerifying, Fault, LoadInv, FileInv, fileVars, lifeVars, Derivable
  <2> QED
    BY <1>1, <1>2, <2>1, <2>2, <2>3 DEF IInv
<1>6. CASE WriteVerifying
  <2>1. KeyTypeOK'
    BY <1>0, <1>6 DEF WriteVerifying, Fault, WriteFails, PublicKey, TypeOK, KeyTypeOK, File
  <2>2. FileInv'
    BY <1>0, <1>6 DEF WriteVerifying, Fault, WriteFails, PublicKey, FileInv, LoadInv, TypeOK, KeyTypeOK, File, lifeVars, Key
  <2>3. LoadInv'
    BY <1>0, <1>6 DEF WriteVerifying, Fault, WriteFails, PublicKey, LoadInv, lifeVars
  <2> QED
    BY <1>1, <1>2, <2>1, <2>2, <2>3 DEF IInv
<1>7. CASE Parse
  <2>1. KeyTypeOK'
    BY <1>0, <1>7 DEF Parse, TypeOK, KeyTypeOK, fileVars
  <2>2. FileInv'
    BY <1>0, <1>7 DEF Parse, FileInv, fileVars, lifeVars
  <2>3. LoadInv'
    BY <1>0, <1>7 DEF Parse, LoadInv, FileInv, fileVars, lifeVars
  <2> QED
    BY <1>1, <1>2, <2>1, <2>2, <2>3 DEF IInv
<1> QED
  BY <1>3, <1>4, <1>5, <1>6, <1>7 DEF LoadKeys, LoadStep

\* The process is gone, with what it had read and not with what it had written.
LEMMA DownStep ==
    ASSUME IInv, StartFails \/ Kill \/ MainReturns \/ PanicExit
    PROVE  IInv'
<1>0. TypeOK /\ FileInv /\ LoadInv /\ Down
  BY DEF IInv, StartFails, Kill, MainReturns, PanicExit
<1>3. KeyTypeOK'
  BY <1>0, NoKey DEF Down, Load, TypeOK, KeyTypeOK, fileVars, File
<1>4. TypeOK'
  BY <1>0, <1>3 DEF Down, Fresh, TypeOK
<1>5. FileInv'
  BY <1>0 DEF Down, FileInv, fileVars
<1>6. LoadInv'
  BY <1>0 DEF Down, Load, LoadInv
<1>7. JoinInv'
  BY <1>0 DEF Down, Fresh, JoinInv
<1> QED
  BY <1>4, <1>5, <1>6, <1>7 DEF IInv

\* A start, the spawning of the workers, and an operator who removes key files.
LEMMA LifeStep ==
    ASSUME IInv,
           Start \/ Spawn \/ \E files \in (SUBSET {"signing", "verifying"}) \ {{}} : RemoveKeys(files)
    PROVE  IInv'
<1>0. TypeOK /\ FileInv /\ LoadInv /\ JoinInv /\ UNCHANGED runVars
  BY DEF IInv, Start, Spawn, RemoveKeys
<1>1. JoinInv'
  BY <1>0 DEF JoinInv, runVars
<1> USE NoKey
<1>2. CASE Start
  <2>1. KeyTypeOK'
    BY <1>0, <1>2 DEF Start, Load, TypeOK, KeyTypeOK, fileVars, File
  <2>2. starts' \in 0..MaxStarts
    BY <1>0, <1>2, ProcessAssumption DEF Start, TypeOK
  <2>3. TypeOK'
    BY <1>0, <1>2, <2>1, <2>2 DEF Start, TypeOK, runVars
  <2>4. FileInv' /\ LoadInv'
    BY <1>0, <1>2 DEF Start, Load, FileInv, LoadInv, fileVars
  <2> QED
    BY <1>1, <2>3, <2>4 DEF IInv
<1>3. CASE Spawn
  <2>1. private = signing /\ public = verifying /\ signing \in Key /\ verifying \in Key
    BY <1>0, <1>3 DEF Spawn, LoadInv, TypeOK, KeyTypeOK, File, Key
  <2>2. UNCHANGED keyVars /\ status' = "up" /\ used' = used \cup {<<signing, verifying>>} /\ starts' = starts
    BY <1>3, <2>1 DEF Spawn
  <2>3. used' \subseteq (1..MaxKeys) \X (1..MaxKeys)
    BY <1>0, <2>1, <2>2 DEF TypeOK, Key
  <2>4. TypeOK'
    BY <1>0, <2>2, <2>3 DEF TypeOK, KeyTypeOK, runVars, keyVars, fileVars, loadVars
  <2>5. FileInv' /\ LoadInv'
    BY <1>0, <1>3, <2>1, <2>2 DEF Spawn, FileInv, LoadInv, keyVars, fileVars, loadVars
  <2> QED
    BY <1>1, <2>4, <2>5 DEF IInv
<1>4. ASSUME NEW files \in (SUBSET {"signing", "verifying"}) \ {{}}, RemoveKeys(files)
      PROVE  IInv'
  <2>1. /\ signing' \in {signing, Absent} /\ verifying' \in {verifying, Absent}
        /\ rotated' = (verifying' # Absent /\ (rotated \/ signing' = Absent))
        /\ UNCHANGED <<keys, loadVars, status, starts>> /\ step = "idle"
        /\ used' = {} \/ (used' = used /\ signing' = signing /\ ~rotated)
    BY <1>0, <1>4 DEF RemoveKeys, RemoveFiles, LoadInv
  <2>2. rotated' \in BOOLEAN /\ (rotated' <=> verifying' # Absent /\ (rotated \/ signing' = Absent))
    BY <2>1, Zenon
  <2>3. KeyTypeOK'
    BY <1>0, <2>1, <2>2 DEF TypeOK, KeyTypeOK, loadVars, File
  <2>4. TypeOK'
    BY <1>0, <2>1, <2>3 DEF TypeOK, runVars
  <2>5. FileInv'
    BY <1>0, <2>1, <2>2 DEF FileInv, loadVars
  <2>6. LoadInv'
    BY <1>0, <2>1 DEF LoadInv, loadVars
  <2> QED
    BY <1>1, <2>4, <2>5, <2>6 DEF IInv
<1> QED
  BY <1>2, <1>3, <1>4

\* A worker ends: a server only on a signal, a join thread after those it joins.
LEMMA EndStep ==
    ASSUME IInv, NEW w \in Workers, End(w)
    PROVE  JoinInv'
<1>1. ended' = ended \cup {w} /\ signal' = signal /\ Leaves(w) /\ JoinInv
  BY DEF IInv, End
<1>2. w \in Servers => signal
  BY <1>1 DEF Leaves, ServerLeaves, Stops, Servers, Joins
<1>3. w \in Joins => JoinedBy(w) \subseteq ended
  BY <1>1 DEF Leaves, Servers, Joins
<1> QED
  BY <1>1, <1>2, <1>3 DEF JoinInv

\* The workers' steps leave the keys alone.
LEMMA WorkerStep ==
    ASSUME IInv, Up,
           \/ Panic \/ CancelWatcher \/ ShutdownWatch \/ ShutdownSignal
           \/ \E w \in Workers : End(w)
           \/ \E w \in {"quic", "quic fwd", "sigverify"} : StageFails(w)
           \/ OpenStream \/ CallUpstream \/ \E served \in BOOLEAN : Answered(served)
           \/ \E s \in Servers, byClient \in BOOLEAN : CloseStream(s, byClient)
    PROVE  IInv'
<1>0. TypeOK /\ FileInv /\ LoadInv /\ JoinInv /\ UNCHANGED <<keyVars, lifeVars>>
  BY DEF IInv, Up
<1>1. FileInv' /\ LoadInv' /\ KeyTypeOK'
  BY <1>0 DEF FileInv, LoadInv, TypeOK, KeyTypeOK, keyVars, fileVars, loadVars, lifeVars
<1> SUFFICES /\ {exit', cancel', shutdown', signal', waiting', panicked'} \subseteq BOOLEAN
             /\ streams' \subseteq Servers /\ ended' \subseteq Workers
             /\ JoinInv'
  BY <1>0, <1>1 DEF IInv, TypeOK, lifeVars
<1>2. CASE Panic \/ CancelWatcher \/ ShutdownWatch \/ ShutdownSignal
  BY <1>0, <1>2 DEF Panic, CancelWatcher, ShutdownWatch, ShutdownSignal, TypeOK, JoinInv
<1>3. ASSUME NEW w \in Workers, End(w)
      PROVE  /\ {exit', cancel', shutdown', signal', waiting', panicked'} \subseteq BOOLEAN
             /\ streams' \subseteq Servers /\ ended' \subseteq Workers
             /\ JoinInv'
  <2>1. exit' = (exit \/ w = "event")
    BY <1>3 DEF End, Raised
  <2>2. exit' \in BOOLEAN
    BY <2>1
  <2> QED
    BY <1>0, <1>3, <2>2, EndStep DEF End, TypeOK
<1>4. ASSUME NEW w \in {"quic", "quic fwd", "sigverify"}, StageFails(w)
      PROVE  /\ {exit', cancel', shutdown', signal', waiting', panicked'} \subseteq BOOLEAN
             /\ streams' \subseteq Servers /\ ended' \subseteq Workers
             /\ JoinInv'
  <2>1. w \in Workers /\ w \notin Servers /\ w \notin Joins
    BY DEF Workers, Servers, Joins, Loops
  <2> QED
    BY <1>0, <1>4, <2>1 DEF StageFails, TypeOK, JoinInv
<1>5. ASSUME NEW s \in Servers, NEW byClient \in BOOLEAN, CloseStream(s, byClient)
      PROVE  /\ {exit', cancel', shutdown', signal', waiting', panicked'} \subseteq BOOLEAN
             /\ streams' \subseteq Servers /\ ended' \subseteq Workers
             /\ JoinInv'
  BY <1>0, <1>5 DEF CloseStream, TypeOK, JoinInv
<1>6. CASE OpenStream \/ CallUpstream
  BY <1>0, <1>6 DEF OpenStream, CallUpstream, Servers, TypeOK, JoinInv
<1>7. ASSUME NEW served \in BOOLEAN, Answered(served)
      PROVE  /\ {exit', cancel', shutdown', signal', waiting', panicked'} \subseteq BOOLEAN
             /\ streams' \subseteq Servers /\ ended' \subseteq Workers
             /\ JoinInv'
  BY <1>0, <1>7 DEF Answered, Servers, TypeOK, JoinInv
<1> QED
  BY <1>2, <1>3, <1>4, <1>5, <1>6, <1>7

\* Every step preserves the inductive invariant.
LEMMA NextIInv == IInv /\ [Next]_vars => IInv'
<1> SUFFICES ASSUME IInv, [Next]_vars PROVE IInv'
  OBVIOUS
<1>1. CASE UNCHANGED vars
  BY <1>1 DEF IInv, TypeOK, KeyTypeOK, FileInv, LoadInv, JoinInv, vars, keyVars, fileVars, loadVars, runVars, lifeVars
<1>2. CASE Next
  <2>1. CASE Start \/ Spawn \/ LoadKeys \/ \E files \in (SUBSET {"signing", "verifying"}) \ {{}} : RemoveKeys(files)
    BY <2>1, LifeStep, LoadStepIInv
  <2>2. CASE StartFails \/ Kill \/ MainReturns \/ PanicExit
    BY <2>2, DownStep
  <2>3. CASE Panic \/ CancelWatcher \/ ShutdownWatch \/ ShutdownSignal
    BY <2>3, WorkerStep DEF Panic, CancelWatcher, ShutdownWatch, ShutdownSignal
  <2>4. CASE (\E w \in Workers : End(w)) \/ (\E w \in {"quic", "quic fwd", "sigverify"} : StageFails(w))
    BY <2>4, WorkerStep DEF End, StageFails
  <2>5. CASE \/ OpenStream \/ CallUpstream \/ \E served \in BOOLEAN : Answered(served)
             \/ \E s \in Servers, byClient \in BOOLEAN : CloseStream(s, byClient)
    BY <2>5, WorkerStep DEF OpenStream, CallUpstream, Answered, CloseStream
  <2> QED
    BY <1>2, <2>1, <2>2, <2>3, <2>4, <2>5 DEF Next
<1> QED
  BY <1>1, <1>2

-----------------------------------------------------------------------------
(* The theorems.                                                           *)

\* The inductive invariant holds in every reachable state.
THEOREM Invariance == Spec => []IInv
  BY InitIInv, NextIInv, PTL DEF Spec

\* However often the process is started, and whatever kill or failing call on the file system
\* interrupts it: it signs with the key it verifies with unless a verifying key was left
\* behind, the pair lasts as long as its signing key, and a start in which no call fails
\* fails only on a file whose writing was interrupted (load_or_generate_keys, Relayer::new).
THEOREM KeysAreSound == Spec => []KeysSound
<1>1. IInv => KeysSound
  <2> SUFFICES ASSUME IInv PROVE KeysSound
    OBVIOUS
  <2>1. TypeOK /\ FileInv /\ LoadInv
    BY DEF IInv
  <2>2. status = "up" => private = public \/ rotated
    BY <2>1, NoKey DEF FileInv, LoadInv
  <2>3. Cardinality(used) <= 1
    <3> DEFINE pair == <<signing, IF rotated THEN verifying ELSE signing>>
    <3>1. used \in SUBSET {pair}
      BY <2>1 DEF FileInv
    <3>2. IsFiniteSet({pair}) /\ Cardinality({pair}) = 1
      BY FS_Singleton, Zenon
    <3> HIDE DEF pair
    <3>3. Cardinality(used) <= Cardinality({pair})
      BY <3>1, <3>2, FS_Subset, Zenon
    <3> QED
      BY <3>2, <3>3
  <2>4. step = "failed" => fault \/ Torn \in {signing, verifying}
    BY <2>1 DEF LoadInv
  <2> QED
    BY <2>1, <2>2, <2>3, <2>4 DEF KeysSound
<1> QED
  BY <1>1, Invariance, PTL

\* main's joins reach every thread and task of the process, through the join threads, and
\* are over only after a signal (main, Tpu::join, Relayer::join).
THEOREM MainIsLast == Spec => MainEndsLast
<1>1. IInv /\ [Next]_vars => [MainReturns => signal /\ Workers = ended]_vars
  <2> SUFFICES ASSUME IInv, MainReturns PROVE signal /\ Workers = ended
    OBVIOUS
  <2>1. JoinedByMain \subseteq ended /\ JoinInv /\ ended \subseteq Workers
    BY DEF IInv, TypeOK, MainReturns
  <2>2. signal
    BY <2>1 DEF JoinedByMain, JoinInv, Servers
  <2>3. JoinedBy("relayer") \cup JoinedBy("proxy") \subseteq ended
    BY <2>1 DEF JoinedByMain, JoinInv, Joins
  <2>4. JoinedBy("tpu") \subseteq ended
    BY <2>1, <2>3 DEF JoinedBy, JoinInv, Joins
  <2>5. Workers \subseteq ended
    BY <2>1, <2>3, <2>4 DEF Workers, Servers, Joins, Loops, JoinedBy, JoinedByMain
  <2> QED
    BY <2>1, <2>2, <2>5
<1> QED
  BY <1>1, Invariance, PTL DEF Spec, MainEndsLast
=============================================================================
