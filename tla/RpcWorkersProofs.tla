-------------------------- MODULE RpcWorkersProofs --------------------------
(***************************************************************************)
(* Proofs about RpcWorkers.  The bounds on how late a thread may be follow *)
(* from when it has to act next, which every step moves: UpdaterInv and    *)
(* SlotInv bound `wake' and `slotsWake' by what the properties measure     *)
(* from.                                                                   *)
(***************************************************************************)
EXTENDS RpcWorkers, SequenceTheorems, WellFoundedInduction, TLAPS

\* The updater acts in time; a call is made only when the stakes are due; and it
\* wakes in time for a refresh and for the exit flag.
UpdaterInv ==
    /\ updater # "done" => now <= wake
    /\ lastStakes <= now /\ tried <= now
    /\ updater = "call" => Due
    /\ ~exit /\ updater = "sleep" => wake <= now + Nap
    /\ ~exit /\ updater = "call" => wake <= now + MaxCall
    /\ exit /\ updater = "sleep" => wake <= exitAt + MaxCall + Nap
    /\ exit /\ updater = "call" => wake <= exitAt + MaxCall
    /\ ~failed /\ updater = "sleep" => wake <= lastStakes + RefreshAfter + Nap
    /\ ~failed /\ updater = "call" => wake <= lastStakes + RefreshAfter + Nap + MaxCall
    /\ failed /\ updater = "sleep" => wake = tried + Nap /\ Due

\* The subscription acts in time, and how long it may sleep, wait or call is counted
\* from the last subscription, from the last slot and from the exit flag.
SlotInv ==
    /\ slots # "done" => now <= slotsWake
    /\ heard <= now /\ subscribed <= now
    /\ ~exit /\ slots = "sleep" => slotsWake <= now + Nap
    /\ ~exit /\ slots = "call" => slotsWake <= now + MaxCall
    /\ ~exit /\ slots = "recv" => slotsWake <= now + SlotTimeout
    /\ exit /\ slots # "done" => slotsWake <= exitAt + Nap + MaxCall + SlotTimeout
    /\ exit /\ slots = "call" => slotsWake <= exitAt + MaxCall
    /\ exit /\ slots = "recv" => slotsWake <= exitAt + SlotTimeout
    /\ ~exit /\ slots = "call" => slotsWake <= subscribed + MaxCall
    /\ ~exit /\ slots = "recv" => \/ slotsWake <= subscribed + MaxCall + SlotTimeout
                                  \/ slotsWake <= heard + SlotTimeout
    /\ ~exit /\ slots = "sleep" => \/ slotsWake <= subscribed + MaxCall + SlotTimeout + Nap
                                   \/ slotsWake <= heard + SlotTimeout + Nap
    /\ slots = "done" => exit

IInv ==
    /\ TypeOK /\ UpdaterInv /\ SlotInv
    /\ exit => exitAt <= now

-----------------------------------------------------------------------------
(* Lemmas.                                                                 *)

\* No reply has been taken when the updater starts.
LEMMA EmptyReply == [current |-> <<>>, delinquent |-> <<>>] \in Replies
<1>1. <<>> \in SeqOf(Accounts, MaxAccounts)
  <2>1. <<>> \in [1..0 -> Accounts] /\ 0 \in 0..MaxAccounts
    BY RpcAssumption
  <2> HIDE DEF Accounts
  <2> QED
    BY <2>1, Zenon DEF SeqOf
<1> HIDE DEF Accounts
<1> QED
  BY <1>1, Zenon DEF Replies

\* Both threads start with the clock.
LEMMA InitIInv == Init => IInv
<1> SUFFICES ASSUME Init PROVE IInv
  OBVIOUS
<1> USE RpcAssumption
<1>1. reply \in Replies
  BY EmptyReply, Zenon DEF Init
<1>2. TypeOK
  <2>1. {wake, lastStakes, tried, slotsWake, heard} \subseteq Nat /\ subscribed \in Nat \cup {-Nap}
    BY DEF Init
  <2> QED
    BY <1>1, <2>1 DEF Init, TypeOK
<1>3. UpdaterInv /\ SlotInv
  BY DEF Init, UpdaterInv, SlotInv
<1> QED
  BY <1>2, <1>3 DEF Init, IInv

\* A step of the updater's thread keeps the invariant: it alone moves `wake'.
LEMMA UpdaterStep ==
    ASSUME IInv, UpdaterWakes \/ RefreshFails \/ \E r \in Replies : Refresh(r)
    PROVE  IInv'
<1> USE RpcAssumption
<1>1. UNCHANGED <<now, exit, exitAt, slotVars>>
  BY DEF UpdaterWakes, RefreshFails, Refresh
<1>2. SlotInv' /\ (exit => exitAt <= now)'
  BY <1>1 DEF IInv, SlotInv, slotVars
<1>3. CASE UpdaterWakes
  <2>1. TypeOK'
    BY <1>1, <1>3 DEF IInv, TypeOK, UpdaterWakes, UpdaterNap, slotVars
  <2>2. UpdaterInv'
    BY <1>3 DEF IInv, TypeOK, UpdaterInv, UpdaterWakes, UpdaterNap, Due
  <2> QED
    BY <1>2, <2>1, <2>2 DEF IInv
<1>4. CASE RefreshFails
  <2>1. TypeOK'
    BY <1>1, <1>4 DEF IInv, TypeOK, RefreshFails, UpdaterNap, LastStakesAfterError, slotVars
  <2>2. UpdaterInv'
    BY <1>4 DEF IInv, TypeOK, UpdaterInv, RefreshFails, UpdaterNap, LastStakesAfterError, Due
  <2> QED
    BY <1>2, <2>1, <2>2 DEF IInv
<1>5. ASSUME NEW r \in Replies, Refresh(r)
      PROVE  IInv'
  <2>1. TypeOK'
    <3>1. reply' \in Replies
      BY <1>5 DEF Refresh
    <3>2. {wake, lastStakes, tried, slotsWake, heard}' \subseteq Nat
      BY <1>1, <1>5 DEF IInv, TypeOK, Refresh, UpdaterNap, slotVars
    <3>3. updater' = "sleep" /\ failed' = FALSE
      BY <1>5 DEF Refresh
    <3> QED
      BY <1>1, <3>1, <3>2, <3>3 DEF IInv, TypeOK, slotVars
  <2>2. UpdaterInv'
    BY <1>5 DEF IInv, TypeOK, UpdaterInv, Refresh, UpdaterNap
  <2> QED
    BY <1>2, <2>1, <2>2 DEF IInv
<1> QED
  BY <1>3, <1>4, <1>5

\* So does a step of the slot subscription, which moves `slotsWake'.
LEMMA SlotStep ==
    ASSUME IInv,
           SlotWakes \/ Slot \/ SlotSilence \/ SlotDisconnected \/ \E ok \in BOOLEAN : SlotSubscribe(ok)
    PROVE  IInv'
<1> USE RpcAssumption
<1>1. UNCHANGED <<now, exit, exitAt, updaterVars>>
  BY DEF SlotWakes, Slot, SlotSilence, SlotDisconnected, SlotSubscribe, Listen, Again, SlotThread
<1>2. UpdaterInv' /\ (exit => exitAt <= now)'
  BY <1>1 DEF IInv, UpdaterInv, Due, updaterVars
<1>3. CASE SlotWakes
  BY <1>1, <1>2, <1>3, SMTT(30) DEF IInv, TypeOK, SlotInv, SlotWakes, updaterVars
<1>4. CASE slots \in {"call", "recv"} /\ Again /\ heard' = heard
  <2>1. TypeOK'
    BY <1>1, <1>4, SMTT(30) DEF IInv, TypeOK, Again, updaterVars
  <2>2. SlotInv'
    BY <1>1, <1>4, SMTT(30) DEF IInv, TypeOK, SlotInv, Again
  <2> QED
    BY <1>2, <2>1, <2>2 DEF IInv
<1>5. CASE slots \in {"call", "recv"} /\ Listen /\ heard' \in {heard, now} /\ (slots = "recv" => heard' = now)
  <2>1. TypeOK'
    BY <1>1, <1>5, SMTT(30) DEF IInv, TypeOK, Listen, Again, updaterVars
  <2>2. SlotInv'
    BY <1>1, <1>5, SMTT(30) DEF IInv, TypeOK, SlotInv, Listen, Again
  <2> QED
    BY <1>2, <2>1, <2>2 DEF IInv
<1> QED
  BY <1>3, <1>4, <1>5 DEF Slot, SlotSilence, SlotDisconnected, SlotSubscribe

\* The exit flag and the clock: time does not pass a thread that has to act.
LEMMA EnvironmentStep ==
    ASSUME IInv, SetExit \/ Tick
    PROVE  IInv'
<1> USE RpcAssumption
<1>1. CASE SetExit
  BY <1>1, SMTT(30) DEF IInv, TypeOK, UpdaterInv, SlotInv, SetExit, Due, updaterVars, slotVars
<1>2. CASE Tick
  BY <1>2, SMTT(30) DEF IInv, TypeOK, UpdaterInv, SlotInv, Tick, Due, updaterVars, slotVars
<1> QED
  BY <1>1, <1>2

\* Every step preserves the inductive invariant.
LEMMA NextIInv == IInv /\ [Next]_vars => IInv'
<1> SUFFICES ASSUME IInv, [Next]_vars PROVE IInv'
  OBVIOUS
<1>1. CASE UNCHANGED vars
  BY <1>1 DEF IInv, TypeOK, UpdaterInv, SlotInv, Due, vars, updaterVars, slotVars
<1> QED
  BY <1>1, UpdaterStep, SlotStep, EnvironmentStep DEF Next

-----------------------------------------------------------------------------
(* The theorems.                                                           *)

\* The inductive invariant holds in every reachable state.
THEOREM Invariance == Spec => []IInv
  BY InitIInv, NextIInv, PTL DEF Spec

\* The stake map is at most a refresh period, a nap and a call old unless the last call
\* failed, and a failed call is tried again after a nap (StakedNodesUpdaterService::new).
THEOREM StakesStayFresh == Spec => []StakesFresh
<1>1. IInv => StakesFresh
  BY RpcAssumption DEF IInv, TypeOK, UpdaterInv, StakesFresh, Due
<1> QED
  BY <1>1, Invariance, PTL

\* A subscription that yields no slot is made again within a timeout, a nap and a call
\* (start_slot_subscription).
THEOREM SilenceIsNoticed == Spec => []SlotsWatched
<1>1. IInv => SlotsWatched
  BY RpcAssumption DEF IInv, TypeOK, SlotInv, SlotsWatched
<1> QED
  BY <1>1, Invariance, PTL

\* Both threads have ended a nap, a call and a timeout after the exit flag was set.
THEOREM BothStopInTime == Spec => []StopInTime
<1>1. IInv => StopInTime
  BY RpcAssumption DEF IInv, TypeOK, UpdaterInv, SlotInv, StopInTime
<1> QED
  BY <1>1, Invariance, PTL

-----------------------------------------------------------------------------
(* The stake map, by induction over the accounts of a reply.  Induction is *)
(* used in the form of sets of natural numbers.                            *)

\* A set of natural numbers that is not empty has a least element.
LEMMA LeastNatural ==
    ASSUME NEW T, T \subseteq Nat, T # {}
    PROVE  \E x \in T : \A y \in T : x <= y
<1>1. IsWellFoundedOn(OpToRel(<,Nat), Nat)
  BY NatLessThanWellFounded, Zenon
<1>2. PICK x \in T : \A y \in T : ~(<<y, x>> \in OpToRel(<,Nat))
  BY <1>1, WFMin, Zenon
<1>3. \A y \in T : <<y, x>> \in OpToRel(<,Nat) <=> y < x
  BY Zenon DEF OpToRel
<1>4. \A y \in T : ~(y < x)
  BY <1>2, <1>3, Zenon
<1>5. \A y \in T : x <= y
  BY <1>4
<1> QED
  BY <1>5

\* A set of natural numbers with 0 and the successor of each element holds all.
LEMMA InductionOverNat ==
    ASSUME NEW T, T \subseteq Nat, 0 \in T, \A n \in T : n + 1 \in T
    PROVE  T = Nat
<1> SUFFICES ASSUME Nat \ T # {} PROVE FALSE
  OBVIOUS
<1>1. PICK x \in Nat \ T : \A y \in Nat \ T : x <= y
  BY LeastNatural
<1>2. x # 0 /\ x - 1 \in Nat /\ x - 1 \notin Nat \ T
  BY <1>1
<1>3. (x - 1) + 1 \in T
  BY <1>2
<1> QED
  BY <1>1, <1>3

noStakes == [n \in {} |-> 0]

\* g holds the map after each of the first n accounts.
Builds(g, accounts, n) ==
    g = [k \in 0..n |-> IF k = 0 THEN noStakes ELSE Collect(g[k - 1], accounts[k])]

\* The maps after each account exist, so StakesOf is the last of them.
LEMMA MapsExist ==
    ASSUME NEW accounts
    PROVE  \A n \in Nat : \E g : Builds(g, accounts, n)
<1> DEFINE T == {n \in Nat : \E g : Builds(g, accounts, n)}
<1>1. \E g : Builds(g, accounts, 0)
  <2>1. PICK g : g = [k \in 0..0 |-> noStakes]
    OBVIOUS
  <2>2. \A k \in 0..0 : (IF k = 0 THEN noStakes ELSE Collect(g[k - 1], accounts[k])) = noStakes
    OBVIOUS
  <2>3. Builds(g, accounts, 0)
    BY <2>1, <2>2 DEF Builds
  <2> QED
    BY <2>3
<1>2. ASSUME NEW n \in Nat, NEW g, Builds(g, accounts, n)
      PROVE  \E h : Builds(h, accounts, n + 1)
  <2>1. PICK h : h = [k \in 0..(n + 1) |-> IF k = n + 1 THEN Collect(g[n], accounts[n + 1]) ELSE g[k]]
    OBVIOUS
  <2>2. ASSUME NEW k \in 0..(n + 1)
        PROVE  h[k] = IF k = 0 THEN noStakes ELSE Collect(h[k - 1], accounts[k])
    <3>1. CASE k = n + 1
      BY <2>1, <3>1
    <3>2. CASE k # n + 1
      <4>1. k \in 0..n /\ h[k] = g[k] /\ (k # 0 => h[k - 1] = g[k - 1])
        BY <2>1, <3>2
      <4>2. g[k] = IF k = 0 THEN noStakes ELSE Collect(g[k - 1], accounts[k])
        BY <1>2, <4>1 DEF Builds
      <4> QED
        BY <4>1, <4>2
    <3> QED
      BY <3>1, <3>2
  <2>3. h = [k \in 0..(n + 1) |-> h[k]]
    BY <2>1
  <2>4. Builds(h, accounts, n + 1)
    BY <2>2, <2>3 DEF Builds
  <2> QED
    BY <2>4
<1>3. 0 \in T /\ \A n \in T : n + 1 \in T
  BY <1>1, <1>2
<1> HIDE DEF T
<1>4. T \subseteq Nat
  BY DEF T
<1>5. T = Nat
  BY <1>3, <1>4, InductionOverNat
<1> QED
  BY <1>5 DEF T

\* The recursive function in StakesOf builds the maps, so its last value is StakesOf.
LEMMA StakesOfIsLast ==
    ASSUME NEW accounts, Len(accounts) \in Nat
    PROVE  \E g : Builds(g, accounts, Len(accounts)) /\ StakesOf(accounts) = g[Len(accounts)]
<1> DEFINE g == CHOOSE m : Builds(m, accounts, Len(accounts))
<1>1. Builds(g, accounts, Len(accounts))
  BY MapsExist, Zenon
<1>2. StakesOf(accounts) = g[Len(accounts)]
  BY Zenon DEF StakesOf, Builds, noStakes
<1> QED
  BY <1>1, <1>2

\* After the first k accounts the map has the nodes named by one of them, each with
\* the stake of its last account.
LastWins(map, accounts, k) ==
    /\ map \in [DOMAIN map -> Stakes]
    /\ DOMAIN map = {x \in Nodes : \E i \in 1..k : accounts[i].node = x}
    /\ \A x \in DOMAIN map : \A i \in 1..k :
          accounts[i].node = x /\ (\A j \in 1..k : accounts[j].node = x => j <= i)
            => map[x] = accounts[i].stake

\* Collecting one more account keeps that.
LEMMA CollectKeepsLast ==
    ASSUME NEW accounts, NEW k \in Nat, NEW map, LastWins(map, accounts, k),
           accounts[k + 1] \in Accounts
    PROVE  LastWins(Collect(map, accounts[k + 1]), accounts, k + 1)
<1>1. PICK a : a = accounts[k + 1]
  OBVIOUS
<1>2. a.node \in Nodes \cup {NoNode} /\ a.stake \in Stakes /\ NoNode \notin Nodes
  BY <1>1, RpcAssumption DEF Accounts
<1>3. \A i \in 1..(k + 1) : i = k + 1 \/ i \in 1..k
  OBVIOUS
<1>4. CASE a.node = NoNode
  <2>1. Collect(map, a) = map
    BY <1>4 DEF Collect
  <2>2. DOMAIN map = {x \in Nodes : \E i \in 1..(k + 1) : accounts[i].node = x}
    BY <1>1, <1>2, <1>3, <1>4 DEF LastWins
  <2>3. ASSUME NEW x \in DOMAIN map, NEW i \in 1..(k + 1), accounts[i].node = x,
               \A j \in 1..(k + 1) : accounts[j].node = x => j <= i
        PROVE  map[x] = accounts[i].stake
    <3>1. x \in Nodes
      BY DEF LastWins
    <3>2. i \in 1..k
      BY <1>1, <1>2, <1>3, <1>4, <2>3, <3>1
    <3>3. \A j \in 1..k : accounts[j].node = x => j <= i
      BY <2>3
    <3> QED
      BY <2>3, <3>2, <3>3 DEF LastWins
  <2> QED
    BY <1>1, <2>1, <2>2, <2>3 DEF LastWins
<1>5. CASE a.node # NoNode
  <2>1. PICK m : m = [n \in DOMAIN map \cup {a.node} |-> IF n = a.node THEN a.stake ELSE map[n]]
    OBVIOUS
  <2>2. Collect(map, a) = m
    BY <1>5, <2>1 DEF Collect
  <2>3. /\ DOMAIN m = DOMAIN map \cup {a.node} /\ m[a.node] = a.stake
        /\ \A x \in DOMAIN map : x # a.node => m[x] = map[x]
    BY <2>1
  <2>4. m \in [DOMAIN m -> Stakes]
    BY <1>2, <2>1, <2>3 DEF LastWins
  <2>5. DOMAIN m = {x \in Nodes : \E i \in 1..(k + 1) : accounts[i].node = x}
    <3>1. DOMAIN map = {x \in Nodes : \E i \in 1..k : accounts[i].node = x}
      BY DEF LastWins
    <3>2. k + 1 \in 1..(k + 1) /\ \A i \in 1..k : i \in 1..(k + 1)
      OBVIOUS
    <3>3. ASSUME NEW x \in DOMAIN m
          PROVE  x \in Nodes /\ \E i \in 1..(k + 1) : accounts[i].node = x
      BY <1>1, <1>2, <1>5, <2>3, <3>1, <3>2
    <3>4. ASSUME NEW x \in Nodes, NEW i \in 1..(k + 1), accounts[i].node = x
          PROVE  x \in DOMAIN m
      BY <1>1, <1>3, <2>3, <3>1, <3>4
    <3> QED
      BY <3>3, <3>4
  <2>6. ASSUME NEW x \in DOMAIN m, NEW i \in 1..(k + 1), accounts[i].node = x,
               \A j \in 1..(k + 1) : accounts[j].node = x => j <= i
        PROVE  m[x] = accounts[i].stake
    <3>1. CASE x = a.node
      <4>1. i = k + 1
        BY <1>1, <2>6, <3>1
      <4> QED
        BY <1>1, <2>3, <3>1, <4>1
    <3>2. CASE x # a.node
      <4>1. i \in 1..k /\ x \in DOMAIN map /\ m[x] = map[x]
        BY <1>1, <1>3, <2>3, <2>6, <3>2
      <4>2. \A j \in 1..k : accounts[j].node = x => j <= i
        BY <2>6
      <4> QED
        BY <2>6, <4>1, <4>2 DEF LastWins
    <3> QED
      BY <3>1, <3>2
  <2> QED
    BY <1>1, <2>2, <2>4, <2>5, <2>6 DEF LastWins
<1> QED
  BY <1>4, <1>5

\* StakesOf collects the last account of every node, for accounts of any number.
LEMMA StakesOfLast ==
    ASSUME NEW accounts \in Seq(Accounts)
    PROVE  LastWins(StakesOf(accounts), accounts, Len(accounts))
<1>1. PICK n \in Nat : n = Len(accounts)
  OBVIOUS
<1>2. \A i \in 1..n : accounts[i] \in Accounts
  BY <1>1, ElementOfSeq
<1>3. PICK g : Builds(g, accounts, n) /\ StakesOf(accounts) = g[n]
  BY <1>1, StakesOfIsLast
<1>4. \A k \in 0..n : g[k] = IF k = 0 THEN noStakes ELSE Collect(g[k - 1], accounts[k])
  BY <1>3 DEF Builds
<1> DEFINE T == {k \in Nat : k <= n => LastWins(g[k], accounts, k)}
<1>5. 0 \in T
  <2>1. g[0] = noStakes
    BY <1>4
  <2>2. LastWins(noStakes, accounts, 0)
    BY DEF LastWins, noStakes
  <2> QED
    BY <2>1, <2>2
<1>6. ASSUME NEW k \in T PROVE k + 1 \in T
  <2> SUFFICES ASSUME k + 1 <= n PROVE LastWins(g[k + 1], accounts, k + 1)
    OBVIOUS
  <2>1. k \in Nat /\ k <= n /\ k + 1 \in 1..n /\ LastWins(g[k], accounts, k)
    OBVIOUS
  <2>2. g[k + 1] = Collect(g[k], accounts[k + 1])
    BY <1>4, <2>1
  <2>3. accounts[k + 1] \in Accounts
    BY <1>2, <2>1
  <2> QED
    BY <2>1, <2>2, <2>3, CollectKeepsLast
<1> HIDE DEF T
<1>7. T \subseteq Nat
  BY DEF T
<1>8. T = Nat
  BY <1>5, <1>6, <1>7, InductionOverNat
<1>9. LastWins(g[n], accounts, n)
  BY <1>1, <1>8 DEF T
<1> QED
  BY <1>1, <1>3, <1>9

\* What StakesOfLastAccount says, of any map and accounts.
Published(map, all) ==
    /\ map \in Maps
    /\ DOMAIN map = {n \in Nodes : {i \in 1..Len(all) : all[i].node = n} # {}}
    /\ \A n \in DOMAIN map : \A i \in {j \in 1..Len(all) : all[j].node = n} :
         (\A j \in {h \in 1..Len(all) : all[h].node = n} : j <= i) => map[n] = all[i].stake

\* What LastWins says of the maps built is what StakesOfLastAccount says of the map in use.
LEMMA LastWinsIsPublished ==
    ASSUME NEW all, NEW map, LastWins(map, all, Len(all)), Len(all) \in Nat
    PROVE  Published(map, all)
<1>1. DOMAIN map \in SUBSET Nodes /\ map \in [DOMAIN map -> Stakes]
  BY DEF LastWins
<1>2. map \in Maps
  BY <1>1, Zenon DEF Maps
<1> QED
  BY <1>2 DEF LastWins, Published

\* The two lists of a reply, one behind the other.
LEMMA AllAccounts ==
    ASSUME NEW r \in Replies
    PROVE  r.current \o r.delinquent \in Seq(Accounts)
<1>1. ASSUME NEW s \in SeqOf(Accounts, MaxAccounts) PROVE s \in Seq(Accounts)
  <2>1. PICK m \in 0..MaxAccounts : s \in [1..m -> Accounts]
    BY Zenon DEF SeqOf
  <2>2. m \in Nat
    BY RpcAssumption
  <2> HIDE DEF Accounts
  <2> QED
    BY <2>1, <2>2
<1>2. r.current \in SeqOf(Accounts, MaxAccounts) /\ r.delinquent \in SeqOf(Accounts, MaxAccounts)
  BY DEF Replies
<1>3. r.current \in Seq(Accounts) /\ r.delinquent \in Seq(Accounts)
  BY <1>1, <1>2
<1> QED
  BY <1>3, ConcatProperties

\* The published stakes are those of the last account of each node in the last reply,
\* current accounts before delinquent ones, whatever the accounts and their number
\* (try_refresh_pk_to_stake).
THEOREM LastAccountsArePublished == Spec => []StakesOfLastAccount
<1>1. Init => StakesOfLastAccount
  <2> SUFFICES ASSUME Init PROVE StakesOfLastAccount
    OBVIOUS
  <2>1. stakes = noStakes /\ reply.current = <<>> /\ reply.delinquent = <<>>
    BY DEF Init, noStakes
  <2>2. <<>> \o <<>> = <<>> /\ Len(<<>>) = 0
    OBVIOUS
  <2>3. LastWins(noStakes, <<>>, 0)
    BY DEF LastWins, noStakes
  <2>4. PICK all : all = reply.current \o reply.delinquent
    OBVIOUS
  <2>5. all = <<>> /\ Len(all) = 0 /\ LastWins(stakes, all, Len(all))
    BY <2>1, <2>2, <2>3, <2>4
  <2>6. Published(stakes, all)
    BY <2>5, LastWinsIsPublished
  <2>7. Published(stakes, reply.current \o reply.delinquent)
    BY <2>4, <2>6
  <2> QED
    BY <2>7, Zenon DEF StakesOfLastAccount, Published
<1>2. StakesOfLastAccount /\ [Next]_vars => StakesOfLastAccount'
  <2> SUFFICES ASSUME StakesOfLastAccount, [Next]_vars PROVE StakesOfLastAccount'
    OBVIOUS
  <2>1. CASE UNCHANGED <<reply, stakes>>
    BY <2>1 DEF StakesOfLastAccount
  <2>2. ASSUME NEW r \in Replies, Refresh(r) PROVE StakesOfLastAccount'
    <3>1. reply' = r /\ stakes' = StakesOf(r.current \o r.delinquent)
      BY <2>2 DEF Refresh, StakeMap
    <3>2. PICK all : all = r.current \o r.delinquent
      OBVIOUS
    <3>3. all \in Seq(Accounts)
      BY <3>2, AllAccounts, Zenon
    <3>4. LastWins(StakesOf(all), all, Len(all))
      BY <3>3, StakesOfLast
    <3>5. stakes' = StakesOf(all) /\ reply'.current \o reply'.delinquent = all
      BY <3>1, <3>2
    <3>6. LastWins(stakes', all, Len(all)) /\ Len(all) \in Nat
      BY <3>3, <3>4, <3>5
    <3>7. Published(stakes', all)
      BY <3>6, LastWinsIsPublished
    <3>8. Published(stakes', reply'.current \o reply'.delinquent)
      BY <3>5, <3>7
    <3> QED
      BY <3>8, Zenon DEF StakesOfLastAccount, Published
  <2>3. CASE ~\E r \in Replies : Refresh(r)
    <3>1. UNCHANGED <<reply, stakes>>
      BY <2>3 DEF Next, UpdaterWakes, RefreshFails, SlotWakes, Slot, SlotSilence, SlotDisconnected,
                  SlotSubscribe, Listen, Again, SlotThread, SetExit, Tick, updaterVars, vars
    <3> QED
      BY <2>1, <3>1
  <2> QED
    BY <2>2, <2>3
<1> QED
  BY <1>1, <1>2, PTL DEF Spec
=============================================================================
