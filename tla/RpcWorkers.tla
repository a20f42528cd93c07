----------------------------- MODULE RpcWorkers -----------------------------
(***************************************************************************)
(* The two threads that talk to the validator's RPC: the staked nodes      *)
(* updater (src/relayer/staked_nodes_updater_service.rs) and the slot      *)
(* subscription (src/rpc.rs), with the clock in seconds.  A thread is      *)
(* never late: time does not pass the moment it is to act.  A call may     *)
(* take any time up to MaxCall and fail.                                   *)
(***************************************************************************)
EXTENDS Integers, Sequences, SequencesExt

CONSTANTS
    Nodes, NoNode,      \* identities, and a text that is none
    Stakes,             \* what a vote account may hold
    RefreshAfter,       \* the 60 seconds of the updater's loop
    RefreshDuration,    \* PK_TO_STAKE_REFRESH_DURATION
    SlotTimeout,        \* the second the subscription waits for a slot
    Nap,                \* the second both threads sleep
    MaxCall,            \* the longest a call takes
    MaxAccounts,        \* bound: the accounts in either list of a reply
    MaxTime             \* bound: the clock

ASSUME RpcAssumption ==
    /\ NoNode \notin Nodes /\ Stakes \subseteq Nat
    /\ {RefreshAfter, RefreshDuration, SlotTimeout, Nap} \subseteq Nat \ {0}
    /\ RefreshDuration < RefreshAfter /\ {MaxCall, MaxAccounts, MaxTime} \subseteq Nat

VARIABLES
    now, exit,
    exitAt,             \* history: when exit was set
    updater,            \* "call", "sleep" or "done"
    wake,               \* when it has to act next
    lastStakes,         \* last_stakes
    tried,              \* history: when its last call ended
    failed,             \* history: that call failed
    reply, stakes,      \* history: the last reply, and the map made of it
    slots,              \* the subscription: "call", "recv", "sleep" or "done"
    slotsWake, subscribed, heard    \* when it has to act, called last, and got a slot last

updaterVars == <<updater, wake, lastStakes, tried, failed, reply, stakes>>
slotVars == <<slots, slotsWake, subscribed, heard>>
vars == <<now, exit, exitAt, updaterVars, slotVars>>

Accounts == [node : Nodes \cup {NoNode}, stake : Stakes]
Replies == [current : SeqOf(Accounts, MaxAccounts), delinquent : SeqOf(Accounts, MaxAccounts)]
Maps == UNION {[N -> Stakes] : N \in SUBSET Nodes}

\* Type invariant.
TypeOK ==
    /\ now \in Nat /\ exit \in BOOLEAN /\ exitAt \in Nat
    /\ updater \in {"call", "sleep", "done"} /\ slots \in {"call", "recv", "sleep", "done"}
    /\ {wake, lastStakes, tried, slotsWake, heard} \subseteq Nat /\ subscribed \in Nat \cup {-Nap}
    /\ failed \in BOOLEAN /\ reply \in Replies

Init ==
    /\ now = 0 /\ exit = FALSE /\ exitAt = 0
    /\ updater = "sleep" /\ wake = 0 /\ lastStakes = 0 /\ tried = 0 /\ failed = FALSE
    /\ reply = [current |-> <<>>, delinquent |-> <<>>] /\ stakes = [n \in {} |-> 0]
    /\ slots = "sleep" /\ slotsWake = 0 /\ subscribed = -Nap /\ heard = 0

-----------------------------------------------------------------------------
(* The staked nodes updater.                                               *)

\* Mutant of Collect: an account already there is kept.
CollectKeeps(map, a) ==
    IF a.node = NoNode \/ a.node \in DOMAIN map THEN map
    ELSE [n \in DOMAIN map \cup {a.node} |-> IF n = a.node THEN a.stake ELSE map[n]]

\* One account goes into the map, over an earlier one; a text that is no key is skipped.
Collect(map, a) ==
    IF a.node = NoNode THEN map
    ELSE [n \in DOMAIN map \cup {a.node} |-> IF n = a.node THEN a.stake ELSE map[n]]

\* The accounts collected one after the other.
StakesOf(accounts) ==
    LET map[k \in 0..Len(accounts)] ==
            IF k = 0 THEN [n \in {} |-> 0] ELSE Collect(map[k - 1], accounts[k])
    IN  map[Len(accounts)]

\* Current, then delinquent accounts are collected.
StakeMap(r) == StakesOf(r.current \o r.delinquent)

\* Mutant of UpdaterNap: the thread sleeps from refresh to refresh.
UpdaterNapLong == RefreshAfter

UpdaterNap == Nap

Due == now - lastStakes >= RefreshAfter /\ now - lastStakes > RefreshDuration

UpdaterWakes ==
    /\ updater = "sleep" /\ now = wake
    /\ \/ exit /\ updater' = "done" /\ UNCHANGED wake
       \/ ~exit /\ Due /\ updater' = "call" /\ wake' = now + MaxCall
       \/ ~exit /\ ~Due /\ updater' = "sleep" /\ wake' = now + UpdaterNap
    /\ UNCHANGED <<now, exit, exitAt, lastStakes, tried, failed, reply, stakes, slotVars>>

\* get_vote_accounts returns, and the map is replaced.
Refresh(r) ==
    /\ updater = "call"
    /\ reply' = r /\ stakes' = StakeMap(r)
    /\ lastStakes' = now /\ tried' = now /\ failed' = FALSE
    /\ updater' = "sleep" /\ wake' = now + UpdaterNap
    /\ UNCHANGED <<now, exit, exitAt, slotVars>>

\* Mutant of LastStakesAfterError: the instant is taken before the call.
LastStakesAfterErrorIsNow == now

LastStakesAfterError == lastStakes

RefreshFails ==
    /\ updater = "call"
    /\ lastStakes' = LastStakesAfterError /\ tried' = now /\ failed' = TRUE
    /\ updater' = "sleep" /\ wake' = now + UpdaterNap
    /\ UNCHANGED <<now, exit, exitAt, reply, stakes, slotVars>>

-----------------------------------------------------------------------------
(* The slot subscription.                                                  *)

SlotThread == UNCHANGED <<now, exit, exitAt, updaterVars>>

\* The loop is left at its top, or the subscription is made.
SlotWakes ==
    /\ slots = "sleep" /\ now = slotsWake
    /\ \/ exit /\ slots' = "done" /\ UNCHANGED <<slotsWake, subscribed>>
       \/ ~exit /\ slots' = "call" /\ slotsWake' = now + MaxCall /\ subscribed' = now
    /\ SlotThread /\ UNCHANGED heard

\* Behind the inner loop, or a failed subscription: sleep unless the process exits.
Again ==
    /\ slots' = "sleep" /\ slotsWake' = IF exit THEN now ELSE now + Nap
    /\ SlotThread /\ UNCHANGED subscribed

\* The test at the top of the inner loop.
Listen ==
    IF exit THEN Again
    ELSE slots' = "recv" /\ slotsWake' = now + SlotTimeout /\ SlotThread /\ UNCHANGED subscribed

SlotSubscribe(ok) == slots = "call" /\ (IF ok THEN Listen ELSE Again) /\ UNCHANGED heard

Slot == slots = "recv" /\ Listen /\ heard' = now

\* Mutant of SlotSilence: the thread goes on waiting.
SlotSilenceIgnored == slots = "recv" /\ now = slotsWake /\ Listen /\ UNCHANGED heard

SlotSilence == slots = "recv" /\ now = slotsWake /\ Again /\ UNCHANGED heard

SlotDisconnected == slots = "recv" /\ Again /\ UNCHANGED heard

-----------------------------------------------------------------------------
SetExit == ~exit /\ exit' = TRUE /\ exitAt' = now /\ UNCHANGED <<now, updaterVars, slotVars>>

Tick ==
    /\ now < MaxTime /\ (updater = "done" \/ now < wake) /\ (slots = "done" \/ now < slotsWake)
    /\ now' = now + 1
    /\ UNCHANGED <<exit, exitAt, updaterVars, slotVars>>

Next ==
    \/ UpdaterWakes \/ RefreshFails \/ \E r \in Replies : Refresh(r)
    \/ SlotWakes \/ Slot \/ SlotSilence \/ SlotDisconnected \/ \E ok \in BOOLEAN : SlotSubscribe(ok)
    \/ SetExit \/ Tick

Spec == Init /\ [][Next]_vars

-----------------------------------------------------------------------------
(* Properties.                                                             *)

\* The published stake of a node is that of the last of its accounts in the reply, a
\* delinquent one before a current one, and the map built from the reply holds no other
\* node (the overrides, fixed at startup, are kept beside it).
StakesOfLastAccount ==
    LET all == reply.current \o reply.delinquent
        Of(n) == {i \in 1..Len(all) : all[i].node = n}
    IN  /\ stakes \in Maps /\ DOMAIN stakes = {n \in Nodes : Of(n) # {}}
        /\ \A n \in DOMAIN stakes : \A i \in Of(n) :
                (\A j \in Of(n) : j <= i) => stakes[n] = all[i].stake

\* The map in use is never older than a refresh period, a nap and one call, unless the
\* last call failed; a failed call is tried again after a nap, not after another period,
\* because the failure leaves last_stakes alone.
StakesFresh ==
    /\ TypeOK
    /\ updater = "done" \/ failed \/ now - lastStakes <= RefreshAfter + Nap + MaxCall
    /\ failed /\ updater = "sleep" /\ ~exit => wake <= tried + Nap /\ Due

\* Without a slot for a timeout, a nap and a call the subscription is made again.
SlotsWatched ==
    slots = "done" \/ exit \/ \E t \in {heard, subscribed} : now - t <= SlotTimeout + Nap + MaxCall

\* Both threads end a nap, a timeout and a call after the exit flag at the latest, which
\* is what main's joins wait for.
StopInTime ==
    exit /\ now - exitAt > Nap + MaxCall + SlotTimeout => updater = "done" /\ slots = "done"
=============================================================================
