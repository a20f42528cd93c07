----------------------------- MODULE DelayLine -----------------------------
(***************************************************************************)
(* What the proxy promises of every delay stage (src/proxy/mod.rs): items  *)
(* pass in order, each is held for Delay, and what the Inertia server has  *)
(* asked to suppress is removed.  RelayerDelay and DelayForward implement  *)
(* it.  Here are no threads, polls, mutexes, channel capacities or sweeps. *)
(*                                                                         *)
(* An item is a sequence of units, a unit the set of signatures it is      *)
(* judged by.  A Lossy line skips items only when it has fallen more than  *)
(* Retained behind, and then no more than it must.                         *)
(***************************************************************************)
EXTENDS Naturals, Sequences

CONSTANTS Signatures, Items, Delay, TTL, Lossy, Retained

VARIABLES
    now,            \* the clock
    offered,        \* the items offered to the line
    next,           \* how many of them it has passed: accepted or skipped
    line,           \* those it holds: [id, since]
    hand,           \* the one being decided on, 0 for none
    out,            \* those decided on: [id, removed]
    filters,        \* for each suppressed signature, the instant it counts from
    open            \* the line runs

vars == <<now, offered, next, line, hand, out, filters, open>>

Init ==
    /\ now = 0 /\ offered = <<>> /\ next = 0 /\ line = <<>> /\ hand = 0 /\ out = <<>>
    /\ filters = [s \in {} |-> 0] /\ open = TRUE

Offer ==
    /\ \E item \in Items : offered' = Append(offered, item)
    /\ UNCHANGED <<now, next, line, hand, out, filters, open>>

Accept ==
    /\ open /\ next < Len(offered)
    /\ next' = next + 1 /\ line' = Append(line, [id |-> next + 1, since |-> now])
    /\ UNCHANGED <<now, offered, hand, out, filters, open>>

Skip ==
    /\ open /\ Lossy /\ Len(offered) - next > Retained /\ next' = Len(offered) - Retained
    /\ UNCHANGED <<now, offered, line, hand, out, filters, open>>

\* Only the oldest item may leave, and only when it has been held for Delay.
Release ==
    /\ open /\ hand = 0 /\ line # <<>> /\ Head(line).since + Delay <= now
    /\ hand' = Head(line).id /\ line' = Tail(line)
    /\ UNCHANGED <<now, offered, next, out, filters, open>>

\* The units of an item that some of these signatures hit.
Hit(id, sigs) == {i \in 1..Len(offered[id]) : offered[id][i] \cap sigs # {}}

\* A filter younger than TTL removes what it hits; an older one may.
Decide ==
    /\ open /\ hand # 0
    /\ \E removed \in SUBSET Hit(hand, DOMAIN filters) :
        /\ Hit(hand, {s \in DOMAIN filters : now < filters[s] + TTL}) \subseteq removed
        /\ out' = Append(out, [id |-> hand, removed |-> removed])
    /\ hand' = 0
    /\ UNCHANGED <<now, offered, next, line, filters, open>>

\* The instant of a filter is taken some time before it takes effect.
Suppress(s) ==
    /\ \E t \in 0..now :
        filters' = [x \in DOMAIN filters \cup {s} |-> IF x = s THEN t ELSE filters[x]]
    /\ UNCHANGED <<now, offered, next, line, hand, out, open>>

Close == open /\ open' = FALSE /\ UNCHANGED <<now, offered, next, line, hand, out, filters>>

Tick == now' = now + 1 /\ UNCHANGED <<offered, next, line, hand, out, filters, open>>

Next ==
    \/ Offer \/ Accept \/ Skip \/ Release \/ Decide \/ Close \/ Tick
    \/ \E s \in Signatures : Suppress(s)

Spec == Init /\ [][Next]_vars
=============================================================================
