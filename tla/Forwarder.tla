----------------------------- MODULE Forwarder -----------------------------
(***************************************************************************)
(* The relayer's forwarder (src/relayer/forwarder.rs): the event loop that *)
(* turns delayed packet batches into SubscribePackets messages, the map of *)
(* subscriptions behind a RwLock, and the gRPC handler that subscribes.    *)
(*                                                                         *)
(* A stream is one call of subscribe_packets: a bounded tokio channel whose*)
(* sender is kept in `subscriptions' and whose receiver belongs to the     *)
(* client's connection.  A channel is abstracted to how many messages it   *)
(* holds (`fill'); `log' is the history of the packet messages put in it.  *)
(* A batch is abstracted to its number of live (not discarded) packets, a  *)
(* message to its place in the sequence of all messages cut from batches.  *)
(*                                                                         *)
(* `subscriptions' never has two entries (SubscriptionsSound), so a loop   *)
(* over the subscribers is one try_send, and one step here.                *)
(***************************************************************************)
EXTENDS Naturals, Sequences, FiniteSets

CONSTANTS
    Validators,     \* identities (Pubkey)
    QueueCapacity,  \* SUBSCRIBER_QUEUE_CAPACITY
    BatchSize,      \* VALIDATOR_PACKET_BATCH_SIZE
    LiveCounts,     \* how many live packets a batch may have
    MaxBatches,     \* bound: batches received
    MaxStreams      \* bound: calls of subscribe_packets

ASSUME SizesAssumption ==
    /\ QueueCapacity \in Nat \ {0} /\ BatchSize \in Nat \ {0}
    /\ LiveCounts \subseteq Nat /\ MaxBatches \in Nat /\ MaxStreams \in Nat

VARIABLES
    exit,           \* the process-wide exit flag
    inbox,          \* delay_packet_receiver's channel: live packets of each batch
    inboxOpen,      \* the delay thread still holds the sender
    arrived,        \* how many batches were put in inbox
    subscriptions,  \* HashMap<Pubkey, sender>: identity -> stream
    owner,          \* per stream: the identity that called subscribe_packets
    rx,             \* per stream: its receiver is "open", "closed" by the client, or
                    \* was never handed out ("rejected")
    fill,           \* per stream: messages in its channel
    log,            \* history, per stream: the packet messages put in its channel
    missed,         \* history, per stream: a try_send found the channel full
    pc,             \* where the event loop is
    subscribers,    \* forward_packets' copy of the map
    todo,           \* proto_packet_batches still to be sent
    serial,         \* history: messages cut so far
    failed          \* failed_forwards (as a set: removing twice is removing once)

loopVars == <<pc, subscribers, todo, serial, failed>>
streamVars == <<owner, rx, fill, log, missed>>
vars == <<exit, inbox, inboxOpen, arrived, subscriptions, streamVars, loopVars>>

Streams == 1..Len(rx)
Message == [n : Nat, first : BOOLEAN]
noMap == [v \in {} |-> 0]

\* Type invariant.
TypeOK ==
    /\ exit \in BOOLEAN /\ inboxOpen \in BOOLEAN
    /\ inbox \in Seq(LiveCounts) /\ arrived \in Nat /\ serial \in Nat
    /\ rx \in Seq({"open", "closed", "rejected"})
    /\ owner \in [Streams -> Validators]
    /\ fill \in [Streams -> 0..QueueCapacity]
    /\ log \in [Streams -> Seq(Message)]
    /\ missed \in [Streams -> BOOLEAN]
    /\ DOMAIN subscriptions \subseteq Validators
    /\ subscriptions \in [DOMAIN subscriptions -> Streams]
    /\ DOMAIN subscribers \subseteq Validators
    /\ subscribers \in [DOMAIN subscribers -> Streams]
    /\ pc \in {"top", "select", "forward", "drop", "error", "done"}
    /\ todo \in Seq(Message)
    /\ failed \subseteq Validators

Init ==
    /\ exit = FALSE
    /\ inbox = <<>> /\ inboxOpen = TRUE /\ arrived = 0
    /\ subscriptions = noMap
    /\ owner = <<>> /\ rx = <<>> /\ fill = <<>> /\ log = <<>> /\ missed = <<>>
    /\ pc = "top" /\ subscribers = noMap /\ todo = <<>> /\ serial = 0
    /\ failed = {}

-----------------------------------------------------------------------------
(* The gRPC side.                                                          *)

Accepted(v) == v \in DOMAIN subscriptions \/ DOMAIN subscriptions = {}

\* subscribe_packets: a new channel, then add_subscription under the write lock.
\* Another identity's subscription makes it fail and both ends are dropped; an
\* entry of the same identity is replaced, which drops its sender.
Subscribe(v) ==
    LET n == Len(rx) + 1 IN
    /\ n <= MaxStreams
    /\ subscriptions' = IF Accepted(v)
                        THEN [w \in DOMAIN subscriptions \cup {v} |->
                                IF w = v THEN n ELSE subscriptions[w]]
                        ELSE subscriptions
    /\ owner' = Append(owner, v)
    /\ rx' = Append(rx, IF Accepted(v) THEN "open" ELSE "rejected")
    /\ fill' = Append(fill, 0)
    /\ log' = Append(log, <<>>)
    /\ missed' = Append(missed, FALSE)
    /\ UNCHANGED <<exit, inbox, inboxOpen, arrived, loopVars>>

\* The client's connection reads a message, or goes away.
ClientRead(n) ==
    /\ rx[n] = "open" /\ fill[n] > 0
    /\ fill' = [fill EXCEPT ![n] = @ - 1]
    /\ UNCHANGED <<exit, inbox, inboxOpen, arrived, subscriptions, owner, rx, log, missed, loopVars>>

ClientClose(n) ==
    /\ rx[n] = "open"
    /\ rx' = [rx EXCEPT ![n] = "closed"]
    /\ fill' = [fill EXCEPT ![n] = 0]
    /\ UNCHANGED <<exit, inbox, inboxOpen, arrived, subscriptions, owner, log, missed, loopVars>>

-----------------------------------------------------------------------------
(* The event loop.                                                         *)

Top ==
    /\ pc = "top"
    /\ pc' = IF exit THEN "done" ELSE "select"
    /\ UNCHANGED <<exit, inbox, inboxOpen, arrived, subscriptions, streamVars,
                   subscribers, todo, serial, failed>>

\* How many messages the loop over `current' cuts from a batch: full ones of
\* BatchSize packets, and the rest if there is one.
Cuts(live) == live \div BatchSize + (IF live % BatchSize = 0 THEN 0 ELSE 1)

\* forward_packets up to its send loop: receive, cut into messages, copy the
\* map under the read lock.  With nobody subscribed the messages are dropped.
ForwardPackets ==
    /\ pc = "select" /\ inbox # <<>>
    /\ LET k == Cuts(Head(inbox)) IN
        /\ inbox' = Tail(inbox)
        /\ serial' = serial + k
        /\ subscribers' = subscriptions
        /\ todo' = IF DOMAIN subscriptions = {} THEN <<>>
                   ELSE [i \in 1..k |-> [n |-> serial + i, first |-> i = 1]]
    /\ pc' = "forward"
    /\ UNCHANGED <<exit, inboxOpen, arrived, subscriptions, streamVars, failed>>

\* Mutant of Disconnected: every error is treated as a disconnect.
DisconnectedOrFull(n) == rx[n] = "closed" \/ fill[n] = QueueCapacity

Disconnected(n) == rx[n] = "closed"

Full(n) == fill[n] = QueueCapacity

\* One try_send to each stream of `to': a closed channel fails (also when it is
\* full), a full one drops the message.
TrySend(to, isPacket, m) ==
    LET targets == {to[v] : v \in DOMAIN to}
        open == {n \in targets : rx[n] = "open"}
        full == {n \in open : Full(n)} IN
    /\ fill' = [n \in Streams |-> IF n \in open \ full THEN fill[n] + 1 ELSE fill[n]]
    /\ log' = [n \in Streams |-> IF isPacket /\ n \in open \ full THEN Append(log[n], m) ELSE log[n]]
    /\ missed' = [n \in Streams |-> missed[n] \/ (isPacket /\ n \in full)]
    /\ failed' = failed \cup {v \in DOMAIN to : Disconnected(to[v])}

\* Mutant of Receivers: the map is read again for every message.
ReceiversReread == subscriptions

Receivers == subscribers

\* The send loop of forward_packets, one message per step.
TryForward ==
    /\ pc = "forward" /\ todo # <<>>
    /\ TrySend(Receivers, TRUE, Head(todo))
    /\ todo' = Tail(todo)
    /\ UNCHANGED <<exit, inbox, inboxOpen, arrived, subscriptions, owner, rx, pc, subscribers, serial>>

\* forward_packets returns; its copies of the senders are dropped.
ForwardDone ==
    /\ pc = "forward" /\ todo = <<>>
    /\ subscribers' = noMap
    /\ pc' = "drop"
    /\ UNCHANGED <<exit, inbox, inboxOpen, arrived, subscriptions, streamVars,
                   todo, serial, failed>>

\* drop_connections: under the write lock, remove the failed identities.
DropConnections ==
    /\ pc = "drop"
    /\ subscriptions' = [v \in DOMAIN subscriptions \ failed |-> subscriptions[v]]
    /\ failed' = {}
    /\ pc' = "top"
    /\ UNCHANGED <<exit, inbox, inboxOpen, arrived, streamVars, subscribers, todo, serial>>

\* Mutant of Beaten: an idle relayer sends no heartbeat.
BeatenNone == noMap

Beaten == subscriptions

\* handle_heartbeat holds the read lock throughout.
HandleHeartbeat ==
    /\ pc = "select"
    /\ TrySend(Beaten, FALSE, [n |-> 0, first |-> FALSE])
    /\ pc' = "drop"
    /\ UNCHANGED <<exit, inbox, inboxOpen, arrived, subscriptions, owner, rx, subscribers, todo, serial>>

\* Mutant of AfterError: a disconnected channel ends the loop without an error.
AfterErrorQuiet == "done"

AfterError == "error"

\* forward_packets fails on a disconnected channel: run_event_loop returns Err.
InboxDisconnected ==
    /\ pc = "select" /\ inbox = <<>> /\ ~inboxOpen
    /\ pc' = AfterError
    /\ UNCHANGED <<exit, inbox, inboxOpen, arrived, subscriptions, streamVars,
                   subscribers, todo, serial, failed>>

\* The thread's closure: an Err raises the exit flag.
RaiseExit ==
    /\ pc = "error"
    /\ exit' = TRUE
    /\ pc' = "done"
    /\ UNCHANGED <<inbox, inboxOpen, arrived, subscriptions, streamVars,
                   subscribers, todo, serial, failed>>

-----------------------------------------------------------------------------
(* The delay thread and the exit flag.                                     *)

Arrive(live) ==
    /\ inboxOpen /\ arrived < MaxBatches /\ pc # "done"
    /\ inbox' = Append(inbox, live)
    /\ arrived' = arrived + 1
    /\ UNCHANGED <<exit, inboxOpen, subscriptions, streamVars, loopVars>>

CloseInbox ==
    /\ inboxOpen /\ inboxOpen' = FALSE
    /\ UNCHANGED <<exit, inbox, arrived, subscriptions, streamVars, loopVars>>

SetExit ==
    /\ ~exit /\ exit' = TRUE
    /\ UNCHANGED <<inbox, inboxOpen, arrived, subscriptions, streamVars, loopVars>>

EventLoop ==
    \/ Top \/ ForwardPackets \/ TryForward \/ ForwardDone \/ DropConnections
    \/ HandleHeartbeat \/ InboxDisconnected \/ RaiseExit

Clients == (\E v \in Validators : Subscribe(v)) \/ (\E n \in Streams : ClientRead(n) \/ ClientClose(n))

Next == EventLoop \/ Clients \/ (\E live \in LiveCounts : Arrive(live)) \/ CloseInbox \/ SetExit

Spec == Init /\ [][Next]_vars

\* The event loop keeps going, and select! picks at random among the arms that
\* are ready, so an arm that is ready again and again is taken.
Fairness ==
    /\ WF_vars(Top \/ TryForward \/ ForwardDone \/ DropConnections \/ RaiseExit)
    /\ SF_vars(ForwardPackets) /\ SF_vars(HandleHeartbeat) /\ SF_vars(InboxDisconnected)

FairSpec == Spec /\ Fairness

-----------------------------------------------------------------------------
(* Properties.                                                             *)

Subscribed(n) == \E v \in DOMAIN subscriptions : subscriptions[v] = n

\* At most one identity is subscribed, whatever the order of subscribe_packets calls,
\* disconnects and drop_connections ("max is 1" in add_subscription), and the copy
\* forward_packets works from has at most one entry too.  A slow validator is not taken
\* for a dead one: drop_connections is called only for identities of which some stream
\* was closed by the client, never because a channel was full.
SubscriptionsSound ==
    /\ TypeOK
    /\ \A v, w \in DOMAIN subscriptions : v = w
    /\ \A v, w \in DOMAIN subscribers : v = w
    /\ \A v \in failed : \E n \in Streams : owner[n] = v /\ rx[n] = "closed"

\* A stream gets packet messages in order and at most once.  Unless a message
\* found its channel full, they are a contiguous run that starts with the first
\* message of a batch: a validator that subscribes while forward_packets is
\* sending never gets the tail of a batch.
ContiguousStream ==
    \A n \in Streams :
        /\ \A i \in 2..Len(log[n]) :
              IF missed[n] THEN log[n][i - 1].n < log[n][i].n
                           ELSE log[n][i - 1].n + 1 = log[n][i].n
        /\ log[n] # <<>> /\ ~missed[n] => log[n][1].first

\* drop_connections drops only streams whose client is gone: the old connection
\* of "Already connected, dropping old connection" (src/relayer/forwarder.rs:172),
\* not the one that has just replaced it.
OnlyDeadStreamsDropped ==
    pc = "drop" => \A v \in failed \cap DOMAIN subscriptions : rx[subscriptions[v]] = "closed"

\* The place of a validator that went away becomes free even if no packet ever
\* arrives again (the heartbeat finds the closed channel), as long as the event
\* loop runs.
SlotFreed ==
    \A n \in 1..MaxStreams :
        (n \in Streams /\ Subscribed(n) /\ rx[n] = "closed")
            ~> (~Subscribed(n) \/ exit \/ ~inboxOpen)

\* The end of the delay thread ends the process: the event loop drains the
\* channel, sees the disconnect and raises the exit flag.
DisconnectRaisesExit == ~inboxOpen ~> exit
=============================================================================
