-------------------------- MODULE ForwarderProofs --------------------------
(***************************************************************************)
(* Proofs about Forwarder, for every set of identities, every channel      *)
(* capacity, batch size and number of streams and batches.                 *)
(*                                                                         *)
(* MapInv ties the two maps to the streams: each has one entry at most, an *)
(* entry's stream was made by the identity it is filed under, and the copy *)
(* forward_packets sends from lives only while forward_packets runs.       *)
(* LogInv says how far every stream is: `Sent' is the number of the last   *)
(* message forward_packets is done with, and a stream that is still sent to*)
(* and has missed nothing has exactly the messages up to that number.      *)
(***************************************************************************)
EXTENDS Forwarder, TLAPS

Targets(map) == {map[v] : v \in DOMAIN map}

Sent == serial - Len(todo)

\* Identities and the streams filed under them.
MapInv ==
    /\ \A v, w \in DOMAIN subscriptions : v = w
    /\ \A v, w \in DOMAIN subscribers : v = w
    /\ \A v \in DOMAIN subscriptions : owner[subscriptions[v]] = v
    /\ \A v \in DOMAIN subscribers : owner[subscribers[v]] = v
    /\ \A v \in failed : \E n \in Streams : owner[n] = v /\ rx[n] = "closed"
    /\ pc # "forward" => DOMAIN subscribers = {} /\ todo = <<>>

\* What is still to be sent is the end of the messages cut so far.
TodoInv ==
    /\ Len(todo) <= serial
    /\ \A i \in 1..Len(todo) : todo[i].n = Sent + i

\* A stream that is sent to and has neither ended nor missed a message.
Following(n) == rx[n] = "open" /\ ~missed[n]

LogInv ==
    \A n \in Streams :
        /\ \A i \in 1..Len(log[n]) : log[n][i].n <= Sent
        /\ n \in Targets(subscribers) \cup Targets(subscriptions) /\ Following(n) /\ log[n] # <<>>
              => log[n][Len(log[n])].n = Sent
        /\ pc = "forward" /\ n \in Targets(subscriptions) \ Targets(subscribers) => log[n] = <<>>
        /\ n \in Targets(subscribers) /\ Following(n) /\ log[n] = <<>> /\ todo # <<>>
              => todo[1].first

IInv == TypeOK /\ MapInv /\ TodoInv /\ LogInv /\ ContiguousStream

-----------------------------------------------------------------------------

\* A sequence as a function on its indices.
LEMMA SequenceIsFunction ==
    ASSUME NEW S, NEW s \in Seq(S)
    PROVE  s \in [1..Len(s) -> S]
  OBVIOUS

\* What Append does to a function on 1..n.
LEMMA Grown ==
    ASSUME NEW n \in Nat, NEW S, NEW s \in [1..n -> S], NEW e \in S
    PROVE  /\ Append(s, e) \in [1..(n + 1) -> S]
           /\ Append(s, e)[n + 1] = e
           /\ \A i \in 1..n : Append(s, e)[i] = s[i]
  <1>1. s \in Seq(S) /\ Len(s) = n
    OBVIOUS
  <1>2. Append(s, e) \in Seq(S) /\ Len(Append(s, e)) = n + 1
    BY <1>1
  <1>3. Append(s, e) \in [1..Len(Append(s, e)) -> S]
    BY <1>2, SequenceIsFunction, Zenon
  <1> QED
    BY <1>1, <1>2, <1>3

\* A batch is cut into a number of messages.
LEMMA CutsType ==
    ASSUME NEW live \in LiveCounts
    PROVE  Cuts(live) \in Nat
  <1>1. live \in Nat /\ BatchSize \in Nat \ {0}
    BY SizesAssumption
  <1>2. live \div BatchSize \in Nat
    BY <1>1
  <1> QED
    BY <1>2 DEF Cuts

\* Nothing is subscribed, cut or sent in the first state.
LEMMA InitStep == Init => IInv
  <1> SUFFICES ASSUME Init PROVE IInv
    OBVIOUS
  <1>2. Streams = {}
    BY DEF Init, Streams
  <1>5. /\ owner \in [Streams -> Validators] /\ fill \in [Streams -> 0..QueueCapacity]
        /\ log \in [Streams -> Seq(Message)] /\ missed \in [Streams -> BOOLEAN]
    BY <1>2 DEF Init, Message
  <1>6. /\ subscriptions \in [DOMAIN subscriptions -> Streams]
        /\ subscribers \in [DOMAIN subscribers -> Streams]
        /\ DOMAIN subscriptions \subseteq Validators /\ DOMAIN subscribers \subseteq Validators
    BY DEF Init, noMap
  <1>9. exit \in BOOLEAN /\ inboxOpen \in BOOLEAN
    BY Zenon DEF Init
  <1>7. /\ inbox \in Seq(LiveCounts) /\ arrived \in Nat /\ serial \in Nat
        /\ todo \in Seq(Message) /\ failed \subseteq Validators
    BY DEF Init
  <1>8. /\ rx \in Seq({"open", "closed", "rejected"})
        /\ pc \in {"top", "select", "forward", "drop", "error", "done"}
    BY DEF Init
  <1>1. TypeOK
    BY <1>5, <1>6, <1>7, <1>8, <1>9, Zenon DEF TypeOK
  <1>3. MapInv /\ TodoInv
    BY DEF Init, MapInv, TodoInv, noMap, Sent
  <1>4. LogInv /\ ContiguousStream
    BY <1>2 DEF LogInv, ContiguousStream
  <1> QED
    BY <1>1, <1>3, <1>4 DEF IInv

\* A step that leaves the streams, the maps and the messages alone and goes
\* neither into the send loop nor out of it preserves the invariant.
LEMMA QuietStep ==
    ASSUME IInv, TypeOK',
           UNCHANGED <<subscriptions, streamVars, subscribers, todo, serial, failed>>,
           (pc = "forward") <=> (pc' = "forward")
    PROVE  IInv'
  <1>1. MapInv' /\ TodoInv' /\ ContiguousStream'
    BY DEF IInv, MapInv, TodoInv, ContiguousStream, Streams, Sent, streamVars
  <1>2. LogInv'
    BY DEF IInv, LogInv, Streams, Sent, streamVars, Following, Targets
  <1> QED
    BY <1>1, <1>2 DEF IInv

\* What a new stream changes.
LEMMA NewStream ==
    ASSUME TypeOK, NEW v \in Validators, Subscribe(v)
    PROVE  /\ Streams' = Streams \cup {Len(rx) + 1}
           /\ Len(rx) + 1 \notin Streams
           /\ \A n \in Streams : /\ owner'[n] = owner[n] /\ rx'[n] = rx[n]
                                /\ fill'[n] = fill[n] /\ log'[n] = log[n]
                                /\ missed'[n] = missed[n]
           /\ owner'[Len(rx) + 1] = v /\ fill'[Len(rx) + 1] = 0
           /\ log'[Len(rx) + 1] = <<>> /\ missed'[Len(rx) + 1] = FALSE
           /\ rx' \in Seq({"open", "closed", "rejected"})
           /\ owner' \in [Streams' -> Validators]
           /\ fill' \in [Streams' -> 0..QueueCapacity]
           /\ log' \in [Streams' -> Seq(Message)]
           /\ missed' \in [Streams' -> BOOLEAN]
  <1> DEFINE n0 == Len(rx) + 1
  <1>1. /\ rx \in Seq({"open", "closed", "rejected"}) /\ Len(rx) \in Nat
        /\ rx' = Append(rx, IF Accepted(v) THEN "open" ELSE "rejected")
    BY DEF TypeOK, Subscribe
  <1>2. rx' \in Seq({"open", "closed", "rejected"}) /\ Len(rx') = n0
    <2>1. (IF Accepted(v) THEN "open" ELSE "rejected") \in {"open", "closed", "rejected"}
      OBVIOUS
    <2> QED
      BY <1>1, <2>1
  <1>3. Streams' = Streams \cup {n0} /\ n0 \notin Streams /\ Streams' = 1..n0
    BY <1>1, <1>2 DEF Streams
  <1>4. Len(rx) \in Nat /\ Streams = 1..Len(rx) /\ Streams' = 1..(Len(rx) + 1)
    BY <1>1, <1>3 DEF Streams
  <1>5. 0 \in 0..QueueCapacity /\ <<>> \in Seq(Message) /\ FALSE \in BOOLEAN
    BY SizesAssumption
  <1>6. /\ owner' \in [Streams' -> Validators] /\ owner'[Len(rx) + 1] = v
        /\ \A n \in Streams : owner'[n] = owner[n]
    <2>1. owner \in [1..Len(rx) -> Validators] /\ owner' = Append(owner, v)
      BY <1>4 DEF TypeOK, Subscribe
    <2>2. /\ Append(owner, v) \in [1..(Len(rx) + 1) -> Validators]
          /\ Append(owner, v)[Len(rx) + 1] = v
          /\ \A n \in 1..Len(rx) : Append(owner, v)[n] = owner[n]
      BY <2>1, <1>4, Grown
    <2> QED
      BY <2>1, <2>2, <1>4
  <1>7. /\ fill' \in [Streams' -> 0..QueueCapacity] /\ fill'[Len(rx) + 1] = 0
        /\ \A n \in Streams : fill'[n] = fill[n]
    <2>1. PICK S : S = 0..QueueCapacity
      OBVIOUS
    <2>2. /\ fill \in [1..Len(rx) -> S] /\ 0 \in S
          /\ fill' = Append(fill, 0)
      BY <2>1, <1>4, <1>5 DEF TypeOK, Subscribe
    <2>3. /\ Append(fill, 0) \in [1..(Len(rx) + 1) -> S]
          /\ Append(fill, 0)[Len(rx) + 1] = 0
          /\ \A n \in 1..Len(rx) : Append(fill, 0)[n] = fill[n]
      BY <2>2, <1>4, Grown
    <2> QED
      BY <2>1, <2>2, <2>3, <1>4
  <1>8. /\ log' \in [Streams' -> Seq(Message)] /\ log'[Len(rx) + 1] = <<>>
        /\ \A n \in Streams : log'[n] = log[n]
    <2>1. PICK S : S = Seq(Message)
      OBVIOUS
    <2>2. /\ log \in [1..Len(rx) -> S] /\ <<>> \in S
          /\ log' = Append(log, <<>>)
      BY <2>1, <1>4, <1>5 DEF TypeOK, Subscribe
    <2>3. /\ Append(log, <<>>) \in [1..(Len(rx) + 1) -> S]
          /\ Append(log, <<>>)[Len(rx) + 1] = <<>>
          /\ \A n \in 1..Len(rx) : Append(log, <<>>)[n] = log[n]
      BY <2>2, <1>4, Grown
    <2> QED
      BY <2>1, <2>2, <2>3, <1>4
  <1>9. /\ missed' \in [Streams' -> BOOLEAN] /\ missed'[Len(rx) + 1] = FALSE
        /\ \A n \in Streams : missed'[n] = missed[n]
    <2>1. PICK S, e : S = BOOLEAN /\ e = FALSE
      OBVIOUS
    <2>2. /\ missed \in [1..Len(rx) -> S] /\ e \in S
          /\ missed' = Append(missed, e)
      BY <2>1, <1>4, <1>5 DEF TypeOK, Subscribe
    <2>3. /\ Append(missed, e) \in [1..(Len(rx) + 1) -> S]
          /\ Append(missed, e)[Len(rx) + 1] = e
          /\ \A n \in 1..Len(rx) : Append(missed, e)[n] = missed[n]
      BY <2>2, <1>4, Grown
    <2> QED
      BY <2>1, <2>2, <2>3, <1>4
  <1>10. \A n \in Streams : rx'[n] = rx[n]
    BY <1>1, <1>4
  <1> QED
    BY <1>2, <1>3, <1>6, <1>7, <1>8, <1>9, <1>10, Zenon

\* subscribe_packets: the new stream is empty, and filed under its caller if it
\* is filed at all.
LEMMA SubscribeStep ==
    ASSUME IInv, NEW v \in Validators, Subscribe(v)
    PROVE  IInv'
  <1> DEFINE n0 == Len(rx) + 1
  <1>1. TypeOK /\ MapInv /\ TodoInv /\ LogInv /\ ContiguousStream
    BY DEF IInv
  <1>2. PICK new : new = n0
    OBVIOUS
  <1>3. /\ Streams' = Streams \cup {new} /\ new \notin Streams
        /\ \A n \in Streams : /\ owner'[n] = owner[n] /\ rx'[n] = rx[n]
                             /\ log'[n] = log[n] /\ missed'[n] = missed[n]
        /\ owner'[new] = v /\ log'[new] = <<>>
    BY <1>1, <1>2, NewStream
  <1>4. /\ UNCHANGED <<exit, inbox, inboxOpen, arrived, pc, subscribers, todo, serial, failed>>
        /\ subscriptions' = IF Accepted(v)
                            THEN [w \in DOMAIN subscriptions \cup {v} |->
                                    IF w = v THEN new ELSE subscriptions[w]]
                            ELSE subscriptions
    BY <1>2 DEF Subscribe, loopVars
  <1>5. \/ subscriptions' = subscriptions
        \/ DOMAIN subscriptions' = {v} /\ subscriptions'[v] = new
              /\ subscriptions' \in [{v} -> {new}]
    BY <1>1, <1>4 DEF Accepted, MapInv
  <1>6. /\ DOMAIN subscriptions' \subseteq Validators
        /\ subscriptions' \in [DOMAIN subscriptions' -> Streams']
        /\ subscribers' \in [DOMAIN subscribers' -> Streams']
    BY <1>1, <1>3, <1>4, <1>5 DEF TypeOK
  <1>7. TypeOK'
    <2>1. /\ rx' \in Seq({"open", "closed", "rejected"})
          /\ owner' \in [Streams' -> Validators]
          /\ fill' \in [Streams' -> 0..QueueCapacity]
          /\ log' \in [Streams' -> Seq(Message)]
          /\ missed' \in [Streams' -> BOOLEAN]
      BY <1>1, NewStream
    <2> QED
      BY <1>1, <1>4, <1>6, <2>1, Zenon DEF TypeOK
  <1>8. MapInv'
    <2>1. /\ \A w \in DOMAIN subscriptions : owner'[subscriptions[w]] = w
          /\ \A w \in DOMAIN subscribers' : owner'[subscribers'[w]] = w
      BY <1>1, <1>3, <1>4 DEF MapInv, TypeOK
    <2>2. \A w \in failed' : \E n \in Streams' : owner'[n] = w /\ rx'[n] = "closed"
      BY <1>1, <1>3, <1>4 DEF MapInv
    <2>3. /\ \A u, w \in DOMAIN subscriptions' : u = w
          /\ \A w \in DOMAIN subscriptions' : owner'[subscriptions'[w]] = w
      <3>1. CASE subscriptions' = subscriptions
        BY <1>1, <2>1, <3>1 DEF MapInv
      <3>2. CASE DOMAIN subscriptions' = {v} /\ subscriptions'[v] = new
        BY <1>3, <3>2
      <3> QED
        BY <1>5, <3>1, <3>2
    <2> QED
      BY <1>1, <1>4, <2>1, <2>2, <2>3 DEF MapInv
  <1>9. TodoInv'
    BY <1>1, <1>4 DEF TodoInv, Sent
  <1>10. Targets(subscriptions') \subseteq Targets(subscriptions) \cup {new}
    BY <1>5 DEF Targets
  <1>11. LogInv'
    <2> SUFFICES ASSUME NEW n \in Streams' PROVE LogInv!(n)'
      BY DEF LogInv
    <2>1. CASE n = new
      BY <1>3, <1>4, <1>1, <2>1 DEF Targets, TypeOK
    <2>2. CASE n \in Streams
      <3>1. LogInv!(n)
        BY <1>1, <2>2 DEF LogInv
      <3>2. n \in Targets(subscriptions') => n \in Targets(subscriptions)
        BY <1>10, <1>3, <2>2
      <3> QED
        BY <3>1, <3>2, <2>2, <1>3, <1>4 DEF Sent, Following
    <2> QED
      BY <1>3, <2>1, <2>2
  <1>12. ContiguousStream'
    BY <1>1, <1>3, SMTT(30) DEF ContiguousStream
  <1> QED
    BY <1>7, <1>8, <1>9, <1>11, <1>12 DEF IInv

\* The client reads a message or goes away: no history changes, and a stream
\* only leaves the ones that are followed.
LEMMA ClientStep ==
    ASSUME IInv, NEW n \in Streams, ClientRead(n) \/ ClientClose(n)
    PROVE  IInv'
  <1>1. TypeOK /\ MapInv /\ TodoInv /\ LogInv /\ ContiguousStream
    BY DEF IInv
  <1>2. /\ UNCHANGED <<exit, inbox, inboxOpen, arrived, subscriptions, owner, log, missed>>
        /\ UNCHANGED <<pc, subscribers, todo, serial, failed>>
    BY DEF ClientRead, ClientClose, loopVars
  <1>3. /\ rx' \in Seq({"open", "closed", "rejected"}) /\ Len(rx') = Len(rx)
        /\ \A m \in Streams : rx'[m] = rx[m] \/ rx'[m] = "closed"
    <2>1. rx \in Seq({"open", "closed", "rejected"}) /\ n \in 1..Len(rx)
      BY <1>1 DEF TypeOK, Streams
    <2>2. rx' = rx \/ rx' = [rx EXCEPT ![n] = "closed"]
      BY DEF ClientRead, ClientClose
    <2> QED
      BY <2>1, <2>2 DEF Streams
  <1>4. Streams' = Streams
    BY <1>3 DEF Streams
  <1>5. fill' \in [Streams -> 0..QueueCapacity]
    <2>1. fill \in [Streams -> 0..QueueCapacity] /\ fill[n] \in 0..QueueCapacity
      BY <1>1 DEF TypeOK
    <2>2. \/ fill[n] > 0 /\ fill' = [fill EXCEPT ![n] = fill[n] - 1]
          \/ fill' = [fill EXCEPT ![n] = 0]
      BY DEF ClientRead, ClientClose
    <2> QED
      BY <2>1, <2>2, SizesAssumption
  <1>6. TypeOK'
    BY <1>1, <1>2, <1>3, <1>4, <1>5, Zenon DEF TypeOK
  <1>7. MapInv' /\ TodoInv' /\ ContiguousStream'
    BY <1>1, <1>2, <1>3, <1>4 DEF MapInv, TodoInv, ContiguousStream, Sent
  <1>8. LogInv'
    BY <1>1, <1>2, <1>3, <1>4 DEF LogInv, Sent, Following, Targets
  <1> QED
    BY <1>6, <1>7, <1>8 DEF IInv

\* What one round of try_send does, whether the message is a packet message or
\* a heartbeat: only an open channel that is sent to gets the message, an open
\* channel that does not get it has missed it, and only an identity whose own
\* channel was closed is reported as failed.
SendEffect(to, isPacket, m) ==
    /\ fill' \in [Streams -> 0..QueueCapacity]
    /\ log' \in [Streams -> Seq(Message)] /\ missed' \in [Streams -> BOOLEAN]
    /\ failed' \subseteq Validators
    /\ \A v \in failed' : \E n \in Streams : owner[n] = v /\ rx[n] = "closed"
    /\ \A n \in Streams :
         /\ missed[n] => missed'[n]
         /\ log'[n] = log[n] \/ log'[n] = Append(log[n], m)
         /\ ~isPacket \/ n \notin Targets(to) \/ rx[n] # "open" =>
                 log'[n] = log[n] /\ missed'[n] = missed[n]
         /\ isPacket /\ n \in Targets(to) /\ rx[n] = "open" =>
                 missed'[n] \/ log'[n] = Append(log[n], m)

\* What try_send does to the channel, the log and the set of failed identities.
LEMMA TrySendEffect ==
    ASSUME TypeOK, MapInv, NEW to,
           DOMAIN to \subseteq Validators, to \in [DOMAIN to -> Streams],
           \A v \in DOMAIN to : owner[to[v]] = v,
           NEW isPacket \in BOOLEAN, NEW m \in Message, TrySend(to, isPacket, m)
    PROVE  SendEffect(to, isPacket, m)
  <1> DEFINE open == {n \in Targets(to) : rx[n] = "open"}
             full == {n \in open : Full(n)}
  <1>1. /\ fill' = [n \in Streams |-> IF n \in open \ full THEN fill[n] + 1 ELSE fill[n]]
        /\ log' = [n \in Streams |-> IF isPacket /\ n \in open \ full
                                    THEN Append(log[n], m) ELSE log[n]]
        /\ missed' = [n \in Streams |-> missed[n] \/ (isPacket /\ n \in full)]
        /\ failed' = failed \cup {v \in DOMAIN to : Disconnected(to[v])}
    BY DEF TrySend, Targets
  <1>2. fill' \in [Streams -> 0..QueueCapacity]
    <2> SUFFICES ASSUME NEW n \in Streams
                 PROVE  (IF n \in open \ full THEN fill[n] + 1 ELSE fill[n]) \in 0..QueueCapacity
      BY <1>1
    <2>1. fill[n] \in 0..QueueCapacity
      BY DEF TypeOK
    <2>2. n \in open \ full => fill[n] # QueueCapacity
      BY DEF Full
    <2> QED
      BY <2>1, <2>2, SizesAssumption
  <1>3. log' \in [Streams -> Seq(Message)]
    BY <1>1 DEF TypeOK
  <1>4. missed' \in [Streams -> BOOLEAN]
    BY <1>1
  <1>5. /\ failed' \subseteq Validators
        /\ \A v \in failed' : \E n \in Streams : owner[n] = v /\ rx[n] = "closed"
    BY <1>1 DEF TypeOK, MapInv, Disconnected
  <1>6. ASSUME NEW n \in Streams
        PROVE  /\ missed[n] => missed'[n]
               /\ log'[n] = log[n] \/ log'[n] = Append(log[n], m)
               /\ ~isPacket \/ n \notin Targets(to) \/ rx[n] # "open" =>
                        log'[n] = log[n] /\ missed'[n] = missed[n]
               /\ isPacket /\ n \in Targets(to) /\ rx[n] = "open" =>
                        missed'[n] \/ log'[n] = Append(log[n], m)
    <2>1. missed[n] \in BOOLEAN
      BY DEF TypeOK
    <2>2. log'[n] = IF isPacket /\ n \in open \ full THEN Append(log[n], m) ELSE log[n]
      BY <1>1
    <2>3. missed'[n] = (missed[n] \/ (isPacket /\ n \in full))
      BY <1>1
    <2> QED
      BY <2>1, <2>2, <2>3
  <1> QED
    BY <1>2, <1>3, <1>4, <1>5, <1>6 DEF SendEffect

\* A stream's log is a sequence of numbered messages.
LEMMA LogType ==
    ASSUME TypeOK, NEW n \in Streams
    PROVE  /\ log[n] \in Seq(Message) /\ Len(log[n]) \in Nat
           /\ \A i \in 1..Len(log[n]) : log[n][i].n \in Nat
  <1>1. log[n] \in Seq(Message)
    BY DEF TypeOK
  <1>2. ASSUME NEW i \in 1..Len(log[n]) PROVE log[n][i].n \in Nat
    <2>1. log[n][i] \in Message
      BY <1>1
    <2> QED
      BY <2>1 DEF Message
  <1> QED
    BY <1>1, <1>2

\* forward_packets takes a batch: the messages cut from it follow the ones cut
\* before, and the streams of the copy are the ones subscribed at this moment.
LEMMA ForwardPacketsStep ==
    ASSUME IInv, ForwardPackets
    PROVE  IInv'
  <1>1. TypeOK /\ MapInv /\ TodoInv /\ LogInv /\ ContiguousStream
    BY DEF IInv
  <1>2. PICK k : k = Cuts(Head(inbox))
    OBVIOUS
  <1>3. k \in Nat
    <2>1. Head(inbox) \in LiveCounts
      BY <1>1 DEF TypeOK, ForwardPackets
    <2> QED
      BY <2>1, <1>2, CutsType
  <1>4. /\ pc = "select" /\ pc' = "forward" /\ serial' = serial + k /\ subscribers' = subscriptions
        /\ todo' = IF DOMAIN subscriptions = {} THEN <<>>
                   ELSE [i \in 1..k |-> [n |-> serial + i, first |-> i = 1]]
        /\ inbox' = Tail(inbox) /\ inbox # <<>>
        /\ UNCHANGED <<exit, inboxOpen, arrived, subscriptions, owner, rx, fill, log, missed, failed>>
    BY <1>2 DEF ForwardPackets, streamVars
  <1>5. Streams' = Streams
    BY <1>4 DEF Streams
  <1>6. /\ serial \in Nat /\ todo = <<>> /\ DOMAIN subscribers = {} /\ Sent = serial
    BY <1>1, <1>4 DEF MapInv, Sent, TypeOK
  <1>7. /\ todo' \in Seq(Message)
        /\ Len(todo') = IF DOMAIN subscriptions = {} THEN 0 ELSE k
        /\ \A i \in 1..Len(todo') : todo'[i].n = serial + i /\ (i = 1 => todo'[i].first)
    <2>1. CASE DOMAIN subscriptions = {}
      BY <2>1, <1>4
    <2>2. CASE DOMAIN subscriptions # {}
      <3>1. \A i \in 1..k : [n |-> serial + i, first |-> i = 1] \in Message
        BY <1>3, <1>6 DEF Message
      <3>2. todo' \in [1..k -> Message]
        BY <3>1, <2>2, <1>4
      <3>3. todo' \in Seq(Message) /\ Len(todo') = k
        BY <3>2, <1>3
      <3>4. ASSUME NEW i \in 1..k PROVE todo'[i].n = serial + i /\ (i = 1 => todo'[i].first)
        BY <2>2, <1>4
      <3> QED
        BY <3>3, <3>4, <2>2
    <2> QED
      BY <2>1, <2>2
  <1>8. TypeOK'
    <2>1. inbox' \in Seq(LiveCounts) /\ serial' \in Nat
      BY <1>1, <1>3, <1>4 DEF TypeOK
    <2> QED
      BY <1>1, <1>4, <1>5, <1>7, <2>1 DEF TypeOK
  <1>9. MapInv'
    BY <1>1, <1>4, <1>5 DEF MapInv
  <1>10. Sent' = IF DOMAIN subscriptions = {} THEN serial + k ELSE serial
    BY <1>3, <1>4, <1>6, <1>7 DEF Sent
  <1>11. TodoInv'
    BY <1>3, <1>4, <1>6, <1>7, <1>10 DEF TodoInv
  <1>12. LogInv'
    <2> SUFFICES ASSUME NEW n \in Streams PROVE LogInv!(n)'
      BY <1>5 DEF LogInv
    <2>1. LogInv!(n)
      BY <1>1 DEF LogInv
    <2>2. \A i \in 1..Len(log[n]) : log[n][i].n \in Nat
      BY <1>1, LogType
    <2>3. \A i \in 1..Len(log'[n]) : log'[n][i].n <= Sent'
      BY <2>1, <2>2, <1>3, <1>4, <1>6, <1>10
    <2>4. Targets(subscribers') = Targets(subscriptions) /\ Targets(subscriptions') = Targets(subscriptions)
      BY <1>4
    <2>5. n \in Targets(subscriptions) => DOMAIN subscriptions # {} /\ Sent' = Sent
      BY <1>6, <1>10 DEF Targets
    <2>6. todo' # <<>> => todo'[1].first
      BY <1>7
    <2> QED
      BY <2>1, <2>3, <2>4, <2>5, <2>6, <1>4 DEF Following
  <1>13. ContiguousStream'
    BY <1>1, <1>4, <1>5 DEF ContiguousStream
  <1> QED
    BY <1>8, <1>9, <1>11, <1>12, <1>13 DEF IInv

\* forward_packets sends a message: every stream of the copy gets it, has missed
\* it, or is gone.
LEMMA TryForwardStep ==
    ASSUME IInv, TryForward
    PROVE  IInv'
  <1>1. TypeOK /\ MapInv /\ TodoInv /\ LogInv /\ ContiguousStream
    BY DEF IInv
  <1>2. PICK m : m = Head(todo)
    OBVIOUS
  <1>3. /\ pc = "forward" /\ todo # <<>> /\ todo' = Tail(todo) /\ TrySend(subscribers, TRUE, m)
        /\ UNCHANGED <<exit, inbox, inboxOpen, arrived, subscriptions, owner, rx, pc, subscribers, serial>>
    BY <1>2 DEF TryForward, Receivers
  <1>4. /\ m \in Message /\ m = todo[1] /\ m.n = Sent + 1 /\ Sent \in Nat /\ Sent' = Sent + 1
        /\ todo' \in Seq(Message) /\ Len(todo') = Len(todo) - 1 /\ Len(todo) \in Nat \ {0}
        /\ \A i \in 1..Len(todo') : todo'[i] = todo[i + 1]
    <2>1. todo \in Seq(Message) /\ Len(todo) \in Nat \ {0} /\ serial \in Nat /\ serial' = serial
      BY <1>1, <1>3 DEF TypeOK
    <2>2. /\ m \in Message /\ m = todo[1] /\ todo' \in Seq(Message)
          /\ Len(todo') = Len(todo) - 1 /\ \A i \in 1..Len(todo') : todo'[i] = todo[i + 1]
      BY <2>1, <1>2, <1>3
    <2>3. Sent \in Nat /\ todo[1].n = Sent + 1
      BY <2>1, <1>1 DEF TodoInv, Sent
    <2>4. Sent' = Sent + 1
      BY <2>1, <2>2 DEF Sent
    <2> QED
      BY <2>1, <2>2, <2>3, <2>4
  <1>5. Streams' = Streams
    BY <1>3 DEF Streams
  <1>6. /\ fill' \in [Streams -> 0..QueueCapacity]
        /\ log' \in [Streams -> Seq(Message)] /\ missed' \in [Streams -> BOOLEAN]
        /\ failed' \subseteq Validators
        /\ \A v \in failed' : \E n \in Streams : owner[n] = v /\ rx[n] = "closed"
        /\ \A n \in Streams :
                /\ missed[n] => missed'[n]
                /\ log'[n] = log[n] \/ log'[n] = Append(log[n], m)
                /\ n \notin Targets(subscribers) \/ rx[n] # "open" =>
                        log'[n] = log[n] /\ missed'[n] = missed[n]
                /\ n \in Targets(subscribers) /\ rx[n] = "open" =>
                        missed'[n] \/ log'[n] = Append(log[n], m)
    <2>1. /\ DOMAIN subscribers \subseteq Validators /\ subscribers \in [DOMAIN subscribers -> Streams]
          /\ \A v \in DOMAIN subscribers : owner[subscribers[v]] = v
      BY <1>1 DEF TypeOK, MapInv
    <2>2. SendEffect(subscribers, TRUE, m)
      BY <1>1, <1>3, <1>4, <2>1, TrySendEffect
    <2> QED
      BY <2>2 DEF SendEffect
  <1>7. TypeOK'
    BY <1>1, <1>3, <1>4, <1>5, <1>6 DEF TypeOK
  <1>8. MapInv'
    BY <1>1, <1>3, <1>5, <1>6 DEF MapInv
  <1>9. TodoInv'
    <2>1. Len(todo') <= serial'
      BY <1>1, <1>3, <1>4 DEF TodoInv, TypeOK
    <2>2. ASSUME NEW i \in 1..Len(todo') PROVE todo'[i].n = Sent' + i
      <3>1. i + 1 \in 1..Len(todo) /\ todo'[i] = todo[i + 1]
        BY <1>4
      <3> QED
        BY <3>1, <1>1, <1>4 DEF TodoInv
    <2> QED
      BY <2>1, <2>2 DEF TodoInv
  <1>10. ASSUME NEW n \in Streams PROVE LogInv!(n)' /\ ContiguousStream!(n)'
    <2>1. LogInv!(n) /\ ContiguousStream!(n)
      BY <1>1 DEF LogInv, ContiguousStream
    <2>2. /\ log[n] \in Seq(Message) /\ Len(log[n]) \in Nat
          /\ \A i \in 1..Len(log[n]) : log[n][i].n \in Nat
      BY <1>1, LogType
    <2>3. CASE log'[n] = log[n]
      <3>1. n \in Targets(subscribers) /\ rx[n] = "open" => missed'[n]
        <4>1. Append(log[n], m) # log[n]
          BY <2>2, <1>4
        <4> QED
          BY <4>1, <2>3, <1>6
      <3>2. n \notin Targets(subscribers) /\ n \in Targets(subscriptions) => log[n] = <<>>
        BY <2>1, <1>3
      <3>3. LogInv!(n)'
        BY <3>1, <3>2, <2>1, <2>2, <2>3, <1>3, <1>4, SMTT(30) DEF Following
      <3>4. ContiguousStream!(n)'
        BY <2>1, <2>2, <2>3, <1>6, SMTT(30)
      <3> QED
        BY <3>3, <3>4
    <2>4. CASE log'[n] = Append(log[n], m) /\ log'[n] # log[n]
      <3>1. n \in Targets(subscribers) /\ rx[n] = "open" /\ (~missed'[n] => Following(n))
        BY <2>4, <1>6 DEF Following
      <3>2. /\ Len(log'[n]) = Len(log[n]) + 1 /\ log'[n][Len(log[n]) + 1] = m
            /\ \A i \in 1..Len(log[n]) : log'[n][i] = log[n][i]
            /\ log'[n] # <<>>
        BY <2>2, <2>4, <1>4, SMTT(30)
      <3>6. ASSUME NEW i \in 1..Len(log'[n]) PROVE log'[n][i].n <= Sent'
        <4>1. CASE i \in 1..Len(log[n])
          BY <4>1, <3>2, <2>1, <2>2, <1>4, SMTT(30)
        <4>2. CASE i = Len(log[n]) + 1
          BY <4>2, <3>2, <1>4, SMTT(30)
        <4> QED
          BY <4>1, <4>2, <3>2, <2>2
      <3>3. LogInv!(n)'
        BY <3>1, <3>2, <3>6, <1>3, <1>4
      <3>4. ASSUME NEW i \in 2..Len(log'[n])
            PROVE  IF missed'[n] THEN log'[n][i - 1].n < log'[n][i].n
                                 ELSE log'[n][i - 1].n + 1 = log'[n][i].n
        <4>1. CASE i <= Len(log[n])
          <5>1. i \in 2..Len(log[n]) /\ i - 1 \in 1..Len(log[n]) /\ i \in 1..Len(log[n])
            BY <4>1, <2>2, <3>2
          <5>2. log'[n][i] = log[n][i] /\ log'[n][i - 1] = log[n][i - 1]
            BY <5>1, <3>2
          <5>3. /\ missed[n] => log[n][i - 1].n < log[n][i].n
                /\ ~missed[n] => log[n][i - 1].n + 1 = log[n][i].n
                /\ log[n][i - 1].n \in Nat /\ log[n][i].n \in Nat
            BY <5>1, <2>1, <2>2
          <5>4. ~missed'[n] => ~missed[n]
            BY <1>6
          <5> QED
            BY <5>2, <5>3, <5>4, SMTT(30)
        <4>2. CASE i = Len(log[n]) + 1
          <5>1. Len(log[n]) \in 1..Len(log[n]) /\ log[n] # <<>> /\ i - 1 = Len(log[n])
            BY <4>2, <2>2
          <5>2. /\ log'[n][i] = m /\ log'[n][i - 1] = log[n][Len(log[n])]
                /\ log[n][Len(log[n])].n <= Sent /\ log[n][Len(log[n])].n \in Nat
            BY <5>1, <4>2, <3>2, <2>1, <2>2
          <5>3. ~missed'[n] => log[n][Len(log[n])].n = Sent
            BY <5>1, <3>1, <2>1
          <5> QED
            BY <5>2, <5>3, <1>4, SMTT(30)
        <4> QED
          BY <4>1, <4>2, <3>2, <2>2, SMTT(30)
      <3>5. ~missed'[n] => log'[n][1].first
        <4>1. CASE log[n] = <<>>
          BY <4>1, <3>1, <3>2, <2>1, <1>3, <1>4, SMTT(30)
        <4>2. CASE log[n] # <<>>
          BY <4>2, <3>1, <3>2, <2>1, <2>2, SMTT(30) DEF Following
        <4> QED
          BY <4>1, <4>2
      <3> QED
        BY <3>3, <3>4, <3>5
    <2> QED
      BY <2>3, <2>4, <1>6
  <1>11. LogInv' /\ ContiguousStream'
    BY <1>5, <1>10 DEF LogInv, ContiguousStream
  <1> QED
    BY <1>7, <1>8, <1>9, <1>11 DEF IInv

\* forward_packets returns: its copy of the map was all that still reached a
\* stream that has been replaced meanwhile.
LEMMA ForwardDoneStep ==
    ASSUME IInv, ForwardDone
    PROVE  IInv'
  <1>1. TypeOK /\ MapInv /\ TodoInv /\ LogInv /\ ContiguousStream
    BY DEF IInv
  <1>2. /\ pc' = "drop" /\ todo = <<>> /\ DOMAIN subscribers' = {} /\ Targets(subscribers') = {}
        /\ subscribers' \in [DOMAIN subscribers' -> Streams]
        /\ UNCHANGED <<exit, inbox, inboxOpen, arrived, subscriptions, owner, rx, fill, log,
                       missed, todo, serial, failed>>
    BY DEF ForwardDone, noMap, streamVars, Targets
  <1>3. Streams' = Streams /\ Sent' = Sent
    BY <1>2 DEF Streams, Sent
  <1>4. TypeOK'
    BY <1>1, <1>2, <1>3 DEF TypeOK
  <1>5. MapInv' /\ TodoInv' /\ ContiguousStream'
    BY <1>1, <1>2, <1>3 DEF MapInv, TodoInv, ContiguousStream
  <1>6. LogInv'
    BY <1>1, <1>2, <1>3 DEF LogInv, Following
  <1> QED
    BY <1>4, <1>5, <1>6 DEF IInv

\* drop_connections: a part of the map is left.
LEMMA DropConnectionsStep ==
    ASSUME IInv, DropConnections
    PROVE  IInv'
  <1>1. TypeOK /\ MapInv /\ TodoInv /\ LogInv /\ ContiguousStream
    BY DEF IInv
  <1>2. /\ pc = "drop" /\ pc' = "top" /\ failed' = {}
        /\ DOMAIN subscriptions' \subseteq DOMAIN subscriptions
        /\ \A v \in DOMAIN subscriptions' : subscriptions'[v] = subscriptions[v]
        /\ subscriptions' = [v \in DOMAIN subscriptions' |-> subscriptions[v]]
        /\ UNCHANGED <<exit, inbox, inboxOpen, arrived, owner, rx, fill, log, missed,
                       subscribers, todo, serial>>
    BY DEF DropConnections, streamVars
  <1>3. Streams' = Streams /\ Sent' = Sent /\ Targets(subscriptions') \subseteq Targets(subscriptions)
    BY <1>2 DEF Streams, Sent, Targets
  <1>4. TypeOK'
    <2>1. subscriptions' \in [DOMAIN subscriptions' -> Streams]
      BY <1>1, <1>2 DEF TypeOK
    <2> QED
      BY <1>1, <1>2, <1>3, <2>1 DEF TypeOK
  <1>5. MapInv' /\ TodoInv' /\ ContiguousStream'
    BY <1>1, <1>2, <1>3, SMTT(30) DEF MapInv, TodoInv, ContiguousStream
  <1>6. LogInv'
    BY <1>1, <1>2, <1>3 DEF LogInv, Following
  <1> QED
    BY <1>4, <1>5, <1>6 DEF IInv

\* handle_heartbeat touches no stream's packet messages.
LEMMA HandleHeartbeatStep ==
    ASSUME IInv, HandleHeartbeat
    PROVE  IInv'
  <1>1. TypeOK /\ MapInv /\ TodoInv /\ LogInv /\ ContiguousStream
    BY DEF IInv
  <1>2. PICK m : m = [n |-> 0, first |-> FALSE]
    OBVIOUS
  <1>3. /\ pc = "select" /\ pc' = "drop" /\ TrySend(subscriptions, FALSE, m)
        /\ UNCHANGED <<exit, inbox, inboxOpen, arrived, subscriptions, owner, rx, subscribers, todo, serial>>
    BY <1>2 DEF HandleHeartbeat, Beaten
  <1>4. m \in Message
    BY <1>2 DEF Message
  <1>5. SendEffect(subscriptions, FALSE, m)
    <2>1. /\ DOMAIN subscriptions \subseteq Validators
          /\ subscriptions \in [DOMAIN subscriptions -> Streams]
          /\ \A v \in DOMAIN subscriptions : owner[subscriptions[v]] = v
      BY <1>1 DEF TypeOK, MapInv
    <2> QED
      BY <1>1, <1>3, <1>4, <2>1, TrySendEffect
  <1>6. \A n \in Streams : log'[n] = log[n] /\ missed'[n] = missed[n]
    BY <1>5 DEF SendEffect
  <1>7. Streams' = Streams /\ Sent' = Sent
    BY <1>3 DEF Streams, Sent
  <1>8. TypeOK'
    BY <1>1, <1>3, <1>5, <1>7 DEF TypeOK, SendEffect
  <1>9. MapInv'
    BY <1>1, <1>3, <1>5, <1>7, SMTT(30) DEF MapInv, SendEffect
  <1>10. TodoInv' /\ ContiguousStream'
    BY <1>1, <1>3, <1>6, <1>7, SMTT(30) DEF TodoInv, ContiguousStream
  <1>11. LogInv'
    BY <1>1, <1>3, <1>6, <1>7 DEF LogInv, Following
  <1> QED
    BY <1>8, <1>9, <1>10, <1>11 DEF IInv

\* The rest of the event loop, the delay thread and the exit flag.
LEMMA RestStep ==
    ASSUME IInv,
           \/ Top \/ InboxDisconnected \/ RaiseExit
           \/ (\E live \in LiveCounts : Arrive(live)) \/ CloseInbox \/ SetExit
    PROVE  IInv'
  <1>1. TypeOK
    BY DEF IInv
  <1>2. /\ UNCHANGED <<subscriptions, streamVars, subscribers, todo, serial, failed>>
        /\ (pc = "forward") <=> (pc' = "forward")
    BY DEF Top, InboxDisconnected, RaiseExit, Arrive, CloseInbox, SetExit, AfterError, loopVars
  <1>3. exit' \in BOOLEAN /\ inboxOpen' \in BOOLEAN
    <2>1. /\ exit' = exit \/ exit' = TRUE
          /\ inboxOpen' = inboxOpen \/ inboxOpen' = FALSE
      BY Zenon DEF Top, InboxDisconnected, RaiseExit, Arrive, CloseInbox, SetExit
    <2> QED
      BY <1>1, <2>1, Zenon DEF TypeOK
  <1>4. inbox' \in Seq(LiveCounts) /\ arrived' \in Nat
    <2>1. CASE UNCHANGED <<inbox, arrived>>
      BY <1>1, <2>1 DEF TypeOK
    <2>2. ASSUME NEW live \in LiveCounts, Arrive(live)
          PROVE  inbox' \in Seq(LiveCounts) /\ arrived' \in Nat
      BY <1>1, <2>2 DEF TypeOK, Arrive
    <2> QED
      BY <2>1, <2>2 DEF Top, InboxDisconnected, RaiseExit, CloseInbox, SetExit
  <1>5. pc' \in {"top", "select", "forward", "drop", "error", "done"}
    BY <1>1 DEF TypeOK, Top, InboxDisconnected, RaiseExit, Arrive, CloseInbox, SetExit,
                AfterError, loopVars
  <1>6. TypeOK'
    BY <1>1, <1>2, <1>3, <1>4, <1>5, Zenon DEF TypeOK, streamVars, Streams
  <1> QED
    BY <1>2, <1>6, QuietStep

\* Every step keeps the invariant, action by action.
LEMMA NextStep == IInv /\ [Next]_vars => IInv'
  <1> SUFFICES ASSUME IInv, [Next]_vars PROVE IInv'
    OBVIOUS
  <1>1. CASE ForwardPackets
    BY <1>1, ForwardPacketsStep
  <1>2. CASE TryForward
    BY <1>2, TryForwardStep
  <1>3. CASE ForwardDone
    BY <1>3, ForwardDoneStep
  <1>4. CASE DropConnections
    BY <1>4, DropConnectionsStep
  <1>5. CASE HandleHeartbeat
    BY <1>5, HandleHeartbeatStep
  <1>6. CASE Clients
    BY <1>6, SubscribeStep, ClientStep DEF Clients
  <1>7. CASE \/ Top \/ InboxDisconnected \/ RaiseExit
             \/ (\E live \in LiveCounts : Arrive(live)) \/ CloseInbox \/ SetExit
    BY <1>7, RestStep
  <1>8. CASE UNCHANGED vars
    <2>1. TypeOK'
      BY <1>8 DEF IInv, TypeOK, vars, streamVars, loopVars, Streams
    <2> QED
      BY <1>8, <2>1, QuietStep DEF vars, loopVars
  <1> QED
    BY <1>1, <1>2, <1>3, <1>4, <1>5, <1>6, <1>7, <1>8 DEF Next, EventLoop

-----------------------------------------------------------------------------

\* The invariant of the forwarder: MapInv, TodoInv and LogInv hold in every
\* reachable state, for any number of subscribe_packets calls and batches.
THEOREM Invariance == Spec => []IInv
  BY InitStep, NextStep, PTL DEF Spec

\* add_subscription's "max is 1" holds whatever the order of calls, disconnects
\* and drop_connections, also for forward_packets' copy, and drop_connections is
\* asked to drop only identities of which the client closed a stream.
THEOREM OneSubscription == Spec => []SubscriptionsSound
  <1>1. IInv => SubscriptionsSound
    BY DEF IInv, MapInv, SubscriptionsSound
  <1> QED
    BY <1>1, Invariance, PTL

\* forward_packets gives every stream an ordered, duplicate-free run of messages
\* that starts at the beginning of a batch and has no gap unless try_send found
\* the channel full.
THEOREM StreamsAreContiguous == Spec => []ContiguousStream
  <1>1. IInv => ContiguousStream
    BY DEF IInv
  <1> QED
    BY <1>1, Invariance, PTL
=============================================================================
