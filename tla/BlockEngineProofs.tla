-------------------------- MODULE BlockEngineProofs --------------------------
(***************************************************************************)
(* Proofs about BlockEngine.  PoolInv counts the connections made and      *)
(* under way together; StreamInv ties every response on its way to the     *)
(* subscription it belongs to, which has had its receiver since before.    *)
(***************************************************************************)
EXTENDS BlockEngine, FiniteSetTheorems, SequenceTheorems, TLAPS

\* No client is pooled before one was made, and the connections made and under way are
\* no more than there were calls on the way at the same time.
PoolInv ==
    \A k \in Keys :
        /\ k \notin pool => made[k] = 0
        /\ made[k] + Cardinality(Connecting(k)) <= busy[k]

\* A response in a channel is Inertia's or that of a subscription to this lane.
BelongsTo(l, r) == r \in Calls => pc[r] # "idle" /\ method[r] = l

\* Only subscriptions are served and have a pump; until a call is served its receiver is
\* where it was subscribed and it has no bridge.
StreamInv ==
    /\ \A c \in Calls :
        /\ pump[c] # "none" => pc[c] # "idle" /\ method[c] \in Lanes
        /\ pc[c] \in {"serve", "stream"} => method[c] \in Lanes
        /\ pc[c] \in {"idle", "lookup", "connect", "call", "serve"} => rx[c] = start[c] /\ bridge[c] = "none"
    /\ \A l \in Lanes :
        /\ \A i \in 1..Len(fromBlockengine[l]) : BelongsTo(l, fromBlockengine[l][i])
        /\ \A i \in 1..Len(fromProxy[l]) : BelongsTo(l, fromProxy[l][i])

IInv == OwnItemsAhead /\ PoolInv /\ StreamInv /\ EndsByExitOrClient

-----------------------------------------------------------------------------
(* The pools.                                                              *)

\* There are finitely many calls, so those on the way to a connection can be counted.
LEMMA ConnectingFinite ==
    ASSUME NEW k
    PROVE  /\ IsFiniteSet(Connecting(k)) /\ Cardinality(Connecting(k)) \in Nat
           /\ IsFiniteSet(Connecting(k)') /\ Cardinality(Connecting(k)') \in Nat
<1>1. IsFiniteSet(Calls)
  BY BlockEngineAssumption, FS_Interval DEF Calls
<1>2. Connecting(k) \in SUBSET Calls /\ Connecting(k)' \in SUBSET Calls
  BY DEF Connecting
<1> QED
  BY <1>1, <1>2, FS_Subset, FS_CardinalityType

\* Every call has its pool and its peer.
LEMMA KeyType ==
    ASSUME TypeOK, NEW c \in Calls
    PROVE  Key(c) \in Keys
  BY DEF TypeOK, Key, PoolOf, Keys, Pools

\* Steps that do not go to "connect" keep the count.
LEMMA PoolFrame ==
    ASSUME TypeOK, PoolInv, UNCHANGED <<poolVars, peer>>,
           \A d \in Calls : pc'[d] = "connect" => pc[d] = "connect" /\ method'[d] = method[d]
    PROVE  PoolInv' /\ ConnectionsBounded'
<1> SUFFICES ASSUME NEW k \in Keys
             PROVE  PoolInv!(k)' /\ made'[k] <= busy'[k]
  BY DEF PoolInv, ConnectionsBounded
<1>1. Connecting(k)' \in SUBSET Connecting(k)
  BY DEF Connecting, Key
<1>2. Cardinality(Connecting(k)') <= Cardinality(Connecting(k))
  BY <1>1, ConnectingFinite, FS_Subset
<1>3. made[k] \in Nat /\ busy[k] \in Nat
  BY DEF TypeOK
<1> QED
  BY <1>2, <1>3, ConnectingFinite DEF PoolInv, poolVars

\* get_pooled_client finds no client and goes on to connect.
LEMMA GetPooledClientPool ==
    ASSUME TypeOK, PoolInv, NEW c \in Calls, GetPooledClient(c)
    PROVE  PoolInv'
<1>1. PICK k0 \in Keys : k0 = Key(c)
  BY KeyType
<1> DEFINE n == Cardinality(Connecting(k0))
<1>2. UNCHANGED <<peer, method, pool, made>> /\ pc[c] = "lookup"
      /\ pc' = [pc EXCEPT ![c] = IF k0 \in pool THEN "call" ELSE "connect"]
  BY <1>1 DEF GetPooledClient, Call, Goto
<1>3. \A k : k # k0 => Connecting(k)' \subseteq Connecting(k)
  BY <1>1, <1>2 DEF Connecting, Key, TypeOK
<1>4. CASE k0 \in pool
  <2>1. busy' = busy
    BY <1>1, <1>4 DEF GetPooledClient
  <2> QED
    BY <1>2, <1>4, <2>1, PoolFrame DEF TypeOK, poolVars
<1>5. CASE k0 \notin pool
  <2>1. busy' = [busy EXCEPT ![k0] = IF n < @ THEN @ ELSE n + 1]
    BY <1>1, <1>5 DEF GetPooledClient
  <2>2. Connecting(k0)' = Connecting(k0) \cup {c} /\ c \notin Connecting(k0)
    BY <1>1, <1>2, <1>5 DEF Connecting, Key, TypeOK
  <2>3. Cardinality(Connecting(k0)') = n + 1 /\ n \in Nat
    BY <2>2, ConnectingFinite, FS_AddElement
  <2>4. busy'[k0] >= n + 1 /\ made'[k0] = 0
    BY <1>2, <1>5, <2>1, <2>3 DEF TypeOK, PoolInv
  <2> HIDE DEF n
  <2> SUFFICES ASSUME NEW k \in Keys
               PROVE  PoolInv!(k)'
    BY DEF PoolInv
  <2>5. CASE k = k0
    <3>1. busy'[k0] \in Nat
      BY <2>1, <2>3 DEF TypeOK
    <3> QED
      BY <2>3, <2>4, <2>5, <3>1
  <2>6. CASE k # k0
    <3>1. busy'[k] = busy[k] /\ made[k] \in Nat /\ busy[k] \in Nat
      BY <2>1, <2>6 DEF TypeOK
    <3>2. Connecting(k)' \in SUBSET Connecting(k)
      BY <1>3, <2>6
    <3>3. Cardinality(Connecting(k)') <= Cardinality(Connecting(k))
      BY <3>2, ConnectingFinite, FS_Subset
    <3> QED
      BY <1>2, <3>1, <3>3, ConnectingFinite DEF PoolInv
  <2> QED
    BY <2>5, <2>6
<1> QED
  BY <1>4, <1>5

\* get_client returns: the connection under way is made, or is none.
LEMMA GetClientPool ==
    ASSUME TypeOK, PoolInv, NEW c \in Calls, NEW connected \in BOOLEAN, GetClient(c, connected)
    PROVE  PoolInv'
<1>1. PICK k0 \in Keys : k0 = Key(c)
  BY KeyType
<1>2. UNCHANGED <<peer, method, busy>> /\ pc[c] = "connect"
      /\ pc' = [pc EXCEPT ![c] = IF connected THEN "call" ELSE "over"]
  BY DEF GetClient, Call, Goto
<1>3. CASE ~connected
  BY <1>2, <1>3, PoolFrame DEF GetClient, TypeOK, poolVars
<1>4. CASE connected
  <2>1. pool' = pool \cup {k0} /\ made' = [made EXCEPT ![k0] = @ + 1]
    BY <1>1, <1>4 DEF GetClient, Pooled
  <2>2. Connecting(k0)' = Connecting(k0) \ {c} /\ c \in Connecting(k0)
    BY <1>1, <1>2, <1>4 DEF Connecting, Key, TypeOK
  <2>3. Cardinality(Connecting(k0)') = Cardinality(Connecting(k0)) - 1
    BY <2>2, ConnectingFinite, FS_RemoveElement
  <2>4. \A k : k # k0 => Connecting(k)' \subseteq Connecting(k)
    BY <1>1, <1>2 DEF Connecting, Key, TypeOK
  <2> SUFFICES ASSUME NEW k \in Keys
               PROVE  PoolInv!(k)'
    BY DEF PoolInv
  <2>5. made[k] \in Nat /\ busy[k] \in Nat
    BY DEF TypeOK
  <2>6. CASE k = k0
    <3>1. made'[k] = made[k] + 1 /\ k \in pool' /\ busy' = busy
      BY <1>2, <2>1, <2>6 DEF TypeOK
    <3>2. made[k] + Cardinality(Connecting(k)) <= busy[k]
      BY DEF PoolInv
    <3>3. Cardinality(Connecting(k)) \in Nat /\ Cardinality(Connecting(k)') = Cardinality(Connecting(k)) - 1
      BY <2>3, <2>6, ConnectingFinite
    <3>4. made'[k] + Cardinality(Connecting(k)') <= busy'[k]
      BY <2>5, <3>1, <3>2, <3>3
    <3> QED
      BY <3>1, <3>4
  <2>7. CASE k # k0
    <3>1. Connecting(k)' \in SUBSET Connecting(k)
      BY <2>4, <2>7
    <3>2. Cardinality(Connecting(k)') <= Cardinality(Connecting(k))
      BY <3>1, ConnectingFinite, FS_Subset
    <3> QED
      BY <1>2, <2>1, <2>5, <2>7, <3>2, ConnectingFinite DEF PoolInv, TypeOK
  <2> QED
    BY <2>6, <2>7
<1> QED
  BY <1>3, <1>4

-----------------------------------------------------------------------------
(* The streams.                                                            *)

\* No call was made and the pools and channels are empty at the start.
LEMMA InitIInv == Init => IInv
<1> SUFFICES ASSUME Init PROVE IInv
  OBVIOUS
<1>1. TypeOK
  <2>1. fromBlockengine \in [Lanes -> Seq(Calls)] /\ fromProxy \in [Lanes -> Seq(Sources)]
    BY DEF Init
  <2>2. \A c \in Calls : method[c] \notin Lanes
    BY DEF Init, Lanes
  <2> QED
    BY <2>1, <2>2 DEF Init, TypeOK, Methods
<1>2. OwnItemsAhead
  BY <1>1 DEF Init, OwnItemsAhead, Lanes
<1>3. PoolInv
  <2> SUFFICES ASSUME NEW k \in Keys
               PROVE  PoolInv!(k)
    BY DEF PoolInv
  <2>1. Connecting(k) = {} /\ made[k] = 0 /\ busy[k] = 0
    BY DEF Init, Connecting
  <2> QED
    BY <2>1, FS_EmptySet
<1>4. StreamInv /\ EndsByExitOrClient
  BY DEF Init, StreamInv, EndsByExitOrClient
<1> QED
  BY <1>2, <1>3, <1>4 DEF IInv

\* What the steps that touch no channel have to keep.
LEMMA ChannelsUntouched ==
    ASSUME IInv, TypeOK', UNCHANGED <<method, channels, start>>,
           \A c \in Calls :
            /\ pc[c] # "idle" => pc'[c] # "idle"
            /\ pump'[c] # "none" => pc'[c] # "idle" /\ method[c] \in Lanes
            /\ pc'[c] \in {"serve", "stream"} => method[c] \in Lanes
            /\ pc'[c] \in {"idle", "lookup", "connect", "call", "serve"} => rx'[c] = start[c] /\ bridge'[c] = "none"
    PROVE  OwnItemsAhead' /\ StreamInv'
<1>1. OwnItemsAhead'
  BY DEF IInv, OwnItemsAhead, channels
<1>2. \A l, r : BelongsTo(l, r) => BelongsTo(l, r)'
  BY DEF BelongsTo
<1>3. StreamInv'
  BY <1>2 DEF IInv, StreamInv, channels
<1> QED
  BY <1>1, <1>3

\* A call begins; a subscription has its receiver from here on.
LEMMA RequestStep ==
    ASSUME IInv, NEW c \in Calls, NEW m \in Methods, Request(c, m)
    PROVE  IInv'
<1>0. TypeOK /\ OwnItemsAhead /\ PoolInv /\ StreamInv /\ EndsByExitOrClient
  BY DEF IInv, OwnItemsAhead
<1>1. /\ pc[c] = "idle" /\ pc' = [pc EXCEPT ![c] = "lookup"] /\ method' = [method EXCEPT ![c] = m]
      /\ UNCHANGED <<exit, peer, poolVars, channels, taskVars>>
  BY DEF Request, Goto
<1>2. /\ rx' = [rx EXCEPT ![c] = rx'[c]] /\ start' = [start EXCEPT ![c] = start'[c]]
      /\ rx'[c] \in Nat /\ start'[c] \in Nat
      /\ m \in Lanes => rx'[c] = Len(fromProxy[m]) /\ start'[c] = Len(fromProxy[m])
      /\ m \notin Lanes => UNCHANGED <<rx, start>>
  <2>1. CASE m \in Lanes
    <3>1. Len(fromProxy[m]) \in Nat
      BY <1>0, <2>1 DEF TypeOK
    <3> QED
      BY <1>0, <2>1, <3>1 DEF Request, TypeOK
  <2>2. CASE m \notin Lanes
    BY <1>0, <2>2 DEF Request, TypeOK, streamVars
  <2> QED
    BY <2>1, <2>2
<1>3. TypeOK'
  <2>1. \A d \in Calls : method'[d] \in Lanes => start'[d] <= rx'[d] /\ rx'[d] <= Len(fromProxy'[method'[d]])
    <3> SUFFICES ASSUME NEW d \in Calls, method'[d] \in Lanes
                 PROVE  start'[d] <= rx'[d] /\ rx'[d] <= Len(fromProxy'[method'[d]])
      OBVIOUS
    <3>1. CASE d = c
      BY <1>0, <1>1, <1>2, <3>1 DEF TypeOK, channels
    <3>2. CASE d # c
      BY <1>0, <1>1, <1>2, <3>2 DEF TypeOK, channels
    <3> QED
      BY <3>1, <3>2
  <2>2. rx' \in [Calls -> Nat] /\ start' \in [Calls -> Nat]
    BY <1>0, <1>2 DEF TypeOK
  <2> QED
    BY <1>0, <1>1, <2>1, <2>2 DEF TypeOK, channels, poolVars, taskVars
<1>4. \A l \in Lanes : \A i \in 1..Len(fromProxy[l]) : fromProxy[l][i] # c
  BY <1>0, <1>1 DEF StreamInv, BelongsTo
<1>5. OwnItemsAhead'
  <2> SUFFICES ASSUME NEW d \in Calls, method'[d] \in Lanes,
                      NEW i \in 1..Len(fromProxy[method'[d]]), fromProxy[method'[d]][i] = d
               PROVE  i > start'[d]
    BY <1>1, <1>3 DEF OwnItemsAhead, channels
  <2>1. d # c
    BY <1>4
  <2> QED
    BY <1>0, <1>1, <1>2, <2>1 DEF OwnItemsAhead, TypeOK
<1>6. PoolInv'
  BY <1>0, <1>1, PoolFrame DEF TypeOK
<1>7. StreamInv'
  <2>1. \A l \in Lanes : \A r : BelongsTo(l, r) => BelongsTo(l, r)'
    BY <1>0, <1>1 DEF BelongsTo, TypeOK
  <2>2. \A d \in Calls : StreamInv!1!(d)'
    <3> SUFFICES ASSUME NEW d \in Calls
                 PROVE  StreamInv!1!(d)'
      OBVIOUS
    <3>1. CASE d = c
      <4>1. pc'[d] = "lookup" /\ rx'[d] = start'[d] /\ pump'[d] = "none" /\ bridge'[d] = "none"
        BY <1>0, <1>1, <1>2, <3>1 DEF StreamInv, TypeOK, taskVars
      <4> QED
        BY <4>1
    <3>2. CASE d # c
      BY <1>0, <1>1, <1>2, <3>2 DEF StreamInv, TypeOK, taskVars
    <3> QED
      BY <3>1, <3>2
  <2> QED
    BY <1>0, <1>1, <2>1, <2>2 DEF StreamInv, channels
<1>8. EndsByExitOrClient'
  BY <1>0, <1>1 DEF EndsByExitOrClient, StreamInv, TypeOK, taskVars
<1> QED
  BY <1>5, <1>6, <1>7, <1>8 DEF IInv

\* A call gets its client, and upstream answers it.
LEMMA HandlerStep ==
    ASSUME IInv, NEW c \in Calls,
           \/ GetPooledClient(c) \/ Unary(c) \/ ServeProxyStream(c)
           \/ \E connected \in BOOLEAN : GetClient(c, connected)
           \/ \E answer \in {"stream", "denied", "error"} : Subscribe(c, answer)
    PROVE  IInv'
<1>0. TypeOK /\ PoolInv /\ StreamInv /\ EndsByExitOrClient
  BY DEF IInv, OwnItemsAhead
<1>1. UNCHANGED <<exit, peer, method, channels, token, left>>
  BY DEF GetPooledClient, Unary, ServeProxyStream, GetClient, Subscribe, Call, Task, taskVars
<1>2. EndsByExitOrClient'
  <2>1. ASSUME NEW d \in Calls
        PROVE  /\ pc'[d] = "over" /\ bridge'[d] # "none" => pc[d] = "over" /\ bridge[d] # "none"
               /\ bridge'[d] = "done" => bridge[d] = "done"
    <3>1. CASE d # c
      BY <1>0, <3>1 DEF GetPooledClient, Unary, ServeProxyStream, GetClient, Subscribe, Goto, Call, Task, taskVars, TypeOK
    <3>2. CASE d = c /\ ServeProxyStream(c)
      BY <1>0, <3>2 DEF ServeProxyStream, Goto, TypeOK
    <3>3. CASE d = c /\ ~ServeProxyStream(c)
      <4>1. UNCHANGED bridge /\ pc[c] \in {"lookup", "connect", "call"}
        BY <3>3 DEF GetPooledClient, Unary, GetClient, Subscribe, Goto, Call, taskVars
      <4> QED
        BY <1>0, <3>3, <4>1 DEF StreamInv
    <3> QED
      BY <3>1, <3>2, <3>3
  <2> QED
    BY <1>0, <1>1, <2>1 DEF EndsByExitOrClient
<1>3. CASE GetPooledClient(c) \/ Unary(c) \/ \E connected \in BOOLEAN : GetClient(c, connected)
  <2>1. /\ pc[c] \in {"lookup", "connect", "call"} /\ pc'[c] \in {"connect", "call", "over"}
        /\ pc' = [pc EXCEPT ![c] = pc'[c]] /\ UNCHANGED <<rx, start, pump, bridge>>
    BY <1>0, <1>3 DEF GetPooledClient, Unary, GetClient, Goto, Call, streamVars, taskVars, TypeOK
  <2>2. pool' \subseteq Keys /\ made' \in [Keys -> Nat] /\ busy' \in [Keys -> Nat]
    <3>1. Key(c) \in Keys /\ Cardinality(Connecting(Key(c))) \in Nat
      BY <1>0, KeyType, ConnectingFinite
    <3>2. CASE GetPooledClient(c)
      BY <1>0, <3>1, <3>2 DEF GetPooledClient, TypeOK
    <3>3. CASE Unary(c)
      BY <1>0, <3>3 DEF Unary, poolVars, TypeOK
    <3>4. ASSUME NEW connected \in BOOLEAN, GetClient(c, connected)
          PROVE  <2>2
      <4>1. CASE connected
        <5>1. /\ pool' = pool \cup {Key(c)} /\ busy' = busy
              /\ made' = [made EXCEPT ![Key(c)] = made[Key(c)] + 1]
          BY <3>4, <4>1 DEF GetClient, Pooled
        <5> QED
          BY <1>0, <3>1, <5>1 DEF TypeOK
      <4>2. CASE ~connected
        BY <1>0, <3>4, <4>2 DEF GetClient, TypeOK
      <4> QED
        BY <4>1, <4>2
    <3> QED
      BY <1>3, <3>2, <3>3, <3>4
  <2>3. TypeOK'
    BY <1>0, <1>1, <2>1, <2>2 DEF TypeOK, channels
  <2>4. OwnItemsAhead' /\ StreamInv'
    BY <1>0, <1>1, <2>1, <2>3, ChannelsUntouched DEF StreamInv, TypeOK
  <2>5. PoolInv'
    <3>1. CASE Unary(c)
      BY <1>0, <3>1, PoolFrame DEF Unary, Goto, Call, TypeOK
    <3> QED
      BY <1>0, <1>3, <3>1, GetPooledClientPool, GetClientPool
  <2> QED
    BY <1>2, <2>4, <2>5 DEF IInv
<1>4. ASSUME NEW answer \in {"stream", "denied", "error"}, Subscribe(c, answer)
      PROVE  IInv'
  <2>1. /\ pc[c] = "call" /\ pc'[c] \in {"serve", "over"} /\ method[c] \in Lanes
        /\ pc' = [pc EXCEPT ![c] = pc'[c]] /\ pump' = [pump EXCEPT ![c] = pump'[c]]
        /\ pump'[c] \in {"none", "poll", "message", "done"}
        /\ UNCHANGED <<rx, start, bridge, poolVars>>
    BY <1>0, <1>4 DEF Subscribe, Goto, Task, streamVars, TypeOK
  <2>2. TypeOK'
    BY <1>0, <1>1, <2>1 DEF TypeOK, channels, poolVars
  <2>3. OwnItemsAhead' /\ StreamInv'
    BY <1>0, <1>1, <2>1, <2>2, ChannelsUntouched DEF StreamInv, TypeOK
  <2>4. PoolInv'
    BY <1>0, <1>1, <2>1, PoolFrame DEF TypeOK
  <2> QED
    BY <1>2, <2>3, <2>4 DEF IInv
<1>5. CASE ServeProxyStream(c)
  <2>1. /\ pc[c] = "serve" /\ pc' = [pc EXCEPT ![c] = "stream"]
        /\ bridge' = [bridge EXCEPT ![c] = "wait"]
        /\ UNCHANGED <<pump, poolVars>>
    BY <1>5 DEF ServeProxyStream, Goto, Task
  <2>2. rx' = rx /\ start' = start
    <3>1. rx[c] = start[c]
      BY <1>0, <2>1 DEF StreamInv
    <3> QED
      BY <1>0, <1>5, <3>1 DEF ServeProxyStream, Receiver, TypeOK
  <2>3. TypeOK'
    BY <1>0, <1>1, <2>1, <2>2 DEF TypeOK, channels, poolVars
  <2>4. OwnItemsAhead' /\ StreamInv'
    BY <1>0, <1>1, <2>1, <2>2, <2>3, ChannelsUntouched DEF StreamInv, TypeOK
  <2>5. PoolInv'
    BY <1>0, <1>1, <2>1, PoolFrame DEF TypeOK
  <2> QED
    BY <1>2, <2>4, <2>5 DEF IInv
<1> QED
  BY <1>3, <1>4, <1>5

\* The tasks of a subscription and its stream, apart from a message that is passed on.
LEMMA TaskStep ==
    ASSUME IInv, NEW c \in Calls,
           PumpPoll(c) \/ PumpPending(c) \/ PumpEnds(c) \/ Bridge(c) \/ StreamPoll(c) \/ ClientLeaves(c)
    PROVE  IInv'
<1>0. TypeOK /\ PoolInv /\ StreamInv /\ EndsByExitOrClient
  BY DEF IInv, OwnItemsAhead
<1>1. UNCHANGED <<exit, peer, method, poolVars, channels, start>>
  BY DEF PumpPoll, PumpPending, PumpEnds, Bridge, StreamPoll, ClientLeaves, Task, streamVars
<1>2. CASE PumpPoll(c) \/ PumpPending(c) \/ PumpEnds(c) \/ Bridge(c)
  <2>1. /\ UNCHANGED <<pc, rx, left>>
        /\ pump' = [pump EXCEPT ![c] = pump'[c]] /\ pump'[c] \in {"none", "poll", "message", "done"}
        /\ pump'[c] # "none" => pump[c] # "none"
        /\ bridge' \in [Calls -> {"none", "wait", "done"}]
        /\ \A d \in Calls : bridge[d] = "none" => bridge'[d] = "none"
    BY <1>0, <1>2 DEF PumpPoll, PumpPending, PumpEnds, Bridge, Task, streamVars, TypeOK
  <2>2. token' = token \/ (token' = token \cup {c} /\ (exit \/ c \in token))
    BY <1>2 DEF PumpPoll, PumpPending, PumpEnds, Bridge, BridgeReady, TokenAfterPump
  <2>3. \A d \in Calls : bridge'[d] = "done" => bridge[d] = "done" \/ exit \/ d \in token
    BY <1>0, <1>2 DEF PumpPoll, PumpPending, PumpEnds, Bridge, BridgeReady, TypeOK
  <2>4. TypeOK'
    BY <1>0, <1>1, <2>1, <2>2 DEF TypeOK, channels, poolVars
  <2>5. OwnItemsAhead' /\ StreamInv'
    BY <1>0, <1>1, <2>1, <2>4, ChannelsUntouched DEF StreamInv, TypeOK
  <2>6. PoolInv'
    BY <1>0, <1>1, <2>1, PoolFrame DEF TypeOK
  <2>7. EndsByExitOrClient'
    <3>1. \A d \in Calls : bridge'[d] # "none" => bridge[d] # "none"
      BY <2>1
    <3> QED
      BY <1>0, <1>1, <2>1, <2>2, <2>3, <3>1 DEF EndsByExitOrClient
  <2> QED
    BY <2>5, <2>6, <2>7 DEF IInv
<1>3. CASE StreamPoll(c)
  <2>1. /\ pc[c] = "stream" /\ pc' = [pc EXCEPT ![c] = pc'[c]] /\ pc'[c] \in {"stream", "over"}
        /\ UNCHANGED <<pump, bridge, token, left>>
    BY <1>0, <1>3 DEF StreamPoll, Goto, Task, taskVars, TypeOK
  <2>2. /\ rx' = [rx EXCEPT ![c] = rx'[c]] /\ rx'[c] \in Nat
        /\ rx[c] <= rx'[c] /\ rx'[c] <= Len(fromProxy[method[c]])
    <3> DEFINE sent == Len(fromProxy[method[c]])
    <3>1. /\ method[c] \in Lanes /\ sent \in Nat /\ rx[c] \in Nat /\ rx[c] <= sent /\ Capacity \in Nat \ {0}
          /\ rx = [rx EXCEPT ![c] = rx[c]]
      BY <1>0, <2>1, BlockEngineAssumption DEF StreamInv, TypeOK
    <3>2. rx' = rx \/ (rx[c] < sent /\ rx' = [rx EXCEPT ![c] = AfterLag(rx[c], sent) + 1])
      BY <1>3 DEF StreamPoll
    <3>3. CASE rx' = rx
      BY <3>1, <3>3
    <3>4. CASE rx[c] < sent /\ rx' = [rx EXCEPT ![c] = AfterLag(rx[c], sent) + 1]
      <4> DEFINE next == AfterLag(rx[c], sent) + 1
      <4>1. next \in Nat /\ rx[c] <= next /\ next <= sent
        BY <3>1, <3>4 DEF AfterLag
      <4>2. rx' = [rx EXCEPT ![c] = next]
        BY <3>4
      <4> HIDE DEF next
      <4>3. rx'[c] = next
        BY <1>0, <4>2 DEF TypeOK
      <4> QED
        BY <4>1, <4>2, <4>3
    <3> QED
      BY <3>2, <3>3, <3>4
  <2>3. TypeOK'
    <3>1. rx' \in [Calls -> Nat] /\ \A d \in Calls : d # c => rx'[d] = rx[d]
      BY <1>0, <2>2 DEF TypeOK
    <3>2. \A d \in Calls : method[d] \in Lanes => start[d] <= rx'[d] /\ rx'[d] <= Len(fromProxy[method[d]])
      <4> SUFFICES ASSUME NEW d \in Calls, method[d] \in Lanes
                   PROVE  start[d] <= rx'[d] /\ rx'[d] <= Len(fromProxy[method[d]])
        OBVIOUS
      <4>1. start[d] \in Nat /\ rx[d] \in Nat /\ start[d] <= rx[d] /\ rx[d] <= Len(fromProxy[method[d]])
        BY <1>0 DEF TypeOK
      <4> QED
        BY <2>2, <3>1, <4>1
    <3> QED
      BY <1>0, <1>1, <2>1, <3>1, <3>2 DEF TypeOK, channels, poolVars
  <2>4. OwnItemsAhead' /\ StreamInv'
    BY <1>0, <1>1, <2>1, <2>2, <2>3, ChannelsUntouched DEF StreamInv, TypeOK
  <2>5. PoolInv'
    BY <1>0, <1>1, <2>1, PoolFrame DEF TypeOK
  <2>6. EndsByExitOrClient'
    <3>1. \A d \in Calls : pc'[d] = "over" => pc[d] = "over" \/ d \in token
      BY <1>0, <1>3, <2>1 DEF StreamPoll, Goto, TypeOK
    <3> QED
      BY <1>0, <1>1, <2>1, <3>1 DEF EndsByExitOrClient
  <2> QED
    BY <2>4, <2>5, <2>6 DEF IInv
<1>4. CASE ClientLeaves(c)
  <2>1. /\ pc[c] \in {"connect", "call", "stream"} /\ pc' = [pc EXCEPT ![c] = "over"]
        /\ left' = left \cup {c} /\ token' \in {token, token \cup {c}}
        /\ UNCHANGED <<rx, pump, bridge>>
    BY <1>4 DEF ClientLeaves, Guard, streamVars
  <2>2. TypeOK'
    BY <1>0, <1>1, <2>1 DEF TypeOK, channels, poolVars
  <2>3. OwnItemsAhead' /\ StreamInv'
    BY <1>0, <1>1, <2>1, <2>2, ChannelsUntouched DEF StreamInv, TypeOK
  <2>4. PoolInv'
    BY <1>0, <1>1, <2>1, PoolFrame DEF TypeOK
  <2>5. EndsByExitOrClient'
    BY <1>0, <1>1, <2>1 DEF EndsByExitOrClient, TypeOK
  <2> QED
    BY <2>3, <2>4, <2>5 DEF IInv
<1> QED
  BY <1>2, <1>3, <1>4

\* The pump passes a response on to the lane of its subscription.
LEMMA PumpMessageStep ==
    ASSUME IInv, NEW c \in Calls, PumpMessage(c)
    PROVE  IInv'
<1>0. TypeOK /\ OwnItemsAhead /\ PoolInv /\ StreamInv /\ EndsByExitOrClient
  BY DEF IInv, OwnItemsAhead
<1>1. /\ pump[c] = "message" /\ pump' = [pump EXCEPT ![c] = "poll"]
      /\ UNCHANGED <<exit, callVars, poolVars, fromProxy, streamVars, bridge, token, left>>
  BY DEF PumpMessage, Task, callVars
<1>2. PICK l \in Lanes : l = method[c] /\ pc[c] # "idle"
  BY <1>0, <1>1 DEF StreamInv
<1> DEFINE s == fromBlockengine[l]
<1>3. fromBlockengine' = [fromBlockengine EXCEPT ![l] = Append(s, c)] /\ s \in Seq(Calls)
  BY <1>0, <1>2 DEF PumpMessage, TypeOK
<1>4. /\ fromBlockengine' \in [Lanes -> Seq(Calls)] /\ fromBlockengine'[l] = Append(s, c)
      /\ \A k \in Lanes : k # l => fromBlockengine'[k] = fromBlockengine[k]
  BY <1>0, <1>3, AppendProperties DEF TypeOK
<1>5. TypeOK'
  BY <1>0, <1>1, <1>4 DEF TypeOK, callVars, poolVars, streamVars
<1>6. OwnItemsAhead'
  BY <1>0, <1>1, <1>5 DEF OwnItemsAhead, callVars, streamVars
<1>7. PoolInv'
  BY <1>0, <1>1, PoolFrame DEF callVars
<1>8. StreamInv'
  <2>1. \A k, r : BelongsTo(k, r)' <=> BelongsTo(k, r)
    BY <1>1 DEF BelongsTo, callVars
  <2>2. \A k \in Lanes : \A i \in 1..Len(fromProxy[k]) : BelongsTo(k, fromProxy[k][i])
    BY <1>0 DEF StreamInv
  <2>3. \A k \in Lanes : \A i \in 1..Len(fromBlockengine'[k]) : BelongsTo(k, fromBlockengine'[k][i])
    <3> SUFFICES ASSUME NEW k \in Lanes, NEW i \in 1..Len(fromBlockengine'[k])
                 PROVE  BelongsTo(k, fromBlockengine'[k][i])
      OBVIOUS
    <3>1. CASE k # l
      BY <1>0, <1>4, <3>1 DEF StreamInv
    <3>2. CASE k = l /\ i \in 1..Len(s)
      BY <1>0, <1>3, <1>4, <3>2, AppendProperties DEF StreamInv
    <3>3. CASE k = l /\ i = Len(s) + 1
      BY <1>2, <1>3, <1>4, <3>3, AppendProperties DEF BelongsTo
    <3> QED
      BY <1>3, <1>4, <3>1, <3>2, <3>3, AppendProperties
  <2>4. \A d \in Calls : StreamInv!1!(d)'
    BY <1>0, <1>1 DEF StreamInv, TypeOK, callVars, streamVars
  <2> QED
    BY <1>1, <2>1, <2>2, <2>3, <2>4 DEF StreamInv
<1>9. EndsByExitOrClient'
  BY <1>0, <1>1 DEF EndsByExitOrClient, callVars
<1> QED
  BY <1>6, <1>7, <1>8, <1>9 DEF IInv

\* A response enters the proxy's channel of a lane: it lies behind every receiver.
LEMMA ProxySends ==
    ASSUME IInv, NEW l \in Lanes, NEW r \in Sources, BelongsTo(l, r),
           fromProxy' = [fromProxy EXCEPT ![l] = Append(@, r)], UNCHANGED <<callVars, streamVars>>
    PROVE  /\ fromProxy' \in [Lanes -> Seq(Sources)]
           /\ \A c \in Calls : method[c] \in Lanes =>
                /\ rx[c] <= Len(fromProxy'[method[c]])
                /\ \A i \in 1..Len(fromProxy'[method[c]]) : fromProxy'[method[c]][i] = c => i > start[c]
           /\ \A k \in Lanes : \A i \in 1..Len(fromProxy'[k]) : BelongsTo(k, fromProxy'[k][i])
<1>0. TypeOK /\ OwnItemsAhead /\ StreamInv
  BY DEF IInv, OwnItemsAhead
<1> DEFINE s == fromProxy[l]
<1>1. s \in Seq(Sources) /\ fromProxy' = [fromProxy EXCEPT ![l] = Append(s, r)]
  BY <1>0 DEF TypeOK
<1>2. /\ fromProxy' \in [Lanes -> Seq(Sources)] /\ fromProxy'[l] = Append(s, r)
      /\ \A k \in Lanes : k # l => fromProxy'[k] = fromProxy[k]
  BY <1>0, <1>1, AppendProperties DEF TypeOK
<1>3. /\ Len(fromProxy'[l]) = Len(s) + 1 /\ Len(s) \in Nat /\ fromProxy'[l][Len(s) + 1] = r
      /\ \A i \in 1..Len(s) : fromProxy'[l][i] = s[i]
  BY <1>1, <1>2, AppendProperties
<1> HIDE DEF s
<1>4. ASSUME NEW c \in Calls, method[c] \in Lanes
      PROVE  /\ rx[c] <= Len(fromProxy'[method[c]])
             /\ \A i \in 1..Len(fromProxy'[method[c]]) : fromProxy'[method[c]][i] = c => i > start[c]
  <2>1. start[c] \in Nat /\ rx[c] \in Nat /\ start[c] <= rx[c] /\ rx[c] <= Len(fromProxy[method[c]])
    BY <1>0, <1>4 DEF TypeOK
  <2>2. \A i \in 1..Len(fromProxy[method[c]]) : fromProxy[method[c]][i] = c => i > start[c]
    BY <1>0, <1>4 DEF OwnItemsAhead
  <2>3. CASE method[c] # l
    BY <1>2, <1>4, <2>1, <2>2, <2>3
  <2>4. CASE method[c] = l
    BY <1>3, <2>1, <2>2, <2>4 DEF s
  <2> QED
    BY <2>3, <2>4
<1>5. ASSUME NEW k \in Lanes, NEW i \in 1..Len(fromProxy'[k])
      PROVE  BelongsTo(k, fromProxy'[k][i])
  <2>1. CASE k # l
    BY <1>0, <1>2, <2>1 DEF StreamInv
  <2>2. CASE k = l /\ i \in 1..Len(s)
    BY <1>0, <1>3, <2>2 DEF StreamInv, s
  <2>3. CASE k = l /\ i = Len(s) + 1
    BY <1>3, <2>3
  <2> QED
    BY <1>3, <2>1, <2>2, <2>3
<1> QED
  BY <1>2, <1>4, <1>5

\* The delay lanes, the Inertia server and the exit flag.
LEMMA OthersStep ==
    ASSUME IInv, (\E l \in Lanes, lost \in BOOLEAN : Lane(l, lost)) \/ InertiaBundle \/ SetExit
    PROVE  IInv'
<1>0. TypeOK /\ OwnItemsAhead /\ PoolInv /\ StreamInv /\ EndsByExitOrClient
  BY DEF IInv, OwnItemsAhead
<1>1. UNCHANGED <<callVars, poolVars, streamVars, taskVars>>
  BY DEF Lane, InertiaBundle, SetExit, Others
<1>2. exit' \in BOOLEAN /\ (exit => exit')
  BY <1>0 DEF Lane, InertiaBundle, SetExit, TypeOK
<1>3. EndsByExitOrClient' /\ PoolInv'
  BY <1>0, <1>1, <1>2, PoolFrame DEF EndsByExitOrClient, taskVars, callVars
<1>4. /\ fromProxy' \in [Lanes -> Seq(Sources)]
      /\ \A c \in Calls : method[c] \in Lanes =>
            /\ rx[c] <= Len(fromProxy'[method[c]])
            /\ \A i \in 1..Len(fromProxy'[method[c]]) : fromProxy'[method[c]][i] = c => i > start[c]
      /\ \A k \in Lanes : \A i \in 1..Len(fromProxy'[k]) : BelongsTo(k, fromProxy'[k][i])
  <2>1. CASE fromProxy' = fromProxy
    BY <1>0, <2>1 DEF TypeOK, OwnItemsAhead, StreamInv
  <2>2. ASSUME NEW l \in Lanes, Lane(l, FALSE)
        PROVE  <1>4
    <3>1. /\ fromBlockengine[l] # <<>> /\ fromBlockengine[l] \in Seq(Calls)
          /\ fromProxy' = [fromProxy EXCEPT ![l] = Append(@, Head(fromBlockengine[l]))]
      BY <1>0, <2>2 DEF Lane, TypeOK
    <3>2. Head(fromBlockengine[l]) \in Sources /\ BelongsTo(l, Head(fromBlockengine[l]))
      <4>1. Head(fromBlockengine[l]) = fromBlockengine[l][1] /\ 1 \in 1..Len(fromBlockengine[l])
        BY <3>1
      <4> QED
        BY <1>0, <3>1, <4>1 DEF StreamInv, Sources
    <3> QED
      BY <1>1, <3>1, <3>2, ProxySends
  <2>3. CASE InertiaBundle
    <3>1. BelongsTo("bundles", Inertia) /\ Inertia \in Sources /\ "bundles" \in Lanes
      BY BlockEngineAssumption DEF BelongsTo, Inertia, Sources, Calls, Lanes
    <3>2. fromProxy' = [fromProxy EXCEPT !["bundles"] = Append(@, Inertia)]
      BY <2>3 DEF InertiaBundle
    <3> QED
      BY <1>1, <3>1, <3>2, ProxySends
  <2> QED
    BY <2>1, <2>2, <2>3 DEF Lane, SetExit, channels
<1>5. /\ fromBlockengine' \in [Lanes -> Seq(Calls)]
      /\ \A k \in Lanes : \A i \in 1..Len(fromBlockengine'[k]) : BelongsTo(k, fromBlockengine'[k][i])
  <2>1. CASE fromBlockengine' = fromBlockengine
    BY <1>0, <2>1 DEF TypeOK, StreamInv
  <2>2. ASSUME NEW l \in Lanes, NEW lost \in BOOLEAN, Lane(l, lost)
        PROVE  <1>5
    <3> DEFINE s == fromBlockengine[l]
    <3>1. /\ s # <<>> /\ s \in Seq(Calls) /\ fromBlockengine' = [fromBlockengine EXCEPT ![l] = Tail(s)]
      BY <1>0, <2>2 DEF Lane, TypeOK
    <3>2. /\ Tail(s) \in Seq(Calls) /\ Len(Tail(s)) = Len(s) - 1
          /\ \A i \in 1..Len(Tail(s)) : Tail(s)[i] = s[i + 1]
      BY <3>1, HeadTailProperties
    <3>3. /\ fromBlockengine' \in [Lanes -> Seq(Calls)] /\ fromBlockengine'[l] = Tail(s)
          /\ \A k \in Lanes : k # l => fromBlockengine'[k] = fromBlockengine[k]
      BY <1>0, <3>1, <3>2 DEF TypeOK
    <3>4. ASSUME NEW i \in 1..Len(Tail(s))
          PROVE  BelongsTo(l, Tail(s)[i])
      <4>1. i + 1 \in 1..Len(s)
        BY <3>1, <3>2
      <4> QED
        BY <1>0, <3>2, <4>1 DEF StreamInv
    <3> HIDE DEF s
    <3> QED
      BY <1>0, <3>3, <3>4 DEF StreamInv
  <2> QED
    BY <2>1, <2>2 DEF InertiaBundle, SetExit, channels
<1>6. TypeOK'
  BY <1>0, <1>1, <1>2, <1>4, <1>5 DEF TypeOK, callVars, poolVars, streamVars, taskVars
<1>7. OwnItemsAhead'
  BY <1>1, <1>4, <1>6 DEF OwnItemsAhead, callVars, streamVars
<1>8. StreamInv'
  <2>1. \A k, r : BelongsTo(k, r)' <=> BelongsTo(k, r)
    BY <1>1 DEF BelongsTo, callVars
  <2> QED
    BY <1>0, <1>1, <1>4, <1>5, <2>1 DEF StreamInv, callVars, streamVars, taskVars
<1> QED
  BY <1>3, <1>7, <1>8 DEF IInv

\* Every step preserves the inductive invariant.
LEMMA NextIInv == IInv /\ [Next]_vars => IInv'
<1> SUFFICES ASSUME IInv, [Next]_vars PROVE IInv'
  OBVIOUS
<1>1. CASE UNCHANGED vars
  <2>0. TypeOK /\ PoolInv /\ StreamInv
    BY DEF IInv, OwnItemsAhead
  <2>1. TypeOK'
    BY <1>1, <2>0 DEF TypeOK, vars, callVars, poolVars, channels, streamVars, taskVars
  <2>2. PoolInv'
    BY <1>1, <2>0, PoolFrame DEF vars, callVars
  <2>3. OwnItemsAhead' /\ StreamInv'
    BY <1>1, <2>0, <2>1, ChannelsUntouched DEF vars, callVars, channels, streamVars, taskVars, StreamInv
  <2>4. EndsByExitOrClient'
    BY <1>1 DEF IInv, EndsByExitOrClient, vars, callVars, taskVars
  <2> QED
    BY <2>2, <2>3, <2>4 DEF IInv
<1> QED
  BY <1>1, RequestStep, HandlerStep, TaskStep, PumpMessageStep, OthersStep DEF Next, Handler, Pump

-----------------------------------------------------------------------------
(* The theorems.                                                           *)

\* The inductive invariant holds in every reachable state.
THEOREM Invariance == Spec => []IInv
  BY InitIInv, NextIInv, PTL DEF Spec

\* For any number of peers and calls: a peer costs no more connections than it had calls
\* on the way to one at the same time (get_pooled_client).
THEOREM PoolBound == Spec => []ConnectionsBounded
<1>1. IInv => ConnectionsBounded
  <2> SUFFICES ASSUME IInv, NEW k \in Keys PROVE made[k] <= busy[k]
    BY DEF ConnectionsBounded
  <2>1. made[k] \in Nat /\ busy[k] \in Nat /\ made[k] + Cardinality(Connecting(k)) <= busy[k]
    BY DEF IInv, OwnItemsAhead, TypeOK, PoolInv
  <2> QED
    BY <2>1, ConnectingFinite
<1> QED
  BY <1>1, Invariance, PTL

\* A subscription's receiver is there before its pump: it misses nothing its own upstream
\* sent (subscribe_packets, subscribe_bundles, pump_upstream).
THEOREM NothingOwnIsMissed == Spec => []OwnItemsAhead
<1>1. IInv => OwnItemsAhead
  BY DEF IInv
<1> QED
  BY <1>1, Invariance, PTL

\* Only the exit flag and the client cancel a subscription's token (serve_proxy_stream).
THEOREM StreamsEndForAReason == Spec => []EndsByExitOrClient
<1>1. IInv => EndsByExitOrClient
  BY DEF IInv
<1> QED
  BY <1>1, Invariance, PTL
=============================================================================
