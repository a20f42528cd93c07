----------------------------- MODULE AuthProofs -----------------------------
(***************************************************************************)
(* Proofs about Auth.  QueueInv and CallInv say what the steps of a call,  *)
(* between which it does not hold the mutex, may rely on: a challenge in   *)
(* the queue is one that was made for its address and handed out, and one  *)
(* that a call is about to push is its own, so that none comes back once   *)
(* it was used and removed.  RoomInv counts the calls that *)
(* have passed the capacity test and may still push.                       *)
(***************************************************************************)
EXTENDS Auth, FiniteSetTheorems, SequenceTheorems, TLAPS

\* Both claims of a challenge name the same client, and it is numbered by its generation.
MadeInv ==
    \A n \in Indices(made) :
        /\ made[n].challenge = n
        /\ made[n].refresh_claims.client_ip = made[n].access_claims.client_ip
        /\ made[n].refresh_claims.client_pubkey = made[n].access_claims.client_pubkey

\* What is in the queue was made for the address it is under, and handed out.
QueueInv ==
    \A ip \in DOMAIN challenges :
        /\ challenges[ip].challenge \in handed
        /\ challenges[ip] = made[challenges[ip].challenge]
        /\ challenges[ip].access_claims.client_ip = ip

\* A call that is about to push has a challenge of its own, made for its address and not
\* handed out before; one that asks for tokens names a challenge that was, and one that has
\* issued them a challenge that was made for its address.
CallInv ==
    \A h \in Handlers :
        /\ handlers[h].pc = "push" =>
            /\ handlers[h].challenge \in Indices(made) \ handed
            /\ made[handlers[h].challenge].access_claims.client_ip = handlers[h].ip
            /\ \A g \in Handlers : handlers[g].pc = "push" /\ handlers[g].challenge = handlers[h].challenge => g = h
        /\ handlers[h].pc \in {"make", "push", "remove"} => handlers[h].saw \subseteq handed
        /\ handlers[h].pc \in {"tokens", "remove"} => handlers[h].challenge \in handed
        /\ handlers[h].pc = "remove" =>
            made[handlers[h].challenge].access_claims.client_ip = handlers[h].ip

\* The calls that have passed the capacity test and may still push.
Pending == {h \in Handlers : handlers[h].pc \in {"lookup", "make", "push"}}

RoomInv ==
    /\ IsFiniteSet(DOMAIN challenges)
    /\ Cardinality(DOMAIN challenges) + Cardinality(Pending) <= Capacity + Cardinality(Handlers) - 1

IInv ==
    /\ TokensNameTheirSigner /\ ReplacesOnlyExpiredOrConcurrent /\ RemovesWhatItUsed
    /\ MadeInv /\ QueueInv /\ CallInv /\ RoomInv
    /\ sweepStart <= now

-----------------------------------------------------------------------------
(* Lemmas about the operators.                                             *)

\* A set of numbers that is not empty has a least one.
LEMMA LeastNumber ==
    ASSUME NEW S \in SUBSET Nat, S # {}
    PROVE  \E x \in S : \A y \in S : x <= y
<1> DEFINE R == OpToRel(<, Nat)
<1>1. PICK x \in S : \A y \in S : ~(<<y, x>> \in R)
  <2>1. IsWellFoundedOn(R, Nat)
    BY NatLessThanWellFounded, Zenon
  <2> HIDE DEF R
  <2> QED
    BY <2>1, WFMin, Zenon
<1>2. \A y \in S : x <= y
  <2> TAKE y \in S
  <2>1. ~(<<y, x>> \in R)
    BY <1>1
  <2>2. x \in Nat /\ y \in Nat
    OBVIOUS
  <2> QED
    BY <2>1, <2>2 DEF OpToRel
<1> QED
  BY <1>2

\* The claims of a token are well formed: cutting off the part of a second keeps a time.
LEMMA EncodedType ==
    ASSUME NEW claims \in Claims
    PROVE  /\ Encoded(claims) \in Claims
           /\ Encoded(claims).client_ip = claims.client_ip
           /\ Encoded(claims).client_pubkey = claims.client_pubkey
<1>1. TicksPerSecond \in Nat \ {0} /\ claims.expires_at \in Nat
  BY AuthAssumption DEF Claims
<1>2. claims.expires_at \div TicksPerSecond \in Nat
  BY <1>1
<1>3. (claims.expires_at \div TicksPerSecond) * TicksPerSecond \in Nat
  BY <1>1, <1>2
<1> QED
  BY <1>3 DEF Encoded, Claims

\* peek returns an entry of a queue that is not empty, and the oldest.
LEMMA PeekProperties ==
    ASSUME TypeOK
    PROVE  /\ Peek = {} => DOMAIN challenges = {}
           /\ \A ip \in Peek : ~IsExpired(challenges[ip]) =>
                \A x \in DOMAIN challenges : challenges[x].expires_at > now
<1> DEFINE times == {challenges[x].expires_at : x \in DOMAIN challenges}
<1>1. \A x \in DOMAIN challenges : challenges[x].expires_at \in Nat
  BY DEF TypeOK, Challenge
<1>2. ASSUME DOMAIN challenges # {}
      PROVE  Peek # {}
  <2>1. PICK t \in times : \A u \in times : t <= u
    <3>1. times \in SUBSET Nat /\ times # {}
      BY <1>1, <1>2
    <3> QED
      BY <3>1, LeastNumber
  <2>2. PICK ip \in DOMAIN challenges : t = challenges[ip].expires_at
    BY <2>1
  <2>3. ip \in Peek
    BY <2>1, <2>2 DEF Peek
  <2> QED
    BY <2>3
<1>3. ASSUME NEW ip \in Peek, ~IsExpired(challenges[ip]), NEW x \in DOMAIN challenges
      PROVE  challenges[x].expires_at > now
  BY <1>1, <1>3 DEF Peek, IsExpired, TypeOK
<1> QED
  BY <1>2, <1>3

-----------------------------------------------------------------------------
\* No call runs and nothing was made when the service starts.
LEMMA InitIInv == Init => IInv
<1> SUFFICES ASSUME Init PROVE IInv
  OBVIOUS
<1>1. TypeOK
  <2>1. made \in Seq(Challenge) /\ handlers \in [Handlers -> Calls \cup {idle}]
    BY DEF Init
  <2>2. challenges \in [DOMAIN challenges -> Challenge] /\ DOMAIN challenges \subseteq Ips
    BY DEF Init
  <2> QED
    BY <2>1, <2>2 DEF Init, TypeOK
<1>2. TokensNameTheirSigner
  BY <1>1 DEF Init, TokensNameTheirSigner
<1>3. ReplacesOnlyExpiredOrConcurrent /\ RemovesWhatItUsed /\ CallInv
  BY DEF Init, ReplacesOnlyExpiredOrConcurrent, RemovesWhatItUsed, CallInv, idle
<1>4. MadeInv /\ QueueInv /\ sweepStart <= now
  BY DEF Init, MadeInv, QueueInv, Indices
<1>5. RoomInv
  <2>1. DOMAIN challenges = {} /\ Pending = {}
    BY DEF Init, Pending, idle
  <2>2. Cardinality(Handlers) \in Nat /\ Capacity \in Nat \ {0}
    BY AuthAssumption, FS_CardinalityType
  <2> QED
    BY <2>1, <2>2, FS_EmptySet DEF RoomInv
<1> QED
  BY <1>2, <1>3, <1>4, <1>5 DEF IInv

-----------------------------------------------------------------------------
(* What the steps share.  QueueState is what a call relies on while the    *)
(* mutex is not its own.                                                   *)

QueueState ==
    /\ ReplacesOnlyExpiredOrConcurrent /\ RemovesWhatItUsed
    /\ MadeInv /\ QueueInv /\ CallInv /\ RoomInv

\* A call that is under way has an address, an identity and a challenge.
LEMMA CallType ==
    ASSUME TypeOK, NEW h \in Handlers, handlers[h].pc # "idle"
    PROVE  handlers[h] \in Calls
  BY DEF TypeOK, idle

\* Tokens, the sweeper, the exit flag and the clock leave the queue and the calls alone.
LEMMA Elsewhere ==
    ASSUME IInv, UNCHANGED <<challenges, handlers, made, handed, spent>>, now' \in Nat, now <= now'
    PROVE  QueueState'
<1>1. \A ip \in DOMAIN challenges : IsExpired(challenges[ip]) => challenges[ip].expires_at <= now'
  BY DEF IInv, TokensNameTheirSigner, TypeOK, Challenge, IsExpired
<1>2. ReplacesOnlyExpiredOrConcurrent'
  BY <1>1, Zenon DEF IInv, ReplacesOnlyExpiredOrConcurrent, IsExpired
<1>3. MadeInv' /\ QueueInv' /\ CallInv' /\ RemovesWhatItUsed'
  BY DEF IInv, MadeInv, QueueInv, CallInv, RemovesWhatItUsed, Indices
<1>4. RoomInv'
  BY DEF IInv, RoomInv, Pending
<1> QED
  BY <1>2, <1>3, <1>4 DEF QueueState

\* A call goes on without touching the queue.  It must have passed the capacity test to
\* be on its way to a push, found nothing to reuse to make a challenge, and read the
\* challenge from the queue to issue tokens for it.
LEMMA CallGoesOn ==
    ASSUME IInv, NEW h \in Handlers, NEW call \in Calls \cup {idle}, Goto(h, call),
           UNCHANGED <<now, challenges, made, handed, spent>>, call.pc # "push",
           call.pc \in {"tokens", "remove"} => call.challenge \in handed,
           call.pc = "remove" => /\ call.saw = handed /\ call.ip \in DOMAIN challenges
                                 /\ challenges[call.ip].challenge = call.challenge,
           call.pc = "make" => call.saw = handed /\ ~Reusable(call),
           call.pc \in {"lookup", "make"} => HasCapacity \/ h \in Pending
    PROVE  QueueState'
<1>1. /\ handlers' = [handlers EXCEPT ![h] = call] /\ handlers \in [Handlers -> Calls \cup {idle}]
      /\ handlers'[h] = call /\ \A g \in Handlers : g # h => handlers'[g] = handlers[g]
  BY DEF Goto, IInv, TokensNameTheirSigner, TypeOK
<1>2. ReplacesOnlyExpiredOrConcurrent'
  <2> SUFFICES ASSUME NEW g \in Handlers, handlers'[g].pc \in {"make", "push"}, handlers'[g].ip \in DOMAIN challenges
               PROVE  \/ IsExpired(challenges[handlers'[g].ip])
                      \/ challenges[handlers'[g].ip].challenge \notin handlers'[g].saw
    BY DEF ReplacesOnlyExpiredOrConcurrent, IsExpired
  <2>1. CASE g = h
    BY <1>1, <2>1 DEF Reusable
  <2>2. CASE g # h
    BY <1>1, <2>2 DEF IInv, ReplacesOnlyExpiredOrConcurrent
  <2> QED
    BY <2>1, <2>2
<1>3. MadeInv' /\ QueueInv'
  BY DEF IInv, MadeInv, QueueInv, Indices
<1>4. CallInv'
  <2> SUFFICES ASSUME NEW g \in Handlers
               PROVE  CallInv!(g)'
    BY DEF CallInv
  <2>1. CASE g = h
    BY <1>1, <2>1 DEF IInv, QueueInv, Indices
  <2>2. CASE g # h
    BY <1>1, <2>2 DEF IInv, CallInv, Indices
  <2> QED
    BY <2>1, <2>2
<1>5. RoomInv'
  <2>1. /\ IsFiniteSet(Handlers) /\ IsFiniteSet(Pending) /\ IsFiniteSet(Pending')
        /\ Cardinality(Pending') <= Cardinality(Handlers)
        /\ Cardinality(Handlers) \in Nat /\ Cardinality(Pending) \in Nat /\ Cardinality(Pending') \in Nat
        /\ Cardinality(DOMAIN challenges) \in Nat /\ Capacity \in Nat
    <3>1. Pending \in SUBSET Handlers /\ Pending' \in SUBSET Handlers
      BY DEF Pending
    <3> QED
      BY <3>1, AuthAssumption, FS_Subset, FS_CardinalityType DEF IInv, RoomInv
  <2>2. CASE HasCapacity
    BY <2>1, <2>2 DEF HasCapacity, RoomInv, IInv
  <2>3. CASE ~HasCapacity
    <3>1. Pending' \in SUBSET Pending
      BY <1>1, <2>3 DEF Pending
    <3>2. Cardinality(Pending') <= Cardinality(Pending)
      BY <2>1, <3>1, FS_Subset
    <3> QED
      BY <2>1, <3>2 DEF RoomInv, IInv
  <2> QED
    BY <2>2, <2>3
<1>6. RemovesWhatItUsed'
  <2>1. ASSUME NEW g \in Handlers, handlers'[g].pc = "remove", handlers'[g].ip \in DOMAIN challenges
        PROVE  challenges[handlers'[g].ip].challenge \notin handlers'[g].saw \ {handlers'[g].challenge}
    <3>1. CASE g = h
      BY <1>1, <2>1, <3>1
    <3>2. CASE g # h
      BY <1>1, <2>1, <3>2 DEF IInv, RemovesWhatItUsed
    <3> QED
      BY <3>1, <3>2
  <2> QED
    BY <2>1 DEF IInv, RemovesWhatItUsed
<1> QED
  BY <1>2, <1>3, <1>4, <1>5, <1>6 DEF QueueState

\* An entry leaves the queue, by the call that used it or by the sweep.
LEMMA EntryRemoved ==
    ASSUME IInv, NEW ip \in Ips, challenges' = Removed(ip), UNCHANGED <<now, made, handed>>,
           \/ handlers' = handlers /\ spent' = spent
           \/ \E h \in Handlers : /\ Done(h) /\ handlers[h].pc = "remove" /\ handlers[h].ip = ip
                                  /\ spent' = spent \cup {handlers[h].challenge}
    PROVE  QueueState'
<1>1. /\ DOMAIN challenges' = DOMAIN challenges \ {ip}
      /\ \A x \in DOMAIN challenges' : challenges'[x] = challenges[x]
  BY DEF Removed
<1>2. \A g \in Handlers : handlers'[g] = handlers[g] \/ handlers'[g] = idle
  BY DEF Done, Goto, IInv, TokensNameTheirSigner, TypeOK
<1>3. \A g \in Handlers : handlers'[g].pc # "idle" => handlers'[g] = handlers[g]
  BY <1>2 DEF idle
<1>4. ReplacesOnlyExpiredOrConcurrent'
  BY <1>1, <1>3 DEF IInv, ReplacesOnlyExpiredOrConcurrent, IsExpired
<1>5. MadeInv' /\ QueueInv'
  BY <1>1 DEF IInv, MadeInv, QueueInv, Indices
<1>6. CallInv'
  BY <1>3 DEF IInv, CallInv, Indices
<1>7. RoomInv'
  <2>1. Pending' \in SUBSET Pending /\ Pending \in SUBSET Handlers
    BY <1>3 DEF Pending
  <2>2. /\ Cardinality(Pending') <= Cardinality(Pending)
        /\ Cardinality(Pending') \in Nat /\ Cardinality(Pending) \in Nat
    BY <2>1, AuthAssumption, FS_Subset, FS_CardinalityType
  <2>3. /\ IsFiniteSet(DOMAIN challenges')
        /\ Cardinality(DOMAIN challenges') <= Cardinality(DOMAIN challenges)
        /\ Cardinality(DOMAIN challenges') \in Nat /\ Cardinality(DOMAIN challenges) \in Nat
    <3>1. IsFiniteSet(DOMAIN challenges)
      BY DEF IInv, RoomInv
    <3>2. Cardinality(DOMAIN challenges) \in Nat
      BY <3>1, FS_CardinalityType
    <3>3. IsFiniteSet(DOMAIN challenges \ {ip}) /\ Cardinality(DOMAIN challenges \ {ip}) =
            IF ip \in DOMAIN challenges THEN Cardinality(DOMAIN challenges) - 1 ELSE Cardinality(DOMAIN challenges)
      BY <3>1, FS_RemoveElement, Zenon
    <3>4. Cardinality(DOMAIN challenges \ {ip}) \in Nat
      BY <3>3, FS_CardinalityType
    <3> QED
      BY <1>1, <3>2, <3>3, <3>4
  <2>4. Cardinality(Handlers) \in Nat /\ Capacity \in Nat
    BY AuthAssumption, FS_CardinalityType
  <2> QED
    BY <2>2, <2>3, <2>4 DEF IInv, RoomInv
<1>8. RemovesWhatItUsed'
  <2>1. ASSUME NEW x \in DOMAIN challenges'
        PROVE  challenges'[x].challenge \notin spent'
    <3>1. x # ip /\ x \in DOMAIN challenges /\ challenges'[x] = challenges[x]
      BY <1>1
    <3>2. /\ challenges[x].challenge \notin spent
          /\ made[challenges[x].challenge].access_claims.client_ip = x
      BY <3>1 DEF IInv, RemovesWhatItUsed, QueueInv
    <3>3. \A h \in Handlers : handlers[h].pc = "remove" /\ handlers[h].ip = ip
                => handlers[h].challenge # challenges[x].challenge
      BY <3>1, <3>2 DEF IInv, CallInv
    <3> QED
      BY <3>1, <3>2, <3>3
  <2>2. ASSUME NEW g \in Handlers, handlers'[g].pc = "remove", handlers'[g].ip \in DOMAIN challenges'
        PROVE  challenges'[handlers'[g].ip].challenge \notin handlers'[g].saw \ {handlers'[g].challenge}
    BY <1>1, <1>3, <2>2 DEF IInv, RemovesWhatItUsed
  <2> QED
    BY <2>1, <2>2 DEF RemovesWhatItUsed
<1> QED
  BY <1>4, <1>5, <1>6, <1>7, <1>8 DEF QueueState

\* A challenge is made: it gets the next number, which nobody has been handed.
LEMMA MakeStep ==
    ASSUME IInv, NEW h \in Handlers, Make(h)
    PROVE  QueueState' /\ made' \in Seq(Challenge) /\ handlers' \in [Handlers -> Calls \cup {idle}]
           /\ Indices(made) \subseteq Indices(made') /\ \A i \in Indices(made) : made'[i] = made[i]
<1>0. /\ TypeOK /\ ReplacesOnlyExpiredOrConcurrent /\ RemovesWhatItUsed
      /\ MadeInv /\ QueueInv /\ CallInv /\ RoomInv
  BY DEF IInv, TokensNameTheirSigner
<1>1. handlers[h] \in Calls /\ handlers[h].pc = "make"
  BY <1>0, CallType DEF Make
<1> DEFINE n == Len(made) + 1
           call == [handlers[h] EXCEPT !.pc = "push", !.challenge = n]
           claims(ttl) == [client_ip |-> handlers[h].ip, client_pubkey |-> handlers[h].pubkey,
                           expires_at |-> now + ttl]
           c == [challenge |-> n, access_claims |-> claims(AccessTTL), refresh_claims |-> claims(RefreshTTL),
                 expires_at |-> now + ChallengeTTL]
<1>2. n \in Nat /\ c \in Challenge /\ call \in Calls
  <2>1. n \in Nat /\ now + ChallengeTTL \in Nat
    BY <1>0, AuthAssumption DEF TypeOK
  <2>2. claims(AccessTTL) \in Claims /\ claims(RefreshTTL) \in Claims
    BY <1>0, <1>1, AuthAssumption, SMTT(30) DEF TypeOK, Calls, Claims
  <2>3. call \in Calls
    BY <1>1, <2>1 DEF Calls
  <2> HIDE DEF n, claims
  <2> QED
    BY <2>1, <2>2, <2>3 DEF Challenge
<1>3. /\ made' \in Seq(Challenge) /\ Len(made') = n /\ made'[n] = c
      /\ \A i \in Indices(made) : made'[i] = made[i]
  BY <1>0, <1>2, AppendProperties DEF Make, TypeOK, Indices
<1>4. /\ handlers' \in [Handlers -> Calls \cup {idle}] /\ handlers'[h] = call
      /\ \A g \in Handlers : g # h => handlers'[g] = handlers[g]
  BY <1>0, <1>2 DEF Make, Goto, TypeOK
<1>5. /\ call.pc = "push" /\ call.challenge = n
      /\ call.ip = handlers[h].ip /\ call.saw = handlers[h].saw
  BY <1>1 DEF Calls
<1>6. Indices(made') = Indices(made) \cup {n} /\ n \notin Indices(made)
  BY <1>0, <1>3 DEF Indices, TypeOK
<1>7. UNCHANGED <<now, challenges, handed, spent>>
  BY DEF Make
<1>8. /\ c.challenge = n /\ c.access_claims.client_ip = call.ip
      /\ c.refresh_claims.client_ip = c.access_claims.client_ip
      /\ c.refresh_claims.client_pubkey = c.access_claims.client_pubkey
  BY <1>5
<1> HIDE DEF n, call, c, claims
<1>9. MadeInv'
  BY <1>0, <1>3, <1>6, <1>8 DEF MadeInv
<1>10. QueueInv'
  BY <1>0, <1>3, <1>7 DEF QueueInv, TypeOK
<1>11. CallInv'
  <2>1. n \notin handed
    BY <1>0, <1>6 DEF TypeOK
  <2>2. \A g \in Handlers : g # h /\ handlers[g].pc = "push" => handlers[g].challenge # n
    BY <1>0, <1>6 DEF CallInv
  <2> SUFFICES ASSUME NEW g \in Handlers
               PROVE  CallInv!(g)'
    BY DEF CallInv
  <2>3. CASE g = h
    <3>1. handlers'[g].challenge \in Indices(made') \ handed'
      BY <1>4, <1>5, <1>6, <1>7, <2>1, <2>3
    <3>2. made'[handlers'[g].challenge].access_claims.client_ip = handlers'[g].ip
      BY <1>3, <1>4, <1>5, <1>8, <2>3
    <3>3. handlers'[g].saw \subseteq handed'
      BY <1>0, <1>1, <1>4, <1>5, <1>7, <2>3 DEF CallInv
    <3> QED
      BY <1>4, <1>5, <2>2, <2>3, <3>1, <3>2, <3>3
  <2>4. CASE g # h
    <3>1. handlers'[g] = handlers[g] /\ \A i \in handed : made'[i] = made[i]
      BY <1>0, <1>3, <1>4, <2>4 DEF TypeOK
    <3> QED
      BY <1>0, <1>3, <1>4, <1>5, <1>6, <1>7, <2>2, <2>4, <3>1 DEF CallInv
  <2> QED
    BY <2>3, <2>4
<1>12. ReplacesOnlyExpiredOrConcurrent'
  BY <1>0, <1>1, <1>4, <1>5, <1>7 DEF ReplacesOnlyExpiredOrConcurrent, IsExpired
<1>13. RoomInv'
  <2>1. Pending' = Pending
    BY <1>1, <1>4, <1>5 DEF Pending
  <2> QED
    BY <1>0, <1>7, <2>1 DEF RoomInv
<1>14. RemovesWhatItUsed'
  <2>1. \A g \in Handlers : handlers'[g].pc = "remove" => handlers'[g] = handlers[g]
    BY <1>4, <1>5
  <2> QED
    BY <1>0, <1>7, <2>1 DEF RemovesWhatItUsed
<1> QED
  BY <1>3, <1>4, <1>6, <1>9, <1>10, <1>11, <1>12, <1>13, <1>14 DEF QueueState

\* A challenge is pushed: whatever it replaces, no other call had seen it.
LEMMA PushStep ==
    ASSUME IInv, NEW h \in Handlers, Push(h)
    PROVE  /\ QueueState' /\ handlers' \in [Handlers -> Calls \cup {idle}]
           /\ challenges' \in [DOMAIN challenges' -> Challenge] /\ DOMAIN challenges' \subseteq Ips
           /\ handed \subseteq handed' /\ handed' \subseteq Indices(made)
<1>0. /\ TypeOK /\ ReplacesOnlyExpiredOrConcurrent /\ RemovesWhatItUsed
      /\ MadeInv /\ QueueInv /\ CallInv /\ RoomInv
  BY DEF IInv, TokensNameTheirSigner
<1> DEFINE n == handlers[h].challenge
           ip == handlers[h].ip
           c == made[n]
<1>1. handlers[h].pc = "push" /\ ip \in Ips
  BY <1>0, CallType DEF Push, Calls
<1>2. n \in Indices(made) \ handed /\ c.challenge = n /\ c.access_claims.client_ip = ip /\ c \in Challenge
  BY <1>0, <1>1, ElementOfSeq DEF CallInv, MadeInv, TypeOK, Indices
<1>3. handed' = handed \cup {n} /\ UNCHANGED <<now, made, spent>>
  BY DEF Push
<1>4. /\ DOMAIN challenges' = DOMAIN challenges \cup {ip} /\ challenges'[ip] = c
      /\ \A x \in DOMAIN challenges : x # ip => challenges'[x] = challenges[x]
      /\ challenges' = [x \in DOMAIN challenges' |-> challenges'[x]]
  BY DEF Push, Pushed
<1>5. /\ handlers' \in [Handlers -> Calls \cup {idle}] /\ handlers'[h] = idle
      /\ \A g \in Handlers : g # h => handlers'[g] = handlers[g]
  BY <1>0 DEF Push, Done, Goto, TypeOK
<1>6. \A g \in Handlers : handlers'[g].pc # "idle" => g # h /\ handlers'[g] = handlers[g]
  BY <1>5 DEF idle
<1>7. \A g \in Handlers : g # h /\ handlers[g].pc = "push" => handlers[g].challenge # n
  BY <1>0, <1>1 DEF CallInv
<1> HIDE DEF n, ip, c
<1>8. ReplacesOnlyExpiredOrConcurrent'
  <2> SUFFICES ASSUME NEW g \in Handlers, handlers'[g].pc \in {"make", "push"}, handlers'[g].ip \in DOMAIN challenges'
               PROVE  \/ IsExpired(challenges'[handlers'[g].ip])
                      \/ challenges'[handlers'[g].ip].challenge \notin handlers'[g].saw
    BY <1>3 DEF ReplacesOnlyExpiredOrConcurrent, IsExpired
  <2>1. g # h /\ handlers'[g] = handlers[g]
    BY <1>6
  <2>2. CASE handlers[g].ip = ip
    <3>1. challenges'[handlers'[g].ip].challenge = n
      BY <1>2, <1>4, <2>1, <2>2
    <3>2. handlers'[g].saw \subseteq handed
      BY <1>0, <2>1 DEF CallInv
    <3> QED
      BY <1>2, <3>1, <3>2
  <2>3. CASE handlers[g].ip # ip
    BY <1>0, <1>4, <2>1, <2>3 DEF ReplacesOnlyExpiredOrConcurrent
  <2> QED
    BY <2>2, <2>3
<1>9. MadeInv'
  BY <1>0, <1>3 DEF MadeInv, Indices
<1>10. QueueInv'
  BY <1>0, <1>2, <1>3, <1>4 DEF QueueInv, c
<1>11. CallInv'
  BY <1>0, <1>3, <1>6, <1>7 DEF CallInv, Indices
<1>12. RoomInv'
  <2>1. Pending' = Pending \ {h} /\ h \in Pending /\ Pending \in SUBSET Handlers
    BY <1>1, <1>5, <1>6 DEF Pending
  <2>2. IsFiniteSet(Pending) /\ Cardinality(Pending) \in Nat
    BY <2>1, AuthAssumption, FS_Subset, FS_CardinalityType
  <2>3. Cardinality(Pending') = Cardinality(Pending) - 1
    BY <2>1, <2>2, FS_RemoveElement
  <2>4. IsFiniteSet(DOMAIN challenges) /\ Cardinality(DOMAIN challenges) \in Nat
    BY <1>0, FS_CardinalityType DEF RoomInv
  <2>5. IsFiniteSet(DOMAIN challenges \cup {ip}) /\ Cardinality(DOMAIN challenges \cup {ip}) =
            IF ip \in DOMAIN challenges THEN Cardinality(DOMAIN challenges) ELSE Cardinality(DOMAIN challenges) + 1
    BY <2>4, FS_AddElement, Zenon
  <2>6. Cardinality(Handlers) \in Nat /\ Capacity \in Nat
    BY AuthAssumption, FS_CardinalityType
  <2>7. Cardinality(DOMAIN challenges') + Cardinality(Pending') <= Cardinality(DOMAIN challenges) + Cardinality(Pending)
    BY <1>4, <2>2, <2>3, <2>4, <2>5
  <2> QED
    BY <1>0, <1>4, <2>2, <2>3, <2>4, <2>5, <2>6, <2>7 DEF RoomInv
<1>13. challenges' \in [DOMAIN challenges' -> Challenge] /\ DOMAIN challenges' \subseteq Ips
  BY <1>0, <1>1, <1>2, <1>4 DEF TypeOK, ip
<1>14. handed \subseteq handed' /\ handed' \subseteq Indices(made)
  BY <1>0, <1>2, <1>3 DEF TypeOK
<1>15. RemovesWhatItUsed'
  <2>1. n \notin spent
    BY <1>0, <1>2 DEF TypeOK
  <2>2. ASSUME NEW x \in DOMAIN challenges'
        PROVE  challenges'[x].challenge \notin spent
    BY <1>0, <1>2, <1>4, <2>1 DEF RemovesWhatItUsed
  <2>3. ASSUME NEW g \in Handlers, handlers'[g].pc = "remove", handlers'[g].ip \in DOMAIN challenges'
        PROVE  challenges'[handlers'[g].ip].challenge \notin handlers'[g].saw \ {handlers'[g].challenge}
    <3>1. handlers'[g] = handlers[g]
      BY <1>6, <2>3
    <3>2. CASE handlers[g].ip = ip
      <4>1. handlers[g].saw \subseteq handed
        BY <1>0, <2>3, <3>1 DEF CallInv
      <4> QED
        BY <1>2, <1>4, <3>1, <3>2, <4>1
    <3>3. CASE handlers[g].ip # ip
      BY <1>0, <1>4, <2>3, <3>1, <3>3 DEF RemovesWhatItUsed
    <3> QED
      BY <3>2, <3>3
  <2> QED
    BY <1>3, <2>2, <2>3 DEF RemovesWhatItUsed
<1> QED
  BY <1>5, <1>8, <1>9, <1>10, <1>11, <1>12, <1>13, <1>14, <1>15 DEF QueueState

-----------------------------------------------------------------------------
(* The steps.                                                              *)

tokenVars == <<tokens, admitted>>

\* A signature stays one: a challenge that was handed out is neither taken back nor changed.
LEMMA SignedForKept ==
    ASSUME handed \subseteq handed', \A c \in handed : made'[c] = made[c],
           NEW pk, NEW ip, SignedFor(pk, ip)
    PROVE  SignedFor(pk, ip)'
  BY DEF SignedFor

\* As long as no token is issued or shown, only the types are at stake.
LEMMA NoToken ==
    ASSUME IInv, UNCHANGED <<tokenVars, now, exit, sweepVars>>, QueueState',
           handlers' \in [Handlers -> Calls \cup {idle}],
           challenges' \in [DOMAIN challenges' -> Challenge], DOMAIN challenges' \subseteq Ips,
           made' \in Seq(Challenge), handed \subseteq handed', handed' \subseteq Indices(made'),
           \A c \in handed : made'[c] = made[c], spent' \subseteq handed'
    PROVE  IInv'
<1>1. TypeOK'
  BY DEF IInv, TokensNameTheirSigner, TypeOK, tokenVars, sweepVars
<1>2. TokensNameTheirSigner'
  <2>1. \A t \in tokens : SignedFor(t.client_pubkey, t.client_ip)'
    BY SignedForKept, Zenon DEF IInv, TokensNameTheirSigner
  <2>2. \A pk \in admitted : \E ip \in Ips : SignedFor(pk, ip)'
    BY SignedForKept, Zenon DEF IInv, TokensNameTheirSigner
  <2> QED
    BY <1>1, <2>1, <2>2 DEF TokensNameTheirSigner, tokenVars
<1>3. (sweepStart <= now)'
  BY DEF IInv, sweepVars
<1> QED
  BY <1>2, <1>3 DEF IInv, QueueState

\* A call begins, fails or is dropped.
LEMMA CallStep ==
    ASSUME IInv, NEW h \in Handlers, Call(h) \/ InvalidRequest(h) \/ TokensRefused(h) \/ Dropped(h)
    PROVE  IInv'
<1>0. TypeOK
  BY DEF IInv, TokensNameTheirSigner
<1>1. UNCHANGED <<now, exit, challenges, sweepVars, history>>
  BY DEF Call, Generate, Tokens, InvalidRequest, TokensRefused, Dropped
<1> DEFINE GoesOn(call) ==
        /\ Goto(h, call) /\ call.pc \notin {"push", "make", "remove"}
        /\ call.pc = "tokens" => call.challenge \in handed
        /\ call.pc = "lookup" => HasCapacity
<1>2. PICK call \in Calls \cup {idle} : GoesOn(call)
  <2>1. ASSUME NEW ip \in Ips, NEW pk \in Pubkeys, Generate(h, ip, pk)
        PROVE  \E call \in Calls \cup {idle} : GoesOn(call)
    <3> DEFINE new == [pc |-> "lookup", ip |-> ip, pubkey |-> pk, challenge |-> 0, saw |-> {}]
    <3>1. new \in Calls /\ Goto(h, new) /\ new.pc = "lookup" /\ HasCapacity
      BY <2>1 DEF Generate, Calls
    <3> QED
      BY <3>1
  <2>2. ASSUME NEW ip \in Ips, NEW pk \in Pubkeys, NEW c \in handed, Tokens(h, ip, pk, c)
        PROVE  \E call \in Calls \cup {idle} : GoesOn(call)
    <3> DEFINE new == [pc |-> "tokens", ip |-> ip, pubkey |-> pk, challenge |-> c, saw |-> {}]
    <3>1. c \in Nat
      BY <1>0 DEF TypeOK, Indices
    <3>2. new \in Calls /\ Goto(h, new) /\ new.pc = "tokens" /\ new.challenge \in handed
      BY <2>2, <3>1 DEF Tokens, Calls
    <3> QED
      BY <3>2
  <2>3. ASSUME InvalidRequest(h) \/ TokensRefused(h) \/ Dropped(h)
        PROVE  \E call \in Calls \cup {idle} : GoesOn(call)
    <3>1. Goto(h, idle) /\ idle.pc = "idle"
      BY <2>3 DEF InvalidRequest, TokensRefused, Dropped, Done, idle
    <3> QED
      BY <3>1
  <2> QED
    BY <2>1, <2>2, <2>3 DEF Call
<1>3. QueueState'
  BY <1>1, <1>2, CallGoesOn DEF history
<1>4. handlers' \in [Handlers -> Calls \cup {idle}]
  BY <1>0, <1>2 DEF TypeOK, Goto
<1> QED
  BY <1>0, <1>1, <1>3, <1>4, NoToken DEF TypeOK, tokenVars, history, Indices

\* get_priority: the challenge found had been handed out before.
LEMMA LookupStep ==
    ASSUME IInv, NEW h \in Handlers, Lookup(h)
    PROVE  IInv'
<1>0. TypeOK /\ QueueInv
  BY DEF IInv, TokensNameTheirSigner
<1>1. handlers[h] \in Calls /\ handlers[h].pc = "lookup" /\ h \in Pending
  BY <1>0, CallType DEF Lookup, Pending
<1>2. UNCHANGED <<now, exit, challenges, sweepVars, made, spent, tokenVars>>
  BY DEF Lookup, tokenVars
<1>3. handed' = handed
  BY <1>0 DEF Lookup, Reusable, QueueInv
<1>4. PICK call \in Calls \cup {idle} :
        /\ Goto(h, call) /\ call.pc \in {"idle", "make"}
        /\ call.pc = "make" => call.saw = handed /\ ~Reusable(call)
  <2>1. CASE Reusable(handlers[h])
    BY <2>1 DEF Lookup, Done, idle
  <2>2. CASE ~Reusable(handlers[h])
    <3> DEFINE new == [handlers[h] EXCEPT !.pc = "make", !.saw = handed]
    <3>1. handed \subseteq Nat
      BY <1>0 DEF TypeOK, Indices
    <3>2. /\ Goto(h, new) /\ new \in Calls
          /\ new.pc = "make" /\ new.saw = handed /\ new.ip = handlers[h].ip
      BY <1>1, <2>2, <3>1 DEF Lookup, Calls
    <3>3. ~Reusable(new)
      BY <2>2, <3>2 DEF Reusable
    <3> QED
      BY <3>2, <3>3
  <2> QED
    BY <2>1, <2>2
<1>5. QueueState'
  BY <1>1, <1>2, <1>3, <1>4, CallGoesOn
<1>6. handlers' \in [Handlers -> Calls \cup {idle}]
  BY <1>0, <1>4 DEF TypeOK, Goto
<1> QED
  BY <1>0, <1>2, <1>3, <1>5, <1>6, NoToken DEF TypeOK, Indices

\* Tokens are issued: their claims are those of the challenge, which is for the pubkey
\* and the address of the call whose signature was verified.
LEMMA IssueStep ==
    ASSUME IInv, NEW h \in Handlers, Issue(h)
    PROVE  IInv'
<1>0. TypeOK /\ TokensNameTheirSigner /\ MadeInv /\ QueueInv /\ CallInv
  BY DEF IInv, TokensNameTheirSigner
<1> DEFINE ip == handlers[h].ip
           pk == handlers[h].pubkey
           c == challenges[ip]
           call == [handlers[h] EXCEPT !.pc = "remove", !.saw = handed]
<1>1. handlers[h] \in Calls /\ handlers[h].pc = "tokens" /\ handed \subseteq Nat
  BY <1>0, CallType DEF Issue, TypeOK, Indices
<1>2. UNCHANGED <<now, exit, challenges, sweepVars, made, handed, spent, admitted>> /\ Goto(h, call)
  BY DEF Issue
<1>3. /\ call \in Calls /\ call.pc = "remove" /\ call.saw = handed
      /\ call.challenge = handlers[h].challenge /\ call.ip = ip
  BY <1>1 DEF Calls
<1>4. /\ ip \in DOMAIN challenges /\ c \in Challenge /\ c.challenge = handlers[h].challenge
      /\ c.access_claims.client_pubkey = pk /\ c.access_claims.client_ip = ip
      /\ c.refresh_claims.client_pubkey = pk /\ c.refresh_claims.client_ip = ip
      /\ c.challenge \in handed /\ c = made[c.challenge] /\ <<pk, c.challenge>> \in Signatures
  <2>1. /\ ip \in DOMAIN challenges /\ c.access_claims.client_pubkey = pk
        /\ c.challenge = handlers[h].challenge /\ <<pk, c.challenge>> \in Signatures
    BY DEF Issue, Matches, Verifies
  <2>2. /\ c.challenge \in handed /\ c.challenge \in Indices(made)
        /\ c = made[c.challenge] /\ c.access_claims.client_ip = ip
    BY <1>0, <2>1 DEF QueueInv, TypeOK
  <2> QED
    BY <1>0, <2>1, <2>2 DEF MadeInv, TypeOK
<1> DEFINE at == Encoded(c.access_claims)
           rt == Encoded(c.refresh_claims)
<1>5. tokens' = tokens \cup {at, rt}
  BY DEF Issue
<1>6. /\ at \in Claims /\ at.client_pubkey = pk /\ at.client_ip = ip
      /\ rt \in Claims /\ rt.client_pubkey = pk /\ rt.client_ip = ip
  BY <1>4, EncodedType DEF Challenge
<1>7. SignedFor(pk, ip)
  BY <1>4 DEF SignedFor
<1> HIDE DEF ip, pk, c, call, at, rt
<1>8. QueueState' /\ handlers' \in [Handlers -> Calls \cup {idle}]
  <2>1. call.ip \in DOMAIN challenges /\ challenges[call.ip].challenge = call.challenge /\ call.challenge \in handed
    BY <1>3, <1>4 DEF c
  <2> QED
    BY <1>0, <1>2, <1>3, <2>1, CallGoesOn DEF TypeOK, Goto
<1>9. TypeOK'
  BY <1>0, <1>2, <1>5, <1>6, <1>8 DEF TypeOK, sweepVars, Indices
<1>10. TokensNameTheirSigner'
  <2>1. \A t \in tokens' : SignedFor(t.client_pubkey, t.client_ip)
    BY <1>0, <1>5, <1>6, <1>7 DEF TokensNameTheirSigner
  <2> QED
    BY <1>0, <1>2, <1>9, <2>1 DEF TokensNameTheirSigner, SignedFor
<1> QED
  BY <1>2, <1>8, <1>10 DEF IInv, QueueState, sweepVars

\* The rest of a call's steps.
LEMMA HandlerStepIInv ==
    ASSUME IInv, NEW h \in Handlers, HandlerStep(h)
    PROVE  IInv'
<1>0. TypeOK
  BY DEF IInv, TokensNameTheirSigner
<1>1. CASE Make(h)
  <2>1. UNCHANGED <<now, exit, challenges, sweepVars, handed, spent, tokenVars>>
    BY <1>1 DEF Make, tokenVars
  <2> QED
    BY <1>0, <1>1, <2>1, MakeStep, NoToken DEF TypeOK
<1>2. CASE Push(h)
  <2>1. UNCHANGED <<now, exit, made, sweepVars, spent, tokenVars>>
    BY <1>2 DEF Push, tokenVars
  <2> QED
    BY <1>0, <1>2, <2>1, PushStep, NoToken DEF TypeOK, Indices
<1>3. CASE Remove(h)
  <2>1. /\ UNCHANGED <<now, exit, made, handed, sweepVars, tokenVars>>
        /\ challenges' = Removed(handlers[h].ip) /\ Done(h)
        /\ handlers[h].pc = "remove" /\ spent' = spent \cup {handlers[h].challenge}
    BY <1>3 DEF Remove, tokenVars
  <2>2. handlers[h].ip \in Ips
    BY <1>0, <1>3, CallType DEF Remove, Calls
  <2>3. QueueState'
    BY <2>1, <2>2, EntryRemoved
  <2>4. /\ handlers' \in [Handlers -> Calls \cup {idle}]
        /\ challenges' \in [DOMAIN challenges' -> Challenge] /\ DOMAIN challenges' \subseteq Ips
    BY <1>0, <2>1 DEF TypeOK, Done, Goto, Removed
  <2>5. spent' \subseteq handed
    BY <1>0, <2>1 DEF TypeOK, IInv, CallInv
  <2> QED
    BY <1>0, <2>1, <2>3, <2>4, <2>5, NoToken DEF TypeOK, Indices
<1> QED
  BY <1>1, <1>2, <1>3, CallStep, LookupStep, IssueStep DEF HandlerStep

\* refresh_access_token and the interceptor copy the identity from a token.
LEMMA TokenStep ==
    ASSUME IInv, NEW t \in tokens, Refresh(t) \/ Intercept(t)
    PROVE  IInv'
<1>0. TypeOK /\ TokensNameTheirSigner /\ AccessTTL \in Nat
  BY AuthAssumption DEF IInv, TokensNameTheirSigner
<1>1. UNCHANGED <<now, exit, challenges, handlers, sweepVars, made, handed, spent>>
  BY DEF Refresh, Intercept
<1>2. QueueState'
  BY <1>0, <1>1, Elsewhere DEF TypeOK
<1>3. t \in Claims /\ SignedFor(t.client_pubkey, t.client_ip)
  BY <1>0 DEF TypeOK, TokensNameTheirSigner
<1>4. CASE Refresh(t)
  <2> DEFINE claims == [t EXCEPT !.expires_at = now + AccessTTL]
             new == Encoded(claims)
  <2>1. claims \in Claims /\ claims.client_ip = t.client_ip /\ claims.client_pubkey = t.client_pubkey
    BY <1>0, <1>3 DEF TypeOK, Claims
  <2>2. new \in Claims /\ new.client_ip = t.client_ip /\ new.client_pubkey = t.client_pubkey
    BY <2>1, EncodedType
  <2>3. tokens' = tokens \cup {new} /\ admitted' = admitted
    BY <1>4 DEF Refresh
  <2> HIDE DEF new
  <2>4. TypeOK'
    BY <1>0, <1>1, <2>2, <2>3 DEF TypeOK, sweepVars, Indices
  <2>5. \A u \in tokens' : SignedFor(u.client_pubkey, u.client_ip)
    BY <1>0, <1>3, <2>2, <2>3 DEF TokensNameTheirSigner
  <2>6. TokensNameTheirSigner'
    BY <1>0, <1>1, <2>3, <2>4, <2>5 DEF TokensNameTheirSigner, SignedFor
  <2> QED
    BY <1>1, <1>2, <2>6 DEF IInv, QueueState, sweepVars
<1>5. CASE Intercept(t)
  <2>1. admitted' = admitted \cup {t.client_pubkey} /\ tokens' = tokens
    BY <1>5 DEF Intercept
  <2>2. t.client_pubkey \in Pubkeys /\ t.client_ip \in Ips
    BY <1>3 DEF Claims
  <2>3. TypeOK'
    BY <1>0, <1>1, <2>1, <2>2 DEF TypeOK, sweepVars, Indices
  <2>4. \A pk \in admitted' : \E ip \in Ips : SignedFor(pk, ip)
    BY <1>0, <1>3, <2>1, <2>2 DEF TokensNameTheirSigner
  <2>5. TokensNameTheirSigner'
    BY <1>0, <1>1, <2>1, <2>3, <2>4 DEF TokensNameTheirSigner, SignedFor
  <2> QED
    BY <1>1, <1>2, <2>5 DEF IInv, QueueState, sweepVars
<1> QED
  BY <1>4, <1>5

\* The sweep removes entries under the mutex; its other steps, the exit flag and the
\* clock leave the queue alone.
LEMMA SweeperStep ==
    ASSUME IInv, Sweeper \/ SetExit \/ Clock
    PROVE  IInv'
<1>0. TypeOK /\ TokensNameTheirSigner /\ sweepStart <= now
  BY DEF IInv, TokensNameTheirSigner
<1>1. CASE SweepPop
  <2>1. PICK ip \in Ips : challenges' = Removed(ip)
    BY <1>0, <1>1 DEF SweepPop, Peek, TypeOK
  <2>2. UNCHANGED <<now, exit, handlers, made, handed, spent, sweepVars, tokenVars>>
    BY <1>1 DEF SweepPop, tokenVars, history
  <2>3. QueueState'
    BY <2>1, <2>2, EntryRemoved
  <2>4. challenges' \in [DOMAIN challenges' -> Challenge] /\ DOMAIN challenges' \subseteq Ips
    BY <1>0, <2>1 DEF TypeOK, Removed
  <2> QED
    BY <1>0, <2>2, <2>3, <2>4, NoToken DEF TypeOK, Indices
<1>2. CASE SweeperCheck \/ SweeperTick \/ SweepLock \/ SweepEnd \/ SetExit \/ Clock
  <2>1. UNCHANGED <<challenges, handlers, history>>
    BY <1>2 DEF SweeperCheck, SweeperTick, SweepLock, SweepEnd, SetExit, Clock
  <2>2. /\ now' \in Nat /\ now <= now' /\ exit' \in BOOLEAN
        /\ sweeper' \in {"check", "tick", "sweep", "pop", "done"}
        /\ nextTick' \in Nat /\ sweepStart' \in Nat /\ sweepStart' <= now'
    <3>1. now \in Nat /\ exit \in BOOLEAN /\ nextTick \in Nat /\ sweepStart \in Nat /\ SweepInterval \in Nat
          /\ sweeper \in {"check", "tick", "sweep", "pop", "done"}
      BY <1>0, AuthAssumption DEF TypeOK
    <3>2. CASE SweeperCheck \/ SweepEnd
      BY <1>0, <3>1, <3>2 DEF SweeperCheck, SweepEnd
    <3>3. CASE SweeperTick \/ SweepLock
      BY <1>0, <3>1, <3>3 DEF SweeperTick, SweepLock
    <3>4. CASE SetExit
      BY <1>0, <3>1, <3>4 DEF SetExit, sweepVars
    <3>5. CASE Clock
      BY <1>0, <3>1, <3>5 DEF Clock, sweepVars
    <3> QED
      BY <1>2, <3>2, <3>3, <3>4, <3>5
  <2>3. QueueState'
    BY <2>1, <2>2, Elsewhere DEF history
  <2>4. TypeOK'
    BY <1>0, <2>1, <2>2 DEF TypeOK, history, Indices
  <2>5. TokensNameTheirSigner'
    BY <1>0, <2>1, <2>4 DEF TokensNameTheirSigner, SignedFor, history
  <2> QED
    BY <2>2, <2>3, <2>5 DEF IInv, QueueState
<1> QED
  BY <1>1, <1>2 DEF Sweeper

\* Every step preserves the inductive invariant.
LEMMA NextIInv == IInv /\ [Next]_vars => IInv'
<1> SUFFICES ASSUME IInv, [Next]_vars PROVE IInv'
  OBVIOUS
<1>1. CASE UNCHANGED vars
  <2>1. QueueState'
    BY <1>1, Elsewhere DEF vars, history, IInv, TokensNameTheirSigner, TypeOK
  <2> QED
    <3>1. TypeOK /\ UNCHANGED <<tokenVars, now, exit, sweepVars, handlers, challenges, made, handed, spent>>
      BY <1>1 DEF vars, history, tokenVars, IInv, TokensNameTheirSigner
    <3> QED
      BY <2>1, <3>1, NoToken DEF TypeOK, Indices
<1> QED
  BY <1>1, CallStep, HandlerStepIInv, TokenStep, SweeperStep DEF Next

-----------------------------------------------------------------------------
(* The theorems.                                                           *)

\* The inductive invariant holds in every reachable state.
THEOREM Invariance == Spec => []IInv
  BY InitIInv, NextIInv, PTL DEF Spec

\* For any number of calls, addresses and identities, and whatever their holders sign: every
\* token, and every identity the interceptor lets through, is one whose holder signed a
\* challenge handed out for it (generate_auth_tokens, refresh_access_token, Interceptor::call).
THEOREM TokensAreSigned == Spec => []TokensNameTheirSigner
<1>1. IInv => TokensNameTheirSigner
  BY DEF IInv
<1> QED
  BY <1>1, Invariance, PTL

\* generate_auth_challenge replaces only challenges that have expired or that a call at
\* the same time handed out.
THEOREM ReplacementIsJustified == Spec => []ReplacesOnlyExpiredOrConcurrent
<1>1. IInv => ReplacesOnlyExpiredOrConcurrent
  BY DEF IInv
<1> QED
  BY <1>1, Invariance, PTL

\* generate_auth_tokens, which removes by address what it read some steps before, leaves no
\* challenge in the queue for which it has returned tokens, and removes no other challenge
\* than one that was handed out in the meantime.
THEOREM UsedChallengeIsGone == Spec => []RemovesWhatItUsed
<1>1. IInv => RemovesWhatItUsed
  BY DEF IInv
<1> QED
  BY <1>1, Invariance, PTL

\* The queue exceeds its capacity by less than the number of calls that may run at the
\* same time, because the test and the push are apart (generate_auth_challenge).
THEOREM QueueBound == Spec => []CapacityUpToConcurrency
<1>1. IInv => CapacityUpToConcurrency
  <2> SUFFICES ASSUME IInv PROVE CapacityUpToConcurrency
    OBVIOUS
  <2>1. Pending \in SUBSET Handlers
    BY DEF Pending
  <2>2. /\ Cardinality(Pending) \in Nat /\ Cardinality(DOMAIN challenges) \in Nat
        /\ Cardinality(Handlers) \in Nat /\ Capacity \in Nat
    BY <2>1, AuthAssumption, FS_Subset, FS_CardinalityType DEF IInv, RoomInv
  <2> QED
    BY <2>2 DEF IInv, RoomInv, CapacityUpToConcurrency
<1> QED
  BY <1>1, Invariance, PTL

\* remove_all_expired, which stops at the first entry that has not expired, leaves
\* nothing in the queue that had expired when it took the mutex.
THEOREM SweepIsComplete == Spec => SweepRemovesAllExpired
<1> DEFINE Complete == sweeper = "pop" /\ sweeper' # "pop" =>
                            \A ip \in DOMAIN challenges' : challenges'[ip].expires_at > sweepStart
<1>1. IInv /\ [Next]_vars => [Complete]_vars
  <2> SUFFICES ASSUME IInv, Next, sweeper = "pop", sweeper' # "pop"
               PROVE  \A ip \in DOMAIN challenges' : challenges'[ip].expires_at > sweepStart
    OBVIOUS
  <2>1. TypeOK /\ sweepStart <= now
    BY DEF IInv, TokensNameTheirSigner
  <2>2. SweepEnd
    BY DEF Next, Call, Generate, Tokens, HandlerStep, Lookup, Make, InvalidRequest, Push, TokensRefused, Issue,
           Remove, Dropped, Refresh, Intercept, Sweeper, SweeperCheck, SweeperTick, SweepLock, SweepPop, SetExit, Clock, sweepVars
  <2>3. \A ip \in DOMAIN challenges : challenges[ip].expires_at > now
    BY <2>1, <2>2, PeekProperties DEF SweepEnd, NothingExpired
  <2>4. \A ip \in DOMAIN challenges : challenges[ip].expires_at \in Nat
    BY <2>1 DEF TypeOK, Challenge
  <2> QED
    BY <2>1, <2>2, <2>3, <2>4 DEF SweepEnd, TypeOK
<1> QED
  BY <1>1, Invariance, PTL DEF Spec, SweepRemovesAllExpired
=============================================================================
