-------------------------------- MODULE Auth --------------------------------
(***************************************************************************)
(* Authentication of validators (src/relayer/auth): challenges per IP, the *)
(* tokens issued for them, the interceptor in front of the forwarder and   *)
(* the task that removes expired challenges.                               *)
(*                                                                         *)
(* A handler is one running call of the gRPC service.  AuthChallenges is   *)
(* a mutex around a priority queue keyed by IP; each of its methods takes  *)
(* the mutex anew, so a handler that calls two of them is several steps    *)
(* and others run in between.  Only remove_all_expired is more than one    *)
(* step under the mutex (it reads the clock for every entry).              *)
(*                                                                         *)
(* A challenge string is the number of its generation (nine random         *)
(* characters: taken to be unique).  A token is its claims: the code looks *)
(* at nothing else of it but the relayer's own signature, and accepts      *)
(* access and refresh tokens alike wherever it takes one.  Time is in      *)
(* ticks, TicksPerSecond of them to a second; the clock is taken to be     *)
(* monotonic.                                                              *)
(***************************************************************************)
EXTENDS Naturals, Sequences, FiniteSets

CONSTANTS
    Handlers,           \* calls that may run at the same time
    Ips,                \* client addresses
    Pubkeys,            \* validator identities
    Signatures,         \* the <<pubkey, challenge>> for which the holder of the key signs
    Capacity,           \* AUTH_CHALLENGES_CAPACITY
    ChallengeTTL,       \* CHALLENGE_TTL
    AccessTTL,          \* ACCESS_TOKEN_TTL
    RefreshTTL,         \* REFRESH_TOKEN_TTL
    SweepInterval,      \* CHALLENGE_EXPIRATION_SLEEP_INTERVAL
    TicksPerSecond,
    MaxTime,            \* bound: the clock stops here
    MaxChallenges       \* bound: challenges generated

ASSUME AuthAssumption ==
    /\ IsFiniteSet(Handlers) /\ Signatures \subseteq Pubkeys \X Nat
    /\ {Capacity, SweepInterval, TicksPerSecond} \subseteq Nat \ {0}
    /\ {ChallengeTTL, AccessTTL, RefreshTTL, MaxTime, MaxChallenges} \subseteq Nat

VARIABLES
    now,                \* Utc::now
    exit,               \* the process-wide exit flag
    challenges,         \* the queue: [ip |-> challenge]
    handlers,           \* where each handler is
    sweeper,            \* where the expiration task is; it holds the mutex at "pop"
    nextTick,           \* when its interval ticks next
    sweepStart,         \* history: when the last sweep took the mutex
    made,               \* history: the challenges generated
    handed,             \* history: those returned to a client
    spent,              \* history: those whose tokens were returned to a client
    tokens,             \* the claims of the tokens issued
    admitted            \* history: the identities the interceptor let through

history == <<made, handed, spent, tokens, admitted>>
sweepVars == <<sweeper, nextTick, sweepStart>>
vars == <<now, exit, challenges, handlers, sweepVars, history>>

Indices(s) == 1..Len(s)

Claims == [client_ip : Ips, client_pubkey : Pubkeys, expires_at : Nat]
Challenge == [challenge : Nat, access_claims : Claims, refresh_claims : Claims, expires_at : Nat]

\* A handler: the request's ip and pubkey, the challenge at stake, and (history)
\* the challenges that clients had been handed when it last read the queue.
Calls == [pc : {"lookup", "make", "push", "tokens", "remove"},
          ip : Ips, pubkey : Pubkeys, challenge : Nat, saw : SUBSET Nat]
idle == [pc |-> "idle"]

\* Type invariant.
TypeOK ==
    /\ now \in Nat /\ exit \in BOOLEAN
    /\ challenges \in [DOMAIN challenges -> Challenge] /\ DOMAIN challenges \subseteq Ips
    /\ handlers \in [Handlers -> Calls \cup {idle}]
    /\ sweeper \in {"check", "tick", "sweep", "pop", "done"}
    /\ nextTick \in Nat /\ sweepStart \in Nat
    /\ made \in Seq(Challenge)
    /\ handed \subseteq Indices(made) /\ spent \subseteq handed
    /\ tokens \subseteq Claims /\ admitted \subseteq Pubkeys

Init ==
    /\ now = 0 /\ exit = FALSE
    /\ challenges = [ip \in {} |-> 0]
    /\ handlers = [h \in Handlers |-> idle]
    /\ sweeper = "check" /\ nextTick = 0 /\ sweepStart = 0
    /\ made = <<>> /\ handed = {} /\ spent = {}
    /\ tokens = {} /\ admitted = {}

-----------------------------------------------------------------------------
(* AuthChallenges.                                                         *)

MutexFree == sweeper # "pop"

IsExpired(x) == x.expires_at <= now

\* KeyedPriorityQueue::push replaces the entry of the same key.
Pushed(ip, c) == [x \in DOMAIN challenges \cup {ip} |-> IF x = ip THEN c ELSE challenges[x]]

Removed(ip) == [x \in DOMAIN challenges \ {ip} |-> challenges[x]]

\* Mutant of Peek: the order is not reversed, the youngest comes first.
PeekYoungest ==
    {ip \in DOMAIN challenges : \A x \in DOMAIN challenges :
        challenges[x].expires_at <= challenges[ip].expires_at}

\* What peek may return: entries compare by expiry, the oldest comes first.
Peek ==
    {ip \in DOMAIN challenges : \A x \in DOMAIN challenges :
        challenges[ip].expires_at <= challenges[x].expires_at}

-----------------------------------------------------------------------------
(* generate_auth_challenge.                                                *)

Goto(h, call) == handlers' = [handlers EXCEPT ![h] = call]
Done(h) == Goto(h, idle)

\* Mutant of HasCapacity: off by one.
HasCapacityOffByOne == Cardinality(DOMAIN challenges) <= Capacity

HasCapacity == Cardinality(DOMAIN challenges) < Capacity

\* The call and its capacity test; at the capacity it is refused, which changes nothing.
Generate(h, ip, pk) ==
    /\ handlers[h] = idle /\ MutexFree
    /\ HasCapacity
    /\ Goto(h, [pc |-> "lookup", ip |-> ip, pubkey |-> pk, challenge |-> 0, saw |-> {}])
    /\ UNCHANGED <<now, exit, challenges, sweepVars, history>>

\* Mutant of Reusable: the challenge of another pubkey is not returned, but replaced.
ReusableByPubkey(call) ==
    /\ call.ip \in DOMAIN challenges /\ ~IsExpired(challenges[call.ip])
    /\ challenges[call.ip].access_claims.client_pubkey = call.pubkey

Reusable(call) == call.ip \in DOMAIN challenges /\ ~IsExpired(challenges[call.ip])

\* get_priority: a challenge of this ip that has not expired is returned again.
Lookup(h) ==
    /\ handlers[h].pc = "lookup" /\ MutexFree
    /\ IF Reusable(handlers[h])
       THEN Done(h) /\ handed' = handed \cup {challenges[handlers[h].ip].challenge}
       ELSE Goto(h, [handlers[h] EXCEPT !.pc = "make", !.saw = handed]) /\ UNCHANGED handed
    /\ UNCHANGED <<now, exit, challenges, sweepVars, made, spent, tokens, admitted>>

\* The role or the pubkey is not valid.
InvalidRequest(h) ==
    /\ handlers[h].pc = "make"
    /\ Done(h)
    /\ UNCHANGED <<now, exit, challenges, sweepVars, history>>

\* The challenge is made before the mutex is awaited.
Make(h) ==
    /\ handlers[h].pc = "make" /\ Len(made) < MaxChallenges
    /\ LET claims(ttl) == [client_ip |-> handlers[h].ip, client_pubkey |-> handlers[h].pubkey,
                           expires_at |-> now + ttl]
       IN made' = Append(made, [challenge |-> Len(made) + 1,
                                access_claims |-> claims(AccessTTL),
                                refresh_claims |-> claims(RefreshTTL),
                                expires_at |-> now + ChallengeTTL])
    /\ Goto(h, [handlers[h] EXCEPT !.pc = "push", !.challenge = Len(made) + 1])
    /\ UNCHANGED <<now, exit, challenges, sweepVars, handed, spent, tokens, admitted>>

Push(h) ==
    /\ handlers[h].pc = "push" /\ MutexFree
    /\ challenges' = Pushed(handlers[h].ip, made[handlers[h].challenge])
    /\ handed' = handed \cup {handlers[h].challenge}
    /\ Done(h)
    /\ UNCHANGED <<now, exit, sweepVars, made, spent, tokens, admitted>>

-----------------------------------------------------------------------------
(* generate_auth_tokens.                                                   *)

\* The claims as they come back from a token: expires_at_unix_ts has whole seconds.
Encoded(claims) ==
    [claims EXCEPT !.expires_at = (claims.expires_at \div TicksPerSecond) * TicksPerSecond]

\* The call: a client names a challenge that was handed out, to it or to another.
Tokens(h, ip, pk, c) ==
    /\ handlers[h] = idle
    /\ Goto(h, [pc |-> "tokens", ip |-> ip, pubkey |-> pk, challenge |-> c, saw |-> {}])
    /\ UNCHANGED <<now, exit, challenges, sweepVars, history>>

\* Mutant of Matches: the pubkey is not compared.
MatchesAnyPubkey(h) ==
    LET call == handlers[h] IN
    /\ call.ip \in DOMAIN challenges
    /\ challenges[call.ip].challenge = call.challenge

\* The ip has a challenge, made for this pubkey, and it is the one the client names.
Matches(h) ==
    LET call == handlers[h] IN
    /\ call.ip \in DOMAIN challenges
    /\ challenges[call.ip].access_claims.client_pubkey = call.pubkey
    /\ challenges[call.ip].challenge = call.challenge

\* The signature is one of the pubkey over the challenge that the client names.
Verifies(h) == <<handlers[h].pubkey, handlers[h].challenge>> \in Signatures

\* No or another challenge, or the signature does not verify.
TokensRefused(h) ==
    /\ handlers[h].pc = "tokens" /\ MutexFree
    /\ Done(h)
    /\ UNCHANGED <<now, exit, challenges, sweepVars, history>>

\* get_priority, the comparisons, the signature and both tokens.
Issue(h) ==
    /\ handlers[h].pc = "tokens" /\ MutexFree
    /\ Matches(h) /\ Verifies(h)
    /\ LET c == challenges[handlers[h].ip]
       IN tokens' = tokens \cup {Encoded(c.access_claims), Encoded(c.refresh_claims)}
    /\ Goto(h, [handlers[h] EXCEPT !.pc = "remove", !.saw = handed])
    /\ UNCHANGED <<now, exit, challenges, sweepVars, made, handed, spent, admitted>>

\* Mutant of Remove: the tokens are returned and the challenge is left in the queue.
RemoveNothing(h) ==
    /\ handlers[h].pc = "remove" /\ MutexFree
    /\ spent' = spent \cup {handlers[h].challenge}
    /\ Done(h)
    /\ UNCHANGED <<now, exit, challenges, sweepVars, made, handed, tokens, admitted>>

\* The challenge is removed by ip, whatever it is by now, and the tokens returned.
Remove(h) ==
    /\ handlers[h].pc = "remove" /\ MutexFree
    /\ challenges' = Removed(handlers[h].ip)
    /\ spent' = spent \cup {handlers[h].challenge}
    /\ Done(h)
    /\ UNCHANGED <<now, exit, sweepVars, made, handed, tokens, admitted>>

\* The client goes away and its call is dropped where it waits for the mutex.  Before it has
\* issued tokens this is like a refusal.
Dropped(h) ==
    /\ handlers[h].pc = "remove"
    /\ Done(h)
    /\ UNCHANGED <<now, exit, challenges, sweepVars, history>>

-----------------------------------------------------------------------------
(* refresh_access_token and the interceptor.                               *)

\* A client passes a token that has not expired, of either kind, and gets an access token.
Refresh(t) ==
    /\ ~IsExpired(t)
    /\ tokens' = tokens \cup {Encoded([t EXCEPT !.expires_at = now + AccessTTL])}
    /\ UNCHANGED <<now, exit, challenges, handlers, sweepVars, made, handed, spent, admitted>>

\* Interceptor::call takes the identity from the claims of any token.
Intercept(t) ==
    /\ admitted' = admitted \cup {t.client_pubkey}
    /\ UNCHANGED <<now, exit, challenges, handlers, sweepVars, made, handed, spent, tokens>>

-----------------------------------------------------------------------------
(* The expiration task.                                                    *)

SweeperCheck ==
    /\ sweeper = "check"
    /\ sweeper' = IF exit THEN "done" ELSE "tick"
    /\ UNCHANGED <<now, exit, challenges, handlers, nextTick, sweepStart, history>>

\* Mutant of Ticks: the interval never fires again.
TicksOnce == now = 0 /\ nextTick = 0

Ticks == nextTick <= now

\* interval.tick(): at once the first time; missed ticks are made up for.
SweeperTick ==
    /\ sweeper = "tick" /\ Ticks
    /\ sweeper' = "sweep" /\ nextTick' = nextTick + SweepInterval
    /\ UNCHANGED <<now, exit, challenges, handlers, sweepStart, history>>

SweepLock ==
    /\ sweeper = "sweep"
    /\ sweeper' = "pop" /\ sweepStart' = now
    /\ UNCHANGED <<now, exit, challenges, handlers, nextTick, history>>

SweepPop ==
    /\ sweeper = "pop"
    /\ \E ip \in Peek : IsExpired(challenges[ip]) /\ challenges' = Removed(ip)
    /\ UNCHANGED <<now, exit, handlers, sweepVars, history>>

\* Mutant of NothingExpired: the loop goes on while there is an entry.
NothingExpiredWhenEmpty == DOMAIN challenges = {}

NothingExpired == Peek = {} \/ \E ip \in Peek : ~IsExpired(challenges[ip])

\* The queue is empty or what peek returned has not expired.
SweepEnd ==
    /\ sweeper = "pop"
    /\ NothingExpired
    /\ sweeper' = "check"
    /\ UNCHANGED <<now, exit, challenges, handlers, nextTick, sweepStart, history>>

SetExit ==
    /\ ~exit /\ exit' = TRUE
    /\ UNCHANGED <<now, challenges, handlers, sweepVars, history>>

Clock ==
    /\ now < MaxTime /\ now' = now + 1
    /\ UNCHANGED <<exit, challenges, handlers, sweepVars, history>>

HandlerStep(h) ==
    \/ Lookup(h) \/ Make(h) \/ InvalidRequest(h) \/ Push(h)
    \/ TokensRefused(h) \/ Issue(h) \/ Remove(h)

Call(h) ==
    \E ip \in Ips, pk \in Pubkeys :
        Generate(h, ip, pk) \/ \E c \in handed : Tokens(h, ip, pk, c)

Sweeper == SweeperCheck \/ SweeperTick \/ SweepLock \/ SweepPop \/ SweepEnd

Next ==
    \/ \E h \in Handlers : Call(h) \/ HandlerStep(h) \/ Dropped(h)
    \/ \E t \in tokens : Refresh(t) \/ Intercept(t)
    \/ Sweeper \/ SetExit \/ Clock

Spec == Init /\ [][Next]_vars

\* The runtime polls every ready task; tokio's mutex is fair, so a handler waiting
\* for it gets it although others keep taking it.
Fairness ==
    /\ \A h \in Handlers : SF_vars(HandlerStep(h))
    /\ WF_vars(Sweeper) /\ WF_vars(Clock)

FairSpec == Spec /\ Fairness

-----------------------------------------------------------------------------
(* Properties.                                                             *)

\* The capacity test and the push are apart, so calls running at the same time
\* may all pass the test; the queue exceeds AUTH_CHALLENGES_CAPACITY by no more
\* than the other calls then running.
CapacityUpToConcurrency ==
    Cardinality(DOMAIN challenges) <= Capacity + Cardinality(Handlers) - 1

\* generate_auth_challenge replaces a challenge only when it has expired or was
\* handed out after this call looked for one: a client that calls again gets its
\* challenge back, whatever calls of other clients do.
ReplacesOnlyExpiredOrConcurrent ==
    \A h \in Handlers :
        handlers[h].pc \in {"make", "push"} /\ handlers[h].ip \in DOMAIN challenges
            => LET c == challenges[handlers[h].ip]
               IN IsExpired(c) \/ c.challenge \notin handlers[h].saw

\* The holder of the key signed a challenge that was handed out for it and for the address.
SignedFor(pk, ip) ==
    \E c \in handed :
        /\ made[c].access_claims.client_pubkey = pk /\ made[c].access_claims.client_ip = ip
        /\ <<pk, c>> \in Signatures

\* Every token, issued or renewed, names an identity whose holder signed a challenge that was
\* handed out for this identity and this address, and so does every identity the interceptor
\* lets through, although challenges are replaced, expire and are removed around the call.
TokensNameTheirSigner ==
    /\ TypeOK
    /\ \A t \in tokens : SignedFor(t.client_pubkey, t.client_ip)
    /\ \A pk \in admitted : \E ip \in Ips : SignedFor(pk, ip)

\* When generate_auth_tokens has returned tokens for a challenge, it is out of the queue for
\* good and no later call gets tokens for it; and what the call removes, by address and some
\* steps after it read it, is this challenge or one that was handed out in between.
RemovesWhatItUsed ==
    /\ \A ip \in DOMAIN challenges : challenges[ip].challenge \notin spent
    /\ \A h \in Handlers :
        handlers[h].pc = "remove" /\ handlers[h].ip \in DOMAIN challenges
            => challenges[handlers[h].ip].challenge \notin handlers[h].saw \ {handlers[h].challenge}

\* remove_all_expired stops at the first entry that is not expired, and still
\* leaves nothing that had expired when it took the mutex: the queue is ordered
\* by expiry.
SweepRemovesAllExpired ==
    [][sweeper = "pop" /\ sweeper' # "pop" =>
        \A ip \in DOMAIN challenges' : challenges'[ip].expires_at > sweepStart]_vars

\* Every call is answered, although the mutex is shared with all the others and
\* with the expiration task.
EveryCallAnswered == \A h \in Handlers : (handlers[h] # idle) ~> (handlers[h] = idle)

\* A challenge that has expired by the next tick of the interval leaves the queue,
\* unless the process is stopping.
ExpiredChallengeRemoved ==
    \A n \in 1..MaxChallenges :
        (\E ip \in DOMAIN challenges : challenges[ip].challenge = n
                /\ challenges[ip].expires_at <= nextTick /\ nextTick <= MaxTime)
            ~> (exit \/ \A ip \in DOMAIN challenges : challenges[ip].challenge # n)

\* What the comment on auth_challenges says (service.rs:40): one challenge per IP.
\* No client address has been handed two challenges that are both unexpired and unused.
OneChallengePerIp ==
    \A a, b \in handed \ spent :
        made[a].access_claims.client_ip = made[b].access_claims.client_ip
        /\ ~IsExpired(made[a]) /\ ~IsExpired(made[b]) => a = b
=============================================================================
