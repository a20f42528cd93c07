------------------------------ MODULE FilterSet ------------------------------
(***************************************************************************)
(* The set of suppressed signatures of src/proxy/mod.rs (struct FilterSet).*)
(* `map' is the HashMap from signature to the instant of its last insert,  *)
(* guarded by a mutex; `len' is the atomic copy of its size that is_empty  *)
(* reads WITHOUT the mutex.  An operation that changes the map is two      *)
(* steps here: lock and change the map, then store `len' and unlock.       *)
(* Another thread may read `len' between the two.                          *)
(*                                                                         *)
(* `now' is the monotonic clock (Instant::now), in ticks.                  *)
(***************************************************************************)
EXTENDS Naturals, FiniteSets

CONSTANTS
    Signatures,     \* first signatures of transactions ([u8; 64])
    NoSig,          \* first_signature's None
    TTL,            \* FilterSet::TTL
    MaxTime         \* bound: the clock stops here

ASSUME NoSigAssumption == NoSig \notin Signatures
ASSUME TTLAssumption == TTL \in Nat \ {0}
ASSUME MaxTimeAssumption == MaxTime \in Nat

VARIABLES
    now,            \* the clock
    map,            \* HashMap<signature, Instant>
    len,            \* AtomicUsize
    lock,           \* holder of the mutex, or "free"
    inserting,      \* insert's argument and instant while it holds the mutex
    published       \* history: for each signature with a completed insert, the instant
                    \* the last one stored (at) and the time it completed (since)

filterVars == <<map, len, lock, inserting, published>>

\* HashMap::insert.
Put(f, k, v) == [x \in DOMAIN f \cup {k} |-> IF x = k THEN v ELSE f[x]]

Insertion == [at : Nat, since : Nat]
notInserting == [sig |-> NoSig, at |-> 0]

FilterTypeOK ==
    /\ now \in Nat
    /\ map \in [DOMAIN map -> Nat] /\ DOMAIN map \subseteq Signatures
    /\ len \in Nat
    /\ lock \in {"free", "mirror", "relayer"}
    /\ inserting \in [sig : Signatures \cup {NoSig}, at : Nat]
    /\ published \in [DOMAIN published -> Insertion]
    /\ DOMAIN published \subseteq Signatures

FilterInit ==
    /\ now = 0
    /\ map = [s \in {} |-> 0]
    /\ len = 0
    /\ lock = "free"
    /\ inserting = notInserting
    /\ published = [s \in {} |-> 0]

-----------------------------------------------------------------------------
\* is_empty: a relaxed load of `len', no lock.
IsEmpty == len = 0

\* insert, first half: take the mutex, HashMap::insert (a later insert of the
\* same signature overwrites the instant).
InsertEntry(s) ==
    /\ lock = "free"
    /\ lock' = "mirror"
    /\ map' = Put(map, s, now)
    /\ inserting' = [sig |-> s, at |-> now]
    /\ UNCHANGED <<len, published>>

\* Mutant of LenAfterInsert: len.fetch_add(1), which counts a repeated insert twice.
LenAfterInsertCounts == len + 1

LenAfterInsert == Cardinality(DOMAIN map)

\* insert, second half: store the size, release the mutex.
InsertPublish ==
    /\ lock = "mirror"
    /\ len' = LenAfterInsert
    /\ lock' = "free"
    /\ inserting' = notInserting
    /\ published' = Put(published, inserting.sig, [at |-> inserting.at, since |-> now])
    /\ UNCHANGED map

\* sweep past its is_empty test, first half: take the mutex and retain the
\* entries with elapsed() < TTL.
SweepRetain(t) ==
    /\ lock = "free"
    /\ lock' = t
    /\ map' = [s \in {x \in DOMAIN map : now - map[x] < TTL} |-> map[s]]
    /\ UNCHANGED <<len, inserting, published>>

\* sweep, second half: store the size, release the mutex.
SweepPublish(t) ==
    /\ lock = t
    /\ len' = Cardinality(DOMAIN map)
    /\ lock' = "free"
    /\ UNCHANGED <<map, inserting, published>>

\* The keys a caller of locked() looks signatures up in.
Blocked == DOMAIN map

Tick ==
    /\ now < MaxTime
    /\ now' = now + 1

\* History: the signatures whose last completed insert is younger than TTL.
Fresh == {s \in DOMAIN published : now < published[s].at + TTL}
=============================================================================
