------------------------------ MODULE KeyStore ------------------------------
(***************************************************************************)
(* The files of the token keys (load_or_generate_keys in                   *)
(* src/relayer/mod.rs).  A key pair is a number; a file is absent, torn    *)
(* (created and not wholly written) or holds a key.  fs::write creates the *)
(* file and writes it; the process may be killed in between, and each call *)
(* on the file system may fail, on which the code panics.                  *)
(***************************************************************************)
EXTENDS Naturals

CONSTANTS
    Absent, Torn,       \* a file that is not there, and one that was created and not wholly written
    MaxKeys             \* bound: key pairs generated

ASSUME KeyStoreAssumption == MaxKeys \in Nat /\ Absent # Torn /\ {Absent, Torn} \cap 1..MaxKeys = {}

VARIABLES
    signing, verifying, \* the two files
    step,               \* where load_or_generate_keys is
    private, public,    \* what it has read
    fault,              \* a call on the file system failed in this start
    keys,               \* key pairs generated so far
    rotated             \* history: the verifying key was left behind when the signing key was removed

fileVars == <<signing, verifying, keys, rotated>>
loadVars == <<step, private, public, fault>>
keyVars == <<fileVars, loadVars>>

File == {Absent, Torn} \cup 1..MaxKeys

KeyTypeOK ==
    /\ {signing, verifying, private, public} \subseteq File
    /\ step \in {"idle", "signing", "writeSigning", "verifying", "writeVerifying", "parse", "loaded", "failed"}
    /\ keys \in 0..MaxKeys /\ {rotated, fault} \subseteq BOOLEAN

KeyInit ==
    /\ signing = Absent /\ verifying = Absent /\ keys = 0 /\ rotated = FALSE
    /\ step = "idle" /\ private = Absent /\ public = Absent /\ fault = FALSE

\* The process starts to load its keys, or is gone with all it had read.
Load(where) == step' = where /\ private' = Absent /\ public' = Absent /\ fault' = FALSE

\* A call on the file system fails, and the code panics.
Fault == step' = "failed" /\ fault' = TRUE /\ UNCHANGED <<keys, rotated, private, public>>

Reusable == signing # Absent

\* The file is read, or made and created; or it cannot be read, or there is no directory
\* for it, no key to write or no file to open.
LoadSigning ==
    /\ step = "signing"
    /\ \/ /\ Reusable /\ private' = signing
          /\ step' = "verifying" /\ UNCHANGED <<fileVars, public, fault>>
       \/ /\ ~Reusable /\ keys < MaxKeys
          /\ signing' = Torn /\ keys' = keys + 1
          /\ step' = "writeSigning" /\ UNCHANGED <<verifying, rotated, private, public, fault>>
       \/ Fault /\ UNCHANGED <<signing, verifying>>

\* What is in a file when fs::write fails, or what follows it: the permissions, the reading.
WriteFails(key) == {Torn, key}

WriteSigning ==
    /\ step = "writeSigning"
    /\ \/ /\ signing' = keys /\ private' = keys
          /\ step' = "verifying" /\ UNCHANGED <<verifying, keys, rotated, public, fault>>
       \/ Fault /\ signing' \in WriteFails(keys) /\ UNCHANGED verifying

\* Mutant of Derivable: the verifying key has to be supplied.
DerivableNever(key) == FALSE

Derivable(key) == key # Torn

\* A public key is derived only if there is no file, and not from a torn private key.
LoadVerifying ==
    /\ step = "verifying"
    /\ \/ /\ verifying # Absent /\ public' = verifying
          /\ step' = "parse" /\ UNCHANGED <<fileVars, private, fault>>
       \/ /\ verifying = Absent /\ ~Derivable(private)
          /\ step' = "failed" /\ UNCHANGED <<fileVars, private, public, fault>>
       \/ /\ verifying = Absent /\ Derivable(private)
          /\ verifying' = Torn
          /\ step' = "writeVerifying" /\ UNCHANGED <<signing, keys, rotated, private, public, fault>>
       \/ Fault /\ UNCHANGED <<signing, verifying>>

PublicKey(key) == key

WriteVerifying ==
    /\ step = "writeVerifying"
    /\ \/ /\ verifying' = PublicKey(private) /\ public' = PublicKey(private)
          /\ step' = "parse" /\ UNCHANGED <<signing, keys, rotated, private, fault>>
       \/ Fault /\ verifying' \in WriteFails(PublicKey(private)) /\ UNCHANGED signing

\* Relayer::new parses both, and panics if it cannot.
Parse ==
    /\ step = "parse"
    /\ step' = IF Torn \in {private, public} THEN "failed" ELSE "loaded"
    /\ UNCHANGED <<fileVars, private, public, fault>>

LoadStep == LoadSigning \/ WriteSigning \/ LoadVerifying \/ WriteVerifying \/ Parse

\* An operator removes files while the relayer is down.
RemoveFiles(files) ==
    /\ signing' = IF "signing" \in files THEN Absent ELSE signing
    /\ verifying' = IF "verifying" \in files THEN Absent ELSE verifying
    /\ rotated' = (verifying' # Absent /\ (rotated \/ signing' = Absent))
    /\ UNCHANGED <<keys, loadVars>>
=============================================================================
