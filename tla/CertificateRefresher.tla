-------------------------- MODULE CertificateRefresher --------------------------
(***************************************************************************)
(* The first party's certificate: a goroutine that pulls it from Key Vault *)
(* every hour, and the goroutines that build credentials from the key and  *)
(* the certificates it holds, under a sync.RWMutex.                        *)
(*                                                                         *)
(* A key and its certificates are known by the version of the secret they  *)
(* came from; 0 is nil.  A version is a list of PEM blocks, and need not   *)
(* be one that a credential can be built from.                             *)
(***************************************************************************)
EXTENDS Naturals, SequencesExt

CONSTANTS
    Readers,     \* the goroutines that call GetCertificates
    MaxVersion,  \* bound on the versions of the secret
    MaxFaults,   \* bound on failed pulls
    Secrets      \* the lists of PEM blocks a version may be

ASSUME BoundsAreNat == MaxVersion \in Nat \ {0} /\ MaxFaults \in Nat

VARIABLES
    current,    \* the version Key Vault serves
    secret,     \* its PEM blocks
    key, certs, \* what the refresher holds
    waiting,    \* Lock has been called and has not returned
    writing,    \* the write lock is held
    reading,    \* the goroutines that hold the read lock
    started,    \* Start has returned nil
    pc,         \* where the refresher stands
    pulled,     \* the version the pull under way has returned
    tick,       \* the ticker's channel, which holds one tick
    canceled,   \* the context is done
    rpc,        \* where each reader stands
    pair,       \* the key and certificates each reader has got, last and now
    faults

lock == <<waiting, writing, reading>>
refresher == <<started, pc, pulled>>
vault == <<current, secret>>
vars == <<vault, key, certs, lock, refresher, tick, canceled, rpc, pair, faults>>

-----------------------------------------------------------------------------
Version == 0..MaxVersion
None == [key |-> 0, certs |-> 0]

TypeOK ==
    /\ current \in 1..MaxVersion
    /\ key \in Version /\ certs \in Version
    /\ waiting \in BOOLEAN /\ writing \in BOOLEAN
    /\ reading \subseteq Readers
    /\ ~(waiting /\ writing) /\ (writing => reading = {})
    /\ pc \in {"start", "select", "pull", "lock", "key", "certs", "exit", "returned"}
    /\ started \in BOOLEAN
    /\ pulled \in [key : Version, certs : Version]
    /\ secret \in Secrets
    /\ tick \in BOOLEAN /\ canceled \in BOOLEAN
    /\ rpc \in [Readers -> {"idle", "key", "certs", "unlock"}]
    /\ pair \in [Readers -> [last : Version, key : Version, certs : Version]]
    /\ faults \in 0..MaxFaults

Init ==
    /\ current = 1 /\ secret \in Secrets
    /\ key = 0 /\ certs = 0
    /\ waiting = FALSE /\ writing = FALSE /\ reading = {}
    /\ started = FALSE /\ pc = "start" /\ pulled = None
    /\ tick = FALSE /\ canceled = FALSE
    /\ rpc = [r \in Readers |-> "idle"]
    /\ pair = [r \in Readers |-> [last |-> 0, key |-> 0, certs |-> 0]]
    /\ faults = 0

-----------------------------------------------------------------------------
(* The refresher.                                                          *)

\* utilpem.Parse: every block must be a certificate or an RSA key, in either
\* wrapping.  What it returns then is the last of the keys and all of the
\* certificates.
KeyBlocks == {"RSA PRIVATE KEY", "PRIVATE KEY"}
Parses(blocks) == ToSet(blocks) \subseteq KeyBlocks \cup {"CERTIFICATE"}
Parse(blocks) ==
    [key |-> IF ToSet(blocks) \cap KeyBlocks # {} THEN current ELSE 0,
     certs |-> IF "CERTIFICATE" \in ToSet(blocks) THEN current ELSE 0]

\* What GetCertificateSecret makes sure of.  Mutated: that there is a key.
HasKey(parsed) == parsed.key # 0
HasBoth(parsed) == parsed.key # 0 /\ parsed.certs # 0

GetCertificateSecret == Parses(secret) /\ HasBoth(Parse(secret))

\* Key Vault answers with the latest version, which is as it should be.
PullSucceeds ==
    /\ pc \in {"start", "pull"}
    /\ ~canceled
    /\ GetCertificateSecret
    /\ pulled' = Parse(secret)
    /\ pc' = "lock"
    /\ waiting' = TRUE
    /\ UNCHANGED <<vault, key, certs, writing, reading, started, tick, canceled,
                   rpc, pair, faults>>

\* What the loop does about an error.  Mutated: it returns it; it stores the
\* nil key and certificates that came with it.
GiveUp == "exit"
StoreAnyway == "lock"
GoOn == "select"

\* The pull fails, or the secret cannot be parsed or lacks a key or certificate: Start
\* returns the error and the program exits, the loop logs it and goes on.
PullFails ==
    /\ pc \in {"start", "pull"}
    /\ \/ (canceled \/ ~GetCertificateSecret) /\ UNCHANGED faults
       \/ faults < MaxFaults /\ faults' = faults + 1
    /\ pc' = IF pc = "start" THEN "returned" ELSE GoOn
    /\ pulled' = None
    /\ UNCHANGED <<vault, key, certs, lock, started, tick, canceled, rpc, pair>>

\* Lock waits for the readers that are in and keeps others out.  Mutated: it
\* only waits for other writers.
NoWriter == ~writing
MayWrite == ~writing /\ reading = {}

Lock ==
    /\ pc = "lock"
    /\ MayWrite
    /\ waiting' = FALSE /\ writing' = TRUE
    /\ pc' = "key"
    /\ UNCHANGED <<vault, key, certs, reading, started, pulled, tick, canceled, rpc, pair, faults>>

WriteKey ==
    /\ pc = "key"
    /\ key' = pulled.key
    /\ pc' = "certs"
    /\ UNCHANGED <<vault, certs, lock, started, pulled, tick, canceled, rpc, pair, faults>>

\* The assignment of certs and the deferred Unlock.
WriteCertsAndUnlock ==
    /\ pc = "certs"
    /\ certs' = pulled.certs
    /\ writing' = FALSE
    /\ pc' = "select" /\ started' = TRUE
    /\ UNCHANGED <<vault, key, waiting, reading, pulled, tick, canceled, rpc, pair, faults>>

\* The select picks among what is ready.
TakeTick ==
    /\ pc = "select" /\ tick
    /\ tick' = FALSE
    /\ pc' = "pull"
    /\ UNCHANGED <<vault, key, certs, lock, started, pulled, canceled, rpc, pair, faults>>

Exit ==
    /\ pc = "select" /\ canceled
    /\ pc' = "exit"
    /\ UNCHANGED <<vault, key, certs, lock, started, pulled, tick, canceled, rpc, pair, faults>>

-----------------------------------------------------------------------------
(* The readers: main and whatever else builds a credential, once Start has *)
(* returned nil.                                                           *)

\* RLock.  Mutated: GetCertificates does without it.
Regardless == TRUE
MayRead == ~writing /\ ~waiting

RLock(r) ==
    /\ rpc[r] = "idle"
    /\ started
    /\ MayRead
    /\ reading' = reading \cup {r}
    /\ rpc' = [rpc EXCEPT ![r] = "key"]
    /\ pair' = [pair EXCEPT ![r].last = pair[r].key]
    /\ UNCHANGED <<vault, key, certs, waiting, writing, refresher, tick, canceled, faults>>

ReadKey(r) ==
    /\ rpc[r] = "key"
    /\ rpc' = [rpc EXCEPT ![r] = "certs"]
    /\ pair' = [pair EXCEPT ![r].key = key]
    /\ UNCHANGED <<vault, key, certs, lock, refresher, tick, canceled, faults>>

ReadCerts(r) ==
    /\ rpc[r] = "certs"
    /\ rpc' = [rpc EXCEPT ![r] = "unlock"]
    /\ pair' = [pair EXCEPT ![r].certs = certs]
    /\ UNCHANGED <<vault, key, certs, lock, refresher, tick, canceled, faults>>

\* The deferred RUnlock; a credential is built from the pair.
RUnlock(r) ==
    /\ rpc[r] = "unlock"
    /\ rpc' = [rpc EXCEPT ![r] = "idle"]
    /\ reading' = reading \ {r}
    /\ UNCHANGED <<vault, key, certs, waiting, writing, refresher, tick, canceled,
                   pair, faults>>

-----------------------------------------------------------------------------
(* The clock, Key Vault and the caller's context.                          *)

\* A tick that finds the channel full is dropped.
Tick ==
    /\ started /\ pc # "exit"
    /\ ~tick
    /\ tick' = TRUE
    /\ UNCHANGED <<vault, key, certs, lock, refresher, canceled, rpc, pair, faults>>

\* The certificate is renewed, or the secret is set to something else.
Renew ==
    /\ current < MaxVersion
    /\ current' = current + 1
    /\ secret' \in Secrets
    /\ UNCHANGED <<key, certs, lock, refresher, tick, canceled, rpc, pair, faults>>

Cancel ==
    /\ ~canceled
    /\ canceled' = TRUE
    /\ UNCHANGED <<vault, key, certs, lock, refresher, tick, rpc, pair, faults>>

Refresh ==
    \/ PullSucceeds \/ PullFails \/ Lock \/ WriteKey \/ WriteCertsAndUnlock
    \/ TakeTick \/ Exit

Leave(r) == ReadKey(r) \/ ReadCerts(r) \/ RUnlock(r)

Next ==
    \/ Refresh
    \/ \E r \in Readers : RLock(r) \/ Leave(r)
    \/ Tick \/ Renew \/ Cancel

Spec == Init /\ [][Next]_vars

\* The refresher and a reader that is in are scheduled; the ticker ticks.
FairSpec ==
    /\ Spec
    /\ WF_vars(Refresh) /\ WF_vars(Tick)
    /\ \A r \in Readers : WF_vars(Leave(r))

-----------------------------------------------------------------------------
(* Properties.                                                             *)

\* The key and the certificates a credential is built from belong together and
\* are not nil, whatever the refresher does and the secret is set to meanwhile;
\* and they are never older than those of an earlier credential, or newer than
\* what Key Vault has: a pull that fails leaves what the last one stored.
PairsBelong ==
    \A r \in Readers : rpc[r] = "unlock" =>
        /\ pair[r].key = pair[r].certs /\ pair[r].key # 0
        /\ pair[r].last <= pair[r].key /\ pair[r].key <= current

\* Once the certificate is renewed for the last time the refresher comes to
\* hold it, unless it cannot be parsed, the program is stopped or could not
\* start: failed pulls and versions that are no certificate only
\* delay it, and readers do not keep it out for ever.
CatchesUp == <>(canceled \/ pc = "returned" \/ (key = MaxVersion /\ certs = MaxVersion))
             \/ <>[](current < MaxVersion \/ ~GetCertificateSecret)

================================================================================
