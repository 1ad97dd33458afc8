---------------------- MODULE CertificateRefresher_proofs ----------------------
(***************************************************************************)
(* Theorems about CertificateRefresher, for any number of goroutines,      *)
(* versions of the secret and failed pulls, and whatever the secret may    *)
(* be set to.                                                              *)
(***************************************************************************)
EXTENDS CertificateRefresher, TLAPS

(* What Parse returns is nil or of the version that is served.             *)
LEMMA ParseType ==
  ASSUME NEW blocks, current \in 1..MaxVersion
  PROVE  Parse(blocks) \in [key : Version, certs : Version]
<1>1. current \in Version /\ 0 \in Version
  BY BoundsAreNat DEF Version
<1>2. QED
  BY <1>1 DEF Parse

-----------------------------------------------------------------------------
(* The pairs credentials are built from.                                   *)

\* The write lock is held while the two fields are assigned and excludes the
\* goroutines that are between RLock and RUnlock.
LockInv ==
    /\ writing <=> (pc \in {"key", "certs"})
    /\ waiting <=> (pc = "lock")
    /\ reading = {r \in Readers : rpc[r] # "idle"}

\* What is held and what is about to be stored is of one version, of one that
\* Key Vault has served, and not older than what it replaces.  Only between the
\* two assignments do the fields differ.
StoreInv ==
    /\ pc # "certs" => key = certs
    /\ pc = "certs" => key = pulled.key
    /\ key <= current
    /\ pc \in {"lock", "key", "certs"} =>
         /\ pulled.key = pulled.certs /\ pulled.key # 0
         /\ key <= pulled.key /\ pulled.key <= current
    /\ pc \in {"select", "pull", "exit"} => started
    /\ started => key # 0

\* What a goroutine has read is never newer than what is held, and is what is
\* held while the goroutine is inside.
ReadInv ==
    \A r \in Readers :
        /\ pair[r].key <= key
        /\ rpc[r] # "idle" => pair[r].last <= key /\ key # 0
        /\ rpc[r] \in {"certs", "unlock"} => pair[r].key = key
        /\ rpc[r] = "unlock" => pair[r].certs = key

PairInv == LockInv /\ StoreInv /\ ReadInv

(* The initial state is typed.                                             *)
LEMMA TypeInit == Init => TypeOK
<1> SUFFICES ASSUME Init PROVE TypeOK
  OBVIOUS
<1>1. waiting \in BOOLEAN /\ writing \in BOOLEAN /\ started \in BOOLEAN
      /\ tick \in BOOLEAN /\ canceled \in BOOLEAN
  BY DEF Init
<1>2. ~(waiting /\ writing) /\ (writing => reading = {})
  BY DEF Init
<1>3. /\ current \in 1..MaxVersion /\ key \in Version /\ certs \in Version
      /\ faults \in 0..MaxFaults /\ pulled \in [key : Version, certs : Version]
  BY BoundsAreNat DEF Init, None, Version
<1>4. /\ reading \subseteq Readers /\ secret \in Secrets
      /\ pc \in {"start", "select", "pull", "lock", "key", "certs", "exit", "returned"}
      /\ rpc \in [Readers -> {"idle", "key", "certs", "unlock"}]
  BY DEF Init
<1>5. pair \in [Readers -> [last : Version, key : Version, certs : Version]]
  BY BoundsAreNat DEF Init, Version
<1>6. QED
  BY <1>1, <1>2, <1>3, <1>4, <1>5 DEF TypeOK

(* Every step keeps the types, and Lock waits until no goroutine is inside. *)
LEMMA TypeNext == TypeOK /\ LockInv /\ [Next]_vars => TypeOK'
<1> SUFFICES ASSUME TypeOK, LockInv, [Next]_vars PROVE TypeOK'
  OBVIOUS
<1> USE BoundsAreNat DEF TypeOK, None, Version, lock, refresher, vault
<1>1. CASE PullSucceeds
  <2>1. Parse(secret) \in [key : Version, certs : Version]
    BY ParseType
  <2>2. QED
    BY <1>1, <2>1 DEF PullSucceeds, LockInv
<1>2. CASE PullFails
  BY <1>2 DEF PullFails, GoOn
<1>3. CASE Lock
  BY <1>3 DEF Lock, MayWrite
<1>4. CASE WriteKey
  BY <1>4 DEF WriteKey
<1>5. CASE WriteCertsAndUnlock
  BY <1>5 DEF WriteCertsAndUnlock
<1>6. CASE TakeTick
  BY <1>6 DEF TakeTick
<1>7. CASE Exit
  BY <1>7 DEF Exit
<1>8. ASSUME NEW r \in Readers, RLock(r) PROVE TypeOK'
  BY <1>8 DEF RLock, MayRead
<1>9. ASSUME NEW r \in Readers, Leave(r) PROVE TypeOK'
  BY <1>9 DEF Leave, ReadKey, ReadCerts, RUnlock
<1>10. CASE Tick
  BY <1>10 DEF Tick
<1>11. CASE Renew
  BY <1>11 DEF Renew
<1>12. CASE Cancel
  BY <1>12 DEF Cancel
<1>13. CASE UNCHANGED vars
  BY <1>13 DEF vars
<1>14. QED
  BY <1>1, <1>2, <1>3, <1>4, <1>5, <1>6, <1>7, <1>8, <1>9, <1>10, <1>11,
     <1>12, <1>13 DEF Next, Refresh

(* At the start nothing is held and nobody has read.                       *)
LEMMA PairInvInit == Init => PairInv
<1> SUFFICES ASSUME Init PROVE PairInv
  OBVIOUS
<1>1. LockInv
  BY DEF Init, LockInv
<1>2. StoreInv /\ ReadInv
  BY DEF Init, StoreInv, ReadInv
<1>3. QED
  BY <1>1, <1>2 DEF PairInv

(* Every step keeps the lock's discipline and the versions in order: the    *)
(* fields change under the write lock, while no goroutine is inside.       *)
LEMMA PairInvNext == TypeOK /\ PairInv /\ [Next]_vars => PairInv'
<1> SUFFICES ASSUME TypeOK, PairInv, [Next]_vars PROVE PairInv'
  OBVIOUS
<1> USE BoundsAreNat DEF TypeOK, Version, None, PairInv, LockInv, StoreInv, ReadInv,
        lock, refresher, vault
<1>1. CASE PullSucceeds
  BY <1>1 DEF PullSucceeds, GetCertificateSecret, HasBoth, Parse
<1>2. CASE PullFails
  BY <1>2 DEF PullFails, GoOn
<1>3. CASE Lock
  BY <1>3 DEF Lock, MayWrite
<1>4. CASE WriteKey
  BY <1>4 DEF WriteKey
<1>5. CASE WriteCertsAndUnlock
  BY <1>5 DEF WriteCertsAndUnlock
<1>6. CASE TakeTick
  BY <1>6 DEF TakeTick
<1>7. CASE Exit
  BY <1>7 DEF Exit
<1>8. ASSUME NEW r \in Readers, RLock(r) PROVE PairInv'
  BY <1>8 DEF RLock, MayRead
<1>9. ASSUME NEW r \in Readers, ReadKey(r) PROVE PairInv'
  BY <1>9 DEF ReadKey
<1>10. ASSUME NEW r \in Readers, ReadCerts(r) PROVE PairInv'
  BY <1>10 DEF ReadCerts
<1>11. ASSUME NEW r \in Readers, RUnlock(r) PROVE PairInv'
  BY <1>11 DEF RUnlock
<1>12. CASE Tick
  BY <1>12 DEF Tick
<1>13. CASE Renew
  BY <1>13 DEF Renew
<1>14. CASE Cancel
  BY <1>14 DEF Cancel
<1>15. CASE UNCHANGED vars
  BY <1>15 DEF vars
<1>16. QED
  BY <1>1, <1>2, <1>3, <1>4, <1>5, <1>6, <1>7, <1>8, <1>9, <1>10, <1>11,
     <1>12, <1>13, <1>14, <1>15 DEF Next, Refresh, Leave

(* What the runs check is inductive only together with the order of the    *)
(* versions.                                                               *)
LEMMA Invariance == Spec => [](TypeOK /\ PairInv)
<1>1. TypeOK /\ PairInv /\ [Next]_vars => (TypeOK /\ PairInv)'
  BY TypeNext, PairInvNext DEF PairInv
<1>2. QED
  BY TypeInit, PairInvInit, <1>1, PTL DEF Spec

(* Every reachable state is typed; in particular the write lock excludes   *)
(* the readers and a waiting writer the write lock.                        *)
THEOREM TypeCorrect == Spec => []TypeOK
  BY Invariance, PTL

(* No goroutine ever builds a credential from a torn, missing or older     *)
(* pair: GetCertificates against fetchCertificateOnce.                     *)
THEOREM PairsAlwaysBelong == Spec => []PairsBelong
<1>1. TypeOK /\ PairInv => PairsBelong
  BY DEF TypeOK, Version, PairInv, StoreInv, ReadInv, PairsBelong
<1>2. QED
  BY Invariance, <1>1, PTL

================================================================================
