---------------------------- MODULE ArmDeploy_proofs ----------------------------
(***************************************************************************)
(* Theorems about ArmDeploy, for any number of runs of `create cluster`,   *)
(* of faults and of attempts at a PUT.                                     *)
(***************************************************************************)
EXTENDS ArmDeploy, TLAPS

-----------------------------------------------------------------------------
(* Errors: which an attempt can end with, and what becomes of them.        *)

\* Every error the calls of an attempt return, in the Go shape they return it.
Raised ==
    {Nil, Throttled}
    \cup {Plain(c) : c \in {"AADSTS700016", "AADSTS7000215", "NotSucceeded",
                        "PollingDuration", "Other"}}
    \cup {Storage(c) : c \in {"AuthorizationFailed", "Other"}}
    \cup {Detailed(c) : c \in {"AuthorizationFailed", "LinkedAuthorizationFailed", "Other"}}
    \cup {Conflict(c) : c \in {"MissingSubscriptionRegistration", "Other"}}
    \cup {Responded(c) : c \in {"AuthorizationFailed", "Other"}}
    \cup {Future("DeploymentFailed", d) : d \in {"none", "AuthorizationFailed"}}
    \cup {Future("Canceled", "none")}

(* An attempt's error is typed.                                            *)
LEMMA RaisedType == Raised \subseteq ErrorType
  BY DEF Raised, ErrorType, Codes, Error, Nil, Throttled, Plain, Storage, Detailed,
         Conflict, Responded, Future

(* What DeployTemplate hands on is typed and is nil only for nil; it never  *)
(* is the conflict of two deployments of one name.                         *)
LEMMA Translated ==
  ASSUME NEW e \in Raised
  PROVE  /\ Translate(e) \in ErrorType
         /\ Translate(e) = Nil => e = Nil
         /\ Translate(e).code # "DeploymentActive"
  BY DEF Raised, ErrorType, Codes, Error, Nil, Throttled, Plain, Storage, Detailed,
         Conflict, Responded, Future, Translate, TranslateAll, CloudError, DueToAuth,
         HasAuthorizationFailedError, HasLinkedAuthorizationFailedError

(* An authorization failure, or a token refused, is handed on as it is and  *)
(* is retried; no other error that carries AuthorizationFailed becomes a   *)
(* CloudError.                                                             *)
LEMMA AuthIsRetryable ==
  ASSUME NEW e \in Raised
  PROVE  /\ HasAuthorizationFailedError(e) \/ IsTokenError(e)
                => Translate(e) # Nil /\ Retryable(Translate(e))
         /\ Translate(e) = CloudError
                => "AuthorizationFailed" \notin {e.code, e.detail}
  BY DEF Raised, Error, Nil, Throttled, Plain, Storage, Detailed, Conflict,
         Responded, Future, Translate, TranslateAll, CloudError, DueToAuth, Retryable, IsTokenError,
         HasAuthorizationFailedError, HasLinkedAuthorizationFailedError

(* A 409 as DoRetryWithRegistration returns it is recognised.              *)
LEMMA ConflictIsActive == IsDeploymentActiveError(Conflict("DeploymentActive"))
  BY DEF IsDeploymentActiveError, Conflict, Error

(* There is a URL that is told from those still about.                     *)
LEMMA UrlIsNew ==
  ASSUME TypeOK
  PROVE  NewUrl \in Urls /\ NewUrl \notin {InstallNow, url, dep.url} \cup boot
<1>1. \E u \in Urls : u \notin {InstallNow, url, dep.url} \cup boot
  BY DEF TypeOK, Urls, InstallNow
<1>2. QED
  BY <1>1 DEF NewUrl

-----------------------------------------------------------------------------
(* The inductive invariant.                                                *)

\* What an attempt ends with is one of the errors its calls return, and nil
\* only once the deployment has succeeded, which then stays so until the next
\* attempt submits.  A PUT under way has been answered 409 fewer times than it
\* is sent.
AttemptInv ==
    /\ err \in Raised
    /\ pc = "load" => puts = 0
    /\ pc = "put" => puts < RetryAttempts
    /\ pc = "attempted" /\ err = Nil => dep.state = "succeeded"

\* A service principal's URL is the same everywhere.
UrlInv ==
    /\ ~miwi => url = InstallNow /\ dep.url = InstallNow /\ boot \subseteq {InstallNow}
    /\ CustomDataIsStable

DeployInv ==
    /\ AttemptInv /\ UrlInv
    /\ NilMeansDeployed /\ AuthFailureIsRetried /\ ConflictIsAdopted

(* Before the first run there is no deployment and no error.               *)
LEMMA DeployInvInit == Init => TypeOK /\ DeployInv
<1> SUFFICES ASSUME Init PROVE TypeOK /\ DeployInv
  OBVIOUS
<1>1. expired \in BOOLEAN /\ miwi \in BOOLEAN /\ storage \in BOOLEAN
  BY DEF Init
<1>2. err \in Raised /\ err \in ErrorType /\ result \in ErrorType
  BY RaisedType DEF Init, Raised
<1>3. TypeOK
  BY <1>1, <1>2, BoundsAreNat DEF Init, TypeOK, Urls, InstallNow
<1>4. DeployInv
  BY <1>1, <1>2 DEF Init, DeployInv, AttemptInv, UrlInv, NilMeansDeployed,
     AuthFailureIsRetried, ConflictIsAdopted, CustomDataIsStable
<1>5. QED
  BY <1>3, <1>4

(* Whatever an attempt ends with is an error its calls return.             *)
LEMMA RaisedNext == DeployInv /\ [Next]_vars => err' \in Raised
<1> SUFFICES ASSUME err \in Raised, [Next]_vars PROVE err' \in Raised
  BY DEF DeployInv, AttemptInv
<1> USE DEF Raised, blob, Attempted
<1>1. CASE Start
  BY <1>1 DEF Start
<1>2. CASE LoadGraph
  BY <1>2 DEF LoadGraph
<1>3. CASE LoadFails
  BY <1>3 DEF LoadFails
<1>4. CASE TokenRefused
  BY <1>4 DEF TokenRefused
<1>5. CASE PutForbidden
  BY <1>5 DEF PutForbidden
<1>6. CASE PutConflict
  BY <1>6, ConflictIsActive DEF PutConflict
<1>7. CASE PutAccepted
  BY <1>7 DEF PutAccepted
<1>8. CASE PutFails
  BY <1>8 DEF PutFails
<1>9. CASE FutureCompletes
  BY <1>9 DEF FutureCompletes
<1>10. CASE WaitCompletes
  BY <1>10 DEF WaitCompletes
<1>11. CASE Decide
  BY <1>11 DEF Decide
<1>12. CASE TryAgain
  BY <1>12 DEF TryAgain
<1>13. CASE Crash
  BY <1>13 DEF Crash
<1>14. CASE Expire
  BY <1>14 DEF Expire
<1>15. CASE Propagate
  BY <1>15 DEF Propagate
<1>16. CASE PollingExpires
  BY <1>16 DEF PollingExpires, TimedWaits
<1>17. CASE BootstrapCreated
  BY <1>17 DEF BootstrapCreated
<1>18. CASE DeploymentEnds
  BY <1>18 DEF DeploymentEnds
<1>19. CASE UNCHANGED vars
  BY <1>19 DEF vars
<1>20. CASE PutConflictsOtherwise
  BY <1>20 DEF PutConflictsOtherwise, Again, Token, Conflict, Plain
<1>21. QED
  BY <1>1, <1>2, <1>3, <1>4, <1>5, <1>6, <1>7, <1>8, <1>9,
     <1>10, <1>11, <1>12, <1>13, <1>14, <1>15, <1>16, <1>17, <1>18, <1>19, <1>20
     DEF Next, RunStep

(* Every step keeps the types; a URL that is signed is one of the few that *)
(* are told apart.                                                         *)
LEMMA TypeNext == TypeOK /\ DeployInv /\ [Next]_vars => TypeOK'
<1> SUFFICES ASSUME TypeOK, DeployInv, [Next]_vars PROVE TypeOK'
  OBVIOUS
<1>a. err' \in ErrorType /\ Nil \in ErrorType
  BY RaisedNext, RaisedType DEF Raised
<1>b. /\ Translate(err) \in ErrorType
      /\ Plain("Rebuild") \in ErrorType /\ Plain("PollTimeout") \in ErrorType
  BY Translated DEF DeployInv, AttemptInv, Plain, Error, ErrorType, Codes
<1> USE <1>a, <1>b, BoundsAreNat DEF TypeOK, blob, Attempted, Fault, Live, Urls, InstallNow
<1>1. CASE Start
  <2>1. expired' \in BOOLEAN
    BY <1>1 DEF Start
  <2>2. /\ runs' \in 0..MaxRuns /\ token' \in 0..3 /\ puts' \in 0..RetryAttempts
        /\ url' \in Urls /\ result' \in ErrorType
    BY <1>1 DEF Start
  <2>3. QED
    BY <1>1, <2>1, <2>2 DEF Start
<1>2. CASE LoadGraph
  <2>1. IgnitionUrl \in Urls
    BY UrlIsNew DEF IgnitionUrl
  <2>2. QED
    BY <1>2, <2>1 DEF LoadGraph
<1>3. CASE LoadFails
  BY <1>3 DEF LoadFails
<1>4. CASE TokenRefused
  BY <1>4 DEF TokenRefused, Token
<1>5. CASE PutForbidden
  BY <1>5 DEF PutForbidden, Token
<1>6. CASE PutConflict
  BY <1>6 DEF PutConflict, Token, Again, DeployInv, AttemptInv
<1>7. CASE PutAccepted
  BY <1>7 DEF PutAccepted, Token
<1>8. CASE PutFails
  BY <1>8 DEF PutFails, Token
<1>9. CASE FutureCompletes
  BY <1>9 DEF FutureCompletes
<1>10. CASE WaitCompletes
  BY <1>10 DEF WaitCompletes
<1>11. CASE Decide
  BY <1>11 DEF Decide, Rebuild
<1>12. CASE TryAgain
  BY <1>12 DEF TryAgain
<1>13. CASE Crash
  BY <1>13 DEF Crash
<1>14. CASE Expire
  BY <1>14 DEF Expire
<1>15. CASE Propagate
  <2>1. stage' \in 0..3
    BY <1>15 DEF Propagate
  <2>2. storage' \in BOOLEAN
    BY <1>15 DEF Propagate
  <2>3. QED
    BY <1>15, <2>1, <2>2 DEF Propagate
<1>16. CASE PollingExpires
  BY <1>16 DEF PollingExpires, TimedWaits
<1>17. CASE BootstrapCreated
  BY <1>17 DEF BootstrapCreated
<1>18. CASE DeploymentEnds
  <2>1. dep' \in [state : {"none", "running", "succeeded", "failed", "canceled"},
                 cause : {"none", "auth", "customData", "other"},
                 token : 0..3, url : Urls]
    BY <1>18 DEF DeploymentEnds
  <2>2. faults' \in 0..MaxFaults
    BY <1>18 DEF DeploymentEnds
  <2>3. QED
    BY <1>18, <2>1, <2>2 DEF DeploymentEnds
<1>19. CASE UNCHANGED vars
  BY <1>19 DEF vars
<1>20. CASE PutConflictsOtherwise
  BY <1>20 DEF PutConflictsOtherwise, Again, Token, DeployInv, AttemptInv
<1>21. QED
  BY <1>1, <1>2, <1>3, <1>4, <1>5, <1>6, <1>7, <1>8, <1>9,
     <1>10, <1>11, <1>12, <1>13, <1>14, <1>15, <1>16, <1>17, <1>18, <1>19, <1>20
     DEF Next, RunStep

(* An attempt that ends well has seen the deployment succeed, through its   *)
(* future or by waiting for another's; the 409s of a PUT stay under their  *)
(* limit.                                                                  *)
LEMMA AttemptInvNext == TypeOK /\ DeployInv /\ [Next]_vars => AttemptInv'
<1> SUFFICES ASSUME TypeOK, AttemptInv, err' \in Raised, [Next]_vars PROVE AttemptInv'
  BY RaisedNext DEF DeployInv
<1> USE BoundsAreNat DEF AttemptInv, Attempted, Nil, Error, blob
<1>1. CASE Start
  BY <1>1 DEF Start
<1>2. CASE LoadGraph
  BY <1>2 DEF LoadGraph
<1>3. CASE LoadFails
  BY <1>3 DEF LoadFails, Plain, Storage, Throttled
<1>4. CASE TokenRefused
  BY <1>4 DEF TokenRefused, Plain
<1>5. CASE PutForbidden
  BY <1>5 DEF PutForbidden, Detailed
<1>6. CASE PutConflict
  BY <1>6, ConflictIsActive DEF PutConflict, Again
<1>7. CASE PutAccepted
  BY <1>7 DEF PutAccepted
<1>8. CASE PutFails
  BY <1>8 DEF PutFails, Detailed, Plain
<1>9. CASE FutureCompletes
  BY <1>9 DEF FutureCompletes, Future, Plain
<1>10. CASE WaitCompletes
  BY <1>10 DEF WaitCompletes, Succeeded, Plain, Responded
<1>11. CASE Decide
  BY <1>11 DEF Decide
<1>12. CASE TryAgain
  BY <1>12 DEF TryAgain
<1>13. CASE Crash
  BY <1>13 DEF Crash
<1>14. CASE Expire
  BY <1>14 DEF Expire
<1>15. CASE Propagate
  BY <1>15 DEF Propagate
<1>16. CASE PollingExpires
  BY <1>16 DEF PollingExpires, TimedWaits, Plain
<1>17. CASE BootstrapCreated
  BY <1>17 DEF BootstrapCreated
<1>18. CASE DeploymentEnds
  BY <1>18 DEF DeploymentEnds
<1>19. CASE UNCHANGED vars
  BY <1>19 DEF vars
<1>20. CASE PutConflictsOtherwise
  BY <1>20 DEF PutConflictsOtherwise, Again, Token, Conflict, Plain
<1>21. QED
  BY <1>1, <1>2, <1>3, <1>4, <1>5, <1>6, <1>7, <1>8, <1>9,
     <1>10, <1>11, <1>12, <1>13, <1>14, <1>15, <1>16, <1>17, <1>18, <1>19, <1>20
     DEF Next, RunStep

(* A service principal's attempts all put the same URL into the custom data *)
(* and so never clash with a bootstrap machine that exists.                *)
LEMMA UrlInvNext == TypeOK /\ UrlInv /\ [Next]_vars => UrlInv'
<1> SUFFICES ASSUME TypeOK, UrlInv, [Next]_vars PROVE UrlInv'
  OBVIOUS
<1> USE DEF UrlInv, CustomDataIsStable, blob, Attempted
<1>1. CASE Start
  BY <1>1 DEF Start
<1>2. CASE LoadGraph
  BY <1>2, UrlIsNew DEF LoadGraph, IgnitionUrl
<1>3. CASE LoadFails
  BY <1>3 DEF LoadFails
<1>4. CASE TokenRefused
  BY <1>4 DEF TokenRefused
<1>5. CASE PutForbidden
  BY <1>5 DEF PutForbidden
<1>6. CASE PutConflict
  BY <1>6 DEF PutConflict
<1>7. CASE PutAccepted
  BY <1>7 DEF PutAccepted
<1>8. CASE PutFails
  BY <1>8 DEF PutFails
<1>9. CASE FutureCompletes
  BY <1>9 DEF FutureCompletes
<1>10. CASE WaitCompletes
  BY <1>10 DEF WaitCompletes
<1>11. CASE Decide
  BY <1>11 DEF Decide
<1>12. CASE TryAgain
  BY <1>12 DEF TryAgain
<1>13. CASE Crash
  BY <1>13 DEF Crash
<1>14. CASE Expire
  BY <1>14 DEF Expire
<1>15. CASE Propagate
  BY <1>15 DEF Propagate
<1>16. CASE PollingExpires
  BY <1>16 DEF PollingExpires, TimedWaits
<1>17. CASE BootstrapCreated
  BY <1>17 DEF BootstrapCreated
<1>18. CASE DeploymentEnds
  <2>1. dep'.url = dep.url /\ UNCHANGED <<pc, miwi, url, boot>>
    BY <1>18 DEF DeploymentEnds, TypeOK
  <2>2. ~miwi /\ boot # {} => dep.url \in boot
    OBVIOUS
  <2>3. ~miwi => dep'.cause # "customData"
    BY <1>18, <2>2 DEF DeploymentEnds, TypeOK
  <2>4. QED
    BY <2>1, <2>3
<1>19. CASE UNCHANGED vars
  BY <1>19 DEF vars
<1>20. CASE PutConflictsOtherwise
  BY <1>20 DEF PutConflictsOtherwise, Again, Token, Conflict, Plain
<1>21. QED
  BY <1>1, <1>2, <1>3, <1>4, <1>5, <1>6, <1>7, <1>8, <1>9,
     <1>10, <1>11, <1>12, <1>13, <1>14, <1>15, <1>16, <1>17, <1>18, <1>19, <1>20
     DEF Next, RunStep

(* What the retry decides: nil is handed on only when the attempt ended with *)
(* nil, an authorization failure or a refused token ends the step only with *)
(* the retry's time, and a 409 is never the step's error.                  *)
LEMMA OutcomeNext ==
  TypeOK /\ DeployInv /\ [Next]_vars
      => (NilMeansDeployed /\ AuthFailureIsRetried /\ ConflictIsAdopted)'
<1> SUFFICES ASSUME TypeOK, DeployInv, [Next]_vars
             PROVE  (NilMeansDeployed /\ AuthFailureIsRetried /\ ConflictIsAdopted)'
  OBVIOUS
<1> USE DEF DeployInv, AttemptInv, NilMeansDeployed, AuthFailureIsRetried, ConflictIsAdopted,
            Live, blob, Attempted
<1>1. CASE Start
  BY <1>1 DEF Start
<1>2. CASE LoadGraph
  BY <1>2 DEF LoadGraph
<1>3. CASE LoadFails
  BY <1>3 DEF LoadFails
<1>4. CASE TokenRefused
  BY <1>4 DEF TokenRefused
<1>5. CASE PutForbidden
  BY <1>5 DEF PutForbidden
<1>6. CASE PutConflict
  BY <1>6, ConflictIsActive DEF PutConflict
<1>7. CASE PutAccepted
  BY <1>7 DEF PutAccepted
<1>8. CASE PutFails
  BY <1>8 DEF PutFails
<1>9. CASE FutureCompletes
  BY <1>9 DEF FutureCompletes
<1>10. CASE WaitCompletes
  BY <1>10 DEF WaitCompletes
<1>11. CASE Decide
  <2>1. Plain("Rebuild") # Nil /\ Plain("Rebuild") # CloudError
        /\ Plain("Rebuild").code # "DeploymentActive"
    BY DEF Plain, Nil, CloudError, Error
  <2>2. CASE ~expired /\ Translate(err) # Nil /\ Retryable(Translate(err))
    BY <1>11, <2>1, <2>2 DEF Decide
  <2>3. CASE ~(~expired /\ Translate(err) # Nil /\ Retryable(Translate(err)))
    BY <1>11, <2>3, Translated, AuthIsRetryable DEF Decide
  <2>4. QED
    BY <2>2, <2>3
<1>12. CASE TryAgain
  <2>1. Plain("PollTimeout") # Nil /\ Plain("PollTimeout") # CloudError
        /\ Plain("PollTimeout").code # "DeploymentActive"
    BY DEF Plain, Nil, CloudError, Error
  <2>2. QED
    BY <1>12, <2>1 DEF TryAgain
<1>13. CASE Crash
  BY <1>13 DEF Crash
<1>14. CASE Expire
  BY <1>14 DEF Expire
<1>15. CASE Propagate
  BY <1>15 DEF Propagate
<1>16. CASE PollingExpires
  BY <1>16 DEF PollingExpires, TimedWaits
<1>17. CASE BootstrapCreated
  BY <1>17 DEF BootstrapCreated
<1>18. CASE DeploymentEnds
  BY <1>18 DEF DeploymentEnds
<1>19. CASE UNCHANGED vars
  BY <1>19 DEF vars
<1>20. CASE PutConflictsOtherwise
  BY <1>20 DEF PutConflictsOtherwise, Again, Token, Conflict, Plain
<1>21. QED
  BY <1>1, <1>2, <1>3, <1>4, <1>5, <1>6, <1>7, <1>8, <1>9,
     <1>10, <1>11, <1>12, <1>13, <1>14, <1>15, <1>16, <1>17, <1>18, <1>19, <1>20
     DEF Next, RunStep

(* The invariant holds in every reachable state.                           *)
LEMMA Invariance == Spec => [](TypeOK /\ DeployInv)
<1>1. Init => TypeOK /\ DeployInv
  BY DeployInvInit
<1>2. TypeOK /\ DeployInv /\ [Next]_vars => (TypeOK /\ DeployInv)'
  BY TypeNext, AttemptInvNext, UrlInvNext, OutcomeNext DEF DeployInv
<1>3. QED
  BY <1>1, <1>2, PTL DEF Spec

-----------------------------------------------------------------------------
(* The theorems.                                                           *)

(* Every variable of the deployment keeps to its type: DeployTemplate's    *)
(* errors keep the Go shapes the code knows, and no PUT is sent more than  *)
(* RetryAttempts times.                                                    *)
THEOREM TypeCorrect == Spec => []TypeOK
  BY Invariance, PTL

(* The step returns nil only when deployment "resources" has succeeded,    *)
(* over any number of crashes, retries and lost answers.                   *)
THEOREM NilOnlyWhenDeployed == Spec => []NilMeansDeployed
<1>1. DeployInv => NilMeansDeployed
  BY DEF DeployInv
<1>2. QED
  BY <1>1, Invariance, PTL

(* AuthorizationRetryingAction gives an authorization failure or a refused *)
(* token up only when its time is up or Rebuild fails, and DeployTemplate   *)
(* does not make a CloudError of one.                                      *)
THEOREM AuthFailureEndsWithTime == Spec => []AuthFailureIsRetried
<1>1. DeployInv => AuthFailureIsRetried
  BY DEF DeployInv
<1>2. QED
  BY <1>1, Invariance, PTL

(* IsDeploymentActiveError knows the 409 of DoRetryWithRegistration, so     *)
(* DeployTemplate waits for the running deployment and never returns it.   *)
THEOREM ConflictNeverReturned == Spec => []ConflictIsAdopted
<1>1. DeployInv => ConflictIsAdopted
  BY DEF DeployInv
<1>2. QED
  BY <1>1, Invariance, PTL

(* A service principal's bootstrap machine is never asked to change its     *)
(* custom data, since the URL is good from Install.Now and not signed anew. *)
THEOREM CustomDataNeverClashes == Spec => []CustomDataIsStable
<1>1. DeployInv => CustomDataIsStable
  BY DEF DeployInv, UrlInv
<1>2. QED
  BY <1>1, Invariance, PTL

================================================================================
