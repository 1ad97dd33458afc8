------------------------------- MODULE ArmDeploy -------------------------------
(***************************************************************************)
(* The deployment of the cluster's machines: deployResourceTemplate inside *)
(* the AuthorizationRetryingAction of `create cluster`, against storage    *)
(* and Azure Resource Manager, while the first-party application and its   *)
(* roles propagate.                                                        *)
(*                                                                         *)
(* Each attempt loads the persisted graph and puts the URL of the Ignition *)
(* blob into the bootstrap machine's custom data: for a service principal  *)
(* one that is good for a day from the start of the installation, for a    *)
(* workload identity one signed by the attempt and good for an hour.  The  *)
(* custom data of a machine that exists cannot be changed.                 *)
(*                                                                         *)
(* A deployment has a name, "resources", and ARM runs at most one of that  *)
(* name.  A run that finds one running, left by a run that crashed or by   *)
(* its own request whose answer was lost, waits for that one.  Errors keep *)
(* the Go shape the code asserts on: the code branches on the dynamic type *)
(* of an error as much as on its code.                                     *)
(***************************************************************************)
EXTENDS Naturals

CONSTANTS
    MaxRuns,       \* bound on the runs of `create cluster`
    MaxFaults,     \* bound on lost answers, failures and cancellations
    RetryAttempts  \* autorest.Client.RetryAttempts

ASSUME BoundsAreNat ==
    MaxRuns \in Nat /\ MaxFaults \in Nat /\ RetryAttempts \in Nat \ {0}

VARIABLES
    pc,       \* where the live run stands
    runs,     \* runs started so far
    stage,    \* propagation: 0 application unknown, 1 known, 2 roles on the
              \* resource group visible, 3 roles on every resource visible
    token,    \* the authorizer's token: the stage it was issued at, 0 for none
    expired,  \* the retry's poll context is done
    puts,     \* answers 409 to the PUTs of this attempt
    dep,      \* deployment "resources": its state, the reason it failed, the
              \* stage of the token that submitted it and the URL in it
    miwi,     \* the cluster uses workload identity
    storage,  \* the roles on the storage account are visible
    url,      \* the URL of the last attempt of this run
    boot,     \* the URL the bootstrap machine was created with, if there is one
    err,      \* the error of the current attempt
    result,   \* what the step returned
    faults    \* faults so far

blob == <<miwi, storage, url>>
vars == <<pc, runs, stage, token, expired, puts, dep, blob, boot, err, result, faults>>

\* InstallNow is the URL that is good for a day from oc.Properties.Install.Now.
\* A URL that an attempt signs is told from it and from those still about.
InstallNow == 0
Urls == 0..4
NewUrl == CHOOSE u \in Urls : u \notin {InstallNow, url, dep.url} \cup boot

-----------------------------------------------------------------------------
(* Errors: the outer Go type, the type of DetailedError.Original, the code *)
(* and, in a DeploymentFailed, the code inside its Forbidden detail.       *)

Error(form, original, code, detail) ==
    [form |-> form, original |-> original, code |-> code, detail |-> detail]

Nil == Error("nil", "none", "none", "none")

\* A ServiceError in a DetailedError, as CreateOrUpdate returns it.
Detailed(code) == Error("DetailedError", "*ServiceError", code, "none")

\* What DoRetryWithRegistration makes of a 409: a RequestError by value.
Conflict(code) == Error("DetailedError", "RequestError", code, "none")

\* A *RequestError in a DetailedError, as Get returns it.
Responded(code) == Error("DetailedError", "*RequestError", code, "none")

\* What a future returns: the *ServiceError itself.
Future(code, detail) == Error("*ServiceError", "none", code, detail)

\* Any other error; the text of an adal token error carries its AADSTS code.
Plain(code) == Error("error", "none", code, "none")

\* What the storage clients return, which are of the newer SDK.
Storage(code) == Error("*azcore.ResponseError", "none", code, "none")

\* getCorrectErrWhenTooManyRequests
Throttled == Error("*CloudError", "none", "ThrottlingLimitExceeded", "none")

CloudError == Error("*CloudError", "none", "DeploymentFailed", "none")

\* azureerrors.deploymentFailedDueToAuthError
DueToAuth(e, authCode) ==
    \/ /\ e.form = "DetailedError"
       /\ e.original \in {"*ServiceError", "*RequestError"}
       /\ e.code = authCode
    \/ /\ e.form = "*ServiceError"
       /\ e.code = "DeploymentFailed"
       /\ e.detail = authCode

HasAuthorizationFailedError(e) == DueToAuth(e, "AuthorizationFailed")
HasLinkedAuthorizationFailedError(e) == DueToAuth(e, "LinkedAuthorizationFailed")

\* azureerrors.IsDeploymentActiveError.  Mutated: the assertion names the
\* pointer type, like its neighbours.
ActiveByPointer(e) ==
    /\ e.form = "DetailedError" /\ e.original = "*RequestError"
    /\ e.code = "DeploymentActive"
IsDeploymentActiveError(e) ==
    /\ e.form = "DetailedError" /\ e.original = "RequestError"
    /\ e.code = "DeploymentActive"

\* azureerrors.IsUnauthorizedClientError and IsInvalidSecretError, which
\* search the text.
IsTokenError(e) == e.code \in {"AADSTS700016", "AADSTS7000215"}

\* The error of an attempt as DeployTemplate hands it on.  Mutated: the
\* authorization errors are not told apart and become CloudErrors too.
TranslateAll(e) ==
    IF e.form = "*ServiceError"
       \/ (e.form = "DetailedError" /\ e.original = "*ServiceError")
    THEN CloudError ELSE e
Translate(e) ==
    IF HasAuthorizationFailedError(e) \/ HasLinkedAuthorizationFailedError(e)
    THEN e ELSE TranslateAll(e)

\* The errors AuthorizationRetryingAction refreshes and retries.  Mutated:
\* those of the token only.
TokenErrorsOnly(e) == IsTokenError(e)
Retryable(e) == HasAuthorizationFailedError(e) \/ IsTokenError(e)

Codes == {"none", "AADSTS700016", "AADSTS7000215", "AuthorizationFailed",
          "LinkedAuthorizationFailed", "DeploymentActive", "DeploymentFailed",
          "MissingSubscriptionRegistration", "Canceled", "NotSucceeded",
          "PollingDuration", "Rebuild", "PollTimeout", "ThrottlingLimitExceeded",
          "Other"}
ErrorType ==
    [form : {"nil", "DetailedError", "*ServiceError", "*azcore.ResponseError",
             "*CloudError", "error"},
     original : {"none", "*ServiceError", "*RequestError", "RequestError"},
     code : Codes,
     detail : {"none", "AuthorizationFailed", "LinkedAuthorizationFailed"}]

Live == {"load", "put", "future", "wait", "attempted", "backoff"}

TypeOK ==
    /\ pc \in {"idle", "done"} \cup Live
    /\ runs \in 0..MaxRuns
    /\ stage \in 0..3 /\ token \in 0..3
    /\ expired \in BOOLEAN
    /\ puts \in 0..RetryAttempts
    /\ dep \in [state : {"none", "running", "succeeded", "failed", "canceled"},
                cause : {"none", "auth", "customData", "other"},
                token : 0..3, url : Urls]
    /\ miwi \in BOOLEAN /\ storage \in BOOLEAN
    /\ url \in Urls
    /\ boot \subseteq Urls /\ \A u, v \in boot : u = v
    /\ err \in ErrorType /\ result \in ErrorType
    /\ faults \in 0..MaxFaults

Init ==
    /\ pc = "idle" /\ runs = 0
    /\ stage = 0 /\ token = 0
    /\ expired = FALSE /\ puts = 0
    /\ dep = [state |-> "none", cause |-> "none", token |-> 0, url |-> InstallNow]
    /\ miwi \in BOOLEAN /\ storage = FALSE
    /\ url = InstallNow /\ boot = {}
    /\ err = Nil /\ result = Nil
    /\ faults = 0

-----------------------------------------------------------------------------
Fault == faults < MaxFaults /\ faults' = faults + 1

\* The attempt ends with e.
Attempted(e) == pc' = "attempted" /\ err' = e

\* `create cluster` is run, for the first time or again: a new authorizer,
\* a new poll.
Start ==
    /\ pc \in {"idle", "done"}
    /\ runs < MaxRuns
    /\ runs' = runs + 1
    /\ pc' = "load"
    /\ token' = 0 /\ expired' = FALSE /\ puts' = 0 /\ url' = InstallNow
    /\ err' = Nil /\ result' = Nil
    /\ UNCHANGED <<stage, dep, miwi, storage, boot, faults>>

\* The process disappears in the middle; ARM goes on with what it accepted.
Crash ==
    /\ pc \in Live
    /\ Fault
    /\ pc' = "idle"
    /\ UNCHANGED <<runs, stage, token, expired, puts, dep, blob, boot, err, result>>

\* The URL in the bootstrap machine's custom data.  Mutated: one that is signed
\* by each attempt, whoever the cluster belongs to.
SignedByAll == NewUrl
IgnitionUrl == IF miwi THEN NewUrl ELSE InstallNow

\* LoadPersisted and the template's parameters.
LoadGraph ==
    /\ pc = "load"
    /\ storage
    /\ pc' = "put"
    /\ url' = IgnitionUrl
    /\ UNCHANGED <<runs, stage, token, expired, puts, dep, miwi, storage, boot, err,
                   result, faults>>

\* The storage credential gets no token, or one without the role, on the
\* account's key or on the blob; the calls fail otherwise, the account is
\* throttled (its key is asked for only for a service principal), there is no
\* graph or it cannot be opened or decoded.
LoadFails ==
    /\ pc = "load"
    /\ \/ /\ ~storage
          /\ \/ \E c \in {"AADSTS700016", "AADSTS7000215"} : Attempted(Plain(c))
             \/ Attempted(Storage("AuthorizationFailed"))
          /\ UNCHANGED faults
       \/ Fault /\ ~miwi /\ Attempted(Throttled)
       \/ Fault /\ Attempted(Storage("Other"))
       \/ Fault /\ Attempted(Plain("Other"))
    /\ UNCHANGED <<runs, stage, token, expired, puts, dep, blob, boot, result>>

\* Preparing a request needs a token; the authorizer keeps the one it has.
Token == IF token = 0 THEN stage ELSE token

\* No token: the application is not known in the tenant yet, or its secret
\* is not valid yet.
TokenRefused ==
    /\ pc = "put"
    /\ Token = 0
    /\ \E c \in {"AADSTS700016", "AADSTS7000215"} : Attempted(Plain(c))
    /\ UNCHANGED <<runs, stage, token, expired, puts, dep, blob, boot, result, faults>>

\* 403: the token carries no role on the resource group.
PutForbidden ==
    /\ pc = "put"
    /\ Token = 1
    /\ token' = Token
    /\ Attempted(Detailed("AuthorizationFailed"))
    /\ UNCHANGED <<runs, stage, expired, puts, dep, blob, boot, result, faults>>

\* DoRetryWithRegistration sends the PUT RetryAttempts times in all.  Mutated:
\* once more.
OnceMore(n) == n <= RetryAttempts
Again(n) == n < RetryAttempts

\* 409: a deployment of this name is running.  The request is sent again at
\* once; when that is given up, DeployTemplate waits for the running one.
PutConflict ==
    /\ pc = "put"
    /\ Token >= 2
    /\ dep.state = "running"
    /\ token' = Token
    /\ puts' = puts + 1
    /\ IF Again(puts')
       THEN UNCHANGED <<pc, err>>
       ELSE LET e == Conflict("DeploymentActive") IN
            IF IsDeploymentActiveError(e)
            THEN pc' = "wait" /\ UNCHANGED err
            ELSE Attempted(e)
    /\ UNCHANGED <<runs, stage, expired, dep, blob, boot, result, faults>>

\* 409 with another code: the resource provider is not registered, and is then
\* registered before the request is sent again, which may fail, or the group is
\* in another state that conflicts.  Nobody knows these errors.
PutConflictsOtherwise ==
    /\ pc = "put"
    /\ Token >= 2
    /\ Fault
    /\ token' = Token
    /\ puts' = puts + 1
    /\ \E c \in {"MissingSubscriptionRegistration", "Other"} :
          \/ Again(puts') /\ UNCHANGED <<pc, err>>
          \/ ~Again(puts') /\ Attempted(Conflict(c))
          \/ c = "MissingSubscriptionRegistration" /\ Attempted(Plain("Other"))
    /\ UNCHANGED <<runs, stage, expired, dep, blob, boot, result>>

\* The deployment is accepted; when the answer is lost, autorest sends the
\* request again.
PutAccepted ==
    /\ pc = "put"
    /\ Token >= 2
    /\ dep.state # "running"
    /\ token' = Token
    /\ dep' = [state |-> "running", cause |-> "none", token |-> Token, url |-> url]
    /\ \/ pc' = "future" /\ UNCHANGED faults
       \/ Fault /\ UNCHANGED pc
    /\ UNCHANGED <<runs, stage, expired, puts, blob, boot, err, result>>

\* The request is refused for another reason, or never gets through.
PutFails ==
    /\ pc = "put"
    /\ Token >= 2
    /\ token' = Token
    /\ Fault
    /\ \/ Attempted(Detailed("LinkedAuthorizationFailed"))
       \/ Attempted(Detailed("Other"))
       \/ Attempted(Plain("Other"))
    /\ UNCHANGED <<runs, stage, expired, puts, dep, blob, boot, result>>

\* WaitForCompletionRef sees the end of the deployment this attempt submitted,
\* or its polls fail.
FutureCompletes ==
    /\ pc = "future"
    /\ \/ /\ dep.state = "succeeded" /\ Attempted(Nil)
          /\ UNCHANGED faults
       \/ /\ dep.state = "failed"
          /\ Attempted(Future("DeploymentFailed",
                IF dep.cause = "auth" THEN "AuthorizationFailed" ELSE "none"))
          /\ UNCHANGED faults
       \/ /\ dep.state = "canceled" /\ Attempted(Future("Canceled", "none"))
          /\ UNCHANGED faults
       \/ Fault /\ Attempted(Plain("Other"))
    /\ UNCHANGED <<runs, stage, token, expired, puts, dep, blob, boot, result>>

\* When Wait is done with a deployment.  Mutated: once it is not running.
NoLongerRunning == dep.state # "running"
Succeeded == dep.state = "succeeded"

\* When Wait gives a deployment up.
Hopeless == dep.state \in {"failed", "canceled"}

\* DeploymentsClient.Wait: the state of the named deployment, whoever
\* submitted it.  A state that is not terminal is polled again.
WaitCompletes ==
    /\ pc = "wait"
    /\ \/ Succeeded /\ Attempted(Nil) /\ UNCHANGED faults
       \/ /\ ~Succeeded /\ Hopeless
          /\ Attempted(Plain("NotSucceeded"))
          /\ UNCHANGED faults
       \/ Fault /\ Attempted(Responded("AuthorizationFailed"))
       \/ Fault /\ Attempted(Responded("Other"))
       \/ Fault /\ Attempted(Plain("Other"))
    /\ UNCHANGED <<runs, stage, token, expired, puts, dep, blob, boot, result>>

\* PollingDuration ends either wait.  Mutated: that of the future only.
FutureOnly == {"future"}
TimedWaits == {"future", "wait"}

\* PollingDuration is over, an hour after the wait began and so later than the
\* ten minutes of the retry.
PollingExpires ==
    /\ pc \in TimedWaits
    /\ expired
    /\ Attempted(Plain("PollingDuration"))
    /\ UNCHANGED <<runs, stage, token, expired, puts, dep, blob, boot, result, faults>>

\* Authorizer.Rebuild drops the token with the authorizer that holds it.
Rebuild == token' = 0

\* DeployTemplate returns and the retry decides.
Decide ==
    /\ pc = "attempted"
    /\ LET e == Translate(err) IN
         IF ~expired /\ e # Nil /\ Retryable(e)
         THEN \/ Rebuild /\ pc' = "backoff" /\ UNCHANGED <<result, faults>>
              \/ /\ Fault /\ pc' = "done" /\ result' = Plain("Rebuild")
                 /\ UNCHANGED token
         ELSE pc' = "done" /\ result' = e /\ UNCHANGED <<token, faults>>
    /\ UNCHANGED <<runs, stage, expired, puts, dep, blob, boot, err>>

\* Between attempts: the next one, or the end of the retries.
TryAgain ==
    /\ pc = "backoff"
    /\ IF expired
       THEN pc' = "done" /\ result' = Plain("PollTimeout") /\ UNCHANGED puts
       ELSE pc' = "load" /\ puts' = 0 /\ UNCHANGED result
    /\ UNCHANGED <<runs, stage, token, expired, dep, blob, boot, err, faults>>

Expire ==
    /\ pc \in Live
    /\ ~expired
    /\ expired' = TRUE
    /\ UNCHANGED <<pc, runs, stage, token, puts, dep, blob, boot, err, result, faults>>

-----------------------------------------------------------------------------
(* Azure.                                                                  *)

\* The application, then its roles become visible, those on the storage account
\* in their own time.
Propagate ==
    /\ \/ stage < 3 /\ stage' = stage + 1 /\ UNCHANGED storage
       \/ ~storage /\ storage' = TRUE /\ UNCHANGED stage
    /\ UNCHANGED <<pc, runs, token, expired, puts, dep, miwi, url, boot, err, result,
                   faults>>

\* The deployment creates the bootstrap machine, whose custom data is then fixed.
BootstrapCreated ==
    /\ dep.state = "running"
    /\ boot = {}
    /\ boot' = {dep.url}
    /\ UNCHANGED <<pc, runs, stage, token, expired, puts, dep, blob, err, result,
                   faults>>

\* The deployment ends: for want of a role on one of its resources, because
\* the bootstrap machine exists with other custom data, or well, or for another
\* reason, or it is canceled.
DeploymentEnds ==
    /\ dep.state = "running"
    /\ \/ /\ dep.token = 2
          /\ dep' = [dep EXCEPT !.state = "failed", !.cause = "auth"]
          /\ UNCHANGED faults
       \/ /\ boot # {} /\ dep.url \notin boot
          /\ dep' = [dep EXCEPT !.state = "failed", !.cause = "customData"]
          /\ UNCHANGED faults
       \/ /\ dep.token = 3 /\ dep.url \in boot
          /\ dep' = [dep EXCEPT !.state = "succeeded"]
          /\ UNCHANGED faults
       \/ /\ Fault
          /\ \/ dep' = [dep EXCEPT !.state = "failed", !.cause = "other"]
             \/ dep' = [dep EXCEPT !.state = "canceled"]
    /\ UNCHANGED <<pc, runs, stage, token, expired, puts, blob, boot, err, result>>

RunStep ==
    \/ LoadGraph \/ LoadFails
    \/ TokenRefused \/ PutForbidden \/ PutConflict \/ PutConflictsOtherwise
    \/ PutAccepted \/ PutFails
    \/ FutureCompletes \/ WaitCompletes \/ PollingExpires
    \/ Decide \/ TryAgain

Next ==
    \/ Start \/ RunStep \/ Crash
    \/ Expire \/ Propagate \/ BootstrapCreated \/ DeploymentEnds

Spec == Init /\ [][Next]_vars

\* A live run goes on, and so does the retry's clock.  Nothing is promised of
\* Azure: propagation, the end of a deployment and new runs may never come.
FairSpec == Spec /\ WF_vars(RunStep) /\ WF_vars(Expire)

-----------------------------------------------------------------------------
(* Properties.                                                             *)

\* The step returns nil only when the deployment has succeeded, whichever run
\* submitted it and whichever way its end was seen.
NilMeansDeployed ==
    pc = "done" /\ result = Nil => dep.state = "succeeded"

\* A failure for want of roles, seen by the attempt that submitted the
\* deployment or got the refusal, and a token refused to either credential end
\* the step only when the retry's time is up; the first is never reported to the
\* customer as a failed deployment.  (What storage refuses to a token for want
\* of a role has a Go type that no predicate knows: it ends the step.)
AuthFailureIsRetried ==
    pc = "done" =>
        /\ HasAuthorizationFailedError(err) \/ IsTokenError(err)
               => expired \/ result = Plain("Rebuild")
        /\ result = CloudError
               => "AuthorizationFailed" \notin {err.code, err.detail}

\* Whatever attempts and runs went before, a service principal's deployment
\* never asks for other custom data in a bootstrap machine that exists.
CustomDataIsStable ==
    ~miwi => dep.cause # "customData"

\* A 409 is not an error of the step: another deployment is waited for.
ConflictIsAdopted ==
    pc = "done" => result.code # "DeploymentActive"

\* The step ends, whatever Azure does or leaves undone; and with every role
\* visible and no more faults the attempt that starts next ends with success, or
\* after the whole of PollingDuration, even when it finds a deployment of an
\* earlier run running (one that was submitted with every role).  For a workload
\* identity this takes that no deployment is left that has made or may yet make a
\* bootstrap machine with another URL.
StepEnds == pc \in Live ~> pc \in {"idle", "done"}
DeploysInTheEnd ==
    /\ StepEnds
    /\ (/\ pc = "load" /\ storage
        /\ stage = 3 /\ token = 0 /\ faults = MaxFaults
        /\ dep.state = "running" => dep.token = 3 /\ ~miwi
        /\ miwi => boot = {})
           ~> pc = "done" /\ result \in {Nil, Plain("PollingDuration")}

================================================================================
