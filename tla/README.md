# A specification of installer-aro-wrapper

`aro` wraps the upstream OpenShift installer for Azure Red Hat OpenShift. It is
run as two commands, one after the other, usually in a pod that may be killed
and started again:

* `aro create manifests` generates the installer's asset graph, customises it,
  **persists** it as two blobs of the cluster's storage account (the bootstrap
  Ignition config in the clear, the graph sealed with a key of the service key
  vault) and writes the Ignition configs to the assets directory;
* `aro create cluster` **loads** the persisted graph, deploys the machines with
  Azure Resource Manager, builds a Kubernetes client from the graph's
  kubeconfig and waits for the bootstrap's config map.

Certificates, tokens and passwords are new in every generated graph. The
cluster works only if the machines, the bootstrap's Ignition config and the
client are all of one graph. That is the property at the centre of this
development; the other modules treat the parts the two commands are made of.

All paths below are relative to the repository.

## 1. Inventory

| part | state | operations | made correct by |
|---|---|---|---|
| the two commands: `cmd/aro/create.go`, `pkg/installer/{install,graph,condition,deployresources}.go`, `pkg/cluster/graph/manager.go`, `pkg/util/encryption`, `pkg/util/keyvault` | two blobs, the assets directory, the machines, the versions of the encryption secret; per run: sealer, openers, loaded graph, client | `_makeInstaller`, `Manifests`, `Install`, `Exists`, `Save`, `LoadPersisted`, `NewMulti` | one graph per cluster, persisted once, openable by later runs; recovery from any death of a run |
| step runner: `pkg/util/steps` and the vendored `wait` poll loop | index of the step, deadline context, ticker, result | `Run`; `Action`, `Condition`, `AuthorizationRetryingAction` | a step is passed exactly when it succeeded or may fail; retries are refreshed and bounded in time; `Run` returns |
| resource deployment: `pkg/util/arm`, `azureerrors`, `refreshable`, `features/deployments_addons.go`, `pkg/util/storage` | the authorizer's token, the deployment `resources` in Azure, the signed URL in the bootstrap machine's custom data | `deployResourceTemplate`, `DeployTemplate`, `CreateOrUpdateAndWait`, `Wait`, the error predicates, `Rebuild` | success means deployed; missing roles are retried; a running deployment is adopted; the custom data of a machine that exists stands; a step that waits for Azure ends |
| the template: `pkg/installer/deployresources_resources.go` | none | the functions of its four resources | names, copies, zones and `dependsOn` fit each other |
| asset graph: `pkg/cluster/graph/{graph,persistedgraph}.go` and their users | the map of assets by type, in memory and persisted | `Get`, `Set`, recursive `Resolve`, `PersistedGraph.Get` | each asset generated once, after its parents; overrides stand; a persisted asset is read whole or refused |
| customisation: `pkg/installer/custominstallconfig.go`, `overridemtu.go`, `regenerate_mcs_certs.go`, `aromanifests.go`, `dnsmasq`, `etchost`, `mdsd`, `pkg/data` | the bootstrap's files, units and marshalled bytes, CVO overrides, pointer Ignition configs | a fixed chain of edits | the several copies of one fact agree at the end; no file twice, none lost |
| install config: `pkg/installer/generateconfig.go`, `computeskus` | the slices of zones in the environment's SKU table | `generateInstallConfig`, `determineAvailabilityZones` | right zones and image in both pools |
| pull secret: `pkg/util/pullsecret` | none | `Build`, `Merge`, `SetRegistryProfiles`, `RemoveKey` | each registry has the credentials of the party that takes precedence |
| first-party certificate: `pkg/env/certificateRefresher.go`, `pkg/util/pem` | key and certificates under an RWMutex, ticker | `Start`, hourly pull, `GetCertificates` | pairs belong together, never older, catch up |
| development proxy: `pkg/proxy`, `pkg/util/net` | two connections, two buffered readers, two copies | `DialContext`, `proxyHandler`, `Proxy` | streams are whole, nothing stays half closed |

**Interaction.** The commands execute through the step runner. The deployment
is a retrying step of it. The graph manager seals with the AEAD, whose keys come
from the key vault, and stores through the storage manager. The deployment gets
its tokens from the authorizer, which builds credentials from the certificate
refresher. The client dials through `pkg/proxy`.

**Hard behaviours.** A run may die between any two remote calls, or lose the
answer of one, and the command is run again (crash recovery between the two
uploads of `Save`, and between `PUT` and poll of a deployment). Runs may
overlap. Secrets and certificates are rotated under a run. Calls take longer than
the deadline of the poll that makes them. Errors are told apart by exact Go
types. Slices share arrays. Bytes sit in buffered readers when a connection
changes hands. `PROJECT.json` lists these at their lines, as hazards, with the
properties that cover them and, where none does, why.

Left out: the upstream installer's own asset generation (vendored), templates
and their text, SDK wrappers, key-vault certificate operations nothing calls,
logging, and the tools under `hack/`.

## 2. Plan

Modules, in the order they are written:

1. `InstallLifecycle` with `OneOffGraph`, its abstract specification, and
   `InstallLifecycle_proofs`. *Done.*
2. `Steps`, then `ArmDeploy`: what one step of a run does inside. *Done.*
3. `AssetGraph`, `BootstrapFiles`, `MachineChoices`: what `Manifests` makes.
   *Done.*
4. `CertificateRefresher`, `Proxy`: what runs beside them. *Done.*
5. The signed URL of the Ignition blob, the bootstrap machine's own custom data
   and the storage account's own propagation: first thought of for
   `InstallLifecycle`, written in `ArmDeploy`, whose attempts sign the URL; what
   becomes of a later run is in both. *Done.*
6. Persisted assets read by a program of another version (`AssetGraph`). *Done.*
7. Pure functions: `PullSecret` and `ResourceTemplate`, used by
   `MachineChoices`, whose config they complete and are made from. *Done.*
8. Composition of `Steps` and `ArmDeploy`: the retry of `ArmDeploy` as an
   instance of the retry step, by refinement. *Dropped*: `Steps` counts the time
   to the next tick, which `ArmDeploy` does not have, so that the mapping would
   need a clock in `ArmDeploy` that no property of it looks at. Both translate
   the same lines of `refreshing.go` and each checks them.

Composition today: each detailed module abstracts the one below it to what its
caller sees. `LoadForDeploy`/`DeployTemplate` of `InstallLifecycle` are one
attempt of `ArmDeploy`, whose retry is one step of `Steps`. `Generate` is all of
`MachineChoices`, `AssetGraph` and `BootstrapFiles`. `MachineChoices` is built on
`PullSecret` and `ResourceTemplate`: the secret goes into its config, the
template is made from it. `NewEnv` contains the
start of `CertificateRefresher`. A failure anywhere below is `Fails` above.

Theorems, in order: type correctness and the safety properties of
`InstallLifecycle` and its refinement of `OneOffGraph`; then, each with the
inductive invariant it needs, `CertificateRefresher`, `ArmDeploy`, `Steps`,
`AssetGraph`, the streams of `Proxy`, the chain of edits of `BootstrapFiles`, and
the zones, template and pull secret of `MachineChoices`. *Done*, see section 5:
every invariant that a run checks is also a theorem.

## 3. The modules

### InstallLifecycle

`Proc` are the runs of the binary. A run is at a label `pc[p]` between two
remote calls; each action is one call, or a group of calls that only read. A
graph is identified by the run that generated it (its *generation*): that is all
the properties tell apart.

| action | code |
|---|---|
| `Start`, `NewEnv` | the command is launched; `newProd` reads everything it needs or the run ends |
| `GetSealer`, `ListOpeners`, `FetchOpener`, `FinishMulti` | `encryption.NewMulti`: latest version, list of versions, one read per version. A rotation can fall between any two |
| `Generate` | `generateInstallConfig`, `applyInstallConfigCustomisations` |
| `PersistGraph` | `persistGraph`: nothing is saved when the graph blob exists |
| `SaveIgnition`, `SaveGraph` | the two uploads of `Save` |
| `PersistToFile` | the runner of `create manifests` writes the graph it has *in memory* |
| `LoadForDeploy`, `DeployTemplate` | `deployResourceTemplate`: the masters carry the loaded graph's config, the bootstrap machine the signed URL |
| `InitializeKubernetesClients` | loads the graph a second time |
| `BootstrapConfigMapReady` | the client is served only by machines of its own generation |
| `BootstrapBoots` | external: the bootstrap machine fetches the Ignition blob when it boots |
| `RotateSecret`, `DisableVersion` | external: operators of the key vault |
| `Crash`, `Fails` | a run disappears; a call fails and every caller returns the error |

A call that fails may have taken effect: each failing upload and deployment has
both outcomes (its answer was lost). A crash between two labels leaves the state
of the last completed call; the request in flight of a crashing process is
covered by the failing call with either outcome. A deployment that fails leaves
the machines there were and any of those it was to create (`LeftBehind`).

A machine that exists is deployed again only with the custom data it has
(`Deployable`). For the masters that is the config of the persisted graph, the
same in every run. For the bootstrap machine it is the URL of the Ignition blob,
and who signs it makes the difference (`SignedBy`): a service principal's is
computed from `Install.Now` of the cluster document, a workload identity's is
signed again by each run that deploys. So `Recovers` promises that a run started
after the last fault completes, but for `create cluster` of a workload identity
only as long as no earlier run has created the bootstrap machine; after that
Resource Manager refuses the deployment, which is what the code does. Signing for
every cluster is the mutant. (The attempts of one run, which sign each for
themselves, are in `ArmDeploy`.)

`Exclusive` says that a run starts only when no other is live: the runs of one
installation are launched one after another by whoever drives them, which the
code relies on (`Exists` and `Save` are two calls without a lease or a
condition). Runs that follow one another differ only in their identity, so
`NextRun` singles out which is next, which leaves TLC a quarter of the states;
where they overlap a symmetry set does the same. `lifecycle_concurrent` shows
what remains without exclusion. `MayDisable`
says whether superseded versions of the secret are disabled; when they are, a
graph sealed with one cannot be opened, by design of the key vault. What holds
nevertheless is `EnabledIsOpenable`: a run that gets through `NewMulti` has every
version that is still enabled and not newer than its own sealer.

`OneOffGraph` is the promise of the comment in `pkg/cluster/graph/graph.go`
("generate and persist the graph as a one-off"): a graph is persisted in one
step, never changed, and everything is made from it. `PersistedOnce` maps
`persisted` to the generation in the graph blob and `used` to the generations of
machines and clients.

### Steps

The three kinds of steps of `pkg/util/steps` on the vendored
`PollUntilContextTimeout`: deadline timer, ticker channel of capacity one, the
select that may prefer either, and calls that take any time because they run on
the outer context. Time is counted down to the next deadline and tick, so runs
of any length have finitely many states.

### ArmDeploy

The retried deployment step against a model of Entra ID and Resource Manager
(`stage`: application unknown, known, roles on the resource group, roles
everywhere). Errors are records of the outer Go type, the dynamic type of
`DetailedError.Original`, the code and the code in a detail, because that is what
the predicates of `azureerrors` look at. `IsDeploymentActiveError` asserts
`Original` to be a `RequestError` by *value*, its neighbours by pointer; the
vendored `DoRetryWithRegistration` indeed returns a value on that path, and the
mutant with the pointer breaks `ConflictIsAdopted`. A deployment that was adopted
and then fails for want of roles ends the step with a plain error and is not
retried within the run; the properties do not claim otherwise.

Each attempt starts with the persisted graph in storage. The storage clients
have a credential of their own, made once (`create.go`), which `Rebuild` does
not touch, and roles of their own (`storage`). A token refused to that
credential carries the text the retry looks for and is retried; a 403 of storage
itself is an `azcore.ResponseError`, which no predicate knows, and ends the step.
`AuthFailureIsRetried` says the first and leaves the second out.

A `PUT` is answered 409 for an active deployment, for a resource provider that is
not registered (the vendored client registers it and sends the request again, or
fails to) or for another conflict; only the first is an error the code knows.
Either wait, for the future or for an adopted deployment, ends with the terminal
state it sees, with a call that fails, or when `PollingDuration` is over
(`PollingExpires`). Durations are not counted: that hour begins after the ten
minutes of the retry have begun and is longer, so the model lets it end only when
the retry's time is up, and then at any moment. The hour for which a workload
identity's URL is valid begins with the attempt that signs it, of which none
starts after the ten minutes; an attempt cannot meet a URL that has run out
between signing and `PUT`, and expiry is left out.

The attempt puts the URL of the Ignition blob into the bootstrap machine's
custom data (`IgnitionUrl`). A service principal's is computed from
`Install.Now` and is the same in every attempt and run: `CustomDataIsStable`. A
workload identity's is signed anew by each attempt and differs from the one a
machine may have been created with. That Resource Manager refuses to change the custom
data of a machine that exists is the model's rule for Azure; `DeploysInTheEnd`
therefore claims success for a workload identity only where no bootstrap machine
exists yet or may come of a running deployment. It promises that the step ends
whatever Azure leaves undone, and with roles visible and no more faults that it
ends with success or after the whole of `PollingDuration`.

### AssetGraph

`Graph.Resolve` as an explicit stack of frames, over every acyclic dependency
relation of the chosen size, every set of overrides and every set of targets.
Each asset in the graph carries the number of the `Generate` call that made it
and the numbers of the parents it saw. The second loop, in `create.go`, would
panic on a type assertion if `Resolve` failed there; `SecondLoopOnlyReads` shows
that it has nothing left to generate.

`Customise` ends with the graph being persisted, or with the graph that an earlier
run with the same targets has persisted and that `persistGraph` keeps (`Exists`,
`Earlier`); `LoadIsExact` says that what is loaded is all of one run.
`GetPersisted` is a later
`create cluster` that asks for one of the assets it uses, with types that may
have lost fields the writer had or gained others. `DisallowUnknownFields` refuses
the first (`LoadIsExact`); that new fields are read as empty is the decoder's
rule and not claimed to be harmless. An asset that was not persisted has no text
and the decoder fails on it; the property says that this does not happen to what
`create cluster` asks for.

### BootstrapFiles

Every edit of `applyInstallConfigCustomisations` in order. A file is a path, who
wrote it, and the words of it some property compares. The manifests the resource
provider hands over have any names (its own, the wrapper's or the installer's)
and describe any resources, or cannot be parsed. Each edit may fail and the
graph is then dropped. The properties are about what is *uploaded and persisted*:
`PointersAgree`, `OneMcsPair` and `PathsAreUnique` read the marshalled bytes, so
that an edit after the last marshalling breaks them; that the bytes are those of
the config is a step of their proofs and not a property.

Limits of the code the properties respect: two manifests that describe the same
resource are refused only among the resource provider's own, so `OverridesAgree`
says that the asset and the file list the same resources, the installer's and
those handed over, none twice but one that both have. Such a one *is* listed twice,
although the comment on `appendFilesToCvoOverrides` claims the functionality of the
upstream asset, which refuses it. A manifest under an installer's name is appended beside the installer's;
`updateMCSCertKey` edits the bootstrap's files and leaves the graph's own
certificate asset as it was. A manifest's name is one of `/opt/openshift/manifests`
(`aromanifests.go`), so it cannot be that of a file which is in another directory
(`Elsewhere`): that is the assumption `ManifestsAreApart`.

### MachineChoices

`generateInstallConfig` from its first parse to the validated config. Zones are
Go slices, an array and a length, because `slices.Sort` and `slices.DeleteFunc`
write to the array of the SKU, which both pools share when they have one VM size.
A zone is its rank in the order of strings, and its `Number` is what the name says:
the two orders agree for numbers of one digit (`ZonesAreNumbered`) and need not
beyond. `ZonesAreRight` says that the control plane gets the first three in the
order of strings, which is what the code does, and that these are picked in
numerical order where all numbers have one digit; the comment's claim for any
numbers is the finding of `machines_numerical`.
`Sorted` and `Kept` are stated by rank and position, not by a loop: the n-th element
is the one that n - 1 elements come before. The loops of `SetRegistryProfiles` and
`ReplaceOrAppend`, whose order matters, are recursive functions of their index.

`PullSecret` has the functions of `pkg/util/pullsecret` on texts, where a text is
its form (empty, not JSON, the literal `null`, an object) and the entry of each
registry. A service's or customer's secret that is the literal `null` leaves a
nil pointer, and most of the functions then panic; so it is in the module, and
such a run does not get to a config. `PullSecretIsRight` states precedence
directly, per registry, where the code gets it from the order of three loops.

`ResourceTemplate` has the four resources of `deployResourceTemplate` with their
copies written out. `FitsTogether` says what makes a template right, and
`TemplateIsSound` is checked on the template that is made from
the config of each run of the function, so that the number of zones the one
function leaves and the number of machines the other counts on are compared.

### CertificateRefresher

The refresher's goroutine, the ticker, and goroutines that read the pair, on an
RWMutex with its two rules (a writer waits for the readers inside; a waiting
writer keeps new readers out). Key and certificates are two writes and two reads.
A version of the secret is a list of PEM blocks, and an operator may set one that
is no certificate: `Parse` and `GetCertificateSecret` refuse it and the pair of
the last good version stays.

### Proxy

One connection from the dialer's `CONNECT` to the return of the handler, with
each direction of each of the two TCP connections as a sequence. The two places
where bytes may sit in a buffered reader when the connection changes hands are
explicit: the dialer's reader after `ReadResponse`, and `net/http`'s, whose
background read may take the client's first byte between the flush of the 200
and the end of `Hijack`. `proxy.Server` is not started by a command of this
repository; the dialer is. HTTP/2 and a failing `Hijack` cannot occur with the
listener the server makes, and are left out.

## 4. The runs

| run | bounds | shows |
|---|---|---|
| `lifecycle` | 3 runs, 2 versions, 2 faults, exclusive, both identities | safety, the refinement and recovery: two runs may die anywhere, the third completes, for a workload identity if there is no bootstrap machine yet |
| `lifecycle_concurrent` | 3 runs, 2 versions, 1 fault, overlapping, versions disabled | the order of the uploads and what success means survive, and no run misses a version that can be read |
| `lifecycle_disk` | as above, exclusive | **violated**: see the findings |
| `steps` | four steps, timeouts 5-7, intervals 2 and 3, one not a multiple | who calls when, what is returned, that `Run` returns |
| `steps_lost_error` | one step | **violated**: see the findings |
| `arm` | 3 runs, 3 faults, 3 PUTs per conflict, both identities | safety of the deployment and its end, the custom data |
| `asset` | 4 types: all 64 acyclic relations, all overrides and targets, an earlier graph or none | order, one snapshot, exact loading, termination by absence of deadlock short of an end |
| `bootstrap` | any manifests among 5 names (its own, the wrapper's, three of the installer's), 4 resources, one of them the installer's too | agreement of the copies at the end |
| `machines` | all listings of 4 zones in every order, one SKU or two; all pull secrets with 2 registries, at most 2 profiles | zones, image and pull secret of the final config, the template made from it |
| `machines_numerical` | the zones of `machines`, no pull secrets | **violated**: see the findings |
| `certificate` | 2 readers, 3 versions of 4 forms, 2 failed pulls | pairs and progress |
| `proxy` | 2 bytes each way | whole streams and no half-closed remains |

Why these bounds are enough. Three runs are two that die and one that meets what
both left; the effects of runs on shared state are a pair of blobs and a pair of
machines, so a fourth meets nothing new. Two versions put a rotation before,
between and after every pair of calls. In `steps` a timeout that is no multiple of
the interval and one that ends on a tick are both there. Two bytes distinguish
the one that is held in a buffer from the one that overtakes it. Four types hold
a diamond with a tail. Four zones hold one that is not basic in the middle of the
order of strings ("1", "10", "2", "3"). Five URLs (`Urls`) are one more than can
be told apart at a time: the installation's, the last attempt's, the
deployment's and the machine's. Two registries are the one that is removed and
one that is not; registries do not interact otherwise, and two profiles may name
the same one. The pull secrets and the SKUs meet in no expression, so `Init` of
`MachineChoices` takes all of the ones with some of the others. The forms of a
certificate secret are a good one, each half alone and one with a foreign block.

Deadlock is checked in `asset`, `bootstrap` and `machines`, whose end states
stutter explicitly. In the others the system may really stop: all runs are over,
`Run` has returned, the context is cancelled, the connection is closed.

**Fairness.** A live run takes its next step (`RunStep`): every call the code
makes goes through clients with timeouts and answers or fails in the end, and
nothing in the program waits without one. Nobody is obliged to start a run, to
crash, to rotate or to propagate a role. `BootstrapBoots`: a machine that
exists boots. `Steps`: a function that is called returns, and time passes.
`ArmDeploy`: the retry's clock runs; nothing is assumed of Azure, a deployment may
run for ever and roles may never become visible, for `PollingDuration` and the
retry's deadline end the waiting.
`CertificateRefresher`: the ticker ticks and goroutines are scheduled; that
readers cannot starve the writer is the RWMutex's rule, not an assumption.
`Proxy`: the handler and its goroutine are scheduled, both ends read, and an end
that has seen the end of the stream, or an error, closes (Go's HTTP transport and
the API server do); the ends may otherwise be silent for ever. Weak fairness
throughout.

**Findings.** (1) A second `create manifests` keeps the persisted graph and yet
writes its own to the assets directory (`lifecycle_disk`). (2) A retry whose
deadline passes between attempts returns `context.DeadlineExceeded` and loses the
step's error, which the comment says is returned directly (`steps_lost_error`).
(3) Zones are sorted as strings: of 1, 10, 2 and 3 the control plane takes 1, 10
and 2, where the comment says numerical order and not the fourth zone
(`machines_numerical`). `PROJECT.json` quotes the lines. Two more
disagreements are part of properties that hold. A `Condition` with `fail` false
drops every error, where its comment speaks of the timeout (`condition.go:28`,
`:70`): `PassedIffSucceeded` lets such a step pass whatever its function last
returned. And a resource of both the installer and the resource provider is listed
twice (`custominstallconfig.go:270`), which `OverridesAgree` excepts by name.

Each property of a passing run also has at least one mutant: an operator next to
the one that models the code ("Mutated: ..."), with a plausible mistake in it,
under which the property is violated.

## 5. The proofs

TLC checks small instances; the theorems hold for every value of the constants.

**`InstallLifecycle_proofs`**, for every set of runs, every number of versions
and every number of faults:

* `TypeCorrect`;
* `EnabledAlwaysOpens`, with no assumption on overlap or disabling. `ReadingInv`
  adds that a run in the middle of reading has each such version in hand or on its
  list, and that a new version is above every sealer there is;
* `IgnitionFirst`, `SuccessPersists`, with no assumption on overlap. Neither is
  inductive alone. `PersistInv` adds what holds in between: at label `graph` the
  Ignition is stored, at label `disk` the graph is;
* `Coherent`, `MadeOfOneGraph`, under `Exclusive`. `OneGraphInv` adds that at
  most one run is live, that a run between the two uploads has stored its own
  Ignition and no graph exists yet, and that a run past its load holds the
  persisted generation;
* `WrittenOnce`, from the same invariant: no step replaces the blobs;
* `AlwaysOpenable`, under `Exclusive` and not `MayDisable`. `KeysInv` adds that
  every version that exists is enabled and that a run past its listing has, in
  hand or still to read, every version up to the graph's;
* `ImplementsPromise`, under `Exclusive`: the initial state maps to the initial
  state of `OneOffGraph`, and each step to a step of it or to a stutter
  (`StepImplements`).

`Exclusive` is needed: two overlapping runs may both find no graph and leave
one's Ignition beside the other's graph.

Each of the other proof modules has one inductive invariant, a conjunction of
named parts, a lemma that it holds at first, one per part that every action
preserves it, and theorems that read the properties off it. The invariants were
checked by TLC on the bounds of section 4 before they were proved.

**`CertificateRefresher_proofs`**, for any set of readers, any number of versions
and failed pulls, whatever the secret is set to: `TypeCorrect`,
`PairsAlwaysBelong`. `PairsBelong` speaks of what a reader holds when it leaves;
`PairInv` adds who holds the lock (`LockInv`: the writer is inside exactly while
it assigns, the readers inside are those between their labels), that the two
fields differ only between the two assignments and only move forward
(`StoreInv`), and that what a reader has read so far is what is stored while it
is inside (`ReadInv`).

**`ArmDeploy_proofs`**, for any number of runs, faults and PUTs: `TypeCorrect`,
`NilOnlyWhenDeployed`, `AuthFailureEndsWithTime`, `ConflictNeverReturned`,
`CustomDataNeverClashes`.
`Raised` is the set of the errors the calls of an attempt can return, in the Go
shapes they return them in; `Translated`, `AuthIsRetryable` and
`ConflictIsActive` say what the predicates of `azureerrors` make of each.
`DeployInv` adds that an attempt ends with one of those and with nil only when
the deployment has succeeded (`AttemptInv`), that a service principal's URL is
the same in the attempt, the deployment and the machine (`UrlInv`).

**`Steps_proofs`**, for every list of steps with any timeouts and intervals:
`TypeCorrect`, `CallsStayBounded`, `ErrorTellsCause`, and the action properties
`RetriesFollowRebuild` and `StepsPassOnSuccess`. The bound on the calls is not
inductive. `TickInv` accounts for time: calls made, a tick that waits in the
channel and the time to the next one never add up to more than the time that has
passed. `IntervalsFit` turns the product into the quotient the property states.
`WaitInv` and `ResultInv` say which outcome a poll that waits, or a step that is
over, was left with.

**`AssetGraph_proofs`**, for every set of types, every acyclic relation, every
overrides and targets: `TypeCorrect`, `GraphIsOneSnapshot`, `WritingOnlyReads`,
`LoadingIsExact`, `NeverPanics` (the type assertion after the second loop) and the
action property `ResolutionIsOrdered`. The recursion of `Resolve` is in the stack:
`Chained` says that the frames are a chain of dependencies, none of them in the
graph, and that what a frame has ticked off is in the graph or is being resolved
above it. `WalkInv` adds which targets are in the graph at which point of the two
loops, `GraphInv` that the graph holds what was given and else only what is
needed, made from what it holds, and `SavedInv` that what is persisted is that
graph or the earlier one.
`NeededIsLeast` states the closure `Needed` by what it is closed under.

**`MachineChoices_proofs`**, for any zones, texts and lists of profiles:

* `ZonesHold`. `ZoneInv` says at each place of `determineAvailabilityZones` how a
  kind's slice and the array it is cut from relate to what Azure listed: the same
  list, then its ascending list, then a beginning of the array that lists the
  eligible zones in ascending order. The step that needs an argument is the second
  `slices.DeleteFunc` where both kinds share an array: what the first one cleared is
  the empty string and no basic zone, so the second keeps the same list
  (`DeletedBasic`, `FilterKeepsBasic`), and the control plane's slice, cut before,
  still reads right. The workers' second `slices.Sort` changes nothing, since an
  ascending list of a set is unique (`AscUnique`, `SortAgain`), so it does not
  disturb the control plane's either. `PickedInOrder` and `LowestAreLowest` turn the
  order of strings into that of one-digit numbers;
* `TemplateHolds`, from the same invariant: a list that is not the empty zone has
  exactly three different zones when `deployResourceTemplate` picks from it. It
  rests on `TemplateFitsTogether`, which is for any number of machines;
* `PullSecretHolds`: `LastProfileHolds` says what the loop of
  `SetRegistryProfiles` leaves after any number of profiles, `MergeTakesCustomer`
  what one merge does, `BuildIsRight` puts them together. `OnlyNullPanics` says
  which texts panic;
* `ImageFitsBothPools`.

**`BootstrapFiles_proofs`**, for any number of manifests under any names, any
resources: `PointersHold`, `McsPairHolds`, `OverridesHold`,
`PathsHold`. The properties speak of the *first* file of a path, and the argument
is by position: the installer's seven files come first and stay where they are
through every replacement and appending (`Sound`), so the first file of one of
their paths is theirs, or what the wrapper put in its place, and a manifest of the
same name is behind it. `BootInv` adds which paths cannot be in the list yet where
an edit appends without looking (`OrderInv`), what the fixed places hold at each
step (`IgnoredInv`, `PointerInv`, `McsInv`), and that every manifest has arrived
behind them (`ManifestInv`). There is one lemma per action.

**`Proxy_proofs`**, for any number of bytes each way and resets at any moment:
`StreamsStayWhole`. A byte is its number in its stream, so that a stream is whole
if each place on the way holds the next numbers. `Line(s, o, b, m)` says it of one
sequence: from its message `o + 1` on it goes on where `b` bytes before it end,
up to byte `m`; `Shut` says that an end of the stream comes only after byte `m`.
`DownInv` chains what the client has, the dialer's reader, c1 and c2; `UpInv`
what the target has, c2, `net/http`'s reader and c1. They are stated as long as
the receiver may still read, and only for the part of the way that a reset has
not cut: `Received` is all that is claimed after that. `ControlInv` says how far
the dialer, the handler and the target are relative to each other, and that the
answer is the first message on c1, which is what keeps it apart from the bytes
behind it. `StreamsAreWhole` is then `Received`, by position.

The assumptions are those the modules declare on their constants: bounds are
natural numbers, modes Boolean, `None` is no run, types are numbered so that
dependencies go down, zones are a finite set of ranks with the basic ones among
them, texts and lists of profiles are what their names say, a manifest's name is
not that of a file elsewhere, numbers of one digit are in the order of the
zones, and the program is a non-empty list of steps whose timeouts and
intervals are positive.
Beyond them, `Exclusive` and not `MayDisable` where a theorem of
`InstallLifecycle_proofs` names them.

Where a proof needs induction over a list it takes the least position at which the
claim fails (`LeastNumber`, from the well-foundedness of the natural numbers): for
`ReplaceOrAppend` and `SetProfiles`, first that the recursive function exists, then
what it keeps from one index to the next. Sorting needs counting instead: different
ranks below the size of a set are all the ranks there are (`RanksFill`).

**Model-checked only.** Liveness (`Recovers`, `RunReturns`, `DeploysInTheEnd`,
`CatchesUp`, `ClosesInTheEnd`): the prover does not treat fairness and ENABLED.

## 6. Not modelled, and why

The content of a graph below its identity and the fields of an asset; the text of
templates, units and scripts; wording of errors beyond the type and code the
program tests; logging. In `InstallLifecycle` the masters' custom data is compared
by generation, the bootstrap machine's by who signed its URL; that Azure accepts an unchanged template again and refuses changed custom data is
assumed of it, there and in `ArmDeploy`. Failures to
marshal a value the program has just built are folded into the step's failure;
the errors `dnsmasq_config.go` drops there have no input that raises them.
A missing bound service-account key leaves an empty asset set before resolution,
which is one of the overrides of `AssetGraph`.

Not modelled because they have no state and decide nothing: the JSON encoding of
the template (`pkg/util/arm/marshal.go`), the splitting of resource IDs, the
filling of the logging configuration, `restconfig`. Not modelled because no
command reaches them: the certificate operations of the key vault, the
subscription-scope deployment, `DeleteAndWait`, `UnmarshalSecretData`, `Validate`
of a pull secret, `IsRestricted` and `PersistedGraph.Set`. Of the install config,
the fields that are copied from the cluster document or read off one capability
of a SKU (accelerated networking, by `HasCapability`) are left out, and the file
`pem.Encode` writes for a workload identity is a write that may fail. The scripts the wrapper puts on the machines (dnsmasq, etchosts,
mdsd) run after the program has ended; their placement is in `BootstrapFiles`,
their execution is not. A proxy that never answers the dialer's `CONNECT` holds
the dial for ever (`pkg/proxy/dialer.go:93` has no deadline); `ClosesInTheEnd`
speaks of a proxy whose handler runs.
