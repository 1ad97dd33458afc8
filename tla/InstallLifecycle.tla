--------------------------- MODULE InstallLifecycle ---------------------------
(***************************************************************************)
(* The life of one cluster installation, as the processes of cmd/aro see   *)
(* it.  `create manifests` generates an asset graph, persists it as two    *)
(* blobs of the cluster's storage account (ignition/bootstrap.ign in the   *)
(* clear and aro/graph sealed with a key-vault key) and writes the target  *)
(* assets to the assets directory.  `create cluster` loads the persisted   *)
(* graph, deploys the virtual machines and polls the bootstrap through the *)
(* graph's kubeconfig.  Either command may fail at any remote call, lose   *)
(* the answer of one, or crash between any two, and is then run again; the *)
(* key-vault secret is rotated meanwhile.                                  *)
(*                                                                         *)
(* Certificates, tokens and passwords are generated afresh by each run of  *)
(* `create manifests`: a graph is identified by the process that generated *)
(* it, its generation.                                                     *)
(***************************************************************************)
EXTENDS Naturals, FiniteSets

CONSTANTS
    Proc,       \* the runs of the aro binary, each with an identity of its own
    None,       \* "no generation": an absent blob, an unset field
    MaxKey,     \* bound on the versions of the encryption secret
    MaxFaults,  \* bound on the failed or lost calls and the crashes
    Exclusive,  \* TRUE: a run starts only when no other run is live
    MayDisable  \* TRUE: an operator disables superseded key versions

ASSUME NoneIsNoProc == None \notin Proc
ASSUME BoundsAreNat == MaxKey \in Nat \ {0} /\ MaxFaults \in Nat
ASSUME ModesAreBool == Exclusive \in BOOLEAN /\ MayDisable \in BOOLEAN

VARIABLES
    pc,        \* where each run stands
    cmd,       \* which command each run executes
    sealer,    \* multi.sealer: the key version a run seals with
    toFetch,   \* key versions GetBase64Secrets has listed and not yet read
    openers,   \* multi.openers: the key versions a run can open with
    ignition,  \* blob ignition/bootstrap.ign: the generation stored
    graph,     \* blob aro/graph: the generation stored and its key version
    disk,      \* generation of the target assets in the assets directory
    loaded,    \* generation deployResourceTemplate has loaded
    vm,        \* the machines: the generation the masters were created from,
               \* who signed the URL in the bootstrap machine's custom data,
               \* if there is that machine, and the generation it has booted
    kube,      \* generation of the kubeconfig behind manager.kubernetescli
    latest,    \* newest version of the encryption secret
    enabled,   \* its enabled versions
    miwi,      \* oc.UsesWorkloadIdentity()
    faults     \* failed or lost calls and crashes so far

procVars == <<pc, cmd, sealer, toFetch, openers, loaded, kube>>
blobVars == <<ignition, graph>>
readVars == <<latest, enabled, miwi>>
vars     == <<procVars, blobVars, readVars, disk, vm, faults>>

Key == 1..MaxKey
Gen == Proc \cup {None}

Final    == {"ok", "failed", "crashed"}
Making   == {"env", "sealer", "list", "fetch"}
Manifest == {"generate", "exists", "ignition", "graph", "disk"}
Cluster  == {"load", "deploy", "clients", "ready"}
Live     == Making \cup Manifest \cup Cluster

Running(p) == pc[p] \in Live
NoGraph == [gen |-> None, key |-> 0]

TypeOK ==
    /\ pc \in [Proc -> {"idle"} \cup Live \cup Final]
    /\ cmd \in [Proc -> {"manifests", "cluster"}]
    /\ sealer \in [Proc -> Key \cup {0}]
    /\ toFetch \in [Proc -> SUBSET Key]
    /\ openers \in [Proc -> SUBSET Key]
    /\ ignition \in Gen
    /\ graph \in [gen : Gen, key : Key \cup {0}]
    /\ disk \in Gen
    /\ loaded \in [Proc -> Gen]
    /\ vm \in [master : Gen, url : SUBSET Gen, boot : Gen]
    /\ kube \in [Proc -> Gen]
    /\ latest \in Key
    /\ enabled \in SUBSET Key
    /\ miwi \in BOOLEAN
    /\ faults \in 0..MaxFaults

Init ==
    /\ pc = [p \in Proc |-> "idle"]
    /\ cmd = [p \in Proc |-> "manifests"]
    /\ sealer = [p \in Proc |-> 0]
    /\ toFetch = [p \in Proc |-> {}]
    /\ openers = [p \in Proc |-> {}]
    /\ ignition = None
    /\ graph = NoGraph
    /\ disk = None
    /\ loaded = [p \in Proc |-> None]
    /\ vm = [master |-> None, url |-> {}, boot |-> None]
    /\ kube = [p \in Proc |-> None]
    /\ latest = 1
    /\ enabled = {1}
    /\ miwi \in BOOLEAN
    /\ faults = 0

-----------------------------------------------------------------------------
(* Control shared by the handlers.                                         *)

Goto(p, label) == pc' = [pc EXCEPT ![p] = label]

\* A call of run p returns an error, an account key that is throttled, a
\* signature that does not parse or the service's own refusal: every caller
\* up to cmd/aro returns it, and the process exits with status 1.
Fails(p) ==
    /\ faults < MaxFaults
    /\ faults' = faults + 1
    /\ Goto(p, "failed")

\* The process disappears: the pod is evicted, killed or out of memory.
Crash(p) ==
    /\ Running(p)
    /\ faults < MaxFaults
    /\ faults' = faults + 1
    /\ Goto(p, "crashed")
    /\ UNCHANGED <<cmd, sealer, toFetch, openers, loaded, kube,
                   blobVars, readVars, disk, vm>>

\* Before they are launched runs differ in nothing but their identity: where one
\* follows another it makes no difference which is next, and one is singled out.
NextRun == CHOOSE p \in Proc : pc[p] = "idle"

\* `aro create manifests` or `aro create cluster` is launched.
Start(p) ==
    /\ pc[p] = "idle"
    /\ Exclusive => p = NextRun /\ \A q \in Proc : ~Running(q)
    /\ \E c \in {"manifests", "cluster"} : cmd' = [cmd EXCEPT ![p] = c]
    /\ Goto(p, "env")
    /\ UNCHANGED <<sealer, toFetch, openers, loaded, kube,
                   blobVars, readVars, disk, vm, faults>>

\* newProd: environment variables, instance metadata, the first-party
\* certificate, the logging certificate and the VM SKUs.  The calls only
\* read; the first that fails ends the run before it has changed anything.
NewEnv(p) ==
    /\ pc[p] = "env"
    /\ \/ Goto(p, "sealer") /\ UNCHANGED faults
       \/ Fails(p)
    /\ UNCHANGED <<cmd, sealer, toFetch, openers, loaded, kube,
                   blobVars, readVars, disk, vm>>

-----------------------------------------------------------------------------
(* encryption.NewMulti: three groups of key-vault calls, a rotation may    *)
(* fall between any two of them.                                           *)

FirstLabel(p) == IF cmd[p] = "manifests" THEN "generate" ELSE "load"

\* GetBase64Secret(secretName, ""): the latest version becomes the sealer.
GetSealer(p) ==
    /\ pc[p] = "sealer"
    /\ \/ /\ sealer' = [sealer EXCEPT ![p] = latest]
          /\ Goto(p, "list")
          /\ UNCHANGED faults
       \/ Fails(p) /\ UNCHANGED sealer
    /\ UNCHANGED <<cmd, toFetch, openers, loaded, kube,
                   blobVars, readVars, disk, vm>>

\* GetBase64Secrets lists every enabled version of the secret.  Mutated: the
\* sealer's version is the only opener.
SealerOnly(p) == {sealer[p]}
ListedVersions(p) == enabled

\* GetSecretVersions: the versions that are enabled when they are listed.
ListOpeners(p) ==
    /\ pc[p] = "list"
    /\ \/ /\ toFetch' = [toFetch EXCEPT ![p] = ListedVersions(p)]
          /\ Goto(p, "fetch")
          /\ UNCHANGED faults
       \/ Fails(p) /\ UNCHANGED toFetch
    /\ UNCHANGED <<cmd, sealer, openers, loaded, kube,
                   blobVars, readVars, disk, vm>>

\* One GetBase64Secret per listed version; a version disabled since the
\* listing cannot be read, and the constructor returns the error.
FetchOpener(p) ==
    /\ pc[p] = "fetch"
    /\ \E k \in toFetch[p] :
          \/ /\ k \in enabled
             /\ openers' = [openers EXCEPT ![p] = @ \cup {k}]
             /\ toFetch' = [toFetch EXCEPT ![p] = @ \ {k}]
             /\ UNCHANGED <<pc, faults>>
          \/ /\ k \notin enabled
             /\ Goto(p, "failed")
             /\ UNCHANGED <<openers, toFetch, faults>>
          \/ Fails(p) /\ UNCHANGED <<openers, toFetch>>
    /\ UNCHANGED <<cmd, sealer, loaded, kube, blobVars, readVars, disk, vm>>

\* Every listed version is read; the legacy secret's versions open no graph
\* of this program and add nothing but one more call that may fail.
FinishMulti(p) ==
    /\ pc[p] = "fetch"
    /\ toFetch[p] = {}
    /\ \/ Goto(p, FirstLabel(p)) /\ UNCHANGED faults
       \/ Fails(p)
    /\ UNCHANGED <<cmd, sealer, toFetch, openers, loaded, kube,
                   blobVars, readVars, disk, vm>>

-----------------------------------------------------------------------------
(* create manifests: Manifests() runs three actions in order, then the     *)
(* command writes the target assets of the graph it was handed.            *)

\* generateInstallConfig and applyInstallConfigCustomisations: the graph of
\* generation p exists in memory from here on.
Generate(p) ==
    /\ pc[p] = "generate"
    /\ \/ Goto(p, "exists") /\ UNCHANGED faults
       \/ Fails(p)
    /\ UNCHANGED <<cmd, sealer, toFetch, openers, loaded, kube,
                   blobVars, readVars, disk, vm>>

\* What BlobExists(aro, graph) answers.  Mutated: the blob asked for is the
\* one Save writes first; the answer is always "absent".
IgnitionBlobExists == ignition # None
NeverExists == FALSE
GraphBlobExists == graph.gen # None

\* Save uploads the ignition first.  Mutated: that upload is left out.
SkipIgnition == "graph"
FirstUpload == "ignition"

\* persistGraph: nothing is saved when the graph blob is there already.
PersistGraph(p) ==
    /\ pc[p] = "exists"
    /\ \/ /\ GraphBlobExists
          /\ Goto(p, "disk")
          /\ UNCHANGED faults
       \/ /\ ~GraphBlobExists
          /\ Goto(p, FirstUpload)
          /\ UNCHANGED faults
       \/ Fails(p)
    /\ UNCHANGED <<cmd, sealer, toFetch, openers, loaded, kube,
                   blobVars, readVars, disk, vm>>

\* Save, mutated: an upload that only creates, so a blob left behind by an
\* earlier run is an error.
SaveIgnitionCreateOnly(p) ==
    /\ pc[p] = "ignition"
    /\ ignition' = IF ignition = None THEN p ELSE ignition
    /\ Goto(p, IF ignition = None THEN "graph" ELSE "failed")
    /\ UNCHANGED <<cmd, sealer, toFetch, openers, loaded, kube,
                   graph, readVars, disk, vm, faults>>

\* Save, first upload: bootstrap.File.Data, whatever the blob held before.
\* A failed call may have stored it: its answer is lost on the way back.
SaveIgnition(p) ==
    /\ pc[p] = "ignition"
    /\ \/ ignition' = p /\ Goto(p, "graph") /\ UNCHANGED faults
       \/ ignition' \in {ignition, p} /\ Fails(p)
    /\ UNCHANGED <<cmd, sealer, toFetch, openers, loaded, kube,
                   graph, readVars, disk, vm>>

\* The graph blob of run p, sealed with the version read at its start.
\* Mutated: the bytes are uploaded as they were marshalled.
Unsealed(p) == [gen |-> p, key |-> None]
Sealed(p) == [gen |-> p, key |-> sealer[p]]

\* Save, second upload: marshalling and sealing are local, the upload is the
\* point at which the graph starts to exist for other runs.
SaveGraph(p) ==
    /\ pc[p] = "graph"
    /\ \/ graph' = Sealed(p) /\ Goto(p, "disk") /\ UNCHANGED faults
       \/ graph' \in {graph, Sealed(p)} /\ Fails(p)
    /\ UNCHANGED <<cmd, sealer, toFetch, openers, loaded, kube,
                   ignition, readVars, disk, vm>>

\* The runner of the command: each target asset is taken from the graph in
\* memory and written to the assets directory.
PersistToFile(p) ==
    /\ pc[p] = "disk"
    /\ \/ disk' = p /\ Goto(p, "ok") /\ UNCHANGED faults
       \/ disk' \in {disk, p} /\ Fails(p)
    /\ UNCHANGED <<cmd, sealer, toFetch, openers, loaded, kube,
                   blobVars, readVars, vm>>

-----------------------------------------------------------------------------
(* create cluster: Install() deploys, builds the client and polls.         *)

\* LoadPersisted hands run p a graph: the blob is there and one of the run's
\* openers opens it.
CanLoad(p) == graph.gen # None /\ graph.key \in openers[p]

\* deployResourceTemplate, up to the template: the graph is loaded (and the
\* ignition blob's signed URL made) anew in each attempt.
LoadForDeploy(p) ==
    /\ pc[p] = "load"
    /\ \/ /\ CanLoad(p)
          /\ loaded' = [loaded EXCEPT ![p] = graph.gen]
          /\ Goto(p, "deploy")
          /\ UNCHANGED faults
       \/ /\ ~CanLoad(p)
          /\ Goto(p, "failed")
          /\ UNCHANGED <<loaded, faults>>
       \/ Fails(p) /\ UNCHANGED loaded
    /\ UNCHANGED <<cmd, sealer, toFetch, openers, kube,
                   blobVars, readVars, disk, vm>>

\* Who signs the URL of the ignition blob: for a workload identity the run that
\* deploys, otherwise nobody, it is made from Install.Now of the document.
\* Mutated: the run that deploys, whoever the cluster belongs to.
SignedByAll(p) == p
SignedBy(p) == IF miwi THEN p ELSE None

\* computeMasterVMs and computeBootstrapVM: the masters carry the ignition config
\* of the loaded graph as custom data, the bootstrap machine the URL.
Deployed(p) == [vm EXCEPT !.master = loaded[p], !.url = {SignedBy(p)}]

\* A machine that exists is deployed again only with the custom data it has.
Deployable(p) ==
    /\ vm.master # None => vm.master = loaded[p]
    /\ vm.url # {} => vm.url = {SignedBy(p)}

\* What a deployment that fails leaves behind: the machines that exist and any
\* of those that it was to create, none of which waits for another.
LeftBehind(p) ==
    {v \in [master : {vm.master, loaded[p]}, url : {vm.url, {SignedBy(p)}},
            boot : {vm.boot}] :
        /\ vm.master # None => v.master = vm.master
        /\ vm.url # {} => v.url = vm.url}

\* DeployTemplate: the deployment succeeds, is refused because of the custom data
\* of a machine that exists, or fails; a failed call may have succeeded.
DeployTemplate(p) ==
    /\ pc[p] = "deploy"
    /\ \/ /\ Deployable(p)
          /\ vm' = Deployed(p)
          /\ Goto(p, "clients")
          /\ UNCHANGED faults
       \/ /\ ~Deployable(p)
          /\ vm' \in LeftBehind(p)
          /\ Goto(p, "failed")
          /\ UNCHANGED faults
       \/ vm' \in LeftBehind(p) /\ Fails(p)
    /\ UNCHANGED <<cmd, sealer, toFetch, openers, loaded, kube,
                   blobVars, readVars, disk>>

\* The bootstrap machine starts and fetches ignition/bootstrap.ign through
\* the URL in its custom data, at a time of its own.
BootstrapBoots ==
    /\ vm.url # {}
    /\ vm.boot = None
    /\ ignition # None
    /\ vm' = [vm EXCEPT !.boot = ignition]
    /\ UNCHANGED <<procVars, blobVars, readVars, disk, faults>>

\* The kubeconfig a run's client is built from: the graph is loaded a second
\* time.  Mutated: it is taken from the assets directory.
KubeconfigOnDisk(p) == disk
Kubeconfig(p) == graph.gen

\* initializeKubernetesClients: the graph is loaded a second time.
InitializeKubernetesClients(p) ==
    /\ pc[p] = "clients"
    /\ \/ /\ CanLoad(p)
          /\ kube' = [kube EXCEPT ![p] = Kubeconfig(p)]
          /\ Goto(p, "ready")
          /\ UNCHANGED faults
       \/ /\ ~CanLoad(p)
          /\ Goto(p, "failed")
          /\ UNCHANGED <<kube, faults>>
       \/ Fails(p) /\ UNCHANGED kube
    /\ UNCHANGED <<cmd, sealer, toFetch, openers, loaded,
                   blobVars, readVars, disk, vm>>

\* bootstrapConfigMapReady under its Condition: the API server serves the
\* config map only to a client whose kubeconfig carries its own certificate
\* authority; any other client polls until the timeout.
BootstrapConfigMapReady(p) ==
    /\ pc[p] = "ready"
    /\ \/ /\ vm.boot # None
          /\ kube[p] = vm.boot
          /\ Goto(p, "ok")
          /\ UNCHANGED faults
       \/ /\ vm.boot # None
          /\ kube[p] # vm.boot
          /\ Goto(p, "failed")
          /\ UNCHANGED faults
       \/ Fails(p)
    /\ UNCHANGED <<cmd, sealer, toFetch, openers, loaded, kube,
                   blobVars, readVars, disk, vm>>

-----------------------------------------------------------------------------
(* The operators of the key vault.                                         *)

\* A new version of the encryption secret becomes the latest.
RotateSecret ==
    /\ latest < MaxKey
    /\ latest' = latest + 1
    /\ enabled' = enabled \cup {latest + 1}
    /\ UNCHANGED <<procVars, blobVars, miwi, disk, vm, faults>>

\* A superseded version is disabled.
DisableVersion ==
    /\ MayDisable
    /\ \E k \in enabled \ {latest} : enabled' = enabled \ {k}
    /\ UNCHANGED <<procVars, blobVars, latest, miwi, disk, vm, faults>>

-----------------------------------------------------------------------------
RunStep(p) ==
    \/ NewEnv(p)
    \/ GetSealer(p) \/ ListOpeners(p) \/ FetchOpener(p) \/ FinishMulti(p)
    \/ Generate(p) \/ PersistGraph(p) \/ SaveIgnition(p) \/ SaveGraph(p)
    \/ PersistToFile(p)
    \/ LoadForDeploy(p) \/ DeployTemplate(p)
    \/ InitializeKubernetesClients(p) \/ BootstrapConfigMapReady(p)

Next ==
    \/ \E p \in Proc : Start(p) \/ RunStep(p) \/ Crash(p)
    \/ BootstrapBoots
    \/ RotateSecret
    \/ DisableVersion

Spec == Init /\ [][Next]_vars

\* A run that is live takes its next step (its calls answer or fail, no step
\* of the program blocks for ever) and a created machine boots, while the URL it
\* was created with is good (a day from Install.Now, or an hour from the signing).
\* Nobody is obliged to start a run, to crash or to rotate a secret.
Fairness ==
    /\ \A p \in Proc : WF_vars(RunStep(p))
    /\ WF_vars(BootstrapBoots)

FairSpec == Spec /\ Fairness

-----------------------------------------------------------------------------
(* Properties.                                                             *)

\* Save's order: whoever finds the graph blob finds the ignition blob too.
\* deployResourceTemplate relies on it, it never checks for the ignition.
IgnitionBeforeGraph == graph.gen # None => ignition # None

\* A `create manifests` that exits with status 0 leaves a graph behind for
\* `create cluster`, its own or an earlier one.
SuccessMeansPersisted ==
    \A p \in Proc : pc[p] = "ok" /\ cmd[p] = "manifests" => graph.gen # None

\* The two blobs are of one generation, whatever runs failed or crashed
\* between the two uploads.
BlobsCoherent == graph.gen # None => ignition = graph.gen

\* Graph's "one-off": no run replaces a persisted graph or its ignition.
WriteOnce == [][graph.gen # None => UNCHANGED blobVars]_vars

\* The masters' custom data, the ignition the bootstrap machine fetches and
\* the kubeconfigs of all runs are of the generation that is persisted: they
\* share the certificate authorities.
ClusterOfOneGraph ==
    /\ vm.master # None => vm.master = graph.gen
    /\ vm.boot # None => vm.boot = graph.gen
    /\ \A p \in Proc : kube[p] # None => kube[p] = vm.master

\* A run that has built its AEAD and is still live can open the persisted
\* graph, with whichever version it was sealed.
SealedIsOpenable ==
    \A p \in Proc :
        pc[p] \in Manifest \cup Cluster /\ graph.gen # None
            => graph.key \in openers[p]

\* However runs overlap and whichever versions are disabled while they are being
\* read, a run that has built its AEAD lacks no version up to its own sealer's
\* that can still be read: one that could not be read has ended the run, and none
\* is left out.
EnabledIsOpenable ==
    \A p \in Proc : pc[p] \in Manifest \cup Cluster =>
        \A k \in enabled : k <= sealer[p] => k \in openers[p]

\* pkg/cluster/graph/graph.go: the in-memory graph is a one-off, later uses
\* are of the persisted one.  Hence what a successful `create manifests`
\* leaves in the assets directory is the persisted graph.
DiskIsPersisted ==
    \A p \in Proc :
        pc[p] = "ok" /\ cmd[p] = "manifests" /\ disk = p => graph.gen = p

\* The generations the cluster is made from.
UsedGens ==
    ({vm.master, vm.boot} \cup {kube[p] : p \in Proc}) \ {None}

\* The two uploads, the machines' creation and boot and every load implement
\* a graph that is persisted atomically, once, and used from there.
Promise == INSTANCE OneOffGraph
    WITH Gen <- Proc, None <- None, persisted <- graph.gen, used <- UsedGens
PersistedOnce == Promise!Spec

\* Once calls stop failing, a run started over completes, whatever state the
\* earlier runs died in: `create manifests` always, `create cluster` when a
\* graph is there to load.  For a workload identity this takes that no earlier
\* run has created the bootstrap machine: its URL would be signed again.
Recovers ==
    \A p \in Proc :
        (/\ pc[p] = "env"
         /\ faults = MaxFaults
         /\ cmd[p] = "cluster" => graph.gen # None /\ (miwi => vm.url = {}))
            ~> pc[p] = "ok"

=============================================================================
