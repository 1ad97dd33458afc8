------------------------ MODULE InstallLifecycle_proofs ------------------------
(***************************************************************************)
(* Theorems about InstallLifecycle, for every set of runs, every number of *)
(* key versions and every number of faults.                                *)
(***************************************************************************)
EXTENDS InstallLifecycle, TLAPS

(* Every reachable state is typed: a stored generation is a run's or None, *)
(* a key version an existing or an unset one, and a run stands at a label  *)
(* of one of the two commands.                                             *)
THEOREM TypeCorrect == Spec => []TypeOK
<1>1. Init => TypeOK
  <2> SUFFICES ASSUME Init PROVE TypeOK
    OBVIOUS
  <2>1. /\ pc \in [Proc -> {"idle"} \cup Live \cup Final]
        /\ cmd \in [Proc -> {"manifests", "cluster"}]
        /\ loaded \in [Proc -> Gen] /\ kube \in [Proc -> Gen]
    BY DEF Init, Gen
  <2>2. /\ sealer \in [Proc -> Key \cup {0}]
        /\ toFetch \in [Proc -> SUBSET Key]
        /\ openers \in [Proc -> SUBSET Key]
    BY DEF Init
  <2>3. ignition \in Gen /\ disk \in Gen /\ vm \in [master : Gen, url : SUBSET Gen, boot : Gen]
    BY DEF Init, Gen
  <2>4. graph \in [gen : Gen, key : Key \cup {0}]
    BY DEF Init, NoGraph, Gen
  <2>5. latest \in Key /\ enabled \in SUBSET Key /\ miwi \in BOOLEAN /\ faults \in 0..MaxFaults
    BY BoundsAreNat DEF Init, Key
  <2>6. QED
    BY <2>1, <2>2, <2>3, <2>4, <2>5 DEF TypeOK
<1>2. TypeOK /\ [Next]_vars => TypeOK'
  <2> SUFFICES ASSUME TypeOK, [Next]_vars PROVE TypeOK'
    OBVIOUS
  <2> USE NoneIsNoProc, BoundsAreNat, ModesAreBool
      DEF TypeOK, Gen, Key, Live, Making, Manifest, Cluster, Final,
          procVars, blobVars, readVars
  <2>1. ASSUME NEW p \in Proc, Start(p) PROVE TypeOK'
    BY <2>1 DEF Start, Goto
  <2>2. ASSUME NEW p \in Proc, GetSealer(p) PROVE TypeOK'
    BY <2>2 DEF GetSealer, Goto, Fails
  <2>3. ASSUME NEW p \in Proc, ListOpeners(p) PROVE TypeOK'
    <3>1. toFetch' \in [Proc -> SUBSET Key]
      BY <2>3 DEF ListOpeners, ListedVersions
    <3>2. /\ pc' \in [Proc -> {"idle"} \cup Live \cup Final]
          /\ faults' \in 0..MaxFaults
      BY <2>3 DEF ListOpeners, Goto, Fails
    <3>3. QED
      BY <2>3, <3>1, <3>2 DEF ListOpeners
  <2>4. ASSUME NEW p \in Proc, FetchOpener(p) PROVE TypeOK'
    <3>1. /\ openers' \in [Proc -> SUBSET Key]
          /\ toFetch' \in [Proc -> SUBSET Key]
      BY <2>4 DEF FetchOpener
    <3>2. /\ pc' \in [Proc -> {"idle"} \cup Live \cup Final]
          /\ faults' \in 0..MaxFaults
      BY <2>4 DEF FetchOpener, Goto, Fails
    <3>3. QED
      BY <2>4, <3>1, <3>2 DEF FetchOpener
  <2>5. ASSUME NEW p \in Proc, FinishMulti(p) PROVE TypeOK'
    BY <2>5 DEF FinishMulti, FirstLabel, Goto, Fails
  <2>6. ASSUME NEW p \in Proc, Generate(p) PROVE TypeOK'
    BY <2>6 DEF Generate, Goto, Fails
  <2>7. ASSUME NEW p \in Proc, PersistGraph(p) PROVE TypeOK'
    BY <2>7 DEF PersistGraph, GraphBlobExists, FirstUpload, Goto, Fails
  <2>8. ASSUME NEW p \in Proc, SaveIgnition(p) PROVE TypeOK'
    BY <2>8 DEF SaveIgnition, Goto, Fails
  <2>9. ASSUME NEW p \in Proc, SaveGraph(p) PROVE TypeOK'
    BY <2>9 DEF SaveGraph, Sealed, Goto, Fails
  <2>10. ASSUME NEW p \in Proc, PersistToFile(p) PROVE TypeOK'
    BY <2>10 DEF PersistToFile, Goto, Fails
  <2>11. ASSUME NEW p \in Proc, LoadForDeploy(p) PROVE TypeOK'
    BY <2>11 DEF LoadForDeploy, CanLoad, Goto, Fails
  <2>12. ASSUME NEW p \in Proc, DeployTemplate(p) PROVE TypeOK'
    <3>1. SignedBy(p) \in Gen /\ loaded[p] \in Gen
      BY DEF SignedBy
    <3>2. Deployed(p) \in [master : Gen, url : SUBSET Gen, boot : Gen]
      BY <3>1 DEF Deployed
    <3>3. LeftBehind(p) \subseteq [master : Gen, url : SUBSET Gen, boot : Gen]
      BY <3>1 DEF LeftBehind
    <3>4. vm' \in [master : Gen, url : SUBSET Gen, boot : Gen]
      BY <2>12, <3>2, <3>3 DEF DeployTemplate
    <3>5. /\ pc' \in [Proc -> {"idle"} \cup Live \cup Final]
          /\ faults' \in 0..MaxFaults
      BY <2>12 DEF DeployTemplate, Goto, Fails
    <3>6. QED
      BY <2>12, <3>4, <3>5 DEF DeployTemplate
  <2>13. ASSUME NEW p \in Proc, InitializeKubernetesClients(p) PROVE TypeOK'
    BY <2>13 DEF InitializeKubernetesClients, CanLoad, Kubeconfig, Goto, Fails
  <2>14. ASSUME NEW p \in Proc, BootstrapConfigMapReady(p) PROVE TypeOK'
    BY <2>14 DEF BootstrapConfigMapReady, Goto, Fails
  <2>15. ASSUME NEW p \in Proc, Crash(p) PROVE TypeOK'
    BY <2>15 DEF Crash, Goto
  <2>16. CASE BootstrapBoots
    BY <2>16 DEF BootstrapBoots
  <2>17. CASE RotateSecret
    BY <2>17 DEF RotateSecret
  <2>18. CASE DisableVersion
    BY <2>18 DEF DisableVersion
  <2>19. CASE UNCHANGED vars
    BY <2>19 DEF vars
  <2>20. ASSUME NEW p \in Proc, NewEnv(p) PROVE TypeOK'
    BY <2>20 DEF NewEnv, Goto, Fails
  <2>21. QED
    BY <2>1, <2>2, <2>3, <2>4, <2>5, <2>6, <2>7, <2>8, <2>9, <2>10, <2>11,
       <2>12, <2>13, <2>14, <2>15, <2>16, <2>17, <2>18, <2>19, <2>20
       DEF Next, RunStep
<1>3. QED
  BY <1>1, <1>2, PTL DEF Spec

-----------------------------------------------------------------------------
(* The order of Save's uploads, for runs that may overlap.                 *)

\* Strengthening of IgnitionBeforeGraph and SuccessMeansPersisted: what holds
\* between the two uploads and before the command's exit.
PersistInv ==
    /\ \A p \in Proc : pc[p] \in Cluster => cmd[p] = "cluster"
    /\ \A p \in Proc : pc[p] = "graph" => ignition # None
    /\ \A p \in Proc : pc[p] = "disk" => graph.gen # None
    /\ IgnitionBeforeGraph
    /\ SuccessMeansPersisted

(* Before any run nothing is stored and no run is past an upload.          *)
LEMMA PersistInvInit == Init => PersistInv
  BY DEF Init, NoGraph, PersistInv, IgnitionBeforeGraph, SuccessMeansPersisted,
         Cluster

(* Every step of overlapping runs keeps the upload order: Save writes the   *)
(* ignition before the graph, and no step removes a blob.                  *)
LEMMA PersistInvNext == TypeOK /\ PersistInv /\ [Next]_vars => PersistInv'
<1> SUFFICES ASSUME TypeOK, PersistInv, [Next]_vars PROVE PersistInv'
  OBVIOUS
<1> USE NoneIsNoProc
    DEF TypeOK, PersistInv, IgnitionBeforeGraph, SuccessMeansPersisted,
        Cluster, Manifest, Making, Live, Gen, procVars, blobVars, readVars
<1>1. ASSUME NEW p \in Proc, Start(p) PROVE PersistInv'
  BY <1>1 DEF Start, Goto
<1>2. ASSUME NEW p \in Proc, GetSealer(p) PROVE PersistInv'
  BY <1>2 DEF GetSealer, Goto, Fails
<1>3. ASSUME NEW p \in Proc, ListOpeners(p) PROVE PersistInv'
  BY <1>3 DEF ListOpeners, ListedVersions, Goto, Fails
<1>4. ASSUME NEW p \in Proc, FetchOpener(p) PROVE PersistInv'
  BY <1>4 DEF FetchOpener, Goto, Fails
<1>5. ASSUME NEW p \in Proc, FinishMulti(p) PROVE PersistInv'
  BY <1>5 DEF FinishMulti, FirstLabel, Goto, Fails
<1>6. ASSUME NEW p \in Proc, Generate(p) PROVE PersistInv'
  BY <1>6 DEF Generate, Goto, Fails
<1>7. ASSUME NEW p \in Proc, PersistGraph(p) PROVE PersistInv'
  BY <1>7 DEF PersistGraph, GraphBlobExists, FirstUpload, Goto, Fails
<1>8. ASSUME NEW p \in Proc, SaveIgnition(p) PROVE PersistInv'
  BY <1>8 DEF SaveIgnition, Goto, Fails
<1>9. ASSUME NEW p \in Proc, SaveGraph(p) PROVE PersistInv'
  BY <1>9 DEF SaveGraph, Sealed, Goto, Fails
<1>10. ASSUME NEW p \in Proc, PersistToFile(p) PROVE PersistInv'
  BY <1>10 DEF PersistToFile, Goto, Fails
<1>11. ASSUME NEW p \in Proc, LoadForDeploy(p) PROVE PersistInv'
  BY <1>11 DEF LoadForDeploy, CanLoad, Goto, Fails
<1>12. ASSUME NEW p \in Proc, DeployTemplate(p) PROVE PersistInv'
  BY <1>12 DEF DeployTemplate, Deployed, Deployable, LeftBehind, SignedBy, Goto, Fails
<1>13. ASSUME NEW p \in Proc, InitializeKubernetesClients(p) PROVE PersistInv'
  BY <1>13 DEF InitializeKubernetesClients, CanLoad, Kubeconfig, Goto, Fails
<1>14. ASSUME NEW p \in Proc, BootstrapConfigMapReady(p) PROVE PersistInv'
  BY <1>14 DEF BootstrapConfigMapReady, Goto, Fails
<1>15. ASSUME NEW p \in Proc, Crash(p) PROVE PersistInv'
  BY <1>15 DEF Crash, Goto
<1>16. CASE BootstrapBoots
  BY <1>16 DEF BootstrapBoots
<1>17. CASE RotateSecret
  BY <1>17 DEF RotateSecret
<1>18. CASE DisableVersion
  BY <1>18 DEF DisableVersion
<1>19. CASE UNCHANGED vars
  BY <1>19 DEF vars
<1>20. ASSUME NEW p \in Proc, NewEnv(p) PROVE PersistInv'
  BY <1>20 DEF NewEnv, Goto, Fails
<1>21. QED
  BY <1>1, <1>2, <1>3, <1>4, <1>5, <1>6, <1>7, <1>8, <1>9, <1>10, <1>11,
     <1>12, <1>13, <1>14, <1>15, <1>16, <1>17, <1>18, <1>19, <1>20
     DEF Next, RunStep

(* Whoever finds the graph blob finds the ignition blob, whatever runs     *)
(* overlap, fail or crash.                                                 *)
THEOREM IgnitionFirst == Spec => []IgnitionBeforeGraph
<1>1. PersistInv => IgnitionBeforeGraph
  BY DEF PersistInv
<1>2. QED
  BY <1>1, TypeCorrect, PersistInvInit, PersistInvNext, PTL DEF Spec

(* A successful `create manifests` has left a graph behind, whatever runs  *)
(* overlap, fail or crash.                                                 *)
THEOREM SuccessPersists == Spec => []SuccessMeansPersisted
<1>1. PersistInv => SuccessMeansPersisted
  BY DEF PersistInv
<1>2. QED
  BY <1>1, TypeCorrect, PersistInvInit, PersistInvNext, PTL DEF Spec

-----------------------------------------------------------------------------
(* One graph: what exclusive runs guarantee.                               *)

\* At most one run is live: what Exclusive gives the argument.
OneLive == \A p, q \in Proc : Running(p) /\ Running(q) => p = q

\* A run that is about to upload has seen no graph blob, and nobody else has
\* created one since; after its first upload the ignition is its own.
UploadsFresh ==
    \A p \in Proc :
        /\ pc[p] \in {"ignition", "graph"} => graph.gen = None
        /\ pc[p] = "graph" => ignition = p

\* What create cluster holds on its way is the persisted graph.
ClusterOnItsWay ==
    /\ \A p \in Proc :
          /\ pc[p] = "deploy" => loaded[p] = graph.gen /\ graph.gen # None
          /\ pc[p] \in {"clients", "ready"} => vm.master # None
    /\ vm.url # {} => graph.gen # None

\* BlobsCoherent and ClusterOfOneGraph are not inductive: a step of one run
\* preserves them because of what it checked earlier.
OneGraphInv ==
    /\ OneLive
    /\ UploadsFresh
    /\ ClusterOnItsWay
    /\ BlobsCoherent
    /\ ClusterOfOneGraph

(* Before any run there is no graph, no machine and no client.              *)
LEMMA OneGraphInit == Init => OneGraphInv
  BY NoneIsNoProc
     DEF Init, NoGraph, OneGraphInv, OneLive, UploadsFresh, ClusterOnItsWay,
         BlobsCoherent, ClusterOfOneGraph, Running, Live, Making, Manifest,
         Cluster

(* Exclusive: Start needs every other run to be over, so that a step of one *)
(* run finds every other run idle or final.                                *)
LEMMA OneLiveNext == Exclusive /\ TypeOK /\ OneLive /\ [Next]_vars => OneLive'
<1> SUFFICES ASSUME Exclusive, TypeOK, OneLive, [Next]_vars PROVE OneLive'
  OBVIOUS
<1> USE DEF TypeOK, OneLive, Running, Live, Making, Manifest, Cluster,
            procVars
<1>1. ASSUME NEW p \in Proc, Start(p) PROVE OneLive'
  BY <1>1 DEF Start, Goto
<1>2. ASSUME NEW p \in Proc, GetSealer(p) PROVE OneLive'
  BY <1>2 DEF GetSealer, Goto, Fails
<1>3. ASSUME NEW p \in Proc, ListOpeners(p) PROVE OneLive'
  BY <1>3 DEF ListOpeners, ListedVersions, Goto, Fails
<1>4. ASSUME NEW p \in Proc, FetchOpener(p) PROVE OneLive'
  BY <1>4 DEF FetchOpener, Goto, Fails
<1>5. ASSUME NEW p \in Proc, FinishMulti(p) PROVE OneLive'
  BY <1>5 DEF FinishMulti, FirstLabel, Goto, Fails
<1>6. ASSUME NEW p \in Proc, Generate(p) PROVE OneLive'
  BY <1>6 DEF Generate, Goto, Fails
<1>7. ASSUME NEW p \in Proc, PersistGraph(p) PROVE OneLive'
  BY <1>7 DEF PersistGraph, GraphBlobExists, FirstUpload, Goto, Fails
<1>8. ASSUME NEW p \in Proc, SaveIgnition(p) PROVE OneLive'
  BY <1>8 DEF SaveIgnition, Goto, Fails
<1>9. ASSUME NEW p \in Proc, SaveGraph(p) PROVE OneLive'
  BY <1>9 DEF SaveGraph, Sealed, Goto, Fails
<1>10. ASSUME NEW p \in Proc, PersistToFile(p) PROVE OneLive'
  BY <1>10 DEF PersistToFile, Goto, Fails
<1>11. ASSUME NEW p \in Proc, LoadForDeploy(p) PROVE OneLive'
  BY <1>11 DEF LoadForDeploy, CanLoad, Goto, Fails
<1>12. ASSUME NEW p \in Proc, DeployTemplate(p) PROVE OneLive'
  BY <1>12 DEF DeployTemplate, Deployed, Deployable, LeftBehind, SignedBy, Goto, Fails
<1>13. ASSUME NEW p \in Proc, InitializeKubernetesClients(p) PROVE OneLive'
  BY <1>13 DEF InitializeKubernetesClients, CanLoad, Kubeconfig, Goto, Fails
<1>14. ASSUME NEW p \in Proc, BootstrapConfigMapReady(p) PROVE OneLive'
  BY <1>14 DEF BootstrapConfigMapReady, Goto, Fails
<1>15. ASSUME NEW p \in Proc, Crash(p) PROVE OneLive'
  BY <1>15 DEF Crash, Goto
<1>16. CASE BootstrapBoots
  BY <1>16 DEF BootstrapBoots
<1>17. CASE RotateSecret
  BY <1>17 DEF RotateSecret
<1>18. CASE DisableVersion
  BY <1>18 DEF DisableVersion
<1>19. CASE UNCHANGED vars
  BY <1>19 DEF vars
<1>20. ASSUME NEW p \in Proc, NewEnv(p) PROVE OneLive'
  BY <1>20 DEF NewEnv, Goto, Fails
<1>21. QED
  BY <1>1, <1>2, <1>3, <1>4, <1>5, <1>6, <1>7, <1>8, <1>9, <1>10, <1>11,
     <1>12, <1>13, <1>14, <1>15, <1>16, <1>17, <1>18, <1>19, <1>20
     DEF Next, RunStep

(* Every step of exclusive runs keeps the stored blobs, the machines and    *)
(* the clients on one generation.                                          *)
LEMMA OneGraphNext ==
    Exclusive /\ TypeOK /\ OneGraphInv /\ [Next]_vars => OneGraphInv'
<1> SUFFICES ASSUME Exclusive, TypeOK, OneGraphInv, [Next]_vars
             PROVE  OneGraphInv'
  OBVIOUS
<1> DEFINE Rest == /\ UploadsFresh /\ ClusterOnItsWay
                   /\ BlobsCoherent /\ ClusterOfOneGraph
<1>live. OneLive'
  BY OneLiveNext DEF OneGraphInv
<1> SUFFICES Rest'
  BY <1>live DEF OneGraphInv
<1> USE NoneIsNoProc
    DEF TypeOK, OneGraphInv, OneLive, UploadsFresh, ClusterOnItsWay,
        BlobsCoherent, ClusterOfOneGraph, Running, Live, Making, Manifest,
        Cluster, Gen, procVars, blobVars, readVars
<1>1. ASSUME NEW p \in Proc, Start(p) PROVE Rest'
  BY <1>1 DEF Start, Goto
<1>2. ASSUME NEW p \in Proc, GetSealer(p) PROVE Rest'
  BY <1>2 DEF GetSealer, Goto, Fails
<1>3. ASSUME NEW p \in Proc, ListOpeners(p) PROVE Rest'
  BY <1>3 DEF ListOpeners, ListedVersions, Goto, Fails
<1>4. ASSUME NEW p \in Proc, FetchOpener(p) PROVE Rest'
  BY <1>4 DEF FetchOpener, Goto, Fails
<1>5. ASSUME NEW p \in Proc, FinishMulti(p) PROVE Rest'
  BY <1>5 DEF FinishMulti, FirstLabel, Goto, Fails
<1>6. ASSUME NEW p \in Proc, Generate(p) PROVE Rest'
  BY <1>6 DEF Generate, Goto, Fails
<1>7. ASSUME NEW p \in Proc, PersistGraph(p) PROVE Rest'
  BY <1>7 DEF PersistGraph, GraphBlobExists, FirstUpload, Goto, Fails
<1>8. ASSUME NEW p \in Proc, SaveIgnition(p) PROVE Rest'
  BY <1>8 DEF SaveIgnition, Goto, Fails
<1>9. ASSUME NEW p \in Proc, SaveGraph(p) PROVE Rest'
  BY <1>9 DEF SaveGraph, Sealed, Goto, Fails
<1>10. ASSUME NEW p \in Proc, PersistToFile(p) PROVE Rest'
  BY <1>10 DEF PersistToFile, Goto, Fails
<1>11. ASSUME NEW p \in Proc, LoadForDeploy(p) PROVE Rest'
  BY <1>11 DEF LoadForDeploy, CanLoad, Goto, Fails
<1>12. ASSUME NEW p \in Proc, DeployTemplate(p) PROVE Rest'
  <2>1. loaded[p] = graph.gen /\ graph.gen # None
    BY <1>12 DEF DeployTemplate
  <2>2. /\ Deployed(p).master = loaded[p] /\ Deployed(p).boot = vm.boot
        /\ \A v \in LeftBehind(p) :
              /\ v.master \in {vm.master, loaded[p]} /\ v.boot = vm.boot
              /\ vm.master # None => v.master = vm.master
    BY DEF Deployed, LeftBehind
  <2>3. /\ vm'.master \in {vm.master, loaded[p]} /\ vm'.boot = vm.boot
        /\ vm.master # None => vm'.master = vm.master
    BY <1>12, <2>2 DEF DeployTemplate, Deployable
  <2>4. pc'[p] = "clients" => vm'.master # None
    BY <1>12, <2>1, <2>2 DEF DeployTemplate, Goto, Fails
  <2>5. pc'[p] \in {"clients", "failed"} /\ \A q \in Proc : q # p => pc'[q] = pc[q]
    BY <1>12 DEF DeployTemplate, Goto, Fails
  <2>6. UNCHANGED <<graph, ignition, loaded, kube>>
    BY <1>12 DEF DeployTemplate
  <2>7. QED
    BY <2>1, <2>3, <2>4, <2>5, <2>6
<1>13. ASSUME NEW p \in Proc, InitializeKubernetesClients(p) PROVE Rest'
  BY <1>13 DEF InitializeKubernetesClients, CanLoad, Kubeconfig, Goto, Fails
<1>14. ASSUME NEW p \in Proc, BootstrapConfigMapReady(p) PROVE Rest'
  BY <1>14 DEF BootstrapConfigMapReady, Goto, Fails
<1>15. ASSUME NEW p \in Proc, Crash(p) PROVE Rest'
  BY <1>15 DEF Crash, Goto
<1>16. CASE BootstrapBoots
  BY <1>16 DEF BootstrapBoots
<1>17. CASE RotateSecret
  BY <1>17 DEF RotateSecret
<1>18. CASE DisableVersion
  BY <1>18 DEF DisableVersion
<1>19. CASE UNCHANGED vars
  BY <1>19 DEF vars
<1>20. ASSUME NEW p \in Proc, NewEnv(p) PROVE Rest'
  BY <1>20 DEF NewEnv, Goto, Fails
<1>21. QED
  BY <1>1, <1>2, <1>3, <1>4, <1>5, <1>6, <1>7, <1>8, <1>9, <1>10, <1>11,
     <1>12, <1>13, <1>14, <1>15, <1>16, <1>17, <1>18, <1>19, <1>20
     DEF Next, RunStep

(* The two blobs are of one generation in every state of exclusive runs,   *)
(* whatever fails, is lost or crashes between the uploads.                 *)
THEOREM Coherent == Exclusive => (Spec => []BlobsCoherent)
<1> SUFFICES ASSUME Exclusive PROVE Spec => []BlobsCoherent
  OBVIOUS
<1>1. OneGraphInv => BlobsCoherent
  BY DEF OneGraphInv
<1>2. TypeOK /\ OneGraphInv /\ [Next]_vars => OneGraphInv'
  BY OneGraphNext
<1>3. QED
  BY <1>1, <1>2, TypeCorrect, OneGraphInit, PTL DEF Spec

(* The machines and every client of exclusive runs are made from the       *)
(* persisted graph, so the client can speak to the cluster it polls.       *)
THEOREM MadeOfOneGraph == Exclusive => (Spec => []ClusterOfOneGraph)
<1> SUFFICES ASSUME Exclusive PROVE Spec => []ClusterOfOneGraph
  OBVIOUS
<1>1. OneGraphInv => ClusterOfOneGraph
  BY DEF OneGraphInv
<1>2. TypeOK /\ OneGraphInv /\ [Next]_vars => OneGraphInv'
  BY OneGraphNext
<1>3. QED
  BY <1>1, <1>2, TypeCorrect, OneGraphInit, PTL DEF Spec

\* No step of exclusive runs touches the blobs of a persisted graph.
LEMMA BlobsKept ==
    Exclusive /\ TypeOK /\ OneGraphInv /\ [Next]_vars /\ graph.gen # None
        => UNCHANGED blobVars
<1> SUFFICES ASSUME Exclusive, TypeOK, OneGraphInv, [Next]_vars,
                    graph.gen # None
             PROVE  UNCHANGED blobVars
  OBVIOUS
<1> USE DEF OneGraphInv, UploadsFresh, blobVars
<1>1. ASSUME NEW p \in Proc, Start(p) PROVE UNCHANGED blobVars
  BY <1>1 DEF Start, Goto
<1>2. ASSUME NEW p \in Proc, GetSealer(p) PROVE UNCHANGED blobVars
  BY <1>2 DEF GetSealer, Goto, Fails
<1>3. ASSUME NEW p \in Proc, ListOpeners(p) PROVE UNCHANGED blobVars
  BY <1>3 DEF ListOpeners, ListedVersions, Goto, Fails
<1>4. ASSUME NEW p \in Proc, FetchOpener(p) PROVE UNCHANGED blobVars
  BY <1>4 DEF FetchOpener, Goto, Fails
<1>5. ASSUME NEW p \in Proc, FinishMulti(p) PROVE UNCHANGED blobVars
  BY <1>5 DEF FinishMulti, FirstLabel, Goto, Fails
<1>6. ASSUME NEW p \in Proc, Generate(p) PROVE UNCHANGED blobVars
  BY <1>6 DEF Generate, Goto, Fails
<1>7. ASSUME NEW p \in Proc, PersistGraph(p) PROVE UNCHANGED blobVars
  BY <1>7 DEF PersistGraph, GraphBlobExists, FirstUpload, Goto, Fails
<1>8. ASSUME NEW p \in Proc, SaveIgnition(p) PROVE UNCHANGED blobVars
  BY <1>8 DEF SaveIgnition, Goto, Fails
<1>9. ASSUME NEW p \in Proc, SaveGraph(p) PROVE UNCHANGED blobVars
  BY <1>9 DEF SaveGraph, Sealed, Goto, Fails
<1>10. ASSUME NEW p \in Proc, PersistToFile(p) PROVE UNCHANGED blobVars
  BY <1>10 DEF PersistToFile, Goto, Fails
<1>11. ASSUME NEW p \in Proc, LoadForDeploy(p) PROVE UNCHANGED blobVars
  BY <1>11 DEF LoadForDeploy, CanLoad, Goto, Fails
<1>12. ASSUME NEW p \in Proc, DeployTemplate(p) PROVE UNCHANGED blobVars
  BY <1>12 DEF DeployTemplate, Deployed, Deployable, LeftBehind, SignedBy, Goto, Fails
<1>13. ASSUME NEW p \in Proc, InitializeKubernetesClients(p) PROVE UNCHANGED blobVars
  BY <1>13 DEF InitializeKubernetesClients, CanLoad, Kubeconfig, Goto, Fails
<1>14. ASSUME NEW p \in Proc, BootstrapConfigMapReady(p) PROVE UNCHANGED blobVars
  BY <1>14 DEF BootstrapConfigMapReady, Goto, Fails
<1>15. ASSUME NEW p \in Proc, Crash(p) PROVE UNCHANGED blobVars
  BY <1>15 DEF Crash, Goto
<1>16. CASE BootstrapBoots
  BY <1>16 DEF BootstrapBoots
<1>17. CASE RotateSecret
  BY <1>17 DEF RotateSecret
<1>18. CASE DisableVersion
  BY <1>18 DEF DisableVersion
<1>19. CASE UNCHANGED vars
  BY <1>19 DEF vars
<1>20. ASSUME NEW p \in Proc, NewEnv(p) PROVE UNCHANGED blobVars
  BY <1>20 DEF NewEnv, Goto, Fails
<1>21. QED
  BY <1>1, <1>2, <1>3, <1>4, <1>5, <1>6, <1>7, <1>8, <1>9, <1>10, <1>11,
     <1>12, <1>13, <1>14, <1>15, <1>16, <1>17, <1>18, <1>19, <1>20
     DEF Next, RunStep

(* A persisted graph and its ignition are never replaced: the graph is the *)
(* one-off its documentation calls it.                                     *)
THEOREM WrittenOnce == Exclusive => (Spec => WriteOnce)
<1> SUFFICES ASSUME Exclusive PROVE Spec => WriteOnce
  OBVIOUS
<1>1. TypeOK /\ OneGraphInv /\ [Next]_vars
        => [graph.gen # None => UNCHANGED blobVars]_vars
  BY BlobsKept
<1>2. TypeOK /\ OneGraphInv /\ [Next]_vars => OneGraphInv'
  BY OneGraphNext
<1>3. QED
  BY <1>1, <1>2, TypeCorrect, OneGraphInit, PTL DEF Spec, WriteOnce

-----------------------------------------------------------------------------
(* Keys: exclusive runs and a key vault that only ever adds versions.      *)

\* Versions up to the latest are enabled, the graph's key and the sealers of
\* live runs are among them.
VersionsExist ==
    /\ enabled = 1..latest
    /\ graph.gen # None => graph.key \in 1..latest
    /\ \A p \in Proc : pc[p] \in {"list", "fetch"} \cup Manifest \cup Cluster
            => sealer[p] \in 1..latest

\* While the openers are fetched, and afterwards, they cover the run's own
\* sealer and the key of the persisted graph.
OpenersCover ==
    \A p \in Proc :
        /\ pc[p] = "fetch"
             => /\ sealer[p] \in openers[p] \cup toFetch[p]
                /\ graph.gen # None => graph.key \in openers[p] \cup toFetch[p]
        /\ pc[p] \in Manifest \cup Cluster
             => /\ sealer[p] \in openers[p]
                /\ graph.gen # None => graph.key \in openers[p]

KeysInv == OneLive /\ VersionsExist /\ OpenersCover

(* Before any run only version 1 of the secret exists and nothing is sealed. *)
LEMMA KeysInit == Init => KeysInv
  BY DEF Init, NoGraph, KeysInv, OneLive, VersionsExist, OpenersCover, Running,
         Live, Making, Manifest, Cluster

(* Every step keeps the openers of a run that has built its AEAD a superset *)
(* of the versions a graph may be sealed with: rotation adds versions and, *)
(* without DisableVersion, no step removes one.                            *)
LEMMA KeysNext ==
    Exclusive /\ ~MayDisable /\ TypeOK /\ KeysInv /\ [Next]_vars => KeysInv'
<1> SUFFICES ASSUME Exclusive, ~MayDisable, TypeOK, KeysInv, [Next]_vars
             PROVE  KeysInv'
  OBVIOUS
<1> DEFINE Rest == VersionsExist /\ OpenersCover
<1>live. OneLive'
  BY OneLiveNext DEF KeysInv
<1> SUFFICES Rest'
  BY <1>live DEF KeysInv
<1> USE NoneIsNoProc, BoundsAreNat
    DEF TypeOK, KeysInv, OneLive, VersionsExist, OpenersCover, Running, Live,
        Making, Manifest, Cluster, Gen, Key, procVars, blobVars, readVars
<1>1. ASSUME NEW p \in Proc, Start(p) PROVE Rest'
  BY <1>1 DEF Start, Goto
<1>2. ASSUME NEW p \in Proc, GetSealer(p) PROVE Rest'
  BY <1>2 DEF GetSealer, Goto, Fails
<1>3. ASSUME NEW p \in Proc, ListOpeners(p) PROVE Rest'
  BY <1>3 DEF ListOpeners, ListedVersions, Goto, Fails
<1>4. ASSUME NEW p \in Proc, FetchOpener(p) PROVE Rest'
  BY <1>4 DEF FetchOpener, Goto, Fails
<1>5. ASSUME NEW p \in Proc, FinishMulti(p) PROVE Rest'
  BY <1>5 DEF FinishMulti, FirstLabel, Goto, Fails
<1>6. ASSUME NEW p \in Proc, Generate(p) PROVE Rest'
  BY <1>6 DEF Generate, Goto, Fails
<1>7. ASSUME NEW p \in Proc, PersistGraph(p) PROVE Rest'
  BY <1>7 DEF PersistGraph, GraphBlobExists, FirstUpload, Goto, Fails
<1>8. ASSUME NEW p \in Proc, SaveIgnition(p) PROVE Rest'
  BY <1>8 DEF SaveIgnition, Goto, Fails
<1>9. ASSUME NEW p \in Proc, SaveGraph(p) PROVE Rest'
  BY <1>9 DEF SaveGraph, Sealed, Goto, Fails
<1>10. ASSUME NEW p \in Proc, PersistToFile(p) PROVE Rest'
  BY <1>10 DEF PersistToFile, Goto, Fails
<1>11. ASSUME NEW p \in Proc, LoadForDeploy(p) PROVE Rest'
  BY <1>11 DEF LoadForDeploy, CanLoad, Goto, Fails
<1>12. ASSUME NEW p \in Proc, DeployTemplate(p) PROVE Rest'
  BY <1>12 DEF DeployTemplate, Deployed, Deployable, LeftBehind, SignedBy, Goto, Fails
<1>13. ASSUME NEW p \in Proc, InitializeKubernetesClients(p) PROVE Rest'
  BY <1>13 DEF InitializeKubernetesClients, CanLoad, Kubeconfig, Goto, Fails
<1>14. ASSUME NEW p \in Proc, BootstrapConfigMapReady(p) PROVE Rest'
  BY <1>14 DEF BootstrapConfigMapReady, Goto, Fails
<1>15. ASSUME NEW p \in Proc, Crash(p) PROVE Rest'
  BY <1>15 DEF Crash, Goto
<1>16. CASE BootstrapBoots
  BY <1>16 DEF BootstrapBoots
<1>17. CASE RotateSecret
  BY <1>17 DEF RotateSecret
<1>18. CASE DisableVersion
  BY <1>18 DEF DisableVersion
<1>19. CASE UNCHANGED vars
  BY <1>19 DEF vars
<1>20. ASSUME NEW p \in Proc, NewEnv(p) PROVE Rest'
  BY <1>20 DEF NewEnv, Goto, Fails
<1>21. QED
  BY <1>1, <1>2, <1>3, <1>4, <1>5, <1>6, <1>7, <1>8, <1>9, <1>10, <1>11,
     <1>12, <1>13, <1>14, <1>15, <1>16, <1>17, <1>18, <1>19, <1>20
     DEF Next, RunStep

(* As long as no superseded version is disabled, a run that has built its  *)
(* AEAD opens the persisted graph, however often the secret was rotated.   *)
THEOREM AlwaysOpenable ==
    Exclusive /\ ~MayDisable => (Spec => []SealedIsOpenable)
<1> SUFFICES ASSUME Exclusive, ~MayDisable PROVE Spec => []SealedIsOpenable
  OBVIOUS
<1>1. KeysInv => SealedIsOpenable
  BY DEF KeysInv, OpenersCover, SealedIsOpenable
<1>2. TypeOK /\ KeysInv /\ [Next]_vars => KeysInv'
  BY KeysNext
<1>3. QED
  BY <1>1, <1>2, TypeCorrect, KeysInit, PTL DEF Spec

\* What a run has and still has to read covers every version up to its sealer's
\* that is enabled.
ReadingInv ==
    /\ \A p \in Proc : sealer[p] <= latest
    /\ \A p \in Proc, k \in enabled :
          pc[p] = "fetch" /\ k <= sealer[p] => k \in openers[p] \cup toFetch[p]
    /\ EnabledIsOpenable

(* No step takes a version from a run, and a new version is above the sealer *)
(* of every run there is.                                                  *)
LEMMA ReadingNext == TypeOK /\ ReadingInv /\ [Next]_vars => ReadingInv'
<1> SUFFICES ASSUME TypeOK, ReadingInv, [Next]_vars PROVE ReadingInv'
  OBVIOUS
<1> USE BoundsAreNat
    DEF TypeOK, ReadingInv, EnabledIsOpenable, Live, Making, Manifest, Cluster, Key,
        procVars, blobVars, readVars
<1>1. ASSUME NEW p \in Proc, Start(p) PROVE ReadingInv'
  BY <1>1 DEF Start, Goto
<1>2. ASSUME NEW p \in Proc, NewEnv(p) PROVE ReadingInv'
  BY <1>2 DEF NewEnv, Goto, Fails
<1>3. ASSUME NEW p \in Proc, GetSealer(p) PROVE ReadingInv'
  BY <1>3 DEF GetSealer, Goto, Fails
<1>4. ASSUME NEW p \in Proc, ListOpeners(p) PROVE ReadingInv'
  BY <1>4 DEF ListOpeners, ListedVersions, Goto, Fails
<1>5. ASSUME NEW p \in Proc, FetchOpener(p) PROVE ReadingInv'
  BY <1>5 DEF FetchOpener, Goto, Fails
<1>6. ASSUME NEW p \in Proc, FinishMulti(p) PROVE ReadingInv'
  BY <1>6 DEF FinishMulti, FirstLabel, Goto, Fails
<1>7. ASSUME NEW p \in Proc, Generate(p) PROVE ReadingInv'
  BY <1>7 DEF Generate, Goto, Fails
<1>8. ASSUME NEW p \in Proc, PersistGraph(p) PROVE ReadingInv'
  BY <1>8 DEF PersistGraph, GraphBlobExists, FirstUpload, Goto, Fails
<1>9. ASSUME NEW p \in Proc, SaveIgnition(p) PROVE ReadingInv'
  BY <1>9 DEF SaveIgnition, Goto, Fails
<1>10. ASSUME NEW p \in Proc, SaveGraph(p) PROVE ReadingInv'
  BY <1>10 DEF SaveGraph, Sealed, Goto, Fails
<1>11. ASSUME NEW p \in Proc, PersistToFile(p) PROVE ReadingInv'
  BY <1>11 DEF PersistToFile, Goto, Fails
<1>12. ASSUME NEW p \in Proc, LoadForDeploy(p) PROVE ReadingInv'
  BY <1>12 DEF LoadForDeploy, CanLoad, Goto, Fails
<1>13. ASSUME NEW p \in Proc, DeployTemplate(p) PROVE ReadingInv'
  BY <1>13 DEF DeployTemplate, Deployed, Deployable, LeftBehind, SignedBy, Goto, Fails
<1>14. ASSUME NEW p \in Proc, InitializeKubernetesClients(p) PROVE ReadingInv'
  BY <1>14 DEF InitializeKubernetesClients, CanLoad, Kubeconfig, Goto, Fails
<1>15. ASSUME NEW p \in Proc, BootstrapConfigMapReady(p) PROVE ReadingInv'
  BY <1>15 DEF BootstrapConfigMapReady, Goto, Fails
<1>16. ASSUME NEW p \in Proc, Crash(p) PROVE ReadingInv'
  BY <1>16 DEF Crash, Goto
<1>17. CASE BootstrapBoots
  BY <1>17 DEF BootstrapBoots
<1>18. CASE RotateSecret
  BY <1>18 DEF RotateSecret
<1>19. CASE DisableVersion
  BY <1>19 DEF DisableVersion
<1>20. CASE UNCHANGED vars
  BY <1>20 DEF vars
<1>21. QED
  BY <1>1, <1>2, <1>3, <1>4, <1>5, <1>6, <1>7, <1>8, <1>9, <1>10, <1>11,
     <1>12, <1>13, <1>14, <1>15, <1>16, <1>17, <1>18, <1>19, <1>20
     DEF Next, RunStep

(* Runs that overlap and versions that are disabled included: no run goes on *)
(* from NewMulti without a version up to its own sealer's that is enabled. *)
THEOREM EnabledAlwaysOpens == Spec => []EnabledIsOpenable
<1>1. Init => ReadingInv
  BY BoundsAreNat
     DEF Init, ReadingInv, EnabledIsOpenable, Manifest, Cluster
<1>2. ReadingInv => EnabledIsOpenable
  BY DEF ReadingInv
<1>3. QED
  BY <1>1, <1>2, ReadingNext, TypeCorrect, PTL DEF Spec

-----------------------------------------------------------------------------
(* Implementation of OneOffGraph.                                          *)

(* Every step of exclusive runs maps to a Persist, a Use or a stutter of    *)
(* OneOffGraph: only the upload of the graph blob changes what is persisted. *)
LEMMA StepImplements ==
    TypeOK /\ OneGraphInv /\ OneGraphInv' /\ [Next]_vars
        => [Promise!Next]_<<graph.gen, UsedGens>>
<1> SUFFICES ASSUME TypeOK, OneGraphInv, OneGraphInv', [Next]_vars
             PROVE  [Promise!Next]_<<graph.gen, UsedGens>>
  OBVIOUS
<1> DEFINE Goal == [Promise!Next]_<<graph.gen, UsedGens>>
<1> USE NoneIsNoProc
    DEF TypeOK, Promise!Next, Promise!Persist, Promise!Use, UsedGens, Gen,
        OneGraphInv, UploadsFresh, ClusterOnItsWay, ClusterOfOneGraph,
        procVars, blobVars, readVars
<1>1. ASSUME NEW p \in Proc, Start(p) PROVE Goal
  BY <1>1 DEF Start, Goto
<1>2. ASSUME NEW p \in Proc, GetSealer(p) PROVE Goal
  BY <1>2 DEF GetSealer, Goto, Fails
<1>3. ASSUME NEW p \in Proc, ListOpeners(p) PROVE Goal
  BY <1>3 DEF ListOpeners, ListedVersions, Goto, Fails
<1>4. ASSUME NEW p \in Proc, FetchOpener(p) PROVE Goal
  BY <1>4 DEF FetchOpener, Goto, Fails
<1>5. ASSUME NEW p \in Proc, FinishMulti(p) PROVE Goal
  BY <1>5 DEF FinishMulti, FirstLabel, Goto, Fails
<1>6. ASSUME NEW p \in Proc, Generate(p) PROVE Goal
  BY <1>6 DEF Generate, Goto, Fails
<1>7. ASSUME NEW p \in Proc, PersistGraph(p) PROVE Goal
  BY <1>7 DEF PersistGraph, GraphBlobExists, FirstUpload, Goto, Fails
<1>8. ASSUME NEW p \in Proc, SaveIgnition(p) PROVE Goal
  BY <1>8 DEF SaveIgnition, Goto, Fails
<1>9. ASSUME NEW p \in Proc, SaveGraph(p) PROVE Goal
  BY <1>9 DEF SaveGraph, Sealed, Goto, Fails
<1>10. ASSUME NEW p \in Proc, PersistToFile(p) PROVE Goal
  BY <1>10 DEF PersistToFile, Goto, Fails
<1>11. ASSUME NEW p \in Proc, LoadForDeploy(p) PROVE Goal
  BY <1>11 DEF LoadForDeploy, CanLoad, Goto, Fails
<1>12. ASSUME NEW p \in Proc, DeployTemplate(p) PROVE Goal
  BY <1>12 DEF DeployTemplate, Deployed, Deployable, LeftBehind, SignedBy, Goto, Fails
<1>13. ASSUME NEW p \in Proc, InitializeKubernetesClients(p) PROVE Goal
  BY <1>13 DEF InitializeKubernetesClients, CanLoad, Kubeconfig, Goto, Fails
<1>14. ASSUME NEW p \in Proc, BootstrapConfigMapReady(p) PROVE Goal
  BY <1>14 DEF BootstrapConfigMapReady, Goto, Fails
<1>15. ASSUME NEW p \in Proc, Crash(p) PROVE Goal
  BY <1>15 DEF Crash, Goto
<1>16. CASE BootstrapBoots
  BY <1>16 DEF BootstrapBoots
<1>17. CASE RotateSecret
  BY <1>17 DEF RotateSecret
<1>18. CASE DisableVersion
  BY <1>18 DEF DisableVersion
<1>19. CASE UNCHANGED vars
  BY <1>19 DEF vars
<1>20. ASSUME NEW p \in Proc, NewEnv(p) PROVE Goal
  BY <1>20 DEF NewEnv, Goto, Fails
<1>21. QED
  BY <1>1, <1>2, <1>3, <1>4, <1>5, <1>6, <1>7, <1>8, <1>9, <1>10, <1>11,
     <1>12, <1>13, <1>14, <1>15, <1>16, <1>17, <1>18, <1>19, <1>20
     DEF Next, RunStep

(* Exclusive runs implement the atomic one-off graph: the upload of the    *)
(* graph blob persists it, every load, creation and boot uses it.          *)
THEOREM ImplementsPromise == Exclusive => (Spec => PersistedOnce)
<1> SUFFICES ASSUME Exclusive PROVE Spec => PersistedOnce
  OBVIOUS
<1>1. Init => Promise!Init
  BY DEF Init, NoGraph, Promise!Init, UsedGens
<1>2. TypeOK /\ OneGraphInv /\ [Next]_vars => OneGraphInv'
  BY OneGraphNext
<1>3. TypeOK /\ OneGraphInv /\ OneGraphInv' /\ [Next]_vars
        => [Promise!Next]_<<graph.gen, UsedGens>>
  BY StepImplements
<1>4. QED
  BY <1>1, <1>2, <1>3, TypeCorrect, OneGraphInit, PTL
     DEF Spec, PersistedOnce, Promise!Spec

================================================================================
