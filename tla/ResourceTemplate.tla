---------------------------- MODULE ResourceTemplate ----------------------------
(***************************************************************************)
(* The resources of deployResourceTemplate: the bootstrap machine and the  *)
(* machines of the control plane, each with its network interface.         *)
(*                                                                         *)
(* A resource says in dependsOn what Resource Manager has to create before *)
(* it; what is not said may be created at the same time.  A copy stands    *)
(* for as many resources as it counts, told apart by copyIndex().  Names   *)
(* are put together from the cluster's infra ID, words and the index.      *)
(***************************************************************************)
EXTENDS Naturals, Sequences

\* A name is the words in it; the infra ID, which all begin with, is left out.
\* The name of an interface is written out three times: where it is made, where
\* its machine says which one it has, and where it says what it waits for.
BootstrapNIC == <<"-bootstrap-nic">>
MasterNIC(i) == <<"-master", i, "-nic">>
BootstrapVM == <<"-bootstrap">>
MasterVM(i) == <<"-master-", i>>

\* The pools of the load balancers: the internal one, the one through which a
\* single machine is reached by SSH, and the external one, which only a cluster
\* with OutboundTypeLoadbalancer has.
External(outbound) == IF outbound = "Loadbalancer" THEN {<<"external">>} ELSE {}

NIC(name, pools) == [type |-> "nic", name |-> name, pools |-> pools, dependsOn |-> {}]

networkBootstrapNIC(outbound) ==
    {NIC(BootstrapNIC, {<<"internal">>} \cup External(outbound))}

networkMasterNICs(replicas, outbound) ==
    {NIC(MasterNIC(i), {<<"internal">>, <<"ssh-", i>>} \cup External(outbound)) :
        i \in 0..(replicas - 1)}

VM(name, nic, dependsOn, zone) ==
    [type |-> "vm", name |-> name, nic |-> nic, dependsOn |-> dependsOn, zone |-> zone]

\* The bootstrap machine has no zone.
computeBootstrapVM ==
    {VM(BootstrapVM, <<"-bootstrap-nic">>, {<<"-bootstrap-nic">>}, 0)}

\* The interface of a machine of the control plane.  Mutated: named as the
\* machine is.
ByMachineName(i) == <<"-master-", i, "-nic">>
MachineNIC(i) == <<"-master", i, "-nic">>

\* What a machine of the control plane waits for.  Mutated: an interface named
\* as the machine is; the interfaces as a whole, by the name of the first one.
WaitsByMachineName(i) == {<<"-master-", i, "-nic">>}
TheFirst(i) == {<<"-master", 0, "-nic">>}
DependsOn(i) == {<<"-master", i, "-nic">>}

\* zones(): a list that is the empty string alone means no zones at all,
\* otherwise copyIndex(0) picks a machine's own out of controlPlaneZones.
ZoneOf(zones, i) == IF zones = <<0>> THEN 0 ELSE zones[i + 1]

computeMasterVMs(replicas, zones) ==
    {VM(MasterVM(i), MachineNIC(i), DependsOn(i), ZoneOf(zones, i)) : i \in 0..(replicas - 1)}

Resources(replicas, zones, outbound) ==
    UNION {networkBootstrapNIC(outbound), networkMasterNICs(replicas, outbound),
           computeBootstrapVM, computeMasterVMs(replicas, zones)}

================================================================================
