----------------------------- MODULE MachineChoices -----------------------------
(***************************************************************************)
(* generateInstallConfig: the pull secret and the machine pools of the     *)
(* install config, with what is read off the SKUs of the two kinds of      *)
(* machines: the zones they are spread over and the generation of the      *)
(* image they boot.                                                        *)
(*                                                                         *)
(* The zones are Go slices: an array and a length.  Sort and DeleteFunc    *)
(* write to the array, which is the SKU's own, and when both kinds of      *)
(* machines are of one VM size there is one SKU and one array.             *)
(*                                                                         *)
(* A zone is its rank in the order of strings, which is the one the code   *)
(* sorts in; 0 is the empty string.  Its number is what the name says.     *)
(***************************************************************************)
EXTENDS Naturals, FiniteSets, Sequences, SequencesExt, PullSecret, ResourceTemplate

CONSTANTS
    Zones,     \* the zones of the region
    Number,    \* their numbers
    BasicAZs,  \* those named 1, 2 and 3
    Texts,     \* the pull secrets that the service and the customer may have
    Profiles   \* the lists of registry profiles

ASSUME ZonesAreRanks == Zones \subseteq Nat \ {0} /\ BasicAZs \subseteq Zones

\* Strings of one digit are in the order of their numbers, others need not be.
ASSUME ZonesAreNumbered ==
    /\ Number \in [Zones -> Nat]
    /\ \A y, z \in Zones : Number[y] < 10 /\ Number[z] < 10
         => (y < z <=> Number[y] < Number[z])

ASSUME ZonesAreFinite == IsFiniteSet(Zones)

\* A text is empty, not JSON, the JSON null or a JSON object with its entries.
ASSUME TextsAreTexts ==
    \A t \in Texts : t \in {Empty, Garbage, Null} \/ t = Json(t.auths)

ASSUME ProfilesAreLists ==
    \A rps \in Profiles : Len(rps) \in Nat /\ DOMAIN rps = 1..Len(rps)

\* CONTROL_PLANE_MACHINE_COUNT
Wanted == 3

Kinds == {"controlPlane", "worker"}

VARIABLES
    expanded,  \* ARO_INSTALLER_ALLOW_EXPANDED_AZS is set
    zonal,     \* the region is not centraluseuap
    listed,    \* the zones Azure listed for each kind's SKU
    sku,       \* which SKU each kind of machine is of
    secrets,   \* ARO_PULL_SECRET, the customer's pull secret, the profiles
    pullSecret,
    array,     \* the array of zones of each SKU
    zones,     \* the slices: an array, of a SKU or a literal, and a length
    gens,      \* the HyperV generations of each kind's SKU
    image,     \* the generation of the image
    config,    \* the pools of the install config, empty until they are made
    pc

input == <<expanded, zonal, listed, sku, secrets>>
vars == <<input, pullSecret, array, zones, gens, image, config, pc>>

-----------------------------------------------------------------------------
\* What Azure may list: any zones of the region, in any order.
Lists == {s \in UNION {[1..n -> Zones] : n \in 0..Cardinality(Zones)} : IsInjective(s)}

\* The contents of a slice.
Slice(at, len) == [at |-> at, len |-> len]
Literal == Slice("literal", 1)
Contents(s) == IF s = Literal THEN <<0>> ELSE SubSeq(array[s.at], 1, s.len)

Arrays == {"sku1", "sku2"}

AnySkus ==
    /\ expanded \in BOOLEAN /\ zonal \in BOOLEAN
    /\ array \in [Arrays -> Lists]
    /\ \/ sku = [k \in Kinds |-> IF k = "worker" THEN "sku2" ELSE "sku1"]
       \/ sku = [k \in Kinds |-> "sku1"] /\ array["sku2"] = << >>

AnySecrets == secrets \in [service : Texts, customer : Texts, profiles : Profiles]

\* The pull secrets and the SKUs meet in no expression of the function: all of
\* the ones are taken with some of the others.
Init ==
    /\ \/ AnySkus /\ secrets = [service |-> Empty, customer |-> Empty, profiles |-> << >>]
       \/ /\ AnySecrets
          /\ expanded = FALSE /\ zonal = FALSE
          /\ array = [a \in Arrays |-> << >>] /\ sku = [k \in Kinds |-> "sku1"]
    /\ pullSecret = Empty
    /\ listed = [k \in Kinds |-> array[sku[k]]]
    /\ zones = [k \in Kinds |-> Slice(sku[k], 0)]
    /\ gens = [k \in Kinds |-> {}]
    /\ image = "none"
    /\ config = << >>
    /\ pc = "document"

-----------------------------------------------------------------------------
Fail == pc' = "failed"

\* A part of the function that only reads the cluster document: it goes on,
\* or something there cannot be parsed.
Reads(at, then) ==
    /\ pc = at
    /\ pc' = then \/ Fail
    /\ UNCHANGED <<input, pullSecret, array, zones, gens, image, config>>

\* The key that is taken out of the pull secret: no telemetry.
CloudKey == "cloud.openshift.com"

\* The pull secret; then the resource IDs, the subnets, the SSH key and the
\* domain are read off the document.
ReadDocument ==
    /\ pc = "document"
    /\ LET built == Build(secrets.service, secrets.customer, secrets.profiles)
           removed == RemoveKey(built, CloudKey)
       IN IF IsText(built) /\ IsText(removed)
          THEN pullSecret' = removed /\ (pc' = "zones" \/ Fail)
          ELSE Fail /\ UNCHANGED pullSecret
    /\ UNCHANGED <<input, array, zones, gens, image, config>>

\* computeskus.Zones: the SKU's own slice.
SkuZones(k) == Slice(sku[k], Len(array[sku[k]]))

\* A region that reports one zone is installed without; a VM size may be unknown
\* in the region.
ReadZones ==
    /\ pc = "zones"
    /\ IF zonal
       THEN /\ zones' = [k \in Kinds |-> SkuZones(k)]
            /\ pc' = "sort"
       ELSE zones' = [k \in Kinds |-> Literal] /\ pc' = "disks"
    /\ UNCHANGED <<input, pullSecret, array, gens, image, config>>

UnknownSize ==
    /\ pc = "zones"
    /\ Fail
    /\ UNCHANGED <<input, pullSecret, array, zones, gens, image, config>>

\* The array after f is applied to the first len elements.
Overwrite(a, s, new) ==
    [a EXCEPT ![s.at] = new \o SubSeq(@, Len(new) + 1, Len(@))]

\* The positions of what comes before s[i] in the order of the elements.
Before(s, i) == {j \in DOMAIN s : s[j] < s[i] \/ (s[j] = s[i] /\ j < i)}

\* slices.Sort.  Mutated: the order in which Azure lists the zones is kept.
AsListed(s) == s
Sorted(s) ==
    [n \in DOMAIN s |-> s[CHOOSE i \in DOMAIN s : Cardinality(Before(s, i)) = n - 1]]

\* slices.Sort of both slices, one after the other.
SortZones ==
    /\ pc = "sort"
    /\ array' = [a \in Arrays |->
         IF \E k \in Kinds : zones[k].at = a THEN Sorted(array[a]) ELSE array[a]]
    /\ pc' = IF expanded THEN "count" ELSE "filter"
    /\ UNCHANGED <<input, pullSecret, zones, gens, image, config>>

\* The n-th number of a set.
Below(S, z) == {y \in S : y < z}
Nth(S, n) == CHOOSE z \in S : Cardinality(Below(S, z)) = n - 1

\* The basic zones of a slice, in their order.
Basic(list, len) == {i \in 1..len : list[i] \in BasicAZs}
Kept(a, s) ==
    LET basic == Basic(a[s.at], s.len)
    IN [n \in 1..Cardinality(basic) |-> a[s.at][Nth(basic, n)]]

\* slices.DeleteFunc clears what it leaves behind.  Mutated: it does not, as
\* before Go 1.22.
LeftBehind(a, s, kept) == SubSeq(a[s.at], Len(kept) + 1, s.len)
Cleared(a, s, kept) == [i \in 1..(s.len - Len(kept)) |-> 0]

\* slices.DeleteFunc: the array it leaves.
DeleteFunc(a, s) ==
    LET kept == Kept(a, s) IN Overwrite(a, s, kept \o Cleared(a, s, kept))

\* Only the basic zones: first the control plane's, then the workers'.
FilterZones ==
    /\ pc = "filter"
    /\ LET cp == zones["controlPlane"]  w == zones["worker"]
           first == DeleteFunc(array, cp)
       IN /\ array' = DeleteFunc(first, w)
          /\ zones' = [k \in Kinds |->
               IF k = "controlPlane" THEN Slice(cp.at, Len(Kept(array, cp)))
               ELSE Slice(w.at, Len(Kept(first, w)))]
    /\ pc' = "count"
    /\ UNCHANGED <<input, pullSecret, gens, image, config>>

\* A number of zones that is refused.  Mutated: one zone is let pass.
TwoOnly(k, n) == n = 2
TooFew(k, n) == n > 0 /\ n < IF k = "worker" THEN 3 ELSE Wanted

\* None means the empty zone, few are refused, and the control plane takes as
\* many as it has machines.
CountZones ==
    /\ pc = "count"
    /\ IF \E k \in Kinds : TooFew(k, zones[k].len)
       THEN pc' = "refused" /\ UNCHANGED <<array, zones>>
       ELSE /\ zones' = [k \in Kinds |->
                 IF zones[k].len = 0 THEN Literal
                 ELSE IF k = "controlPlane" /\ zones[k].len >= Wanted
                 THEN Slice(zones[k].at, Wanted) ELSE zones[k]]
            /\ array' = IF zones["worker"].len = 0 THEN array
                        ELSE Overwrite(array, zones["worker"],
                                       Sorted(Contents(zones["worker"])))
            /\ pc' = "disks"
    /\ UNCHANGED <<input, pullSecret, gens, image, config>>

\* The network and outbound types and the disk encryption sets.
ReadDiskSets == Reads("disks", "image")

\* determineSkuSupportsV2Only
V2Only(g) == "V2" \in g /\ "V1" \notin g

\* Whether all machines boot the image of generation 2.  Mutated: when all of
\* them need it.
NeededByAll(g) == \A k \in Kinds : V2Only(g[k])
NeedsV2(g) == \E k \in Kinds : V2Only(g[k])

\* GetCapabilityMap: whether a SKU comes with the capabilities that tell its
\* generations.
HasCapabilities(g) == g # {}

\* The generations come with the SKUs; machines of one SKU have the same.
ChooseImage ==
    /\ pc = "image"
    /\ gens' \in [Kinds -> SUBSET {"V1", "V2"}]
    /\ sku["worker"] = sku["controlPlane"] => gens'["worker"] = gens'["controlPlane"]
    /\ IF \E k \in Kinds : ~HasCapabilities(gens'[k])
       THEN Fail /\ UNCHANGED image
       ELSE pc' = "config" /\ image' = IF NeedsV2(gens') THEN "V2" ELSE "V1"
    /\ UNCHANGED <<input, pullSecret, array, zones, config>>

\* The install config: a pool for each kind, with that kind's zones and the one
\* image.  The pools hold the slices, not copies of them.
BuildConfig ==
    /\ pc = "config"
    /\ config' = [k \in Kinds |-> [zones |-> zones[k], image |-> image]]
    /\ pc' = "complete"
    /\ UNCHANGED <<input, pullSecret, array, zones, gens, image>>

\* The credentials, for a workload identity from a file that must be written,
\* the release image, and the installer's validation of the config.
Complete == Reads("complete", "done")

\* The template deployResourceTemplate makes from the install config.  The code's
\* ControlPlane.Replicas is CONTROL_PLANE_MACHINE_COUNT.
Template(outbound) ==
    Resources(Wanted, Contents(config["controlPlane"].zones), outbound)

Ended == pc \in {"done", "refused", "failed"} /\ UNCHANGED vars

Next ==
    \/ ReadDocument \/ ReadZones \/ UnknownSize \/ SortZones \/ FilterZones
    \/ CountZones \/ ReadDiskSets \/ ChooseImage \/ BuildConfig \/ Complete
    \/ Ended

Spec == Init /\ [][Next]_vars

-----------------------------------------------------------------------------
(* Properties.                                                             *)

\* The zones a kind of machine may use, out of those Azure listed.
Eligible(k) == {z \in ToSet(listed[k]) : expanded \/ z \in BasicAZs}

\* s lists S, or where S is empty the empty zone, in ascending order.
Ascending(s, S) ==
    IF S = {} THEN s = <<0>>
    ELSE ToSet(s) = S /\ \A i, j \in DOMAIN s : i < j => s[i] < s[j]

\* What the comment on determineAvailabilityZones says of s, a list of some of S:
\* "we will pick them in numerical order".
PickedByNumber(s, S) ==
    \A i \in DOMAIN s : \A z \in S :
        Number[z] < Number[s[i]] => \E j \in 1..(i - 1) : s[j] = z

\* In the install config the control plane is on the first three of its zones, in
\* the order of strings, and the workers are on all of theirs, however Azure listed
\* them and whether or not the two kinds of machines share a SKU, and so the array
\* that both are cut from.  As long as no zone a kind may use has a number of two
\* digits they are picked in numerical order too.  A kind that would be spread over
\* one or two zones is refused, and nothing else is: a region without zones is
\* installed.
ZonesAreRight ==
    LET E(k) == IF zonal THEN Eligible(k) ELSE {}
        lowest == {z \in E("controlPlane") :
                     Cardinality(Below(E("controlPlane"), z)) < Wanted}
        few == \E k \in Kinds : Cardinality(E(k)) \in {1, 2}
    IN /\ pc = "refused" => few
       /\ pc = "done" =>
            /\ ~few
            /\ Ascending(Contents(config["controlPlane"].zones), lowest)
            /\ Ascending(Contents(config["worker"].zones), E("worker"))
            /\ \A k \in Kinds : (\A z \in E(k) : Number[z] < 10)
                 => PickedByNumber(Contents(config[k].zones), E(k))


\* The cluster has one image; if there is a generation that all the machines
\* boot, the image of both pools is of that one.
ImageFitsAll ==
    pc = "done" /\ gens["controlPlane"] \cap gens["worker"] # {}
        => \A k \in Kinds :
             config[k].image \in gens["controlPlane"] \cap gens["worker"]

\* A machine finds its interface, no other machine has that interface, SSH pool
\* or, unless the cluster has no zones, that zone of the control plane, and all
\* that is waited for is in the template.
FitsTogether(R, outbound) ==
    LET vms == {r \in R : r.type = "vm"}
        nics == {r \in R : r.type = "nic"}
        placed == {vm \in vms : vm.zone # 0}
    IN /\ Cardinality({r.name : r \in R}) = Cardinality(R)
       /\ \A r \in R : r.dependsOn \subseteq {x.name : x \in nics}
       /\ \A vm \in vms : vm.nic \in vm.dependsOn
       /\ \A nic \in nics : Cardinality({vm \in vms : vm.nic = nic.name}) = 1
       /\ \A m, n \in nics : m # n =>
            m.pools \cap n.pools = {<<"internal">>} \cup External(outbound)
       /\ Cardinality(placed) \in {0, Wanted}
       /\ Cardinality({vm.zone : vm \in placed}) = Cardinality(placed)

\* Whatever order Resource Manager creates the template's resources in, and
\* whatever the outbound type, set or not, the resources of deployResourceTemplate fit
\* together.
TemplateIsSound ==
    pc = "done" => \A outbound \in {"", "Loadbalancer", "UserDefinedRouting"} :
        FitsTogether(Template(outbound), outbound)

\* The pull secret of the install config has the registries of the service,
\* the customer and the profiles but no telemetry.  The credentials of a
\* registry profile hold against everyone's, the last one where a registry has
\* two, and the customer's against the service's; a null counts as none.
PullSecretIsRight ==
    LET Of(t, k) == Entry(t.auths, k)
        Newest(k) == {i \in DOMAIN secrets.profiles :
                      /\ secrets.profiles[i].name = k
                      /\ \A j \in DOMAIN secrets.profiles :
                           secrets.profiles[j].name = k => j <= i}
        named == UNION {DOMAIN secrets.service.auths, DOMAIN secrets.customer.auths,
                        {secrets.profiles[i].name : i \in DOMAIN secrets.profiles}}
    IN pc = "done" =>
         /\ \A k \in named \cup DOMAIN pullSecret.auths :
              Of(pullSecret, k) =
                 IF k = CloudKey THEN "null"
                 ELSE IF Newest(k) # {} THEN secrets.profiles[CHOOSE i \in Newest(k) : TRUE].auth
                 ELSE IF k \in DOMAIN secrets.customer.auths THEN Of(secrets.customer, k)
                 ELSE Of(secrets.service, k)
         /\ CloudKey \notin DOMAIN pullSecret.auths

================================================================================
