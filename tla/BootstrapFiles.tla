----------------------------- MODULE BootstrapFiles -----------------------------
(***************************************************************************)
(* applyInstallConfigCustomisations after the graph is resolved: the chain *)
(* of edits of the bootstrap machine's Ignition config.                    *)
(*                                                                         *)
(* The same fact is kept in several places that are edited by different    *)
(* functions: the config and the bytes it is marshalled to; the pointer    *)
(* Ignition of the machines and the user-data secrets in the bootstrap's   *)
(* files; the CVOIgnore asset and the file generated from it; the three    *)
(* files of the machine-config server's certificate.  Some edits replace a *)
(* file of the same path and some append without looking.                  *)
(*                                                                         *)
(* A file is a path and a content; a content says who wrote it and what of *)
(* it the properties tell apart.                                           *)
(***************************************************************************)
EXTENDS Naturals, FiniteSets, Sequences, SequencesExt

CONSTANTS
    ManifestPaths,  \* the paths of the manifests the RP may hand over
    Objects         \* the resources they may describe, "installer" for those
                    \* that the installer has the CVO ignore

VARIABLES
    mtu,       \* NetworkProfile.MTUSize is 3900
    intIP,     \* APIServerProfile.IntIP is set
    supplied,  \* the manifests in /manifests: path to resource
    pc,        \* the next step
    files,     \* bootstrap.Config.Storage.Files
    units,     \* the names of bootstrap.Config.Systemd.Units
    bytes,     \* bootstrap.File.Data: the config it was marshalled from
    ignored,   \* the resources the CVOIgnore asset's file lists
    pointer    \* Master's and Worker's Config and File.Data

input == <<mtu, intIP, supplied>>
vars == <<input, pc, files, units, bytes, ignored, pointer>>

-----------------------------------------------------------------------------
File(path, by, what) == [path |-> path, by |-> by, what |-> what]

Roles == {"master", "worker"}

CvoPath == "cvo-overrides.yaml"
DnsPath == "cluster-dns-02-config.yml"
McsSecret == "machine-config-server-tls-secret.yaml"
McsKey == "machine-config-server.key"
McsCert == "machine-config-server.crt"
OwnManifest == "aro-imageregistry.yaml"
UserData(role) == IF role = "master" THEN "master-user-data-secret.yaml"
                  ELSE "worker-user-data-secret.yaml"

\* Where the installer's pointer Ignition sends a machine, and the wrapper's.
ByName == "api-int.domain:22623"
ByAddress == IF intIP THEN "IntIP:22623" ELSE ":22623"

\* The installer's files that the wrapper, or the RP's manifests, may meet.
InstallerFiles ==
    << File(CvoPath, "installer", <<"installer">>),
       File(DnsPath, "installer", <<"zones">>),
       File(UserData("master"), "installer", <<ByName>>),
       File(UserData("worker"), "installer", <<ByName>>),
       File(McsSecret, "installer", <<"crt1", "key1">>),
       File(McsKey, "installer", <<"key1">>),
       File(McsCert, "installer", <<"crt1">>) >>

PathsOf(fs) == {fs[i].path : i \in DOMAIN fs}
InstallerPaths == PathsOf(InstallerFiles)

\* Where the first file of a path is.
FirstAt(fs, p) ==
    CHOOSE i \in DOMAIN fs : fs[i].path = p /\ \A j \in 1..(i - 1) : fs[j].path # p

\* The wrapper's files, by who writes them.
MtuPaths == {"30-eth0-mtu-3900", "99-master-mtu.yaml", "99-worker-mtu.yaml"}
DnsmasqPaths == {"dnsmasq.conf", "aro-dnsmasq-pre.sh",
                 "99-master-aro-dns.yaml", "99-worker-aro-dns.yaml"}
MdsdPaths == {"journal.conf", "mdsd.env"}
ResolverPaths == {"aro.conf", "aro-etchosts-resolver.sh"}
EtcHostsPaths == {"99-master-etc-hosts.yaml", "99-worker-etc-hosts.yaml"}

\* The paths that are not in /opt/openshift/manifests, where the RP's manifests
\* and no other files of theirs go.
Elsewhere ==
    UNION {MtuPaths, DnsmasqPaths, MdsdPaths, ResolverPaths, EtcHostsPaths,
           {UserData(r) : r \in Roles}, {McsKey, McsCert}}

ASSUME ManifestsAreApart ==
    IsFiniteSet(ManifestPaths) /\ ManifestPaths \cap Elsewhere = {}

Steps == {"resolve", "mtu", "cvo", "supplied", "dnsmasq", "mdsd", "manifests",
          "etchosts", "dns", "pointers", "mcs", "marshal"}

Init ==
    /\ mtu \in BOOLEAN /\ intIP \in BOOLEAN
    /\ \E S \in SUBSET ManifestPaths : supplied \in [S -> Objects \cup {"unreadable"}]
    /\ pc = "resolve"
    /\ files = << >> /\ units = << >> /\ bytes = << >>
    /\ ignored = << >>
    /\ pointer = [r \in Roles |-> [config |-> ByName, data |-> ByName]]

-----------------------------------------------------------------------------
\* ReplaceOrAppend of one file: the first file of that path, or a new one.
\* Mutated: always a new one, behind the one that is there.
JustAppend(fs, f) == Append(fs, f)
PutFile(fs, f) ==
    IF f.path \in PathsOf(fs)
    THEN [fs EXCEPT ![FirstAt(fs, f.path)] = f]
    ELSE Append(fs, f)

\* ReplaceOrAppend of several, and AddStorageFiles of a directory.
ReplaceOrAppend(fs, new) ==
    LET after[i \in 0..Len(new)] ==
          IF i = 0 THEN fs ELSE PutFile(after[i - 1], new[i])
    IN after[Len(new)]

ReplaceOrAppendSystemd(us, u) == IF Contains(us, u) THEN us ELSE Append(us, u)

\* ignition.Marshal of the bootstrap's config.
Marshal == bytes' = <<files', units'>>

Step(at, then) == pc = at /\ pc' = then

\* g.Resolve: the installer generates the bootstrap asset and the others.
Resolve ==
    /\ Step("resolve", "mtu")
    /\ files' = InstallerFiles
    /\ units' = <<"bootkube.service">>
    /\ Marshal
    /\ ignored' = <<"installer">>
    /\ UNCHANGED <<input, pointer>>

\* overrideEthernetMTU
OverrideEthernetMTU ==
    /\ Step("mtu", "cvo")
    /\ IF mtu
       THEN /\ files' = files \o << File("30-eth0-mtu-3900", "wrapper", <<"3900">>),
                                    File("99-master-mtu.yaml", "wrapper", <<"3900">>),
                                    File("99-worker-mtu.yaml", "wrapper", <<"3900">>) >>
            /\ UNCHANGED units
            /\ Marshal
       ELSE UNCHANGED <<files, units, bytes>>
    /\ UNCHANGED <<input, ignored, pointer>>

\* The manifests in the order of their names, which is some fixed order.
SuppliedList == SetToSeq(DOMAIN supplied)

\* A manifest that cannot be parsed, or two of one resource: only those handed
\* over are compared, not those that the asset lists already.
Refused ==
    \/ \E p \in DOMAIN supplied : supplied[p] = "unreadable"
    \/ \E p, q \in DOMAIN supplied : p # q /\ supplied[p] = supplied[q]

\* The resources the manifests describe, and the list the CVO is given.
NewlyIgnored == [i \in DOMAIN SuppliedList |-> supplied[SuppliedList[i]]]
Extended == ignored \o NewlyIgnored

\* The file in the bootstrap that is generated from the asset.  Mutated: its
\* path is compared without the bootstrap's root, and matches none.
WithoutRoot(f) == f.path = "/opt/openshift/cvo-overrides.yaml"
Overrides(f) == f.path = CvoPath

\* appendFilesToCvoOverrides: the asset, then every file of that path.
AppendFilesToCvoOverrides ==
    /\ pc = "cvo"
    /\ IF DOMAIN supplied = {}
       THEN pc' = "supplied" /\ UNCHANGED <<files, ignored>>
       ELSE IF Refused
       THEN pc' = "failed" /\ UNCHANGED <<files, ignored>>
       ELSE /\ pc' = "supplied"
            /\ ignored' = Extended
            /\ files' = [i \in DOMAIN files |->
                 IF Overrides(files[i]) THEN File(CvoPath, "wrapper", Extended)
                 ELSE files[i]]
    /\ UNCHANGED <<input, units, bytes, pointer>>

\* appendFilesToBootstrap
AppendFilesToBootstrap ==
    /\ Step("supplied", "dnsmasq")
    /\ IF DOMAIN supplied = {}
       THEN UNCHANGED <<files, units, bytes>>
       ELSE /\ files' = files \o [i \in DOMAIN SuppliedList |->
                  File(SuppliedList[i], "RP", <<supplied[SuppliedList[i]]>>)]
            /\ UNCHANGED units
            /\ Marshal
    /\ UNCHANGED <<input, ignored, pointer>>

\* CreatednsmasqIgnitionFiles: its files, its unit, a machine config per role.
Dnsmasq ==
    /\ Step("dnsmasq", "mdsd")
    /\ files' = ReplaceOrAppend(files,
         << File("dnsmasq.conf", "wrapper", << >>),
            File("aro-dnsmasq-pre.sh", "wrapper", << >>),
            File("99-master-aro-dns.yaml", "wrapper", << >>),
            File("99-worker-aro-dns.yaml", "wrapper", << >>) >>)
    /\ units' = ReplaceOrAppendSystemd(units, "dnsmasq.service")
    /\ UNCHANGED <<input, bytes, ignored, pointer>>

\* AppendMdsdFiles
Mdsd ==
    /\ Step("mdsd", "manifests")
    /\ files' = ReplaceOrAppend(files,
         << File("journal.conf", "wrapper", << >>), File("mdsd.env", "wrapper", << >>) >>)
    /\ units' = units \o <<"fluentbit.service", "mdsd.service">>
    /\ UNCHANGED <<input, bytes, ignored, pointer>>

\* AppendManifestsFilesToBootstrap: the wrapper's own manifests.
Manifests ==
    /\ Step("manifests", "etchosts")
    /\ files' = ReplaceOrAppend(files, << File(OwnManifest, "wrapper", << >>) >>)
    /\ UNCHANGED <<input, units, bytes, ignored, pointer>>

\* AppendEtcHostFiles: two files and a unit unseen, then machine configs.
EtcHosts ==
    /\ Step("etchosts", "dns")
    /\ files' = ReplaceOrAppend(
         files \o << File("aro.conf", "wrapper", << >>),
                     File("aro-etchosts-resolver.sh", "wrapper", << >>) >>,
         << File("99-master-etc-hosts.yaml", "wrapper", << >>),
            File("99-worker-etc-hosts.yaml", "wrapper", << >>) >>)
    /\ units' = Append(units, "aro-etchosts-resolver.service")
    /\ UNCHANGED <<input, bytes, ignored, pointer>>

\* removeDNSConfigData: the DNS resource without zones.
RemoveDNSConfigData ==
    /\ Step("dns", "pointers")
    /\ files' = ReplaceOrAppend(files, << File(DnsPath, "wrapper", << >>) >>)
    /\ UNCHANGED <<input, units, bytes, ignored, pointer>>

\* The bytes of a pointer Ignition that go into the secret of its role.
\* Mutated: those marshalled before the edit.
OldData(r) == pointer[r].data
NewData(r) == pointer'[r].data

\* replacePointerIgnition: both assets, their bytes, and both secrets.
ReplacePointerIgnition ==
    /\ Step("pointers", "mcs")
    /\ pointer' = [r \in Roles |-> [config |-> ByAddress, data |-> ByAddress]]
    /\ files' = ReplaceOrAppend(files,
         << File(UserData("master"), "wrapper", <<NewData("master")>>),
            File(UserData("worker"), "wrapper", <<NewData("worker")>>) >>)
    /\ UNCHANGED <<input, units, bytes, ignored>>

\* A file of the machine-config server, with the new certificate and key.
\* Mutated: the manifest is forgotten.
RenewPairOnly(f) ==
    CASE f.path = McsKey  -> [f EXCEPT !.by = "wrapper", !.what = <<"key2">>]
      [] f.path = McsCert -> [f EXCEPT !.by = "wrapper", !.what = <<"crt2">>]
      [] OTHER -> f
Renew(f) ==
    CASE f.path = McsSecret -> [f EXCEPT !.by = "wrapper", !.what = <<"crt2", "key2">>]
      [] f.path = McsKey    -> [f EXCEPT !.by = "wrapper", !.what = <<"key2">>]
      [] f.path = McsCert   -> [f EXCEPT !.by = "wrapper", !.what = <<"crt2">>]
      [] OTHER -> f

\* updateMCSCertKey: a certificate for the address, in every file it is in.
UpdateMCSCertKey ==
    /\ Step("mcs", "marshal")
    /\ files' = IF intIP THEN [i \in DOMAIN files |-> Renew(files[i])] ELSE files
    /\ UNCHANGED <<input, units, bytes, ignored, pointer>>

\* The edits above are in the config only until it is marshalled.  Mutated:
\* it was marshalled often enough.
NotAgain == UNCHANGED bytes
FinalMarshal == Marshal

Return ==
    /\ Step("marshal", "done")
    /\ UNCHANGED <<input, files, units, ignored, pointer>>
    /\ FinalMarshal

\* Any of the calls may return an error, which ends it; the graph is dropped.
Fails ==
    /\ pc \in Steps
    /\ pc' = "failed"
    /\ UNCHANGED <<input, files, units, bytes, ignored, pointer>>

Ended == pc \in {"done", "failed"} /\ UNCHANGED vars

Next ==
    \/ Resolve \/ OverrideEthernetMTU \/ AppendFilesToCvoOverrides
    \/ AppendFilesToBootstrap \/ Dnsmasq \/ Mdsd \/ Manifests \/ EtcHosts
    \/ RemoveDNSConfigData \/ ReplacePointerIgnition \/ UpdateMCSCertKey
    \/ Return \/ Fails \/ Ended

Spec == Init /\ [][Next]_vars

-----------------------------------------------------------------------------
(* Properties.                                                             *)

Done == pc = "done"

\* What is uploaded and persisted: the files of the config that was marshalled
\* last, and the first of them under a path.
Uploaded == bytes[1]
First(p) == Uploaded[FirstAt(Uploaded, p)]

\* A machine that the installer, or later the machine API, creates is sent to
\* the same machine-config server, by address: the assets, the bytes they are
\* marshalled to and the secrets in the bootstrap say the same.
PointersAgree ==
    Done => \A r \in Roles :
        /\ pointer[r].config = ByAddress /\ pointer[r].data = ByAddress
        /\ First(UserData(r)).what = <<pointer[r].data>>

\* The machine-config server's manifest and the two files of its certificate
\* are of one pair, and the pair is valid for the address machines are sent to.
OneMcsPair ==
    Done => LET crt == First(McsCert).what[1]  key == First(McsKey).what[1] IN
        /\ First(McsSecret).what = <<crt, key>>
        /\ intIP <=> <<crt, key>> = <<"crt2", "key2">>

\* The resources the RP hands over.
Handed == {supplied[p] : p \in DOMAIN supplied}

\* The CVOIgnore asset and the file generated from it list the same resources,
\* those that the installer wants ignored and those that the RP hands over and
\* no other; one is listed twice only if it is of both.
OverridesAgree ==
    Done =>
        /\ First(CvoPath).what = ignored
        /\ ToSet(ignored) = {"installer"} \cup Handed
        /\ \A i, j \in DOMAIN ignored : i # j /\ ignored[i] = ignored[j]
             => ignored[i] = "installer" /\ "installer" \in Handed

\* Each file is there once, and none is lost on the way: a path is twice in the
\* config, which Ignition refuses, only if the RP hands over a manifest under
\* the name of one of the installer's; every file of the installer's and of the
\* RP's arrives, and under the wrapper's own names is what the wrapper wrote.  Of
\* the RP's, only one under the name of a manifest of the wrapper's own is
\* replaced, and only one of the machine-config server's certificate edited.
PathsAreUnique ==
    /\ \A i, j \in DOMAIN files : i # j /\ files[i].path = files[j].path
         => files[i].path \in DOMAIN supplied \cap InstallerPaths
    /\ Done =>
         /\ InstallerPaths \cup DOMAIN supplied \subseteq PathsOf(Uploaded)
         /\ \A p \in {OwnManifest, DnsPath} : First(p).by = "wrapper"
         /\ \A p \in DOMAIN supplied \ {OwnManifest, McsSecret} :
              Contains(Uploaded, File(p, "RP", <<supplied[p]>>))

================================================================================
