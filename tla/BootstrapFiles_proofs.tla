------------------------- MODULE BootstrapFiles_proofs -------------------------
(***************************************************************************)
(* The safety properties of BootstrapFiles, for any manifests the RP hands *)
(* over.                                                                   *)
(*                                                                         *)
(* The argument is by position.  The installer's files come first and stay *)
(* where they are, whatever is replaced or appended: so the first file of  *)
(* one of their paths is always the installer's, or what the wrapper put   *)
(* in its place, and the RP's are behind them.                             *)
(***************************************************************************)
EXTENDS BootstrapFiles, FiniteSetTheorems, WellFoundedInduction, TLAPS

-----------------------------------------------------------------------------
(* Lists of files.                                                         *)

\* The paths that only the wrapper has.
WrapperPaths ==
    UNION {MtuPaths, DnsmasqPaths, MdsdPaths, ResolverPaths, EtcHostsPaths}

Names == UNION {InstallerPaths, WrapperPaths, {OwnManifest}, ManifestPaths}
Writers == {"installer", "wrapper", "RP"}
Words ==
    {ByName, "IntIP:22623", ":22623", "installer", "zones", "3900", "unreadable",
     "crt1", "key1", "crt2", "key2"} \cup Objects
AllFiles == [path : Names, by : Writers, what : Seq(Words)]

\* The installer's files are in their places, and a path is there twice only if
\* it is one of theirs that the RP hands over too, in S.
Sound(fs, S) ==
    /\ fs \in Seq(AllFiles)
    /\ Len(fs) >= 7
    /\ \A i \in 1..7 : fs[i].path = InstallerFiles[i].path
    /\ \A i, j \in DOMAIN fs : i # j /\ fs[i].path = fs[j].path
         => fs[i].path \in S \cap InstallerPaths

\* hs has every file of fs in its place, but for the wrapper's own.
Carries(fs, hs) ==
    /\ Len(fs) <= Len(hs)
    /\ \A i \in DOMAIN fs : fs[i].path \notin WrapperPaths => hs[i] = fs[i]

\* gs is fs with f in it: in the place of the installer's file of that path, in
\* that of another one, or behind.
Edited(fs, gs, f) ==
    /\ Len(fs) <= Len(gs)
    /\ \A i \in 1..7 : gs[i] = IF InstallerFiles[i].path = f.path THEN f ELSE fs[i]
    /\ \A i \in DOMAIN fs : i > 7 /\ (fs[i].path # f.path \/ f.path \in InstallerPaths)
         => gs[i] = fs[i]
    /\ \A i \in DOMAIN fs : gs[i].path = fs[i].path
    /\ \E i \in DOMAIN gs : gs[i] = f
    /\ PathsOf(gs) = PathsOf(fs) \cup {f.path}

-----------------------------------------------------------------------------
(* The inductive invariant.                                                *)

TypeInv ==
    /\ DOMAIN supplied \subseteq ManifestPaths
    /\ supplied \in [DOMAIN supplied -> Objects \cup {"unreadable"}]
    /\ pc \in Steps \cup {"done", "failed"}

FilesInv == (files = << >> /\ pc \in {"resolve", "failed"}) \/ Sound(files, DOMAIN supplied)

\* What is not in the list yet where files are appended unseen.
OrderInv ==
    /\ pc = "resolve" => files = << >>
    /\ pc = "mtu" => PathsOf(files) \subseteq InstallerPaths
    /\ pc \in {"cvo", "supplied"} => PathsOf(files) \subseteq InstallerPaths \cup MtuPaths
    /\ pc \in {"dnsmasq", "mdsd", "manifests", "etchosts"}
         => PathsOf(files) \cap ResolverPaths = {}

Resolved == pc \notin {"resolve", "failed"}

\* The list of what the CVO ignores, in the asset and in the file.
IgnoredInv ==
    Resolved =>
      /\ files[1].what = ignored
      /\ ignored \in Seq(Words)
      /\ pc \in {"mtu", "cvo"} => ignored = <<"installer">>
      /\ pc \notin {"mtu", "cvo"} =>
           /\ ~Refused
           /\ Len(ignored) = Len(SuppliedList) + 1
           /\ ignored[1] = "installer"
           /\ \A i \in 1..Len(SuppliedList) : ignored[i + 1] = supplied[SuppliedList[i]]

PointerInv ==
    /\ pc \in {"pointers", "mcs", "marshal", "done"} => files[2].by = "wrapper"
    /\ pc \in {"mcs", "marshal", "done"} =>
         /\ \A r \in Roles : pointer[r].config = ByAddress /\ pointer[r].data = ByAddress
         /\ files[3].what = <<ByAddress>> /\ files[4].what = <<ByAddress>>

\* The three files of the machine-config server's certificate.
McsInv ==
    Resolved =>
      IF intIP /\ pc \in {"marshal", "done"}
      THEN files[5].what = <<"crt2", "key2">> /\ files[6].what = <<"key2">>
             /\ files[7].what = <<"crt2">>
      ELSE files[5].what = <<"crt1", "key1">> /\ files[6].what = <<"key1">>
             /\ files[7].what = <<"crt1">>

\* The RP's files are behind the installer's, as they were handed over but for
\* those the wrapper writes too.
Arrived(fs, s, p) ==
    \E i \in DOMAIN fs :
      /\ i > 7 /\ fs[i].path = p
      /\ p \notin {OwnManifest, McsSecret} => fs[i] = File(p, "RP", <<s[p]>>)

HasOwn(fs) == \E i \in DOMAIN fs : fs[i].path = OwnManifest /\ fs[i].by = "wrapper"

ManifestInv ==
    /\ Resolved /\ pc \notin {"mtu", "cvo", "supplied"}
         => \A p \in DOMAIN supplied : Arrived(files, supplied, p)
    /\ pc \in {"etchosts", "dns", "pointers", "mcs", "marshal", "done"}
         => HasOwn(files)

BytesInv == pc = "done" => bytes = <<files, units>>

BootInv ==
    /\ TypeInv
    /\ FilesInv
    /\ OrderInv
    /\ IgnoredInv
    /\ PointerInv
    /\ McsInv
    /\ ManifestInv
    /\ BytesInv

-----------------------------------------------------------------------------
(* Lemmas about the lists.                                                 *)

(* Every set of numbers has a least one: what stands for induction below.  *)
LEMMA LeastNumber ==
  ASSUME NEW T, T \subseteq Nat, T # {}
  PROVE  \E n \in T : \A m \in T : n <= m
<1> DEFINE less == OpToRel(<, Nat)
<1>1. IsWellFoundedOn(less, Nat)
  BY NatLessThanWellFounded
<1>2. \A m, n \in Nat : m < n => <<m, n>> \in less
  BY DEF OpToRel
<1> HIDE DEF less
<1>3. PICK n \in T : \A m \in T : <<m, n>> \notin less
  BY <1>1, WFMin
<1>4. ASSUME NEW m \in T PROVE n <= m
  <2>1. m \in Nat /\ n \in Nat
    OBVIOUS
  <2>2. <<m, n>> \notin less
    BY <1>3
  <2>3. ~(m < n)
    BY <1>2, <2>1, <2>2, Zenon
  <2>4. QED
    BY <2>1, <2>3
<1>5. QED
  BY <1>4

(* The loops over a list find the first file of a path if there is one.    *)
LEMMA FirstAtIsFirst ==
  ASSUME NEW fs, NEW n \in Nat, DOMAIN fs = 1..n, NEW p, p \in PathsOf(fs)
  PROVE  /\ FirstAt(fs, p) \in DOMAIN fs
         /\ fs[FirstAt(fs, p)].path = p
         /\ \A j \in 1..(FirstAt(fs, p) - 1) : fs[j].path # p
<1> DEFINE T == {i \in DOMAIN fs : fs[i].path = p}
<1>1. T \subseteq Nat /\ T # {}
  BY DEF PathsOf
<1>2. PICK k \in T : \A m \in T : k <= m
  BY <1>1, LeastNumber
<1>3. k \in DOMAIN fs /\ fs[k].path = p /\ \A j \in 1..(k - 1) : fs[j].path # p
  BY <1>2
<1>4. QED
  BY <1>3 DEF FirstAt

(* ReplaceOrAppend puts the files in one after the other.                  *)
LEMMA ReplaceOrAppendLoop ==
  ASSUME NEW fs, NEW new, Len(new) \in Nat
  PROVE  \E after : /\ after[0] = fs
                    /\ \A i \in 1..Len(new) : after[i] = PutFile(after[i - 1], new[i])
                    /\ ReplaceOrAppend(fs, new) = after[Len(new)]
<1> DEFINE Is(g, n) == g = [i \in 0..n |-> IF i = 0 THEN fs ELSE PutFile(g[i - 1], new[i])]
           T == {n \in Nat : ~\E g : Is(g, n)}
<1>1. T = {}
  <2>1. SUFFICES ASSUME T # {} PROVE FALSE
    OBVIOUS
  <2>2. PICK m \in T : \A n \in T : m <= n
    BY <2>1, LeastNumber
  <2>3. m # 0
    <3>1. Is([i \in 0..0 |-> fs], 0)
      OBVIOUS
    <3>2. QED
      BY <2>2, <3>1
  <2>4. PICK g : Is(g, m - 1)
    BY <2>2, <2>3, SMTT(30)
  <2>5. Is([i \in 0..m |-> IF i = m THEN PutFile(g[m - 1], new[m]) ELSE g[i]], m)
    BY <2>3, <2>4
  <2>6. QED
    BY <2>2, <2>5
<1>2. \E g : Is(g, Len(new))
  BY <1>1
<1> DEFINE after == CHOOSE g : Is(g, Len(new))
<1>3. Is(after, Len(new))
  BY <1>2
<1>4. ReplaceOrAppend(fs, new) = after[Len(new)]
  BY DEF ReplaceOrAppend
<1> HIDE DEF after
<1>5. QED
  BY <1>3, <1>4

(* What the wrapper and the installer write are files.                     *)
LEMMA FileIsFile ==
  /\ \A p \in Names, by \in Writers, what \in Seq(Words) : File(p, by, what) \in AllFiles
  /\ \A p, by, what : /\ File(p, by, what).path = p /\ File(p, by, what).by = by
                      /\ File(p, by, what).what = what
  /\ << >> \in Seq(Words)
  /\ \A v \in Words : <<v>> \in Seq(Words)
  /\ \A v, w \in Words : <<v, w>> \in Seq(Words)
BY DEF File, AllFiles

(* The installer's seven files have seven paths.                           *)
LEMMA InstallerFilesFit ==
  /\ InstallerFiles \in Seq(AllFiles) /\ Len(InstallerFiles) = 7
  /\ DOMAIN InstallerFiles = 1..7
  /\ \A i, j \in 1..7 : InstallerFiles[i].path = InstallerFiles[j].path => i = j
  /\ \A i \in 1..7 : InstallerFiles[i].path \notin WrapperPaths \cup {OwnManifest}
  /\ InstallerPaths = {InstallerFiles[i].path : i \in 1..7}
  /\ InstallerFiles[1].path = CvoPath /\ InstallerFiles[2].path = DnsPath
  /\ InstallerFiles[3].path = UserData("master")
  /\ InstallerFiles[4].path = UserData("worker")
  /\ InstallerFiles[5].path = McsSecret /\ InstallerFiles[6].path = McsKey
  /\ InstallerFiles[7].path = McsCert
<1>1. /\ Len(InstallerFiles) = 7 /\ DOMAIN InstallerFiles = 1..7
      /\ InstallerFiles[1] = File(CvoPath, "installer", <<"installer">>)
      /\ InstallerFiles[2] = File(DnsPath, "installer", <<"zones">>)
      /\ InstallerFiles[3] = File(UserData("master"), "installer", <<ByName>>)
      /\ InstallerFiles[4] = File(UserData("worker"), "installer", <<ByName>>)
      /\ InstallerFiles[5] = File(McsSecret, "installer", <<"crt1", "key1">>)
      /\ InstallerFiles[6] = File(McsKey, "installer", <<"key1">>)
      /\ InstallerFiles[7] = File(McsCert, "installer", <<"crt1">>)
  BY DEF InstallerFiles
<1>2. InstallerPaths = {InstallerFiles[i].path : i \in 1..7}
  <2>1. DOMAIN InstallerFiles = 1..7
    BY <1>1
  <2>2. QED
    BY <2>1, Zenon DEF InstallerPaths, PathsOf
<1>3. \A i \in 1..7 : i \in {1, 2, 3, 4, 5, 6, 7}
  OBVIOUS
<1>4. ASSUME NEW i \in 1..7 PROVE InstallerFiles[i] \in AllFiles
  <2>1. InstallerFiles[i].path \in Names
    BY <1>2 DEF Names
  <2>2. "installer" \in Writers
    BY DEF Writers
  <2>3. /\ <<"installer">> \in Seq(Words) /\ <<"zones">> \in Seq(Words)
        /\ <<ByName>> \in Seq(Words) /\ <<"crt1", "key1">> \in Seq(Words)
        /\ <<"key1">> \in Seq(Words) /\ <<"crt1">> \in Seq(Words)
    BY FileIsFile DEF Words
  <2>4. \E p, w : w \in Seq(Words) /\ InstallerFiles[i] = File(p, "installer", w)
    <3>1. CASE i \in {1, 2}
      BY <1>1, <2>3, <3>1
    <3>2. CASE i \in {3, 4}
      BY <1>1, <2>3, <3>2
    <3>3. CASE i = 5
      BY <1>1, <2>3, <3>3
    <3>4. CASE i \in {6, 7}
      BY <1>1, <2>3, <3>4
    <3>5. QED
      BY <1>3, <3>1, <3>2, <3>3, <3>4
  <2>5. PICK p, w : w \in Seq(Words) /\ InstallerFiles[i] = File(p, "installer", w)
    BY <2>4
  <2>6. p \in Names
    BY <2>1, <2>5, FileIsFile
  <2>7. QED
    BY <2>2, <2>5, <2>6, FileIsFile
<1>5. InstallerFiles \in Seq(AllFiles)
  <2>1. InstallerFiles = [i \in 1..7 |-> InstallerFiles[i]]
    BY <1>1 DEF InstallerFiles
  <2>2. QED
    BY <1>4, <2>1
<1> USE DEF File, UserData, CvoPath, DnsPath, McsSecret, McsKey, McsCert, ByName
<1>6. \A i, j \in 1..7 : InstallerFiles[i].path = InstallerFiles[j].path => i = j
  BY <1>1, <1>3
<1>7. \A i \in 1..7 : InstallerFiles[i].path \notin WrapperPaths \cup {OwnManifest}
  BY <1>1, <1>3 DEF WrapperPaths, MtuPaths, DnsmasqPaths, MdsdPaths, ResolverPaths,
     EtcHostsPaths, OwnManifest
<1>8. QED
  BY <1>1, <1>2, <1>5, <1>6, <1>7

(* replaceOrAppend of one file leaves every other file of the list as it is, *)
(* and of those of its own path all but the first.                         *)
LEMMA PutFileKeeps ==
  ASSUME NEW S, NEW fs, Sound(fs, S), NEW f \in AllFiles
  PROVE  Sound(PutFile(fs, f), S) /\ Edited(fs, PutFile(fs, f), f)
<1> DEFINE gs == PutFile(fs, f)
<1>0. /\ fs \in Seq(AllFiles) /\ Len(fs) \in Nat /\ Len(fs) >= 7 /\ DOMAIN fs = 1..Len(fs)
      /\ \A i \in 1..7 : fs[i].path = InstallerFiles[i].path /\ i \in DOMAIN fs
  BY DEF Sound
<1>1. CASE f.path \notin PathsOf(fs)
  <2>1. gs = Append(fs, f)
    BY <1>1 DEF PutFile
  <2>2. /\ gs \in Seq(AllFiles) /\ Len(gs) = Len(fs) + 1 /\ DOMAIN gs = 1..(Len(fs) + 1)
        /\ \A i \in DOMAIN fs : gs[i] = fs[i]
        /\ gs[Len(fs) + 1] = f
    BY <1>0, <2>1
  <2>a. /\ \A i \in DOMAIN fs : i \in DOMAIN gs
        /\ Len(fs) + 1 \in DOMAIN gs
        /\ \A i \in DOMAIN gs : i \in DOMAIN fs \/ i = Len(fs) + 1
    BY <1>0, <2>2
  <2> HIDE DEF gs
  <2>3. \A i \in DOMAIN fs : fs[i].path # f.path
    BY <1>1 DEF PathsOf
  <2>4. \A i, j \in DOMAIN gs : i # j /\ gs[i].path = gs[j].path
           => gs[i].path \in S \cap InstallerPaths
    <3> SUFFICES ASSUME NEW i \in DOMAIN gs, NEW j \in DOMAIN gs, i # j,
                        gs[i].path = gs[j].path
                 PROVE  gs[i].path \in S \cap InstallerPaths
      OBVIOUS
    <3>1. i \in DOMAIN fs /\ j \in DOMAIN fs
      BY <1>0, <2>2, <2>3
    <3>2. QED
      BY <2>2, <3>1 DEF Sound
  <2>5. Sound(gs, S)
    <3>1. Len(gs) >= 7
      BY <1>0, <2>2
    <3>2. \A i \in 1..7 : gs[i].path = InstallerFiles[i].path
      BY <1>0, <2>2
    <3>3. QED
      BY <2>2, <2>4, <3>1, <3>2 DEF Sound
  <2>6. PathsOf(gs) = PathsOf(fs) \cup {f.path}
    BY <2>2, <2>a DEF PathsOf
  <2>7. \A i \in 1..7 : gs[i] = IF InstallerFiles[i].path = f.path THEN f ELSE fs[i]
    BY <1>0, <2>2, <2>3
  <2>8. Len(fs) <= Len(gs)
    BY <1>0, <2>2
  <2>9. QED
    BY <2>2, <2>a, <2>5, <2>6, <2>7, <2>8 DEF gs, Edited
<1>2. CASE f.path \in PathsOf(fs)
  <2> DEFINE k == FirstAt(fs, f.path)
  <2>1. k \in DOMAIN fs /\ fs[k].path = f.path /\ \A j \in 1..(k - 1) : fs[j].path # f.path
    BY <1>0, <1>2, FirstAtIsFirst
  <2>2. gs = [fs EXCEPT ![k] = f]
    BY <1>2 DEF PutFile
  <2> HIDE DEF k
  <2>3. /\ gs \in Seq(AllFiles) /\ Len(gs) = Len(fs) /\ DOMAIN gs = DOMAIN fs
        /\ gs[k] = f /\ \A i \in DOMAIN fs : i # k => gs[i] = fs[i]
    BY <1>0, <2>1, <2>2
  <2> HIDE DEF gs
  <2>4. \A i \in DOMAIN fs : gs[i].path = fs[i].path
    BY <2>1, <2>3
  <2>5. Sound(gs, S)
    BY <1>0, <2>3, <2>4 DEF Sound
  <2>6. PathsOf(gs) = PathsOf(fs) \cup {f.path}
    BY <2>1, <2>3, <2>4 DEF PathsOf
  <2>7. \A i \in 1..7 : InstallerFiles[i].path = f.path => i = k
    <3> SUFFICES ASSUME NEW i \in 1..7, InstallerFiles[i].path = f.path PROVE i = k
      OBVIOUS
    <3>1. fs[i].path = f.path /\ i >= k
      BY <1>0, <2>1
    <3>2. k \in 1..7
      BY <1>0, <2>1, <3>1
    <3>3. InstallerFiles[k].path = InstallerFiles[i].path
      BY <1>0, <2>1, <3>2
    <3>4. QED
      BY <3>2, <3>3, InstallerFilesFit
  <2>8. \A i \in 1..7 : gs[i] = IF InstallerFiles[i].path = f.path THEN f ELSE fs[i]
    BY <1>0, <2>1, <2>3, <2>7
  <2>9. ASSUME NEW i \in DOMAIN fs, i > 7, fs[i].path # f.path \/ f.path \in InstallerPaths
        PROVE  gs[i] = fs[i]
    <3>1. CASE fs[i].path # f.path
      BY <2>1, <2>3, <3>1
    <3>2. CASE f.path \in InstallerPaths
      <4>1. PICK m \in 1..7 : InstallerFiles[m].path = f.path
        BY <3>2, InstallerFilesFit
      <4>2. k = m
        BY <2>7, <4>1
      <4>3. QED
        BY <2>3, <2>9, <4>2
    <3>3. QED
      BY <2>9, <3>1, <3>2
  <2>10. Len(fs) <= Len(gs)
    BY <1>0, <2>3
  <2>11. QED
    BY <2>1, <2>3, <2>4, <2>5, <2>6, <2>8, <2>9, <2>10 DEF gs, Edited
<1>3. QED
  BY <1>1, <1>2

(* ReplaceOrAppend of one file and of two.                                 *)
LEMMA PutOne ==
  ASSUME NEW fs, NEW f
  PROVE  ReplaceOrAppend(fs, <<f>>) = PutFile(fs, f)
<1>1. PICK after : /\ after[0] = fs
                   /\ \A i \in 1..Len(<<f>>) : after[i] = PutFile(after[i - 1], <<f>>[i])
                   /\ ReplaceOrAppend(fs, <<f>>) = after[Len(<<f>>)]
  <2>1. Len(<<f>>) \in Nat
    OBVIOUS
  <2>2. QED
    BY <2>1, ReplaceOrAppendLoop
<1>2. after[1] = PutFile(after[1 - 1], f) /\ ReplaceOrAppend(fs, <<f>>) = after[1]
  BY <1>1
<1>3. QED
  BY <1>1, <1>2

LEMMA PutTwo ==
  ASSUME NEW fs, NEW f, NEW g
  PROVE  ReplaceOrAppend(fs, <<f, g>>) = PutFile(PutFile(fs, f), g)
<1> DEFINE new == <<f, g>>
<1>0. Len(new) = 2 /\ new[1] = f /\ new[2] = g
  OBVIOUS
<1> HIDE DEF new
<1>1. PICK after : /\ after[0] = fs
                   /\ \A i \in 1..Len(new) : after[i] = PutFile(after[i - 1], new[i])
                   /\ ReplaceOrAppend(fs, new) = after[Len(new)]
  <2>1. Len(new) \in Nat
    BY <1>0
  <2>2. QED
    BY <2>1, ReplaceOrAppendLoop
<1>2. /\ after[1] = PutFile(after[0], f) /\ after[2] = PutFile(after[1], g)
      /\ ReplaceOrAppend(fs, new) = after[2]
  BY <1>0, <1>1
<1>3. QED
  BY <1>1, <1>2 DEF new

(* However many files of its own the wrapper puts in, the installer's and the *)
(* RP's stay as they are.                                                  *)
LEMMA PutOwnFiles ==
  ASSUME NEW S, NEW fs, Sound(fs, S), NEW Q \in SUBSET WrapperPaths, NEW new \in Seq(AllFiles),
         \A i \in 1..Len(new) : new[i].path \in Q
  PROVE  LET hs == ReplaceOrAppend(fs, new)
         IN  Sound(hs, S) /\ Carries(fs, hs) /\ PathsOf(hs) \subseteq PathsOf(fs) \cup Q
<1> DEFINE Good(hs) == /\ Sound(hs, S) /\ Carries(fs, hs)
                       /\ PathsOf(hs) \subseteq PathsOf(fs) \cup Q
<1>0. Len(new) \in Nat
  OBVIOUS
<1>1. PICK after : /\ after[0] = fs
                   /\ \A i \in 1..Len(new) : after[i] = PutFile(after[i - 1], new[i])
                   /\ ReplaceOrAppend(fs, new) = after[Len(new)]
  BY <1>0, ReplaceOrAppendLoop
<1>2. Good(fs)
  BY DEF Sound, Carries
<1>3. ASSUME NEW hs, Good(hs), NEW f \in AllFiles, f.path \in Q
      PROVE  Good(PutFile(hs, f))
  <2> DEFINE gs == PutFile(hs, f)
  <2>0. Sound(hs, S)
    BY <1>3
  <2>1. Sound(gs, S) /\ Edited(hs, gs, f)
    BY <2>0, PutFileKeeps
  <2> HIDE DEF gs
  <2>2. \A i \in 1..7 : gs[i] = hs[i]
    BY <1>3, <2>1, InstallerFilesFit DEF Edited
  <2>3. /\ Len(fs) \in Nat /\ Len(hs) \in Nat /\ Len(gs) \in Nat
        /\ DOMAIN fs = 1..Len(fs) /\ DOMAIN hs = 1..Len(hs)
    BY <1>3, <2>1 DEF Sound
  <2>4. ASSUME NEW i \in DOMAIN fs, fs[i].path \notin WrapperPaths
        PROVE  gs[i] = fs[i]
    <3>1. hs[i] = fs[i] /\ i \in DOMAIN hs
      BY <1>3, <2>3, <2>4 DEF Carries
    <3>2. hs[i].path # f.path
      BY <1>3, <2>4, <3>1
    <3>3. CASE i > 7
      BY <2>1, <3>1, <3>2, <3>3 DEF Edited
    <3>4. CASE ~(i > 7)
      <4>1. i \in 1..7
        BY <2>3, <3>4
      <4>2. QED
        BY <2>2, <3>1, <4>1
    <3>5. QED
      BY <3>3, <3>4
  <2>5. Carries(fs, gs)
    <3>1. Len(fs) <= Len(gs)
      BY <1>3, <2>1, <2>3 DEF Carries, Edited
    <3>2. QED
      BY <2>4, <3>1 DEF Carries
  <2>6. PathsOf(gs) \subseteq PathsOf(fs) \cup Q
    BY <1>3, <2>1 DEF Edited
  <2>7. QED
    BY <2>1, <2>5, <2>6 DEF gs
<1> HIDE DEF Good
<1> DEFINE T == {n \in 0..Len(new) : ~Good(after[n])}
<1>4. T = {}
  <2>1. SUFFICES ASSUME T # {} PROVE FALSE
    OBVIOUS
  <2>2. T \subseteq Nat
    BY <1>0
  <2>3. PICK m \in T : \A n \in T : m <= n
    BY <2>1, <2>2, LeastNumber
  <2>4. m # 0
    BY <1>1, <1>2, <2>3
  <2>5. m \in 1..Len(new) /\ m - 1 \in 0..Len(new) /\ ~(m <= m - 1)
    BY <1>0, <2>3, <2>4
  <2>6. Good(after[m - 1])
    BY <2>3, <2>5
  <2>7. new[m] \in AllFiles /\ new[m].path \in Q
    BY <2>5
  <2>8. Good(after[m])
    BY <1>1, <1>3, <2>5, <2>6, <2>7
  <2>9. QED
    BY <2>3, <2>8
<1>5. Good(ReplaceOrAppend(fs, new))
  <2>1. Len(new) \in 0..Len(new)
    BY <1>0
  <2>2. Good(after[Len(new)])
    BY <1>4, <2>1
  <2>3. QED
    BY <1>1, <2>2
<1>6. QED
  BY <1>5 DEF Good

(* Files that are appended unseen are all there, behind the others, and no  *)
(* path is there twice that was not to be.                                 *)
LEMMA AppendUnseen ==
  ASSUME NEW S, NEW fs, Sound(fs, S), NEW new \in Seq(AllFiles),
         \A i \in DOMAIN new : new[i].path \in PathsOf(fs) => new[i].path \in S \cap InstallerPaths,
         \A i, j \in DOMAIN new : new[i].path = new[j].path => i = j
  PROVE  /\ Sound(fs \o new, S)
         /\ Len(fs) <= Len(fs \o new)
         /\ \A i \in DOMAIN fs : (fs \o new)[i] = fs[i]
         /\ \A i \in DOMAIN new :
              Len(fs) + i \in DOMAIN (fs \o new) /\ (fs \o new)[Len(fs) + i] = new[i]
         /\ PathsOf(fs \o new) = PathsOf(fs) \cup PathsOf(new)
<1> DEFINE hs == fs \o new
<1>1. /\ fs \in Seq(AllFiles) /\ Len(fs) \in Nat /\ Len(fs) >= 7 /\ DOMAIN fs = 1..Len(fs)
      /\ Len(new) \in Nat /\ DOMAIN new = 1..Len(new)
  BY DEF Sound
<1>2. /\ hs \in Seq(AllFiles) /\ Len(hs) = Len(fs) + Len(new)
      /\ DOMAIN hs = 1..(Len(fs) + Len(new))
  BY <1>1
<1>3. \A i \in DOMAIN fs : i \in DOMAIN hs /\ hs[i] = fs[i]
  BY <1>1, <1>2
<1>4. \A i \in DOMAIN new : Len(fs) + i \in DOMAIN hs /\ hs[Len(fs) + i] = new[i]
  BY <1>1, <1>2
<1>5. \A i \in DOMAIN hs : i \in DOMAIN fs \/ \E j \in DOMAIN new : i = Len(fs) + j
  <2> SUFFICES ASSUME NEW i \in DOMAIN hs, i \notin DOMAIN fs
               PROVE  \E j \in DOMAIN new : i = Len(fs) + j
    OBVIOUS
  <2>1. i - Len(fs) \in DOMAIN new /\ i = Len(fs) + (i - Len(fs))
    BY <1>1, <1>2
  <2>2. QED
    BY <2>1
<1> HIDE DEF hs
<1>6. PathsOf(hs) = PathsOf(fs) \cup PathsOf(new)
  BY <1>3, <1>4, <1>5 DEF PathsOf
<1>7. ASSUME NEW i \in DOMAIN hs, NEW j \in DOMAIN hs, i # j, hs[i].path = hs[j].path
      PROVE  hs[i].path \in S \cap InstallerPaths
  <2>1. CASE i \in DOMAIN fs /\ j \in DOMAIN fs
    BY <1>3, <1>7, <2>1 DEF Sound
  <2>2. ASSUME NEW k \in DOMAIN fs, NEW m \in DOMAIN new, fs[k].path = new[m].path
        PROVE  fs[k].path \in S \cap InstallerPaths
    BY <2>2 DEF PathsOf
  <2>3. CASE i \in DOMAIN fs /\ j \notin DOMAIN fs
    BY <1>3, <1>4, <1>5, <1>7, <2>2, <2>3
  <2>4. CASE i \notin DOMAIN fs /\ j \in DOMAIN fs
    BY <1>3, <1>4, <1>5, <1>7, <2>2, <2>4
  <2>5. CASE i \notin DOMAIN fs /\ j \notin DOMAIN fs
    BY <1>4, <1>5, <1>7, <2>5
  <2>6. QED
    BY <2>1, <2>3, <2>4, <2>5
<1>8. Sound(hs, S)
  <2>1. Len(hs) >= 7
    BY <1>1, <1>2
  <2>2. \A i \in 1..7 : i \in DOMAIN fs
    BY <1>1
  <2>3. \A i \in 1..7 : hs[i].path = InstallerFiles[i].path
    BY <1>3, <2>2 DEF Sound
  <2>4. QED
    BY <1>2, <1>7, <2>1, <2>3 DEF Sound
<1>9. Len(fs) <= Len(hs)
  BY <1>1, <1>2
<1>10. QED
  BY <1>3, <1>4, <1>6, <1>8, <1>9 DEF hs

(* What the RP hands over is not under a path of the wrapper's own.        *)
LEMMA PathsAreApart ==
  /\ ManifestPaths \cap WrapperPaths = {}
  /\ ManifestPaths \cap {UserData("master"), UserData("worker"), McsKey, McsCert} = {}
  /\ OwnManifest \notin WrapperPaths
<1>1. OwnManifest \notin WrapperPaths
  BY DEF OwnManifest, WrapperPaths, MtuPaths, DnsmasqPaths, MdsdPaths, ResolverPaths, EtcHostsPaths
<1>2. /\ WrapperPaths \subseteq Elsewhere
      /\ {UserData("master"), UserData("worker"), McsKey, McsCert} \subseteq Elsewhere
  BY DEF WrapperPaths, Elsewhere, Roles
<1>3. QED
  BY <1>1, <1>2, ManifestsAreApart

(* What carries over from a list to one that carries its files.            *)
LEMMA CarriedOver ==
  ASSUME NEW S \in SUBSET ManifestPaths, NEW fs, NEW hs,
         Sound(fs, S), Sound(hs, S), Carries(fs, hs)
  PROVE  /\ \A i \in 1..7 : hs[i] = fs[i]
         /\ \A s, p : p \in S /\ Arrived(fs, s, p) => Arrived(hs, s, p)
         /\ HasOwn(fs) => HasOwn(hs)
<1>1. /\ Len(fs) \in Nat /\ Len(hs) \in Nat /\ Len(fs) >= 7
      /\ DOMAIN fs = 1..Len(fs) /\ DOMAIN hs = 1..Len(hs)
      /\ \A i \in 1..7 : fs[i].path = InstallerFiles[i].path
  BY DEF Sound
<1>2. \A i \in DOMAIN fs : i \in DOMAIN hs
  BY <1>1 DEF Carries
<1>3. \A i \in 1..7 : i \in DOMAIN fs
  BY <1>1
<1>4. \A i \in 1..7 : hs[i] = fs[i]
  BY <1>1, <1>3, InstallerFilesFit DEF Carries
<1>5. \A i \in DOMAIN fs : fs[i].path \in S \cup {OwnManifest} => hs[i] = fs[i]
  BY PathsAreApart DEF Carries
<1>6. \A s, p : p \in S /\ Arrived(fs, s, p) => Arrived(hs, s, p)
  BY <1>2, <1>5 DEF Arrived
<1>7. HasOwn(fs) => HasOwn(hs)
  BY <1>2, <1>5 DEF HasOwn
<1>8. QED
  BY <1>4, <1>6, <1>7

(* A list is sound if its files have the paths of a sound one.             *)
LEMMA SamePaths ==
  ASSUME NEW S, NEW fs, Sound(fs, S), NEW hs \in [DOMAIN fs -> AllFiles],
         \A i \in DOMAIN fs : hs[i].path = fs[i].path
  PROVE  Sound(hs, S) /\ PathsOf(hs) = PathsOf(fs) /\ Len(hs) = Len(fs)
<1>1. fs \in Seq(AllFiles) /\ Len(fs) \in Nat /\ Len(fs) >= 7 /\ DOMAIN fs = 1..Len(fs)
  BY DEF Sound
<1>2. hs \in Seq(AllFiles) /\ Len(hs) = Len(fs) /\ DOMAIN hs = DOMAIN fs
  BY <1>1
<1>3. \A i \in 1..7 : i \in DOMAIN fs
  BY <1>1
<1>4. Sound(hs, S)
  BY <1>1, <1>2, <1>3 DEF Sound
<1>5. PathsOf(hs) = PathsOf(fs)
  BY <1>2 DEF PathsOf
<1>6. QED
  BY <1>2, <1>4, <1>5

(* AROManifests.Load lists every manifest once.                            *)
LEMMA SuppliedListFits ==
  ASSUME DOMAIN supplied \subseteq ManifestPaths
  PROVE  /\ SuppliedList \in Seq(DOMAIN supplied)
         /\ \A i, j \in 1..Len(SuppliedList) : SuppliedList[i] = SuppliedList[j] => i = j
         /\ \A p \in DOMAIN supplied : \E i \in 1..Len(SuppliedList) : SuppliedList[i] = p
         /\ DOMAIN SuppliedList = 1..Len(SuppliedList)
<1> DEFINE S == DOMAIN supplied
           n == Cardinality(S)
<1>1. IsFiniteSet(S)
  BY ManifestsAreApart, FS_Subset
<1>2. n \in Nat /\ ExistsBijection(1..n, S)
  BY <1>1, FS_CardinalityType
<1>3. \E f \in [1..n -> S] : IsInjective(f)
  BY <1>2 DEF ExistsBijection, Bijection, Injection, IsInjective
<1>4. SuppliedList \in [1..n -> S] /\ IsInjective(SuppliedList)
  BY <1>3 DEF SuppliedList, SetToSeq
<1>5. SuppliedList \in Injection(1..n, S)
  BY <1>4 DEF Injection
<1>6. IsFiniteSet(1..n) /\ Cardinality(1..n) = n
  BY <1>2, FS_Interval
<1>7. SuppliedList \in Surjection(1..n, S)
  BY <1>1, <1>5, <1>6, FS_Injection
<1>8. SuppliedList \in Seq(S) /\ Len(SuppliedList) = n /\ DOMAIN SuppliedList = 1..n
  BY <1>2, <1>4
<1>9. QED
  BY <1>4, <1>7, <1>8 DEF IsInjective, Surjection

-----------------------------------------------------------------------------
(* The steps.                                                              *)

(* applyInstallConfigCustomisations changes nothing of what it is given.   *)
LEMMA SameInput ==
  ASSUME UNCHANGED input
  PROVE  /\ supplied' = supplied /\ mtu' = mtu /\ intIP' = intIP
         /\ SuppliedList' = SuppliedList
         /\ Refused' <=> Refused
         /\ ByAddress' = ByAddress
BY DEF input, SuppliedList, Refused, ByAddress

(* The lists of the invariant are sound and the installer's come first.    *)
LEMMA InvIsSound ==
  ASSUME BootInv, Resolved
  PROVE  /\ Sound(files, DOMAIN supplied)
         /\ files \in Seq(AllFiles) /\ Len(files) \in Nat /\ Len(files) >= 7
         /\ DOMAIN files = 1..Len(files)
         /\ \A i \in 1..7 : i \in DOMAIN files /\ files[i].path = InstallerFiles[i].path
<1>1. Sound(files, DOMAIN supplied)
  BY DEF BootInv, FilesInv, Resolved
<1>2. QED
  BY <1>1 DEF Sound

(* The installer's graph is resolved: its files are in the list and nothing *)
(* else is.                                                                *)
LEMMA ResolveKeeps == BootInv /\ Resolve => BootInv'
<1> SUFFICES ASSUME BootInv, Resolve PROVE BootInv'
  OBVIOUS
<1>1. /\ pc = "resolve" /\ pc' = "mtu" /\ files' = InstallerFiles /\ ignored' = <<"installer">>
      /\ UNCHANGED input
  BY DEF Resolve, Step
<1>2. supplied' = supplied
  BY <1>1 DEF input
<1>3. TypeInv'
  BY <1>1, <1>2 DEF BootInv, TypeInv, Steps
<1>4. Sound(InstallerFiles, DOMAIN supplied)
  <2>1. Len(InstallerFiles) >= 7
    BY InstallerFilesFit
  <2>2. QED
    BY <2>1, InstallerFilesFit DEF Sound
<1>5. FilesInv'
  BY <1>1, <1>2, <1>4 DEF FilesInv
<1>6. OrderInv'
  BY <1>1 DEF OrderInv, InstallerPaths
<1>7. /\ InstallerFiles[1].what = <<"installer">>
      /\ InstallerFiles[5].what = <<"crt1", "key1">>
      /\ InstallerFiles[6].what = <<"key1">> /\ InstallerFiles[7].what = <<"crt1">>
  BY DEF InstallerFiles, File
<1>8. IgnoredInv'
  <2>1. <<"installer">> \in Seq(Words)
    BY FileIsFile DEF Words
  <2>2. QED
    BY <1>1, <1>7, <2>1 DEF IgnoredInv
<1>9. PointerInv' /\ ManifestInv' /\ BytesInv'
  BY <1>1 DEF PointerInv, ManifestInv, BytesInv
<1>10. McsInv'
  BY <1>1, <1>7 DEF McsInv
<1>11. QED
  BY <1>3, <1>5, <1>6, <1>8, <1>9, <1>10 DEF BootInv

(* The steps that leave the installer's seven files alone, and the assets. *)
LEMMA SevenStay ==
  ASSUME BootInv, Resolved, UNCHANGED <<input, ignored>>,
         \A i \in 1..7 : files'[i] = files[i],
         pc \in {"mtu", "cvo"} <=> pc' \in {"mtu", "cvo"},
         pc' \in Steps \ {"resolve", "pointers", "mcs", "marshal"}, pc \notin {"marshal", "done"}
  PROVE  TypeInv' /\ IgnoredInv' /\ PointerInv' /\ McsInv' /\ BytesInv'
<1>1. /\ supplied' = supplied /\ intIP' = intIP /\ ignored' = ignored
      /\ SuppliedList' = SuppliedList /\ (Refused' <=> Refused)
  BY SameInput
<1>2. TypeInv'
  BY <1>1 DEF BootInv, TypeInv
<1>3. pc' \notin {"failed", "done", "resolve", "pointers", "mcs", "marshal"} /\ pc # "done"
  BY DEF Steps
<1>4. files'[1] = files[1] /\ files'[5] = files[5] /\ files'[6] = files[6] /\ files'[7] = files[7]
  OBVIOUS
<1>5. IgnoredInv'
  BY <1>1, <1>3, <1>4 DEF BootInv, IgnoredInv, Resolved
<1>6. PointerInv' /\ BytesInv'
  BY <1>3 DEF PointerInv, BytesInv
<1>7. McsInv'
  BY <1>1, <1>3, <1>4 DEF BootInv, McsInv, Resolved
<1>8. QED
  BY <1>2, <1>5, <1>6, <1>7

(* overrideEthernetMTU appends three files that are not there yet.         *)
LEMMA MtuKeeps == BootInv /\ OverrideEthernetMTU => BootInv'
<1> SUFFICES ASSUME BootInv, OverrideEthernetMTU PROVE BootInv'
  OBVIOUS
<1> DEFINE new == << File("30-eth0-mtu-3900", "wrapper", <<"3900">>),
                     File("99-master-mtu.yaml", "wrapper", <<"3900">>),
                     File("99-worker-mtu.yaml", "wrapper", <<"3900">>) >>
           S == DOMAIN supplied
<1>1. /\ pc = "mtu" /\ pc' = "cvo" /\ UNCHANGED <<input, ignored>>
      /\ files' = files \/ files' = files \o new
  BY DEF OverrideEthernetMTU, Step
<1>2. Resolved /\ supplied' = supplied
  BY <1>1 DEF Resolved, input
<1>3. Sound(files, S) /\ PathsOf(files) \subseteq InstallerPaths /\ \A i \in 1..7 : i \in DOMAIN files
  BY <1>1, <1>2, InvIsSound DEF BootInv, OrderInv
<1>4. /\ Len(new) = 3 /\ DOMAIN new = 1..3
      /\ new[1] = File("30-eth0-mtu-3900", "wrapper", <<"3900">>)
      /\ new[2] = File("99-master-mtu.yaml", "wrapper", <<"3900">>)
      /\ new[3] = File("99-worker-mtu.yaml", "wrapper", <<"3900">>)
  OBVIOUS
<1>5. new \in Seq(AllFiles) /\ (\A i \in DOMAIN new : new[i].path \in MtuPaths)
      /\ \A i, j \in DOMAIN new : new[i].path = new[j].path => i = j
  <2>1. \A p \in MtuPaths : File(p, "wrapper", <<"3900">>) \in AllFiles
    BY FileIsFile DEF Names, WrapperPaths, Writers, Words
  <2>2. \A i \in 1..3 : i \in {1, 2, 3}
    OBVIOUS
  <2>3. new[1] \in AllFiles /\ new[2] \in AllFiles /\ new[3] \in AllFiles
    BY <1>4, <2>1 DEF MtuPaths
  <2>4. new \in Seq(AllFiles)
    BY <2>1 DEF MtuPaths
  <2>5. /\ new[1].path = "30-eth0-mtu-3900" /\ new[2].path = "99-master-mtu.yaml"
        /\ new[3].path = "99-worker-mtu.yaml"
    BY <1>4, FileIsFile
  <2> HIDE DEF new
  <2>6. QED
    BY <1>4, <2>2, <2>4, <2>5 DEF MtuPaths
<1> HIDE DEF new
<1>6. \A i \in DOMAIN new : new[i].path \notin InstallerPaths
  BY <1>5, InstallerFilesFit DEF WrapperPaths
<1>7. /\ Sound(files \o new, S)
      /\ \A i \in DOMAIN files : (files \o new)[i] = files[i]
      /\ PathsOf(files \o new) = PathsOf(files) \cup PathsOf(new)
  BY <1>3, <1>5, <1>6, AppendUnseen
<1>8. Sound(files', S) /\ \A i \in 1..7 : files'[i] = files[i]
  BY <1>1, <1>3, <1>7
<1>9. PathsOf(files') \subseteq InstallerPaths \cup MtuPaths
  <2>1. PathsOf(new) \subseteq MtuPaths
    BY <1>5 DEF PathsOf
  <2>2. QED
    BY <1>1, <1>3, <1>7, <2>1
<1>10. TypeInv' /\ IgnoredInv' /\ PointerInv' /\ McsInv' /\ BytesInv'
  BY <1>1, <1>2, <1>8, SevenStay DEF Steps
<1>11. FilesInv' /\ OrderInv' /\ ManifestInv'
  BY <1>1, <1>2, <1>8, <1>9 DEF FilesInv, OrderInv, ManifestInv
<1>12. QED
  BY <1>10, <1>11 DEF BootInv

(* A word before a list of words.                                          *)
LEMMA WordBefore ==
  ASSUME NEW s \in Seq(Words), NEW v \in Words
  PROVE  /\ <<v>> \o s \in Seq(Words) /\ Len(<<v>> \o s) = Len(s) + 1
         /\ (<<v>> \o s)[1] = v
         /\ \A i \in 1..Len(s) : (<<v>> \o s)[i + 1] = s[i]
<1>1. <<v>> \o s \in Seq(Words) /\ Len(<<v>> \o s) = Len(s) + 1
  OBVIOUS
<1>2. (<<v>> \o s)[1] = v
  OBVIOUS
<1>3. \A i \in 1..Len(s) : (<<v>> \o s)[i + 1] = s[i]
  OBVIOUS
<1>4. QED
  BY <1>1, <1>2, <1>3

(* An error ends it, with the list as it is.                               *)
LEMMA FailedKeeps ==
  ASSUME BootInv, UNCHANGED <<input, files>>, pc' = "failed"
  PROVE  BootInv'
<1>1. supplied' = supplied /\ files' = files
  BY DEF input
<1>2. TypeInv'
  BY <1>1 DEF BootInv, TypeInv
<1>3. FilesInv'
  BY <1>1 DEF BootInv, FilesInv
<1>4. OrderInv' /\ IgnoredInv' /\ PointerInv' /\ McsInv' /\ ManifestInv' /\ BytesInv'
  BY DEF OrderInv, IgnoredInv, Resolved, PointerInv, McsInv, ManifestInv, BytesInv
<1>5. QED
  BY <1>2, <1>3, <1>4 DEF BootInv

(* The overrides are given to the CVO's file, which is the first, and no   *)
(* other file has its path.                                                *)
LEMMA OverridesInPlace ==
  ASSUME BootInv, pc = "cvo", NEW w \in Seq(Words),
         files' = [i \in DOMAIN files |->
                     IF Overrides(files[i]) THEN File(CvoPath, "wrapper", w) ELSE files[i]]
  PROVE  /\ Sound(files', DOMAIN supplied)
         /\ PathsOf(files') = PathsOf(files)
         /\ files'[1].what = w
         /\ \A i \in 2..7 : files'[i] = files[i]
<1> DEFINE hs == [i \in DOMAIN files |->
                    IF Overrides(files[i]) THEN File(CvoPath, "wrapper", w) ELSE files[i]]
<1>1. /\ Sound(files, DOMAIN supplied) /\ files \in Seq(AllFiles)
      /\ \A i \in 1..7 : i \in DOMAIN files /\ files[i].path = InstallerFiles[i].path
  <2>1. Resolved
    BY DEF Resolved
  <2>2. QED
    BY <2>1, InvIsSound
<1>2. File(CvoPath, "wrapper", w) \in AllFiles
  <2>1. CvoPath \in InstallerPaths
    BY InstallerFilesFit
  <2>2. QED
    BY <2>1, FileIsFile DEF Names, Writers
<1>3. hs \in [DOMAIN files -> AllFiles] /\ \A i \in DOMAIN files : hs[i].path = files[i].path
  <2>1. \A i \in DOMAIN files : files[i] \in AllFiles
    BY <1>1
  <2>2. QED
    BY <1>2, <2>1, FileIsFile DEF Overrides
<1>4. hs[1].what = w
  <2>1. Overrides(files[1]) /\ 1 \in DOMAIN files
    BY <1>1, InstallerFilesFit DEF Overrides
  <2>2. QED
    BY <2>1, FileIsFile
<1>5. ASSUME NEW i \in 2..7 PROVE hs[i] = files[i]
  <2>1. i \in 1..7 /\ i # 1
    OBVIOUS
  <2>2. files[i].path # CvoPath /\ i \in DOMAIN files
    BY <1>1, <2>1, InstallerFilesFit
  <2>3. QED
    BY <2>2 DEF Overrides
<1> HIDE DEF hs
<1>6. Sound(hs, DOMAIN supplied) /\ PathsOf(hs) = PathsOf(files)
  BY <1>1, <1>3, SamePaths
<1>7. files' = hs
  BY DEF hs
<1>8. QED
  BY <1>4, <1>5, <1>6, <1>7

(* appendFilesToCvoOverrides: the asset and the file get one list.         *)
LEMMA CvoKeeps == BootInv /\ AppendFilesToCvoOverrides => BootInv'
<1> SUFFICES ASSUME BootInv, AppendFilesToCvoOverrides PROVE BootInv'
  OBVIOUS
<1>1. pc = "cvo" /\ UNCHANGED input /\ Resolved
  BY DEF AppendFilesToCvoOverrides, Resolved
<1>2. /\ supplied' = supplied /\ intIP' = intIP
      /\ SuppliedList' = SuppliedList /\ (Refused' <=> Refused)
  BY <1>1, SameInput
<1>3. /\ Sound(files, DOMAIN supplied)
      /\ PathsOf(files) \subseteq InstallerPaths \cup MtuPaths
      /\ files[1].what = ignored /\ ignored = <<"installer">> /\ ignored \in Seq(Words)
  BY <1>1, InvIsSound DEF BootInv, OrderInv, IgnoredInv
<1>4. /\ SuppliedList \in Seq(DOMAIN supplied) /\ Len(SuppliedList) \in Nat
      /\ DOMAIN SuppliedList = 1..Len(SuppliedList)
  BY SuppliedListFits DEF BootInv, TypeInv
<1>5. CASE pc' = "failed"
  <2>1. UNCHANGED files
    BY <1>5 DEF AppendFilesToCvoOverrides
  <2>2. QED
    BY <1>1, <1>5, <2>1, FailedKeeps
<1>6. CASE pc' = "supplied"
  <2>1. TypeInv'
    BY <1>2, <1>6 DEF BootInv, TypeInv, Steps
  <2>2. PointerInv' /\ ManifestInv' /\ BytesInv'
    BY <1>6 DEF PointerInv, ManifestInv, BytesInv
  <2>3. SUFFICES FilesInv' /\ OrderInv' /\ IgnoredInv' /\ McsInv'
    BY <2>1, <2>2 DEF BootInv
  <2>4. CASE DOMAIN supplied = {}
    <3>1. files' = files /\ ignored' = ignored
      BY <1>1, <2>4 DEF AppendFilesToCvoOverrides
    <3>2. ~Refused /\ Len(SuppliedList) = 0
      BY <1>4, <2>4 DEF Refused
    <3>3. Len(ignored) = 1 /\ ignored[1] = "installer"
      BY <1>3
    <3>4. FilesInv' /\ OrderInv'
      BY <1>2, <1>3, <1>6, <3>1 DEF FilesInv, OrderInv
    <3>5. IgnoredInv'
      BY <1>2, <1>3, <1>6, <3>1, <3>2, <3>3 DEF IgnoredInv, Resolved
    <3>6. McsInv'
      BY <1>1, <1>2, <1>6, <3>1 DEF BootInv, McsInv, Resolved
    <3>7. QED
      BY <3>4, <3>5, <3>6
  <2>5. CASE DOMAIN supplied # {}
    <3> DEFINE n == Len(SuppliedList)
    <3>1. /\ ~Refused /\ ignored' = Extended
          /\ files' = [i \in DOMAIN files |->
               IF Overrides(files[i]) THEN File(CvoPath, "wrapper", Extended) ELSE files[i]]
      BY <1>1, <1>6, <2>5 DEF AppendFilesToCvoOverrides
    <3>2. /\ NewlyIgnored \in Seq(Words) /\ Len(NewlyIgnored) = n
          /\ \A i \in 1..n : NewlyIgnored[i] = supplied[SuppliedList[i]]
      <4>1. \A i \in 1..n : supplied[SuppliedList[i]] \in Words
        BY <1>4 DEF BootInv, TypeInv, Words
      <4>2. NewlyIgnored = [i \in 1..n |-> supplied[SuppliedList[i]]]
        BY <1>4 DEF NewlyIgnored
      <4>3. QED
        BY <1>4, <4>1, <4>2
    <3>3. /\ Extended \in Seq(Words) /\ Len(Extended) = n + 1 /\ Extended[1] = "installer"
          /\ \A i \in 1..n : Extended[i + 1] = supplied[SuppliedList[i]]
      <4>1. "installer" \in Words /\ Extended = <<"installer">> \o NewlyIgnored
        BY <1>3 DEF Extended, Words
      <4>2. QED
        BY <3>2, <4>1, WordBefore
    <3>4. /\ Sound(files', DOMAIN supplied) /\ PathsOf(files') = PathsOf(files)
          /\ files'[1].what = Extended /\ \A i \in 2..7 : files'[i] = files[i]
      BY <1>1, <3>1, <3>3, OverridesInPlace
    <3>5. FilesInv' /\ OrderInv'
      BY <1>2, <1>3, <1>6, <3>4 DEF FilesInv, OrderInv
    <3>6. IgnoredInv'
      BY <1>2, <1>6, <3>1, <3>3, <3>4 DEF IgnoredInv, Resolved
    <3>7. McsInv'
      <4>1. files'[5] = files[5] /\ files'[6] = files[6] /\ files'[7] = files[7]
        BY <3>4
      <4>2. QED
        BY <1>1, <1>2, <1>6, <4>1 DEF BootInv, McsInv, Resolved
    <3>8. QED
      BY <3>5, <3>6, <3>7
  <2>6. QED
    BY <2>4, <2>5
<1>7. QED
  BY <1>5, <1>6 DEF AppendFilesToCvoOverrides

(* appendFilesToBootstrap: each manifest of the RP's is put behind all that *)
(* is there, once.                                                         *)
LEMMA SuppliedKeeps == BootInv /\ AppendFilesToBootstrap => BootInv'
<1> SUFFICES ASSUME BootInv, AppendFilesToBootstrap PROVE BootInv'
  OBVIOUS
<1> DEFINE new == [i \in DOMAIN SuppliedList |->
                     File(SuppliedList[i], "RP", <<supplied[SuppliedList[i]]>>)]
           S == DOMAIN supplied
           n == Len(SuppliedList)
<1>1. /\ pc = "supplied" /\ pc' = "dnsmasq" /\ UNCHANGED <<input, ignored>> /\ Resolved
      /\ (S = {} /\ files' = files) \/ files' = files \o new
  BY DEF AppendFilesToBootstrap, Step, Resolved
<1>2. supplied' = supplied
  BY <1>1 DEF input
<1>3. /\ Sound(files, S) /\ PathsOf(files) \subseteq InstallerPaths \cup MtuPaths
      /\ Len(files) \in Nat /\ Len(files) >= 7 /\ \A i \in 1..7 : i \in DOMAIN files
  BY <1>1, InvIsSound DEF BootInv, OrderInv
<1>4. /\ S \subseteq ManifestPaths /\ \A p \in S : supplied[p] \in Words
  BY DEF BootInv, TypeInv, Words
<1>5. /\ SuppliedList \in Seq(S) /\ n \in Nat /\ DOMAIN SuppliedList = 1..n
      /\ \A i, j \in 1..n : SuppliedList[i] = SuppliedList[j] => i = j
      /\ \A p \in S : \E i \in 1..n : SuppliedList[i] = p
  BY <1>4, SuppliedListFits
<1>6. /\ DOMAIN new = 1..n
      /\ \A i \in 1..n : /\ new[i] = File(SuppliedList[i], "RP", <<supplied[SuppliedList[i]]>>)
                         /\ new[i].path = SuppliedList[i] /\ SuppliedList[i] \in S
  BY <1>5, FileIsFile
<1>7. new \in Seq(AllFiles)
  <2>1. \A i \in 1..n : new[i] \in AllFiles
    BY <1>4, <1>6, FileIsFile DEF Names, Writers
  <2>2. new = [i \in 1..n |-> new[i]]
    BY <1>5
  <2> HIDE DEF new
  <2>3. QED
    BY <1>5, <2>1, <2>2
<1> HIDE DEF new
<1>8. \A i \in DOMAIN new : new[i].path \in PathsOf(files) => new[i].path \in S \cap InstallerPaths
  BY <1>3, <1>4, <1>6, PathsAreApart DEF WrapperPaths
<1>9. ASSUME NEW i \in DOMAIN new, NEW j \in DOMAIN new, new[i].path = new[j].path
      PROVE  i = j
  <2>1. SuppliedList[i] = SuppliedList[j] /\ i \in 1..n /\ j \in 1..n
    BY <1>6, <1>9
  <2>2. QED
    BY <1>5, <2>1
<1> HIDE DEF S, n
<1>10. /\ Sound(files \o new, S)
       /\ \A i \in DOMAIN files : (files \o new)[i] = files[i]
       /\ \A i \in DOMAIN new :
            Len(files) + i \in DOMAIN (files \o new) /\ (files \o new)[Len(files) + i] = new[i]
       /\ PathsOf(files \o new) = PathsOf(files) \cup PathsOf(new)
  <2>1. Sound(files, S)
    BY <1>3
  <2>2. \A i, j \in DOMAIN new : new[i].path = new[j].path => i = j
    BY <1>9
  <2>3. QED
    BY ONLY <1>7, <1>8, <2>1, <2>2, AppendUnseen
<1>11. Sound(files', S) /\ \A i \in 1..7 : files'[i] = files[i]
  BY <1>1, <1>3, <1>10
<1>12. PathsOf(files') \cap ResolverPaths = {}
  <2>1. PathsOf(new) \subseteq ManifestPaths
    BY <1>4, <1>6 DEF PathsOf
  <2>2. PathsOf(files') \subseteq UNION {InstallerPaths, MtuPaths, ManifestPaths}
    BY <1>1, <1>3, <1>10, <2>1
  <2>3. MtuPaths \cap ResolverPaths = {}
    BY DEF MtuPaths, ResolverPaths
  <2>4. InstallerPaths \cap ResolverPaths = {} /\ ManifestPaths \cap ResolverPaths = {}
    BY InstallerFilesFit, PathsAreApart DEF WrapperPaths
  <2>5. QED
    BY <2>2, <2>3, <2>4
<1>13. ASSUME NEW p \in S PROVE Arrived(files', supplied, p)
  <2>1. PICK i \in 1..n : SuppliedList[i] = p
    BY <1>5
  <2>2. files' = files \o new
    BY <1>1
  <2>3. /\ Len(files) + i \in DOMAIN files' /\ files'[Len(files) + i] = new[i]
        /\ Len(files) + i > 7
    <3>1. i \in DOMAIN new /\ Len(files) + i > 7
      BY <1>3, <1>6
    <3>2. QED
      BY <1>10, <2>2, <3>1
  <2>4. new[i] = File(p, "RP", <<supplied[p]>>) /\ new[i].path = p
    BY <1>6, <2>1
  <2>5. QED
    BY <2>3, <2>4 DEF Arrived
<1>14. TypeInv' /\ IgnoredInv' /\ PointerInv' /\ McsInv' /\ BytesInv'
  BY <1>1, <1>11, SevenStay DEF Steps
<1>15. FilesInv' /\ OrderInv' /\ ManifestInv'
  BY <1>1, <1>2, <1>11, <1>12, <1>13 DEF S, FilesInv, OrderInv, ManifestInv
<1>16. QED
  BY <1>14, <1>15 DEF BootInv

(* The steps that put in files of the wrapper's own and carry the others.  *)
LEMMA CarryingKeeps ==
  ASSUME BootInv, Sound(files', DOMAIN supplied), Carries(files, files'),
         UNCHANGED <<input, ignored>>,
         <<pc, pc'>> \in {<<"dnsmasq", "mdsd">>, <<"mdsd", "manifests">>, <<"etchosts", "dns">>},
         pc' # "dns" => PathsOf(files') \cap ResolverPaths = {}
  PROVE  BootInv'
<1>1. /\ pc \in {"dnsmasq", "mdsd", "etchosts"} /\ pc' \in {"mdsd", "manifests", "dns"}
      /\ pc' = "dns" => pc = "etchosts"
  OBVIOUS
<1>2. Resolved /\ supplied' = supplied /\ DOMAIN supplied \subseteq ManifestPaths
  BY <1>1 DEF Resolved, input, BootInv, TypeInv
<1>3. Sound(files, DOMAIN supplied)
  BY <1>2, InvIsSound
<1>4. /\ \A i \in 1..7 : files'[i] = files[i]
      /\ \A s, p : p \in DOMAIN supplied /\ Arrived(files, s, p) => Arrived(files', s, p)
      /\ HasOwn(files) => HasOwn(files')
  BY <1>2, <1>3, CarriedOver
<1>5. TypeInv' /\ IgnoredInv' /\ PointerInv' /\ McsInv' /\ BytesInv'
  <2>1. /\ pc \notin {"mtu", "cvo", "marshal", "done"} /\ pc' \notin {"mtu", "cvo"}
        /\ pc' \in Steps \ {"resolve", "pointers", "mcs", "marshal"}
    BY <1>1 DEF Steps
  <2>2. QED
    BY <1>2, <1>4, <2>1, SevenStay
<1>6. FilesInv' /\ OrderInv'
  BY <1>1, <1>2 DEF FilesInv, OrderInv
<1>7. ManifestInv'
  BY <1>1, <1>2, <1>4 DEF BootInv, ManifestInv
<1>8. QED
  BY <1>5, <1>6, <1>7 DEF BootInv

(* Files of the wrapper's own.                                             *)
LEMMA OwnFileIsFile ==
  ASSUME NEW p \in UNION {WrapperPaths, {OwnManifest}, InstallerPaths}, NEW w \in Seq(Words)
  PROVE  /\ File(p, "wrapper", w) \in AllFiles
         /\ File(p, "wrapper", w).path = p
         /\ File(p, "wrapper", w).by = "wrapper"
         /\ File(p, "wrapper", w).what = w
<1>1. p \in Names /\ "wrapper" \in Writers
  BY DEF Names, Writers
<1>2. QED
  BY <1>1, FileIsFile

(* dnsmasq's files are put in, or replaced.                                *)
LEMMA DnsmasqKeeps == BootInv /\ Dnsmasq => BootInv'
<1> SUFFICES ASSUME BootInv, Dnsmasq PROVE BootInv'
  OBVIOUS
<1> DEFINE new == << File("dnsmasq.conf", "wrapper", << >>),
                     File("aro-dnsmasq-pre.sh", "wrapper", << >>),
                     File("99-master-aro-dns.yaml", "wrapper", << >>),
                     File("99-worker-aro-dns.yaml", "wrapper", << >>) >>
<1>1. /\ pc = "dnsmasq" /\ pc' = "mdsd" /\ UNCHANGED <<input, ignored>> /\ Resolved
      /\ files' = ReplaceOrAppend(files, new)
  BY DEF Dnsmasq, Step, Resolved
<1>2. Sound(files, DOMAIN supplied) /\ PathsOf(files) \cap ResolverPaths = {}
  BY <1>1, InvIsSound DEF BootInv, OrderInv
<1>3. new \in Seq(AllFiles) /\ \A i \in 1..Len(new) : new[i].path \in DnsmasqPaths
  <2>1. \A p \in DnsmasqPaths : File(p, "wrapper", << >>) \in AllFiles
                                /\ File(p, "wrapper", << >>).path = p
    BY FileIsFile, OwnFileIsFile DEF WrapperPaths
  <2>2. \A i \in 1..4 : i \in {1, 2, 3, 4}
    OBVIOUS
  <2>3. new \in Seq(AllFiles)
    BY <2>1 DEF DnsmasqPaths
  <2>4. /\ Len(new) = 4 /\ new[1].path = "dnsmasq.conf" /\ new[2].path = "aro-dnsmasq-pre.sh"
        /\ new[3].path = "99-master-aro-dns.yaml" /\ new[4].path = "99-worker-aro-dns.yaml"
    BY FileIsFile
  <2> HIDE DEF new
  <2>5. QED
    BY <2>2, <2>3, <2>4 DEF DnsmasqPaths
<1> HIDE DEF new
<1>4. DnsmasqPaths \in SUBSET WrapperPaths /\ DnsmasqPaths \cap ResolverPaths = {}
  BY DEF WrapperPaths, DnsmasqPaths, ResolverPaths
<1>5. /\ Sound(files', DOMAIN supplied) /\ Carries(files, files')
      /\ PathsOf(files') \subseteq PathsOf(files) \cup DnsmasqPaths
  BY <1>1, <1>2, <1>3, <1>4, PutOwnFiles
<1>6. PathsOf(files') \cap ResolverPaths = {}
  BY <1>2, <1>4, <1>5
<1>7. QED
  BY <1>1, <1>5, <1>6, CarryingKeeps

(* mdsd's and fluentbit's files are put in, or replaced.                   *)
LEMMA MdsdKeeps == BootInv /\ Mdsd => BootInv'
<1> SUFFICES ASSUME BootInv, Mdsd PROVE BootInv'
  OBVIOUS
<1> DEFINE new == << File("journal.conf", "wrapper", << >>), File("mdsd.env", "wrapper", << >>) >>
<1>1. /\ pc = "mdsd" /\ pc' = "manifests" /\ UNCHANGED <<input, ignored>> /\ Resolved
      /\ files' = ReplaceOrAppend(files, new)
  BY DEF Mdsd, Step, Resolved
<1>2. Sound(files, DOMAIN supplied) /\ PathsOf(files) \cap ResolverPaths = {}
  BY <1>1, InvIsSound DEF BootInv, OrderInv
<1>3. new \in Seq(AllFiles) /\ \A i \in 1..Len(new) : new[i].path \in MdsdPaths
  <2>1. \A p \in MdsdPaths : File(p, "wrapper", << >>) \in AllFiles
                             /\ File(p, "wrapper", << >>).path = p
    BY FileIsFile, OwnFileIsFile DEF WrapperPaths
  <2>2. \A i \in 1..2 : i \in {1, 2}
    OBVIOUS
  <2>3. new \in Seq(AllFiles)
    BY <2>1 DEF MdsdPaths
  <2>4. Len(new) = 2 /\ new[1].path = "journal.conf" /\ new[2].path = "mdsd.env"
    BY FileIsFile
  <2> HIDE DEF new
  <2>5. QED
    BY <2>2, <2>3, <2>4 DEF MdsdPaths
<1> HIDE DEF new
<1>4. MdsdPaths \in SUBSET WrapperPaths /\ MdsdPaths \cap ResolverPaths = {}
  BY DEF WrapperPaths, MdsdPaths, ResolverPaths
<1>5. /\ Sound(files', DOMAIN supplied) /\ Carries(files, files')
      /\ PathsOf(files') \subseteq PathsOf(files) \cup MdsdPaths
  BY <1>1, <1>2, <1>3, <1>4, PutOwnFiles
<1>6. PathsOf(files') \cap ResolverPaths = {}
  BY <1>2, <1>4, <1>5
<1>7. QED
  BY <1>1, <1>5, <1>6, CarryingKeeps

(* AppendEtcHostFiles appends two files unseen that are not there yet, and *)
(* puts in two more.                                                       *)
LEMMA EtcHostsKeeps == BootInv /\ EtcHosts => BootInv'
<1> SUFFICES ASSUME BootInv, EtcHosts PROVE BootInv'
  OBVIOUS
<1> DEFINE unseen == << File("aro.conf", "wrapper", << >>),
                        File("aro-etchosts-resolver.sh", "wrapper", << >>) >>
           new == << File("99-master-etc-hosts.yaml", "wrapper", << >>),
                     File("99-worker-etc-hosts.yaml", "wrapper", << >>) >>
           S == DOMAIN supplied
           gs == files \o unseen
<1>1. /\ pc = "etchosts" /\ pc' = "dns" /\ UNCHANGED <<input, ignored>> /\ Resolved
      /\ files' = ReplaceOrAppend(gs, new)
  BY DEF EtcHosts, Step, Resolved
<1>2. Sound(files, S) /\ PathsOf(files) \cap ResolverPaths = {}
  BY <1>1, InvIsSound DEF BootInv, OrderInv
<1>3. /\ unseen \in Seq(AllFiles)
      /\ \A i \in DOMAIN unseen : unseen[i].path \in ResolverPaths
      /\ \A i, j \in DOMAIN unseen : unseen[i].path = unseen[j].path => i = j
  <2>1. \A p \in ResolverPaths : File(p, "wrapper", << >>) \in AllFiles
    BY FileIsFile, OwnFileIsFile DEF WrapperPaths
  <2>2. \A i \in 1..2 : i \in {1, 2}
    OBVIOUS
  <2>3. unseen \in Seq(AllFiles)
    BY <2>1 DEF ResolverPaths
  <2>4. /\ DOMAIN unseen = 1..2 /\ unseen[1].path = "aro.conf"
        /\ unseen[2].path = "aro-etchosts-resolver.sh"
    BY FileIsFile
  <2> HIDE DEF unseen
  <2>5. QED
    BY <2>2, <2>3, <2>4 DEF ResolverPaths
<1>4. new \in Seq(AllFiles) /\ \A i \in 1..Len(new) : new[i].path \in EtcHostsPaths
  <2>1. \A p \in EtcHostsPaths : File(p, "wrapper", << >>) \in AllFiles
    BY FileIsFile, OwnFileIsFile DEF WrapperPaths
  <2>2. \A i \in 1..2 : i \in {1, 2}
    OBVIOUS
  <2>3. new \in Seq(AllFiles)
    BY <2>1 DEF EtcHostsPaths
  <2>4. /\ Len(new) = 2 /\ new[1].path = "99-master-etc-hosts.yaml"
        /\ new[2].path = "99-worker-etc-hosts.yaml"
    BY FileIsFile
  <2> HIDE DEF new
  <2>5. QED
    BY <2>2, <2>3, <2>4 DEF EtcHostsPaths
<1> HIDE DEF unseen, new, S
<1>5. \A i \in DOMAIN unseen : unseen[i].path \notin PathsOf(files)
  BY <1>2, <1>3
<1>6. /\ Sound(gs, S) /\ Len(files) <= Len(gs)
      /\ \A i \in DOMAIN files : gs[i] = files[i]
  BY <1>2, <1>3, <1>5, AppendUnseen
<1> HIDE DEF gs
<1>7. EtcHostsPaths \in SUBSET WrapperPaths
  BY DEF WrapperPaths
<1>8. Sound(files', S) /\ Carries(gs, files')
  BY <1>1, <1>4, <1>6, <1>7, PutOwnFiles
<1>9. Carries(files, files')
  <2>1. /\ Len(files) \in Nat /\ Len(gs) \in Nat /\ Len(files') \in Nat
        /\ DOMAIN files = 1..Len(files) /\ DOMAIN gs = 1..Len(gs)
    BY <1>2, <1>6, <1>8 DEF Sound
  <2>2. \A i \in DOMAIN files : i \in DOMAIN gs
    BY <1>6, <2>1
  <2>3. Len(files) <= Len(files')
    BY <1>6, <1>8, <2>1 DEF Carries
  <2>4. QED
    BY <1>6, <1>8, <2>2, <2>3 DEF Carries
<1>10. QED
  BY <1>1, <1>8, <1>9, CarryingKeeps DEF S

(* The wrapper's own manifest is put in, or replaces the RP's of its name. *)
LEMMA ManifestsKeep == BootInv /\ Manifests => BootInv'
<1> SUFFICES ASSUME BootInv, Manifests PROVE BootInv'
  OBVIOUS
<1> DEFINE f == File(OwnManifest, "wrapper", << >>)
           S == DOMAIN supplied
<1>1. /\ pc = "manifests" /\ pc' = "etchosts" /\ UNCHANGED <<input, ignored>> /\ Resolved
      /\ files' = PutFile(files, f) /\ supplied' = supplied
  BY PutOne DEF Manifests, Step, Resolved, input
<1>2. /\ Sound(files, S) /\ PathsOf(files) \cap ResolverPaths = {}
      /\ Len(files) \in Nat /\ DOMAIN files = 1..Len(files)
  BY <1>1, InvIsSound DEF BootInv, OrderInv
<1>3. f \in AllFiles /\ f.path = OwnManifest /\ f.by = "wrapper"
  BY FileIsFile, OwnFileIsFile
<1> HIDE DEF f
<1>4. Sound(files', S) /\ Edited(files, files', f)
  BY <1>1, <1>2, <1>3, PutFileKeeps
<1>5. \A i \in 1..7 : files'[i] = files[i]
  BY <1>3, <1>4, InstallerFilesFit DEF Edited
<1>6. HasOwn(files')
  BY <1>3, <1>4 DEF Edited, HasOwn
<1>7. ASSUME NEW p \in S PROVE Arrived(files', supplied, p)
  <2>1. PICK i \in DOMAIN files :
          /\ i > 7 /\ files[i].path = p
          /\ p \notin {OwnManifest, McsSecret} => files[i] = File(p, "RP", <<supplied[p]>>)
    BY <1>1 DEF BootInv, ManifestInv, Arrived
  <2>2. i \in DOMAIN files'
    BY <1>2, <1>4, <2>1 DEF Edited, Sound
  <2>3. files'[i].path = p
    BY <1>4, <2>1 DEF Edited
  <2>4. p # OwnManifest => files'[i] = files[i]
    BY <1>3, <1>4, <2>1 DEF Edited
  <2>5. QED
    BY <2>1, <2>2, <2>3, <2>4 DEF Arrived
<1>8. PathsOf(files') \cap ResolverPaths = {}
  <2>1. OwnManifest \notin ResolverPaths
    BY DEF OwnManifest, ResolverPaths
  <2>2. QED
    BY <1>2, <1>3, <1>4, <2>1 DEF Edited
<1>9. TypeInv' /\ IgnoredInv' /\ PointerInv' /\ McsInv' /\ BytesInv'
  BY <1>1, <1>5, SevenStay DEF Steps
<1>10. FilesInv' /\ OrderInv' /\ ManifestInv'
  BY <1>1, <1>4, <1>6, <1>7, <1>8 DEF FilesInv, OrderInv, ManifestInv
<1>11. QED
  BY <1>9, <1>10 DEF BootInv

(* A file that takes the place of one of the installer's leaves the RP's   *)
(* and the wrapper's manifest alone.                                       *)
LEMMA InPlace ==
  ASSUME NEW S, NEW fs, NEW gs, NEW f, Sound(fs, S), Sound(gs, S), Edited(fs, gs, f),
         f.path \in InstallerPaths
  PROVE  /\ \A s, p : Arrived(fs, s, p) => Arrived(gs, s, p)
         /\ HasOwn(fs) => HasOwn(gs)
<1>1. /\ Len(fs) \in Nat /\ Len(gs) \in Nat /\ Len(fs) <= Len(gs)
      /\ DOMAIN fs = 1..Len(fs) /\ DOMAIN gs = 1..Len(gs)
      /\ \A i \in 1..7 : fs[i].path = InstallerFiles[i].path
  BY DEF Sound, Edited
<1>2. \A i \in DOMAIN fs : i \in DOMAIN gs
  BY <1>1
<1>3. \A i \in DOMAIN fs : i > 7 => gs[i] = fs[i]
  BY DEF Edited
<1>4. \A s, p : Arrived(fs, s, p) => Arrived(gs, s, p)
  BY <1>2, <1>3 DEF Arrived
<1>5. ASSUME HasOwn(fs) PROVE HasOwn(gs)
  <2>1. PICK i \in DOMAIN fs : fs[i].path = OwnManifest /\ fs[i].by = "wrapper"
    BY <1>5 DEF HasOwn
  <2>2. i \notin 1..7
    BY <1>1, <2>1, InstallerFilesFit
  <2>3. i > 7
    BY <1>1, <2>1, <2>2
  <2>4. QED
    BY <1>2, <1>3, <2>1, <2>3 DEF HasOwn
<1>6. QED
  BY <1>4, <1>5

(* removeDNSConfigData: the installer's DNS resource is replaced, not one  *)
(* of that name that the RP hands over.                                    *)
LEMMA DnsKeeps == BootInv /\ RemoveDNSConfigData => BootInv'
<1> SUFFICES ASSUME BootInv, RemoveDNSConfigData PROVE BootInv'
  OBVIOUS
<1> DEFINE f == File(DnsPath, "wrapper", << >>)
           S == DOMAIN supplied
<1>1. /\ pc = "dns" /\ pc' = "pointers" /\ UNCHANGED <<input, ignored>> /\ Resolved
      /\ files' = PutFile(files, f) /\ ignored' = ignored
  BY PutOne DEF RemoveDNSConfigData, Step, Resolved
<1>2. /\ supplied' = supplied /\ intIP' = intIP
      /\ SuppliedList' = SuppliedList /\ (Refused' <=> Refused)
  BY <1>1, SameInput
<1>3. Sound(files, S)
  BY <1>1, InvIsSound
<1>4. DnsPath \in InstallerPaths /\ DnsPath = InstallerFiles[2].path
  BY InstallerFilesFit
<1>5. f \in AllFiles /\ f.path = DnsPath /\ f.by = "wrapper"
  <2>1. << >> \in Seq(Words) /\ DnsPath \in InstallerPaths
    BY <1>4, FileIsFile
  <2>2. QED
    BY <2>1, OwnFileIsFile
<1> HIDE DEF f
<1>6. Sound(files', S) /\ Edited(files, files', f)
  BY <1>1, <1>3, <1>5, PutFileKeeps
<1>7. /\ \A s, p : Arrived(files, s, p) => Arrived(files', s, p)
      /\ HasOwn(files) => HasOwn(files')
  BY <1>3, <1>4, <1>5, <1>6, InPlace
<1>8. files'[2] = f /\ \A i \in {1, 5, 6, 7} : files'[i] = files[i]
  <2>1. \A i \in 1..7 : InstallerFiles[i].path = f.path <=> i = 2
    BY <1>4, <1>5, InstallerFilesFit
  <2>2. QED
    BY <1>6, <2>1 DEF Edited
<1>9. TypeInv' /\ FilesInv' /\ OrderInv' /\ PointerInv' /\ BytesInv'
  BY <1>1, <1>2, <1>5, <1>6, <1>8
     DEF BootInv, TypeInv, Steps, FilesInv, OrderInv, PointerInv, BytesInv
<1>10. IgnoredInv'
  BY <1>1, <1>2, <1>8 DEF BootInv, IgnoredInv, Resolved
<1>11. McsInv'
  BY <1>1, <1>2, <1>8 DEF BootInv, McsInv, Resolved
<1>12. ManifestInv'
  BY <1>1, <1>2, <1>7 DEF BootInv, ManifestInv
<1>13. QED
  BY <1>9, <1>10, <1>11, <1>12 DEF BootInv

(* replacePointerIgnition: the assets, their bytes and both secrets get one *)
(* address.                                                                *)
LEMMA PointersKeep == BootInv /\ ReplacePointerIgnition => BootInv'
<1> SUFFICES ASSUME BootInv, ReplacePointerIgnition PROVE BootInv'
  OBVIOUS
<1> DEFINE f == File(UserData("master"), "wrapper", <<ByAddress>>)
           g == File(UserData("worker"), "wrapper", <<ByAddress>>)
           gs == PutFile(files, f)
           S == DOMAIN supplied
<1>1. /\ pc = "pointers" /\ pc' = "mcs" /\ UNCHANGED <<input, ignored>> /\ Resolved
      /\ ignored' = ignored
      /\ pointer' = [r \in Roles |-> [config |-> ByAddress, data |-> ByAddress]]
  BY DEF ReplacePointerIgnition, Step, Resolved
<1>2. /\ supplied' = supplied /\ intIP' = intIP /\ ByAddress' = ByAddress
      /\ SuppliedList' = SuppliedList /\ (Refused' <=> Refused)
  BY <1>1, SameInput
<1>3. NewData("master") = ByAddress /\ NewData("worker") = ByAddress
  BY <1>1 DEF NewData, Roles
<1>4. files' = PutFile(gs, g)
  <2>1. files' = ReplaceOrAppend(files, <<f, g>>)
    BY <1>3 DEF ReplacePointerIgnition
  <2>2. QED
    BY <2>1, PutTwo
<1>5. /\ f \in AllFiles /\ f.path = UserData("master") /\ f.what = <<ByAddress>>
      /\ g \in AllFiles /\ g.path = UserData("worker") /\ g.what = <<ByAddress>>
      /\ f.path \in InstallerPaths /\ g.path \in InstallerPaths
  <2>1. <<ByAddress>> \in Seq(Words)
    BY FileIsFile DEF ByAddress, Words
  <2>2. UserData("master") \in InstallerPaths /\ UserData("worker") \in InstallerPaths
    BY InstallerFilesFit
  <2>3. QED
    BY <2>1, <2>2, OwnFileIsFile
<1> HIDE DEF f, g
<1>6. Sound(files, S)
  BY <1>1, InvIsSound
<1>7. Sound(gs, S) /\ Edited(files, gs, f)
  BY <1>5, <1>6, PutFileKeeps
<1> HIDE DEF gs
<1>8. Sound(files', S) /\ Edited(gs, files', g)
  BY <1>4, <1>5, <1>7, PutFileKeeps
<1>9. /\ \A s, p : Arrived(files, s, p) => Arrived(files', s, p)
      /\ HasOwn(files) => HasOwn(files')
  <2>1. /\ \A s, p : Arrived(files, s, p) => Arrived(gs, s, p)
        /\ HasOwn(files) => HasOwn(gs)
    BY <1>5, <1>6, <1>7, InPlace
  <2>2. /\ \A s, p : Arrived(gs, s, p) => Arrived(files', s, p)
        /\ HasOwn(gs) => HasOwn(files')
    BY <1>5, <1>7, <1>8, InPlace
  <2>3. QED
    BY <2>1, <2>2
<1>10. /\ files'[3] = f /\ files'[4] = g
       /\ \A i \in {1, 2, 5, 6, 7} : files'[i] = files[i]
  <2>1. \A i \in 1..7 : (InstallerFiles[i].path = f.path <=> i = 3)
                        /\ (InstallerFiles[i].path = g.path <=> i = 4)
    BY <1>5, InstallerFilesFit
  <2>2. gs[3] = f /\ \A i \in {1, 2, 4, 5, 6, 7} : gs[i] = files[i]
    BY <1>7, <2>1 DEF Edited
  <2>3. files'[4] = g /\ \A i \in {1, 2, 3, 5, 6, 7} : files'[i] = gs[i]
    BY <1>8, <2>1 DEF Edited
  <2>4. QED
    BY <2>2, <2>3
<1>11. TypeInv' /\ FilesInv' /\ OrderInv' /\ BytesInv'
  BY <1>1, <1>2, <1>8
     DEF BootInv, TypeInv, Steps, FilesInv, OrderInv, BytesInv
<1>12. PointerInv'
  <2>1. files[2].by = "wrapper"
    BY <1>1 DEF BootInv, PointerInv
  <2>2. QED
    BY <1>1, <1>2, <1>5, <1>10, <2>1 DEF PointerInv
<1>13. IgnoredInv'
  BY <1>1, <1>2, <1>10 DEF BootInv, IgnoredInv, Resolved
<1>14. McsInv'
  BY <1>1, <1>2, <1>10 DEF BootInv, McsInv, Resolved
<1>15. ManifestInv'
  BY <1>1, <1>2, <1>9 DEF BootInv, ManifestInv
<1>16. QED
  BY <1>11, <1>12, <1>13, <1>14, <1>15 DEF BootInv

(* updateMCSCertKey edits three of the installer's files, and of the RP's  *)
(* only one of the name of their manifest.                                 *)
LEMMA McsKeeps == BootInv /\ UpdateMCSCertKey => BootInv'
<1> SUFFICES ASSUME BootInv, UpdateMCSCertKey PROVE BootInv'
  OBVIOUS
<1> DEFINE hs == [i \in DOMAIN files |-> Renew(files[i])]
           S == DOMAIN supplied
<1>1. /\ pc = "mcs" /\ pc' = "marshal" /\ UNCHANGED <<input, ignored>> /\ Resolved
      /\ ignored' = ignored /\ pointer' = pointer
      /\ files' = IF intIP THEN hs ELSE files
  BY DEF UpdateMCSCertKey, Step, Resolved
<1>2. /\ supplied' = supplied /\ intIP' = intIP /\ ByAddress' = ByAddress
      /\ SuppliedList' = SuppliedList /\ (Refused' <=> Refused)
  BY <1>1, SameInput
<1>3. /\ Sound(files, S) /\ files \in Seq(AllFiles)
      /\ \A i \in 1..7 : i \in DOMAIN files /\ files[i].path = InstallerFiles[i].path
  BY <1>1, InvIsSound
<1>4. S \subseteq ManifestPaths
  BY DEF BootInv, TypeInv
<1>5. ASSUME NEW f \in AllFiles
      PROVE  /\ Renew(f) \in AllFiles /\ Renew(f).path = f.path
             /\ f.path \notin {McsSecret, McsKey, McsCert} => Renew(f) = f
  <2>1. /\ <<"crt2", "key2">> \in Seq(Words) /\ <<"key2">> \in Seq(Words)
        /\ <<"crt2">> \in Seq(Words) /\ "wrapper" \in Writers
    BY FileIsFile DEF Words, Writers
  <2>2. QED
    BY <1>5, <2>1 DEF Renew, AllFiles
<1>6. ASSUME NEW f \in AllFiles
      PROVE  /\ f.path = McsSecret => Renew(f).what = <<"crt2", "key2">>
             /\ f.path = McsKey => Renew(f).what = <<"key2">>
             /\ f.path = McsCert => Renew(f).what = <<"crt2">>
  BY <1>6 DEF Renew, AllFiles, McsSecret, McsKey, McsCert
<1>7. \A i \in DOMAIN files : files[i] \in AllFiles
  BY <1>3
<1>8. DOMAIN hs = DOMAIN files /\ \A i \in DOMAIN files : hs[i] = Renew(files[i])
  OBVIOUS
<1>9. hs \in [DOMAIN files -> AllFiles] /\ \A i \in DOMAIN files : hs[i].path = files[i].path
  BY <1>5, <1>7
<1> HIDE DEF hs
<1>10. Sound(files', S) /\ DOMAIN files' = DOMAIN files
  <2>1. Sound(hs, S)
    BY <1>3, <1>9, SamePaths
  <2>2. QED
    BY <1>1, <1>3, <1>8, <2>1
<1>11. \A i \in DOMAIN files :
         /\ files'[i].path = files[i].path
         /\ files[i].path \notin {McsSecret, McsKey, McsCert} => files'[i] = files[i]
  BY <1>1, <1>5, <1>7, <1>8
<1>12. \A i \in {1, 2, 3, 4} : files'[i] = files[i]
  <2>1. ASSUME NEW i \in {1, 2, 3, 4}
        PROVE  i \in DOMAIN files /\ files[i].path \notin {McsSecret, McsKey, McsCert}
    <3>1. i \in 1..7 /\ i \notin {5, 6, 7}
      OBVIOUS
    <3>2. QED
      BY <1>3, <3>1, InstallerFilesFit
  <2>2. QED
    BY <1>11, <2>1
<1>13. McsInv'
  <2>1. /\ 5 \in DOMAIN files /\ files[5].path = McsSecret
        /\ 6 \in DOMAIN files /\ files[6].path = McsKey
        /\ 7 \in DOMAIN files /\ files[7].path = McsCert
    BY <1>3, InstallerFilesFit
  <2>2. CASE intIP
    <3>1. /\ files'[5].what = <<"crt2", "key2">> /\ files'[6].what = <<"key2">>
          /\ files'[7].what = <<"crt2">>
      BY <1>1, <1>6, <1>7, <1>8, <2>1, <2>2
    <3>2. QED
      BY <1>1, <1>2, <2>2, <3>1 DEF McsInv
  <2>3. CASE ~intIP
    BY <1>1, <1>2, <2>3 DEF BootInv, McsInv
  <2>4. QED
    BY <2>2, <2>3
<1>14. ManifestInv'
  <2>1. ASSUME NEW p \in S PROVE Arrived(files', supplied, p)
    <3>1. PICK i \in DOMAIN files :
            /\ i > 7 /\ files[i].path = p
            /\ p \notin {OwnManifest, McsSecret} => files[i] = File(p, "RP", <<supplied[p]>>)
      BY <1>1 DEF BootInv, ManifestInv, Arrived
    <3>2. p \notin {McsKey, McsCert}
      BY <1>4, PathsAreApart
    <3>3. p # McsSecret => files'[i] = files[i]
      BY <1>11, <3>1, <3>2
    <3>4. i \in DOMAIN files' /\ files'[i].path = p
      BY <1>10, <1>11, <3>1
    <3>5. QED
      BY <3>1, <3>3, <3>4 DEF Arrived
  <2>2. HasOwn(files')
    <3>1. PICK i \in DOMAIN files : files[i].path = OwnManifest /\ files[i].by = "wrapper"
      BY <1>1 DEF BootInv, ManifestInv, HasOwn
    <3>2. OwnManifest \notin {McsSecret, McsKey, McsCert}
      BY DEF OwnManifest, McsSecret, McsKey, McsCert
    <3>3. files'[i] = files[i] /\ i \in DOMAIN files'
      BY <1>10, <1>11, <3>1, <3>2
    <3>4. QED
      BY <3>1, <3>3 DEF HasOwn
  <2>3. QED
    BY <1>2, <2>1, <2>2 DEF ManifestInv
<1>15. TypeInv' /\ FilesInv' /\ OrderInv' /\ BytesInv'
  BY <1>1, <1>2, <1>10
     DEF BootInv, TypeInv, Steps, FilesInv, OrderInv, BytesInv
<1>16. PointerInv'
  <2>1. /\ files[2].by = "wrapper" /\ files[3].what = <<ByAddress>> /\ files[4].what = <<ByAddress>>
        /\ \A r \in Roles : pointer[r].config = ByAddress /\ pointer[r].data = ByAddress
    BY <1>1 DEF BootInv, PointerInv
  <2>2. QED
    BY <1>1, <1>2, <1>12, <2>1 DEF PointerInv
<1>17. IgnoredInv'
  BY <1>1, <1>2, <1>12 DEF BootInv, IgnoredInv
<1>18. QED
  BY <1>13, <1>14, <1>15, <1>16, <1>17 DEF BootInv

(* The last marshalling, of the config as it is.                           *)
LEMMA ReturnKeeps == BootInv /\ Return => BootInv'
<1> SUFFICES ASSUME BootInv, Return PROVE BootInv'
  OBVIOUS
<1>1. /\ pc = "marshal" /\ pc' = "done" /\ UNCHANGED input
      /\ files' = files /\ units' = units /\ ignored' = ignored /\ pointer' = pointer
      /\ bytes' = <<files', units'>>
  BY DEF Return, Step, FinalMarshal, Marshal
<1>2. /\ supplied' = supplied /\ intIP' = intIP /\ ByAddress' = ByAddress
      /\ SuppliedList' = SuppliedList /\ (Refused' <=> Refused)
  BY <1>1, SameInput
<1>3. TypeInv' /\ FilesInv' /\ OrderInv' /\ BytesInv'
  BY <1>1, <1>2 DEF BootInv, TypeInv, FilesInv, OrderInv, BytesInv
<1>4. IgnoredInv' /\ PointerInv'
  BY <1>1, <1>2 DEF BootInv, IgnoredInv, PointerInv, Resolved
<1>5. McsInv' /\ ManifestInv'
  BY <1>1, <1>2 DEF BootInv, McsInv, ManifestInv, Resolved
<1>6. QED
  BY <1>3, <1>4, <1>5 DEF BootInv

(* Every step keeps the invariant.                                         *)
LEMMA BootInvNext == BootInv /\ [Next]_vars => BootInv'
<1> SUFFICES ASSUME BootInv, [Next]_vars PROVE BootInv'
  OBVIOUS
<1>1. CASE Fails
  <2>1. UNCHANGED <<input, files>> /\ pc' = "failed"
    BY <1>1 DEF Fails
  <2>2. QED
    BY <2>1, FailedKeeps
<1>2. CASE Ended \/ UNCHANGED vars
  <2>1. /\ supplied' = supplied /\ intIP' = intIP /\ UNCHANGED input
        /\ pc' = pc /\ files' = files /\ units' = units
        /\ bytes' = bytes /\ ignored' = ignored /\ pointer' = pointer
    BY <1>2 DEF Ended, vars, input
  <2>2. SuppliedList' = SuppliedList /\ (Refused' <=> Refused) /\ ByAddress' = ByAddress
    BY <2>1, SameInput
  <2>3. TypeInv' /\ FilesInv' /\ OrderInv' /\ BytesInv'
    BY <2>1 DEF BootInv, TypeInv, FilesInv, OrderInv, BytesInv
  <2>4. IgnoredInv' /\ PointerInv'
    BY <2>1, <2>2 DEF BootInv, IgnoredInv, PointerInv, Resolved
  <2>5. McsInv' /\ ManifestInv'
    BY <2>1 DEF BootInv, McsInv, ManifestInv, Resolved
  <2>6. QED
    BY <2>3, <2>4, <2>5 DEF BootInv
<1>3. QED
  BY <1>1, <1>2, ResolveKeeps, MtuKeeps, CvoKeeps, SuppliedKeeps, DnsmasqKeeps, MdsdKeeps,
     ManifestsKeep, EtcHostsKeeps, DnsKeeps, PointersKeep, McsKeeps, ReturnKeeps DEF Next

LEMMA BootInvInit == Init => BootInv
<1> SUFFICES ASSUME Init PROVE BootInv
  OBVIOUS
<1>1. PICK T \in SUBSET ManifestPaths : supplied \in [T -> Objects \cup {"unreadable"}]
  BY DEF Init
<1>2. pc = "resolve" /\ files = << >>
  BY DEF Init
<1>3. TypeInv
  BY <1>1, <1>2 DEF TypeInv, Steps
<1>4. QED
  BY <1>2, <1>3 DEF BootInv, FilesInv, OrderInv, IgnoredInv, PointerInv, McsInv, ManifestInv,
     BytesInv, Resolved

(* The whole of the argument as one invariant of the specification.        *)
LEMMA BootInvHolds == Spec => []BootInv
BY BootInvInit, BootInvNext, PTL DEF Spec

-----------------------------------------------------------------------------
(* The properties.                                                         *)

(* bootstrap.File.Data is marshalled after the last edit: what is uploaded  *)
(* and persisted has every file as the edits left it.                      *)
LEMMA UploadedIsLast ==
  ASSUME BootInv, pc = "done"
  PROVE  Uploaded = files
BY DEF BootInv, BytesInv, Uploaded

(* The first file of one of the installer's paths is where it was put.     *)
LEMMA FirstOfInstallers ==
  ASSUME BootInv, pc = "done", NEW k \in 1..7
  PROVE  First(InstallerFiles[k].path) = files[k]
<1> DEFINE p == InstallerFiles[k].path
           m == FirstAt(files, p)
<1>1. /\ Len(files) \in Nat /\ Len(files) >= 7 /\ DOMAIN files = 1..Len(files)
      /\ \A i \in 1..7 : i \in DOMAIN files /\ files[i].path = InstallerFiles[i].path
  BY InvIsSound DEF Resolved
<1>2. k \in DOMAIN files /\ files[k].path = p /\ p \in PathsOf(files)
  BY <1>1 DEF PathsOf
<1>3. m \in DOMAIN files /\ files[m].path = p /\ \A j \in 1..(m - 1) : files[j].path # p
  BY <1>1, <1>2, FirstAtIsFirst
<1> HIDE DEF m
<1>4. m \in 1..7
  BY <1>1, <1>2, <1>3
<1>5. InstallerFiles[m].path = InstallerFiles[k].path
  BY <1>1, <1>3, <1>4
<1>6. m = k
  BY <1>4, <1>5, InstallerFilesFit
<1>7. QED
  BY <1>6, UploadedIsLast DEF First, m

(* replacePointerIgnition: assets, bytes and secrets send a machine to the *)
(* same address, whatever else is in the list of files.                    *)
THEOREM PointersHold == Spec => []PointersAgree
<1>1. ASSUME BootInv PROVE PointersAgree
  <2> SUFFICES ASSUME pc = "done", NEW r \in Roles
               PROVE  /\ pointer[r].config = ByAddress /\ pointer[r].data = ByAddress
                      /\ First(UserData(r)).what = <<pointer[r].data>>
    BY DEF PointersAgree, Done
  <2>1. /\ pointer[r].config = ByAddress /\ pointer[r].data = ByAddress
        /\ files[3].what = <<ByAddress>> /\ files[4].what = <<ByAddress>>
    BY <1>1 DEF BootInv, PointerInv
  <2>2. First(InstallerFiles[3].path) = files[3] /\ First(InstallerFiles[4].path) = files[4]
    BY <1>1, FirstOfInstallers
  <2>3. First(UserData("master")) = files[3] /\ First(UserData("worker")) = files[4]
    BY <2>2, InstallerFilesFit
  <2>4. r = "master" \/ r = "worker"
    BY DEF Roles
  <2>5. QED
    BY <2>1, <2>3, <2>4
<1>2. QED
  BY <1>1, BootInvHolds, PTL

(* updateMCSCertKey: the manifest and the two files of the machine-config  *)
(* server's certificate are of one pair, the new one if there is an address. *)
THEOREM McsPairHolds == Spec => []OneMcsPair
<1>1. ASSUME BootInv PROVE OneMcsPair
  <2> SUFFICES ASSUME pc = "done" PROVE OneMcsPair
    BY DEF OneMcsPair, Done
  <2>1. /\ First(InstallerFiles[5].path) = files[5] /\ First(InstallerFiles[6].path) = files[6]
        /\ First(InstallerFiles[7].path) = files[7]
    BY <1>1, FirstOfInstallers
  <2>2. First(McsSecret) = files[5] /\ First(McsKey) = files[6] /\ First(McsCert) = files[7]
    BY <2>1, InstallerFilesFit
  <2>3. CASE intIP
    <3>1. /\ files[5].what = <<"crt2", "key2">> /\ files[6].what = <<"key2">>
          /\ files[7].what = <<"crt2">>
      BY <1>1, <2>3 DEF BootInv, McsInv, Resolved
    <3>2. QED
      BY <2>2, <2>3, <3>1 DEF OneMcsPair
  <2>4. CASE ~intIP
    <3>1. /\ files[5].what = <<"crt1", "key1">> /\ files[6].what = <<"key1">>
          /\ files[7].what = <<"crt1">>
      BY <1>1, <2>4 DEF BootInv, McsInv, Resolved
    <3>2. QED
      BY <2>2, <2>4, <3>1 DEF OneMcsPair
  <2>5. QED
    BY <2>3, <2>4
<1>2. QED
  BY <1>1, BootInvHolds, PTL

(* appendFilesToCvoOverrides: the asset and the file in the bootstrap list *)
(* the installer's resources and the RP's, and one twice only if it is of  *)
(* both, which the code does not look for.                                 *)
THEOREM OverridesHold == Spec => []OverridesAgree
<1>1. ASSUME BootInv PROVE OverridesAgree
  <2> SUFFICES ASSUME pc = "done" PROVE OverridesAgree
    BY DEF OverridesAgree, Done
  <2> DEFINE n == Len(SuppliedList)
  <2>1. /\ files[1].what = ignored /\ ignored \in Seq(Words) /\ ~Refused
        /\ Len(ignored) = n + 1 /\ ignored[1] = "installer"
        /\ \A i \in 1..n : ignored[i + 1] = supplied[SuppliedList[i]]
    BY <1>1 DEF BootInv, IgnoredInv, Resolved
  <2>2. /\ SuppliedList \in Seq(DOMAIN supplied) /\ n \in Nat
        /\ \A i, j \in 1..n : SuppliedList[i] = SuppliedList[j] => i = j
        /\ \A p \in DOMAIN supplied : \E i \in 1..n : SuppliedList[i] = p
    BY <1>1, SuppliedListFits DEF BootInv, TypeInv
  <2>3. First(CvoPath).what = ignored
    <3>1. First(InstallerFiles[1].path) = files[1]
      BY <1>1, FirstOfInstallers
    <3>2. QED
      BY <2>1, <3>1, InstallerFilesFit
  <2>4. DOMAIN ignored = 1..(n + 1) /\ 1 \in DOMAIN ignored
    BY <2>1, <2>2
  <2>5. /\ n \in Nat /\ (\A i \in 1..n : SuppliedList[i] \in DOMAIN supplied)
        /\ \A i \in 1..n : ignored[i + 1] = supplied[SuppliedList[i]]
    <3>1. n \in Nat /\ \A i \in 1..n : SuppliedList[i] \in DOMAIN supplied
      BY <2>2
    <3>2. \A i \in 1..n : ignored[i + 1] = supplied[SuppliedList[i]]
      BY <2>1
    <3>3. QED
      BY <3>1, <3>2
  <2> HIDE DEF n
  <2>6. ASSUME NEW i \in DOMAIN ignored, i # 1
        PROVE  /\ i - 1 \in 1..n
               /\ SuppliedList[i - 1] \in DOMAIN supplied
               /\ ignored[i] = supplied[SuppliedList[i - 1]]
    <3>1. i \in 1..(n + 1)
      BY <2>4
    <3>2. i - 1 \in 1..n /\ (i - 1) + 1 = i
      BY <2>5, <2>6, <3>1
    <3>3. ignored[(i - 1) + 1] = supplied[SuppliedList[i - 1]]
      BY <2>5, <3>2
    <3>4. QED
      BY <2>5, <3>2, <3>3
  <2>7. ToSet(ignored) = {"installer"} \cup Handed
    <3>1. ASSUME NEW i \in DOMAIN ignored PROVE ignored[i] \in {"installer"} \cup Handed
      BY <2>1, <2>6 DEF Handed
    <3>2. ASSUME NEW p \in DOMAIN supplied
          PROVE  \E i \in DOMAIN ignored : ignored[i] = supplied[p]
      <4>1. PICK k \in 1..n : SuppliedList[k] = p
        BY <2>2
      <4>2. k + 1 \in 1..(n + 1)
        BY <2>5
      <4>3. k + 1 \in DOMAIN ignored /\ ignored[k + 1] = supplied[p]
        BY <2>4, <2>5, <4>1, <4>2
      <4>4. QED
        BY <4>3
    <3>3. \E i \in DOMAIN ignored : ignored[i] = "installer"
      BY <2>1, <2>4
    <3>4. ToSet(ignored) = {ignored[i] : i \in DOMAIN ignored}
      BY DEF ToSet
    <3>5. ToSet(ignored) \subseteq {"installer"} \cup Handed
      BY <3>1, <3>4
    <3>6. {"installer"} \cup Handed \subseteq ToSet(ignored)
      BY <3>2, <3>3, <3>4 DEF Handed
    <3>7. QED
      BY <3>5, <3>6
  <2>8. ASSUME NEW i \in DOMAIN ignored, NEW j \in DOMAIN ignored, i # j,
               ignored[i] = ignored[j]
        PROVE  ignored[i] = "installer" /\ "installer" \in Handed
    <3>1. CASE i = 1
      BY <2>1, <2>6, <2>8, <3>1 DEF Handed
    <3>2. CASE j = 1
      BY <2>1, <2>6, <2>8, <3>2 DEF Handed
    <3>3. CASE i # 1 /\ j # 1
      <4>1. /\ i - 1 \in 1..n /\ SuppliedList[i - 1] \in DOMAIN supplied
            /\ j - 1 \in 1..n /\ SuppliedList[j - 1] \in DOMAIN supplied
            /\ supplied[SuppliedList[i - 1]] = supplied[SuppliedList[j - 1]]
        BY <2>6, <2>8, <3>3
      <4>2. SuppliedList[i - 1] = SuppliedList[j - 1]
        BY <2>1, <4>1 DEF Refused
      <4>3. i - 1 = j - 1
        BY <2>2, <4>1, <4>2
      <4>4. i = j
        <5>1. i \in 1..(n + 1) /\ j \in 1..(n + 1)
          BY <2>4
        <5>2. QED
          BY <2>5, <4>3, <5>1
      <4>5. QED
        BY <2>8, <4>4
    <3>4. QED
      BY <3>1, <3>2, <3>3
  <2>9. QED
    BY <2>3, <2>7, <2>8 DEF OverridesAgree
<1>2. QED
  BY <1>1, BootInvHolds, PTL

(* Of all the edits of Storage.Files only appendFilesToBootstrap doubles a *)
(* path, and only one of the installer's; no file is lost, and what replaces *)
(* another is the wrapper's.                                               *)
THEOREM PathsHold == Spec => []PathsAreUnique
<1>1. ASSUME BootInv PROVE PathsAreUnique
  <2>1. ASSUME NEW i \in DOMAIN files, NEW j \in DOMAIN files, i # j, files[i].path = files[j].path
        PROVE  files[i].path \in DOMAIN supplied \cap InstallerPaths
    <3>1. Sound(files, DOMAIN supplied)
      BY <1>1, <2>1 DEF BootInv, FilesInv
    <3>2. QED
      BY <2>1, <3>1 DEF Sound
  <2>2. ASSUME pc = "done"
        PROVE  /\ InstallerPaths \cup DOMAIN supplied \subseteq PathsOf(Uploaded)
               /\ \A p \in {OwnManifest, DnsPath} : First(p).by = "wrapper"
               /\ \A p \in DOMAIN supplied \ {OwnManifest, McsSecret} :
                    Contains(Uploaded, File(p, "RP", <<supplied[p]>>))
    <3>1. Resolved /\ Uploaded = files
      BY <1>1, <2>2, UploadedIsLast DEF Resolved
    <3>2. /\ Len(files) \in Nat /\ DOMAIN files = 1..Len(files)
          /\ \A i \in 1..7 : i \in DOMAIN files /\ files[i].path = InstallerFiles[i].path
      BY <1>1, <3>1, InvIsSound
    <3>3. \A p \in DOMAIN supplied : Arrived(files, supplied, p)
      BY <1>1, <2>2 DEF BootInv, ManifestInv, Resolved
    <3>4. InstallerPaths \subseteq PathsOf(files)
      BY <3>2, InstallerFilesFit DEF PathsOf
    <3>5. DOMAIN supplied \subseteq PathsOf(files)
      BY <3>3 DEF Arrived, PathsOf
    <3>6. First(DnsPath).by = "wrapper"
      <4>1. First(InstallerFiles[2].path) = files[2]
        BY <1>1, <2>2, FirstOfInstallers
      <4>2. files[2].by = "wrapper"
        BY <1>1, <2>2 DEF BootInv, PointerInv
      <4>3. QED
        BY <4>1, <4>2, InstallerFilesFit
    <3>7. First(OwnManifest).by = "wrapper"
      <4> DEFINE m == FirstAt(files, OwnManifest)
      <4>1. PICK i \in DOMAIN files : files[i].path = OwnManifest /\ files[i].by = "wrapper"
        BY <1>1, <2>2 DEF BootInv, ManifestInv, HasOwn
      <4>2. OwnManifest \in PathsOf(files)
        BY <4>1 DEF PathsOf
      <4>3. m \in DOMAIN files /\ files[m].path = OwnManifest
        BY <3>2, <4>2, FirstAtIsFirst
      <4> HIDE DEF m
      <4>4. OwnManifest \notin InstallerPaths
        BY InstallerFilesFit
      <4>5. m = i
        BY <2>1, <4>1, <4>3, <4>4
      <4>6. QED
        BY <3>1, <4>1, <4>5 DEF First, m
    <3>8. QED
      BY <3>1, <3>3, <3>4, <3>5, <3>6, <3>7 DEF Arrived, Contains
  <2>3. QED
    BY <2>1, <2>2 DEF PathsAreUnique, Done
<1>2. QED
  BY <1>1, BootInvHolds, PTL

================================================================================
