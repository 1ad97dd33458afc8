------------------------- MODULE MachineChoices_proofs -------------------------
(***************************************************************************)
(* Theorems about MachineChoices and the operators it is built from, for   *)
(* any zones, in whatever order Azure lists them, any texts and profiles   *)
(* and, for the template, any number of machines.                          *)
(***************************************************************************)
EXTENDS MachineChoices, FiniteSetTheorems, SequenceTheorems, WellFoundedInduction, TLAPS

-----------------------------------------------------------------------------
(* Numbers.                                                                *)

(* Every set of numbers has a least one: what stands for induction below.  *)
LEMMA LeastNumber ==
  ASSUME NEW T, T \subseteq Nat, T # {}
  PROVE  \E n \in T : \A m \in T : n <= m
<1> DEFINE less == OpToRel(<, Nat)
<1>1. IsWellFoundedOn(less, Nat)
  BY NatLessThanWellFounded
<1>2. \A m, n \in Nat : m < n => <<m, n>> \in less
  BY DEF OpToRel
<1> HIDE DEF less
<1>3. PICK n \in T : \A m \in T : <<m, n>> \notin less
  BY <1>1, WFMin
<1>4. ASSUME NEW m \in T PROVE n <= m
  <2>1. m \in Nat /\ n \in Nat
    OBVIOUS
  <2>2. <<m, n>> \notin less
    BY <1>3
  <2>3. ~(m < n)
    BY <1>2, <2>1, <2>2, Zenon
  <2>4. QED
    BY <2>1, <2>3
<1>5. QED
  BY <1>4

(* A bounded set of numbers has a greatest one.                            *)
LEMMA GreatestNumber ==
  ASSUME NEW b \in Nat, NEW T, T \subseteq 1..b, T # {}
  PROVE  \E n \in T : \A m \in T : m <= n
<1> DEFINE U == {b - n : n \in T}
<1>1. U \subseteq Nat /\ U # {}
  <2>1. \A n \in T : b - n \in Nat
    OBVIOUS
  <2>2. PICK n \in T : TRUE
    OBVIOUS
  <2>3. b - n \in U
    OBVIOUS
  <2>4. QED
    BY <2>1, <2>3
<1>2. PICK u \in U : \A v \in U : u <= v
  BY <1>1, LeastNumber
<1>3. PICK n \in T : u = b - n
  BY <1>2
<1>4. ASSUME NEW m \in T PROVE m <= n
  <2>1. b - m \in U /\ m \in 1..b /\ n \in 1..b
    BY <1>3
  <2>2. b - n <= b - m
    BY <1>2, <1>3, <2>1
  <2>3. QED
    BY <2>1, <2>2
<1>5. QED
  BY <1>4

-----------------------------------------------------------------------------
(* The pull secret.                                                        *)

(* pullsecret.Merge: an entry of the customer's holds against the service's, *)
(* null or not, and no other entry changes.                                *)
THEOREM MergeTakesCustomer ==
  ASSUME NEW base, NEW ps, base.form = "json", ps.form = "json"
  PROVE  /\ Merge(base, ps).form = "json"
         /\ \A k : Entry(Merge(base, ps).auths, k) =
                     IF k \in DOMAIN ps.auths THEN ps.auths[k] ELSE Entry(base.auths, k)
<1> DEFINE differs == {k \in DOMAIN ps.auths : Entry(base.auths, k) # ps.auths[k]}
           merged == [k \in DOMAIN base.auths \cup differs |->
                        IF k \in differs THEN ps.auths[k] ELSE base.auths[k]]
<1>1. Unmarshal(base) = base /\ Unmarshal(ps) = ps
  BY DEF Unmarshal
<1>2. Error \notin {base, ps} /\ base # Null /\ ps # Null
  BY DEF Error, Null, Text
<1>3. Merge(base, ps) = Json(merged)
  BY <1>1, <1>2 DEF Merge
<1>4. Merge(base, ps).form = "json" /\ Merge(base, ps).auths = merged
  BY <1>3 DEF Json, Text
<1>5. ASSUME NEW k
      PROVE  Entry(merged, k) =
                IF k \in DOMAIN ps.auths THEN ps.auths[k] ELSE Entry(base.auths, k)
  BY DEF Entry
<1>6. QED
  BY <1>4, <1>5

(* pullsecret.Build panics, in Merge or in SetRegistryProfiles, only where  *)
(* one of the two texts is null: any other one is merged or is an error.   *)
THEOREM OnlyNullPanics ==
  ASSUME NEW env, NEW ps, NEW rps, NEW key,
         env.form \in {"empty", "garbage", "json"}, ps.form \in {"empty", "garbage", "json"}
  PROVE  LET built == Build(env, ps, rps)
         IN  /\ built.form \in {"json", "error"}
             /\ built.form = "json" => RemoveKey(built, key).form = "json"
<1>a. \A t : t.form \in {"empty", "garbage", "json"}
              => Unmarshal(t) = Error \/ (Unmarshal(t).form = "json" /\ Unmarshal(t) # Null)
  BY DEF Unmarshal, Json, Text, Null, Error
<1>b. Error.form = "error" /\ \A a : Json(a).form = "json" /\ Json(a) # Null /\ Json(a) # Error
  BY DEF Error, Json, Text, Null
<1>1. Merge(env, ps).form = "json" \/ Merge(env, ps) = Error
  BY <1>a, <1>b DEF Merge
<1>2. \A t : t.form = "json" => /\ Unmarshal(t).form = "json"
                               /\ Unmarshal(t) # Null /\ Unmarshal(t) # Error
  BY DEF Unmarshal, Null, Error, Text
<1>3. Merge(env, ps).form = "json" => SetRegistryProfiles(Merge(env, ps), rps).form = "json"
  BY <1>b, <1>2 DEF SetRegistryProfiles
<1>4. Build(env, ps, rps).form \in {"json", "error"}
  BY <1>b, <1>1, <1>3 DEF Build, IsText
<1>5. \A t : t.form = "json" => RemoveKey(t, key).form = "json"
  BY <1>b, <1>2 DEF RemoveKey
<1>6. QED
  BY <1>4, <1>5

(* SetRegistryProfiles sets the profiles' entries one after the other.     *)
LEMMA ProfilesLoop ==
  ASSUME NEW auths, NEW rps, Len(rps) \in Nat
  PROVE  \E after : /\ after[0] = auths
                    /\ \A i \in 1..Len(rps) :
                         after[i] = SetEntry(after[i - 1], rps[i].name, rps[i].auth)
                    /\ SetProfiles(auths, rps) = after[Len(rps)]
<1> DEFINE Is(g, n) == g = [i \in 0..n |->
                              IF i = 0 THEN auths
                              ELSE SetEntry(g[i - 1], rps[i].name, rps[i].auth)]
           T == {n \in Nat : ~\E g : Is(g, n)}
<1>1. T = {}
  <2>1. SUFFICES ASSUME T # {} PROVE FALSE
    OBVIOUS
  <2>2. PICK m \in T : \A n \in T : m <= n
    BY <2>1, LeastNumber
  <2>3. m # 0
    <3>1. Is([i \in 0..0 |-> auths], 0)
      OBVIOUS
    <3>2. QED
      BY <2>2, <3>1
  <2>4. PICK g : Is(g, m - 1)
    <3>1. m - 1 \in Nat /\ ~(m <= m - 1)
      BY <2>3
    <3> HIDE DEF Is
    <3>2. QED
      BY <2>2, <3>1
  <2>5. Is([i \in 0..m |-> IF i = m THEN SetEntry(g[m - 1], rps[m].name, rps[m].auth)
                           ELSE g[i]], m)
    BY <2>3, <2>4
  <2>6. QED
    BY <2>2, <2>5
<1>2. \E g : Is(g, Len(rps))
  BY <1>1
<1> DEFINE after == CHOOSE g : Is(g, Len(rps))
<1>3. Is(after, Len(rps))
  BY <1>2
<1>4. SetProfiles(auths, rps) = after[Len(rps)]
  BY DEF SetProfiles
<1> HIDE DEF after
<1>5. QED
  BY <1>3, <1>4

\* What SetRegistryProfiles makes of the first n profiles: the entry of the last
\* one of a registry, and what was there where there is none.
LastProfileOf(auths, rps, n, res) ==
    \A k :
      /\ \A m \in 1..n :
           rps[m].name = k /\ (\A j \in 1..n : rps[j].name = k => j <= m)
             => k \in DOMAIN res /\ res[k] = rps[m].auth
      /\ (\A m \in 1..n : rps[m].name # k)
           => (k \in DOMAIN res <=> k \in DOMAIN auths) /\ Entry(res, k) = Entry(auths, k)

(* However many profiles there are, the last one of a registry holds.      *)
LEMMA LastProfileHolds ==
  ASSUME NEW auths, NEW rps, Len(rps) \in Nat
  PROVE  LastProfileOf(auths, rps, Len(rps), SetProfiles(auths, rps))
<1>1. PICK after : /\ after[0] = auths
                   /\ \A i \in 1..Len(rps) :
                        after[i] = SetEntry(after[i - 1], rps[i].name, rps[i].auth)
                   /\ SetProfiles(auths, rps) = after[Len(rps)]
  BY ProfilesLoop
<1>2. LastProfileOf(auths, rps, 0, auths)
  BY DEF LastProfileOf
<1>3. ASSUME NEW n \in Nat \ {0}, NEW res, LastProfileOf(auths, rps, n - 1, res)
      PROVE  LastProfileOf(auths, rps, n, SetEntry(res, rps[n].name, rps[n].auth))
  <2> DEFINE new == SetEntry(res, rps[n].name, rps[n].auth)
  <2>1. /\ DOMAIN new = DOMAIN res \cup {rps[n].name}
        /\ new[rps[n].name] = rps[n].auth
        /\ \A k \in DOMAIN res : k # rps[n].name => new[k] = res[k]
    BY DEF SetEntry
  <2> HIDE DEF new
  <2>2. \A m \in 1..n : m = n \/ m \in 1..(n - 1)
    OBVIOUS
  <2>3. n \in 1..n /\ \A m \in 1..(n - 1) : m \in 1..n /\ ~(n <= m)
    OBVIOUS
  <2>4. ASSUME NEW k, NEW m \in 1..n, rps[m].name = k,
               \A j \in 1..n : rps[j].name = k => j <= m
        PROVE  k \in DOMAIN new /\ new[k] = rps[m].auth
    <3>1. CASE m = n
      BY <2>1, <2>4, <3>1
    <3>2. CASE m \in 1..(n - 1)
      <4>1. rps[n].name # k
        BY <2>3, <2>4, <3>2
      <4>2. k \in DOMAIN res /\ res[k] = rps[m].auth
        BY <1>3, <2>3, <2>4, <3>2 DEF LastProfileOf
      <4>3. QED
        BY <2>1, <4>1, <4>2
    <3>3. QED
      BY <2>2, <3>1, <3>2
  <2>5. ASSUME NEW k, \A m \in 1..n : rps[m].name # k
        PROVE  /\ k \in DOMAIN new <=> k \in DOMAIN auths
               /\ Entry(new, k) = Entry(auths, k)
    <3>1. rps[n].name # k /\ \A m \in 1..(n - 1) : rps[m].name # k
      BY <2>3, <2>5
    <3>2. (k \in DOMAIN res <=> k \in DOMAIN auths) /\ Entry(res, k) = Entry(auths, k)
      BY <1>3, <3>1 DEF LastProfileOf
    <3>3. (k \in DOMAIN new <=> k \in DOMAIN res) /\ Entry(new, k) = Entry(res, k)
      BY <2>1, <3>1 DEF Entry
    <3>4. QED
      BY <3>2, <3>3
  <2>6. QED
    BY <2>4, <2>5 DEF LastProfileOf, new
<1> DEFINE T == {n \in 0..Len(rps) : ~LastProfileOf(auths, rps, n, after[n])}
<1>4. T = {}
  <2>1. SUFFICES ASSUME T # {} PROVE FALSE
    OBVIOUS
  <2>2. T \subseteq Nat
    OBVIOUS
  <2>3. PICK m \in T : \A n \in T : m <= n
    BY <2>1, <2>2, LeastNumber
  <2>4. m # 0
    BY <1>1, <1>2, <2>3
  <2>5. m \in Nat \ {0} /\ m \in 1..Len(rps) /\ m - 1 \in 0..Len(rps) /\ ~(m <= m - 1)
    BY <2>3, <2>4
  <2>6. LastProfileOf(auths, rps, m - 1, after[m - 1])
    BY <2>3, <2>5
  <2>7. LastProfileOf(auths, rps, m, after[m])
    BY <1>1, <1>3, <2>5, <2>6
  <2>8. QED
    BY <2>3, <2>7
<1>5. LastProfileOf(auths, rps, Len(rps), after[Len(rps)])
  BY <1>4
<1>6. QED
  BY <1>1, <1>5

\* A text of the service's or the customer's.
GoodText(t) == t \in {Empty, Garbage, Null} \/ t = Json(t.auths)

(* What json.Unmarshal makes of them.                                      *)
LEMMA UnmarshalText ==
  ASSUME NEW t, GoodText(t)
  PROVE  \/ t = Garbage /\ Unmarshal(t) = Error
         \/ t = Null /\ Unmarshal(t) = Null
         \/ /\ Unmarshal(t).form = "json"
            /\ Unmarshal(t) # Error /\ Unmarshal(t) # Null
            /\ Unmarshal(t).auths = t.auths
<1>1. CASE t = Empty
  <2>1. t.form = "empty" /\ t.auths = << >>
    BY <1>1 DEF Empty, Text
  <2>2. Unmarshal(t) = Json(<< >>)
    BY <2>1 DEF Unmarshal
  <2>3. QED
    BY <2>1, <2>2 DEF Json, Text, Error, Null
<1>2. CASE t = Garbage
  BY <1>2 DEF Garbage, Text, Unmarshal
<1>3. CASE t = Null
  BY <1>3 DEF Null, Text, Unmarshal
<1>4. CASE t = Json(t.auths)
  <2>1. t.form = "json"
    BY <1>4 DEF Json, Text
  <2>2. Unmarshal(t) = t
    BY <2>1 DEF Unmarshal
  <2>3. QED
    BY <2>1, <2>2 DEF Text, Error, Null
<1>5. QED
  BY <1>1, <1>2, <1>3, <1>4 DEF GoodText

(* pullsecret.Build, where it returns a text: the last profile of a registry *)
(* holds, then the customer's entry, then the service's.                   *)
LEMMA BuildIsRight ==
  ASSUME NEW env, NEW ps, NEW rps, GoodText(env), GoodText(ps), Len(rps) \in Nat,
         IsText(Build(env, ps, rps))
  PROVE  LET built == Build(env, ps, rps)
         IN  /\ built.form = "json"
             /\ \A k :
                  /\ \A m \in 1..Len(rps) :
                       rps[m].name = k /\ (\A j \in 1..Len(rps) : rps[j].name = k => j <= m)
                         => Entry(built.auths, k) = rps[m].auth
                  /\ (\A m \in 1..Len(rps) : rps[m].name # k)
                       => Entry(built.auths, k) =
                            IF k \in DOMAIN ps.auths THEN Entry(ps.auths, k)
                            ELSE Entry(env.auths, k)
<1> DEFINE b == Unmarshal(env)
           c == Unmarshal(ps)
           merged == Merge(env, ps)
           built == Build(env, ps, rps)
<1>1. ~IsText(Error) /\ ~IsText(Panic)
  BY DEF IsText, Error, Panic, Text
<1>2. IsText(merged)
  BY DEF Build
<1>3. built = SetRegistryProfiles(merged, rps)
  BY <1>2 DEF Build
<1>4. b # Error /\ c # Error /\ c # Null
  BY <1>1, <1>2 DEF Merge
<1>5. b # Null
  <2>1. SUFFICES ASSUME b = Null PROVE FALSE
    OBVIOUS
  <2>2. merged = Null
    BY <1>1, <1>2, <1>4, <2>1 DEF Merge
  <2>3. Unmarshal(merged) = Null /\ Null # Error
    BY <2>2 DEF Unmarshal, Null, Error, Text
  <2>4. built = Panic
    BY <1>3, <2>3 DEF SetRegistryProfiles
  <2>5. QED
    BY <1>1, <2>4
<1>6. b.form = "json" /\ c.form = "json" /\ b.auths = env.auths /\ c.auths = ps.auths
  BY <1>4, <1>5, UnmarshalText
<1>7. Unmarshal(b) = b /\ Unmarshal(c) = c
  BY <1>6 DEF Unmarshal
<1>8. merged = Merge(b, c)
  BY <1>7 DEF Merge
<1> HIDE DEF b, c, merged
<1>9. /\ merged.form = "json"
      /\ \A k : Entry(merged.auths, k) =
                  IF k \in DOMAIN ps.auths THEN ps.auths[k] ELSE Entry(env.auths, k)
  BY <1>6, <1>8, MergeTakesCustomer
<1>10. Unmarshal(merged) = merged /\ merged # Error /\ merged # Null
  BY <1>9 DEF Unmarshal, Error, Null, Text
<1>11. built = Json(SetProfiles(merged.auths, rps))
  BY <1>3, <1>10 DEF SetRegistryProfiles
<1> HIDE DEF built
<1>12. built.form = "json" /\ built.auths = SetProfiles(merged.auths, rps)
  BY <1>11 DEF Json, Text
<1>13. LastProfileOf(merged.auths, rps, Len(rps), built.auths)
  BY <1>12, LastProfileHolds
<1>14. ASSUME NEW k, NEW m \in 1..Len(rps), rps[m].name = k,
              \A j \in 1..Len(rps) : rps[j].name = k => j <= m
       PROVE  Entry(built.auths, k) = rps[m].auth
  BY <1>13, <1>14 DEF LastProfileOf, Entry
<1>15. ASSUME NEW k, \A m \in 1..Len(rps) : rps[m].name # k
       PROVE  Entry(built.auths, k) =
                IF k \in DOMAIN ps.auths THEN Entry(ps.auths, k) ELSE Entry(env.auths, k)
  <2>1. Entry(built.auths, k) = Entry(merged.auths, k)
    BY <1>13, <1>15 DEF LastProfileOf
  <2>2. k \in DOMAIN ps.auths => Entry(ps.auths, k) = ps.auths[k]
    BY DEF Entry
  <2>3. QED
    BY <1>9, <2>1, <2>2
<1>16. QED
  BY <1>12, <1>14, <1>15 DEF built

\* Once the document is read the pull secret is what was built of the inputs,
\* without the key.
SecretInv ==
    LET built == Build(secrets.service, secrets.customer, secrets.profiles)
    IN /\ GoodText(secrets.service) /\ GoodText(secrets.customer)
       /\ Len(secrets.profiles) \in Nat /\ DOMAIN secrets.profiles = 1..Len(secrets.profiles)
       /\ pc \notin {"document", "failed"} =>
            IsText(built) /\ pullSecret = RemoveKey(built, CloudKey)

(* Only generateInstallConfig's first part makes the pull secret.          *)
LEMMA SecretInvNext == SecretInv /\ [Next]_vars => SecretInv'
<1> SUFFICES ASSUME SecretInv, [Next]_vars PROVE SecretInv'
  OBVIOUS
<1> USE DEF SecretInv, Fail, Reads, input
<1>1. CASE ReadDocument
  BY <1>1 DEF ReadDocument
<1>2. CASE ReadZones \/ UnknownSize
  BY <1>2 DEF ReadZones, UnknownSize
<1>3. CASE SortZones \/ FilterZones \/ CountZones
  BY <1>3 DEF SortZones, FilterZones, CountZones
<1>4. CASE ReadDiskSets
  BY <1>4 DEF ReadDiskSets
<1>5. CASE ChooseImage
  BY <1>5 DEF ChooseImage
<1>6. CASE BuildConfig
  BY <1>6 DEF BuildConfig
<1>7. CASE Complete
  BY <1>7 DEF Complete
<1>8. CASE Ended \/ UNCHANGED vars
  BY <1>8 DEF Ended, vars
<1>9. QED
  BY <1>1, <1>2, <1>3, <1>4, <1>5, <1>6, <1>7, <1>8 DEF Next

LEMMA SecretInvInit == Init => SecretInv
<1> SUFFICES ASSUME Init PROVE SecretInv
  OBVIOUS
<1>1. pc = "document"
  BY DEF Init
<1>2. CASE secrets = [service |-> Empty, customer |-> Empty, profiles |-> << >>]
  BY <1>1, <1>2 DEF SecretInv, GoodText
<1>3. CASE AnySecrets
  BY <1>1, <1>3, TextsAreTexts, ProfilesAreLists DEF AnySecrets, SecretInv, GoodText
<1>4. QED
  BY <1>2, <1>3 DEF Init

(* The pull secret of the install config is right whatever texts and       *)
(* profiles there are: pullsecret.Build, then RemoveKey.                   *)
THEOREM PullSecretHolds == Spec => []PullSecretIsRight
<1>1. ASSUME SecretInv PROVE PullSecretIsRight
  <2> SUFFICES ASSUME pc = "done" PROVE PullSecretIsRight
    BY DEF PullSecretIsRight
  <2> DEFINE env == secrets.service
             ps == secrets.customer
             rps == secrets.profiles
             n == Len(rps)
             built == Build(env, ps, rps)
             Newest(k) == {i \in DOMAIN rps :
                             /\ rps[i].name = k
                             /\ \A j \in DOMAIN rps : rps[j].name = k => j <= i}
  <2>1. /\ GoodText(env) /\ GoodText(ps) /\ n \in Nat /\ DOMAIN rps = 1..n
        /\ IsText(built) /\ pullSecret = RemoveKey(built, CloudKey)
    BY <1>1 DEF SecretInv
  <2>2. /\ built.form = "json"
        /\ \A k : \A m \in 1..n :
             rps[m].name = k /\ (\A j \in 1..n : rps[j].name = k => j <= m)
               => Entry(built.auths, k) = rps[m].auth
        /\ \A k : (\A m \in 1..n : rps[m].name # k)
             => Entry(built.auths, k) =
                  IF k \in DOMAIN ps.auths THEN Entry(ps.auths, k) ELSE Entry(env.auths, k)
    BY <2>1, BuildIsRight
  <2> HIDE DEF built
  <2>3. Unmarshal(built) = built /\ built # Error /\ built # Null
    BY <2>2 DEF Unmarshal, Error, Null, Text
  <2>4. pullSecret = Json([k \in DOMAIN built.auths \ {CloudKey} |-> built.auths[k]])
    BY <2>1, <2>3 DEF RemoveKey
  <2>5. pullSecret.auths = [k \in DOMAIN built.auths \ {CloudKey} |-> built.auths[k]]
    BY <2>4 DEF Json, Text
  <2>6. /\ CloudKey \notin DOMAIN pullSecret.auths /\ Entry(pullSecret.auths, CloudKey) = "null"
        /\ \A k : k # CloudKey => Entry(pullSecret.auths, k) = Entry(built.auths, k)
    BY <2>5 DEF Entry
  <2>7. ASSUME NEW k, k # CloudKey
        PROVE  Entry(pullSecret.auths, k) =
                 IF Newest(k) # {} THEN rps[CHOOSE i \in Newest(k) : TRUE].auth
                 ELSE IF k \in DOMAIN ps.auths THEN Entry(ps.auths, k) ELSE Entry(env.auths, k)
    <3>1. CASE Newest(k) # {}
      <4> DEFINE m == CHOOSE i \in Newest(k) : TRUE
      <4>1. m \in Newest(k)
        BY <3>1
      <4>2. m \in 1..n /\ rps[m].name = k /\ \A j \in 1..n : rps[j].name = k => j <= m
        BY <2>1, <4>1
      <4> HIDE DEF m, Newest
      <4>3. Entry(built.auths, k) = rps[m].auth
        BY <2>2, <4>2
      <4>4. QED
        BY <2>6, <2>7, <3>1, <4>3 DEF m
    <3>2. CASE Newest(k) = {}
      <4> DEFINE T == {i \in 1..n : rps[i].name = k}
      <4>1. T = {}
        <5>1. SUFFICES ASSUME T # {} PROVE FALSE
          OBVIOUS
        <5>2. PICK m \in T : \A j \in T : j <= m
          BY <2>1, <5>1, GreatestNumber
        <5>3. m \in Newest(k)
          BY <2>1, <5>2
        <5>4. QED
          BY <3>2, <5>3
      <4>2. \A m \in 1..n : rps[m].name # k
        BY <4>1
      <4> HIDE DEF Newest, T
      <4>3. QED
        BY <2>2, <2>6, <2>7, <3>2, <4>2
    <3>3. QED
      BY <3>1, <3>2
  <2>8. QED
    BY <2>6, <2>7 DEF PullSecretIsRight
<1>2. QED
  BY <1>1, SecretInvInit, SecretInvNext, PTL DEF Spec

-----------------------------------------------------------------------------
(* Lists of zones.                                                         *)

\* s lists the numbers of S in ascending order.
AscOf(s, S) ==
    /\ s \in Seq(Nat)
    /\ ToSet(s) = S
    /\ \A i, j \in 1..Len(s) : i < j => s[i] < s[j]

LEMMA IntervalSize ==
  ASSUME NEW n \in Nat
  PROVE  IsFiniteSet(1..n) /\ Cardinality(1..n) = n
BY FS_Interval

(* Different ranks below the size of a set are all the ranks there are.    *)
LEMMA RanksFill ==
  ASSUME NEW K, IsFiniteSet(K), NEW r \in [K -> Nat],
         \A i \in K : r[i] < Cardinality(K),
         \A i, j \in K : r[i] = r[j] => i = j
  PROVE  \A n \in 1..Cardinality(K) : \E i \in K : r[i] = n - 1
<1> DEFINE c == Cardinality(K)
           R == 0..(c - 1)
<1>1. c \in Nat
  BY FS_CardinalityType
<1>2. IsFiniteSet(R) /\ Cardinality(R) = c
  BY <1>1, FS_Interval, SMTT(30)
<1>3. r \in [K -> R]
  BY <1>1
<1>4. r \in Injection(K, R)
  BY <1>3 DEF Injection, IsInjective
<1>5. r \in Surjection(K, R)
  BY <1>2, <1>4, FS_Injection
<1>6. ASSUME NEW n \in 1..c PROVE \E i \in K : r[i] = n - 1
  <2>1. n - 1 \in R
    BY <1>1
  <2>2. QED
    BY <1>5, <2>1 DEF Surjection
<1>7. QED
  BY <1>6

(* An ascending list is as long as the set it lists is large.              *)
LEMMA AscLength ==
  ASSUME NEW s, NEW S, AscOf(s, S)
  PROVE  IsFiniteSet(S) /\ Cardinality(S) = Len(s) /\ Len(s) \in Nat
<1> DEFINE n == Len(s)
<1>1. s \in Seq(Nat) /\ n \in Nat /\ DOMAIN s = 1..n /\ s \in [1..n -> Nat]
  BY DEF AscOf
<1>2. S = {s[i] : i \in 1..n}
  BY <1>1 DEF AscOf, ToSet
<1>3. ASSUME NEW i \in 1..n, NEW j \in 1..n, s[i] = s[j] PROVE i = j
  <2>1. ~(i < j) /\ ~(j < i)
    <3>1. s[i] \in Nat /\ s[j] \in Nat
      BY <1>1
    <3>2. QED
      BY <1>3, <3>1 DEF AscOf
  <2>2. QED
    BY <1>1, <2>1
<1> HIDE DEF n
<1>4. s \in [1..n -> S]
  BY <1>1, <1>2
<1>5. s \in Bijection(1..n, S)
  BY <1>2, <1>3, <1>4 DEF Bijection, Injection, Surjection, IsInjective
<1>6. IsFiniteSet(1..n) /\ Cardinality(1..n) = n
  BY <1>1, IntervalSize
<1>7. ExistsBijection(1..n, S)
  BY <1>5 DEF ExistsBijection
<1>8. IsFiniteSet(S) /\ Cardinality(S) = n
  BY <1>6, <1>7, FS_Bijection
<1>9. QED
  BY <1>1, <1>8 DEF n

(* The beginning of an ascending list.                                     *)
LEMMA AscPrefix ==
  ASSUME NEW s, NEW S, AscOf(s, S), NEW m \in 0..Len(s)
  PROVE  /\ AscOf(SubSeq(s, 1, m), {s[i] : i \in 1..m})
         /\ Len(SubSeq(s, 1, m)) = m
         /\ \A i \in 1..m : SubSeq(s, 1, m)[i] = s[i]
<1> DEFINE t == SubSeq(s, 1, m)
<1>1. s \in Seq(Nat) /\ Len(s) \in Nat /\ m \in Nat
  BY DEF AscOf
<1>2. t \in Seq(Nat) /\ Len(t) = m /\ DOMAIN t = 1..m
  BY <1>1
<1>3. \A i \in 1..m : t[i] = s[i] /\ i \in 1..Len(s)
  BY <1>1
<1> HIDE DEF t
<1>4. ToSet(t) = {s[i] : i \in 1..m}
  BY <1>2, <1>3 DEF ToSet
<1>5. \A i, j \in 1..m : i < j => t[i] < t[j]
  BY <1>3 DEF AscOf
<1>6. AscOf(t, {s[i] : i \in 1..m})
  BY <1>2, <1>4, <1>5 DEF AscOf
<1>7. QED
  BY <1>2, <1>3, <1>6 DEF t

(* In an ascending list as many numbers are below one as come before it.   *)
LEMMA AscRank ==
  ASSUME NEW s, NEW S, AscOf(s, S), NEW k \in 1..Len(s)
  PROVE  Cardinality(Below(S, s[k])) = k - 1
<1>1. s \in Seq(Nat) /\ Len(s) \in Nat /\ k - 1 \in 0..Len(s)
  BY DEF AscOf
<1>2. \A i \in 1..Len(s) : s[i] \in Nat
  BY <1>1
<1>3. S = {s[i] : i \in 1..Len(s)}
  BY <1>1 DEF AscOf, ToSet
<1>4. \A i \in 1..Len(s) : s[i] < s[k] <=> i \in 1..(k - 1)
  <2> SUFFICES ASSUME NEW i \in 1..Len(s) PROVE s[i] < s[k] <=> i \in 1..(k - 1)
    OBVIOUS
  <2>1. s[i] \in Nat /\ s[k] \in Nat
    BY <1>2
  <2>2. CASE i < k
    BY <1>1, <2>2 DEF AscOf
  <2>3. CASE i = k
    BY <1>1, <2>1, <2>3
  <2>4. CASE k < i
    <3>1. s[k] < s[i]
      BY <2>4 DEF AscOf
    <3>2. QED
      BY <1>1, <2>1, <2>4, <3>1
  <2>5. QED
    BY <1>1, <2>2, <2>3, <2>4
<1>5. \A i \in 1..(k - 1) : i \in 1..Len(s)
  BY <1>1
<1>6. Below(S, s[k]) = {s[i] : i \in 1..(k - 1)}
  BY <1>3, <1>4, <1>5 DEF Below
<1>7. AscOf(SubSeq(s, 1, k - 1), {s[i] : i \in 1..(k - 1)}) /\ Len(SubSeq(s, 1, k - 1)) = k - 1
  BY <1>1, AscPrefix
<1>8. QED
  BY <1>6, <1>7, AscLength

(* There is one ascending list of a set.                                   *)
LEMMA AscUnique ==
  ASSUME NEW s, NEW t, NEW S, AscOf(s, S), AscOf(t, S)
  PROVE  s = t
<1>1. Len(s) = Len(t) /\ Len(s) \in Nat
  BY AscLength
<1>2. /\ s \in Seq(Nat) /\ t \in Seq(Nat)
      /\ S = {s[i] : i \in 1..Len(s)} /\ S = {t[i] : i \in 1..Len(t)}
  <2>1. s \in Seq(Nat) /\ S = {s[i] : i \in 1..Len(s)}
    BY DEF AscOf, ToSet
  <2>2. t \in Seq(Nat) /\ S = {t[i] : i \in 1..Len(t)}
    BY DEF AscOf, ToSet
  <2>3. QED
    BY <2>1, <2>2
<1>3. ASSUME NEW i \in 1..Len(s) PROVE s[i] = t[i]
  <2>1. s[i] \in S
    BY <1>2
  <2>2. PICK j \in 1..Len(t) : t[j] = s[i]
    BY <1>2, <2>1
  <2>3. Cardinality(Below(S, s[i])) = i - 1 /\ Cardinality(Below(S, t[j])) = j - 1
    BY <1>1, AscRank
  <2>4. i = j
    <3>1. i - 1 = j - 1
      BY <2>2, <2>3
    <3>2. QED
      BY <1>1, <3>1
  <2>5. QED
    BY <2>2, <2>4
<1>4. QED
  BY <1>1, <1>2, <1>3

(* A set that has one element more is larger.                              *)
LEMMA OneMore ==
  ASSUME NEW B, IsFiniteSet(B), NEW A \in SUBSET B, NEW x \in B, x \notin A
  PROVE  /\ Cardinality(A) \in Nat /\ Cardinality(B) \in Nat
         /\ Cardinality(A) < Cardinality(B)
<1>1. IsFiniteSet(A) /\ Cardinality(A) <= Cardinality(B)
  BY FS_Subset
<1>2. Cardinality(A) # Cardinality(B)
  BY FS_Subset
<1>3. Cardinality(A) \in Nat /\ Cardinality(B) \in Nat
  BY <1>1, FS_CardinalityType
<1>4. QED
  BY <1>1, <1>2, <1>3

(* slices.Sort: whatever the order of the zones was, it is ascending.      *)
LEMMA SortedIsAscending ==
  ASSUME NEW s \in Seq(Nat), \A i, j \in 1..Len(s) : s[i] = s[j] => i = j
  PROVE  AscOf(Sorted(s), ToSet(s))
<1> DEFINE D == 1..Len(s)
           Lt(i, j) == s[i] < s[j] \/ (s[i] = s[j] /\ i < j)
           r == [i \in D |-> Cardinality(Before(s, i))]
           t == Sorted(s)
           P(n) == CHOOSE i \in D : Cardinality(Before(s, i)) = n - 1
<1>1. Len(s) \in Nat /\ DOMAIN s = D /\ \A i \in D : s[i] \in Nat
  OBVIOUS
<1>2. IsFiniteSet(D) /\ Cardinality(D) = Len(s)
  BY <1>1, IntervalSize
<1>3. \A i \in D : Before(s, i) = {j \in D : Lt(j, i)}
  BY <1>1 DEF Before
<1>4. \A i \in D : i \notin Before(s, i) /\ Before(s, i) \subseteq D
  BY <1>1, <1>3
<1>5. \A i, j \in D : Lt(i, j) => Before(s, i) \subseteq Before(s, j) /\ i \in Before(s, j)
  <2> SUFFICES ASSUME NEW i \in D, NEW j \in D, Lt(i, j), NEW k \in Before(s, i)
               PROVE  k \in Before(s, j) /\ i \in Before(s, j)
    BY <1>3
  <2>1. k \in D /\ Lt(k, i)
    BY <1>3
  <2>2. s[i] \in Nat /\ s[j] \in Nat /\ s[k] \in Nat /\ i \in Nat /\ j \in Nat /\ k \in Nat
    BY <1>1, <2>1
  <2>3. Lt(k, j)
    BY <2>1, <2>2
  <2>4. QED
    BY <1>3, <2>1, <2>3
<1>6. \A i, j \in D : i # j => Lt(i, j) \/ Lt(j, i)
  BY <1>1
<1>7. ASSUME NEW i \in D
      PROVE  Cardinality(Before(s, i)) \in Nat /\ Cardinality(Before(s, i)) < Len(s)
  BY <1>2, <1>4, OneMore
<1>8. ASSUME NEW i \in D, NEW j \in D, Lt(i, j)
      PROVE  Cardinality(Before(s, i)) < Cardinality(Before(s, j))
  <2>1. /\ Before(s, i) \in SUBSET Before(s, j) /\ i \in Before(s, j) /\ i \notin Before(s, i)
    BY <1>4, <1>5, <1>8
  <2>2. IsFiniteSet(Before(s, j))
    BY <1>2, <1>4, FS_Subset
  <2>3. QED
    BY <2>1, <2>2, OneMore
<1> HIDE DEF Lt
<1>9. \A i, j \in D : Cardinality(Before(s, i)) = Cardinality(Before(s, j)) => i = j
  BY <1>6, <1>7, <1>8
<1>10. \A n \in 1..Len(s) : \E i \in D : r[i] = n - 1
  <2>1. r \in [D -> Nat] /\ (\A i \in D : r[i] < Cardinality(D))
        /\ \A i, j \in D : r[i] = r[j] => i = j
    BY <1>2, <1>7, <1>9
  <2> HIDE DEF r
  <2>2. \A n \in 1..Cardinality(D) : \E i \in D : r[i] = n - 1
    BY <1>2, <2>1, RanksFill
  <2>3. QED
    BY <1>2, <2>2
<1>11. \A n \in D : P(n) \in D /\ Cardinality(Before(s, P(n))) = n - 1
  BY <1>10
<1>12. t = [n \in D |-> s[P(n)]]
  BY <1>1 DEF Sorted
<1> HIDE DEF P, t
<1>13. t \in Seq(Nat) /\ Len(t) = Len(s) /\ DOMAIN t = D
  BY <1>1, <1>11, <1>12, SMTT(30)
<1>14. ASSUME NEW n \in D, NEW m \in D, n < m PROVE t[n] < t[m]
  <2>1. P(n) \in D /\ P(m) \in D /\ t[n] = s[P(n)] /\ t[m] = s[P(m)]
    BY <1>11, <1>12
  <2>2. P(n) # P(m)
    BY <1>1, <1>11, <1>14
  <2>3. ~Lt(P(m), P(n))
    <3>1. SUFFICES ASSUME Lt(P(m), P(n)) PROVE FALSE
      OBVIOUS
    <3>2. Cardinality(Before(s, P(m))) < Cardinality(Before(s, P(n)))
      BY <1>8, <2>1, <3>1
    <3>3. QED
      BY <1>1, <1>11, <1>14, <3>2
  <2>4. Lt(P(n), P(m))
    BY <1>6, <2>1, <2>2, <2>3
  <2>5. s[P(n)] # s[P(m)]
    BY <2>1, <2>2
  <2>6. QED
    BY <2>1, <2>4, <2>5 DEF Lt
<1>15. ToSet(t) = ToSet(s)
  <2>1. ASSUME NEW i \in D PROVE \E n \in D : t[n] = s[i]
    <3> DEFINE n == Cardinality(Before(s, i)) + 1
    <3>1. n \in D /\ n - 1 = Cardinality(Before(s, i))
      BY <1>1, <1>7
    <3>2. P(n) = i
      BY <1>9, <1>11, <3>1
    <3>3. QED
      BY <1>12, <3>1, <3>2
  <2>2. \A n \in D : \E i \in D : t[n] = s[i]
    BY <1>11, <1>12
  <2>3. ToSet(t) = {t[n] : n \in D} /\ ToSet(s) = {s[i] : i \in D}
    BY <1>1, <1>13, Zenon DEF ToSet
  <2> HIDE DEF D
  <2>4. {t[n] : n \in D} \subseteq {s[i] : i \in D}
    BY <2>2
  <2>5. {s[i] : i \in D} \subseteq {t[n] : n \in D}
    BY <2>1
  <2>6. QED
    BY <2>3, <2>4, <2>5
<1>16. QED
  BY <1>13, <1>14, <1>15 DEF AscOf, t

(* The numbers of a finite set, by their places.                           *)
LEMMA NthIsInPlace ==
  ASSUME NEW K \in SUBSET Nat, IsFiniteSet(K)
  PROVE  /\ Cardinality(K) \in Nat
         /\ \A n \in 1..Cardinality(K) : Nth(K, n) \in K
         /\ \A n, m \in 1..Cardinality(K) : n < m => Nth(K, n) < Nth(K, m)
         /\ \A i \in K : \E n \in 1..Cardinality(K) : Nth(K, n) = i
<1> DEFINE c == Cardinality(K)
           r == [i \in K |-> Cardinality(Below(K, i))]
<1>1. c \in Nat
  BY FS_CardinalityType
<1>2. \A i \in K : Below(K, i) \in SUBSET K /\ i \notin Below(K, i) /\ IsFiniteSet(Below(K, i))
  <2>1. \A i \in K : Below(K, i) \in SUBSET K /\ i \notin Below(K, i)
    BY DEF Below
  <2>2. QED
    BY <2>1, FS_Subset
<1>3. ASSUME NEW i \in K
      PROVE  Cardinality(Below(K, i)) \in Nat /\ Cardinality(Below(K, i)) < c
  BY <1>2, OneMore
<1>4. ASSUME NEW i \in K, NEW j \in K, i < j
      PROVE  Cardinality(Below(K, i)) < Cardinality(Below(K, j))
  <2>0. i \in Nat /\ j \in Nat /\ \A y \in K : y \in Nat
    OBVIOUS
  <2>1. Below(K, i) \in SUBSET Below(K, j) /\ i \in Below(K, j)
    <3>1. ASSUME NEW y \in Below(K, i) PROVE y \in Below(K, j)
      <4>1. y \in K /\ y < i
        BY DEF Below
      <4>2. y < j
        BY <1>4, <2>0, <4>1
      <4>3. QED
        BY <4>1, <4>2 DEF Below
    <3>2. i \in Below(K, j)
      BY <1>4 DEF Below
    <3>3. QED
      BY <3>1, <3>2
  <2>2. QED
    BY <1>2, <2>1, OneMore
<1>5. ASSUME NEW i \in K, NEW j \in K, Cardinality(Below(K, i)) = Cardinality(Below(K, j))
      PROVE  i = j
  <2>1. ~(i < j) /\ ~(j < i)
    BY <1>3, <1>4, <1>5
  <2>2. QED
    BY <2>1
<1>6. \A n \in 1..c : \E i \in K : Cardinality(Below(K, i)) = n - 1
  <2>1. r \in [K -> Nat] /\ (\A i \in K : r[i] < c) /\ \A i, j \in K : r[i] = r[j] => i = j
    BY <1>3, <1>5
  <2> HIDE DEF r
  <2>2. \A n \in 1..c : \E i \in K : r[i] = n - 1
    BY <2>1, RanksFill
  <2>3. QED
    BY <2>2 DEF r
<1>7. \A n \in 1..c : Nth(K, n) \in K /\ Cardinality(Below(K, Nth(K, n))) = n - 1
  BY <1>6 DEF Nth
<1>8. ASSUME NEW n \in 1..c, NEW m \in 1..c, n < m PROVE Nth(K, n) < Nth(K, m)
  <2>1. Nth(K, n) \in K /\ Nth(K, m) \in K
    BY <1>7
  <2>2. n - 1 < m - 1
    BY <1>1, <1>8
  <2>3. Nth(K, n) # Nth(K, m)
    BY <1>7, <2>2
  <2>4. ~(Nth(K, m) < Nth(K, n))
    <3>1. SUFFICES ASSUME Nth(K, m) < Nth(K, n) PROVE FALSE
      OBVIOUS
    <3>2. Cardinality(Below(K, Nth(K, m))) < Cardinality(Below(K, Nth(K, n)))
      BY <1>4, <2>1, <3>1
    <3>3. m - 1 < n - 1
      BY <1>7, <3>2
    <3>4. QED
      BY <1>1, <2>2, <3>3
  <2>5. Nth(K, n) \in Nat /\ Nth(K, m) \in Nat
    BY <2>1
  <2>6. QED
    BY <2>3, <2>4, <2>5
<1>9. ASSUME NEW i \in K PROVE \E n \in 1..c : Nth(K, n) = i
  <2> DEFINE n == Cardinality(Below(K, i)) + 1
  <2>1. n \in 1..c /\ n - 1 = Cardinality(Below(K, i))
    BY <1>1, <1>3
  <2>2. Nth(K, n) = i
    BY <1>5, <1>7, <2>1
  <2>3. QED
    BY <2>1, <2>2
<1>10. QED
  BY <1>1, <1>7, <1>8, <1>9

-----------------------------------------------------------------------------
(* slices.DeleteFunc.                                                      *)

(* A slice is its array and its length.                                    *)
LEMMA SliceParts == \A at, len : Slice(at, len).at = at /\ Slice(at, len).len = len
BY DEF Slice

\* The basic zones of list are in ascending order.
BasicAscend(list) ==
    \A i, j \in Basic(list, Len(list)) : i < j => list[i] < list[j]

\* The basic zones of list.
BasicOf(list) == {list[i] : i \in Basic(list, Len(list))}

(* What slices.DeleteFunc keeps of a whole array is the basic zones in it.  *)
LEMMA KeptIsBasic ==
  ASSUME NEW a, NEW at, a[at] \in Seq(Nat), BasicAscend(a[at])
  PROVE  LET s == Slice(at, Len(a[at]))
         IN  /\ AscOf(Kept(a, s), BasicOf(a[at]))
             /\ Len(Kept(a, s)) \in 0..Len(a[at])
<1> DEFINE list == a[at]
           s == Slice(at, Len(list))
           K == Basic(list, Len(list))
           c == Cardinality(K)
           t == Kept(a, s)
<1>1. s.at = at /\ s.len = Len(list)
  BY DEF Slice
<1>2. t = [n \in 1..c |-> list[Nth(K, n)]]
  BY <1>1 DEF Kept
<1>3. Len(list) \in Nat /\ K \subseteq 1..Len(list) /\ \A i \in 1..Len(list) : list[i] \in Nat
  BY DEF Basic
<1>4. IsFiniteSet(1..Len(list)) /\ Cardinality(1..Len(list)) = Len(list)
  BY <1>3, IntervalSize
<1>5. IsFiniteSet(K) /\ c <= Len(list)
  BY <1>3, <1>4, FS_Subset
<1>6. K \in SUBSET Nat
  BY <1>3
<1> HIDE DEF K, t, list, s
<1>7. /\ c \in Nat
      /\ \A n \in 1..c : Nth(K, n) \in K
      /\ \A n, m \in 1..c : n < m => Nth(K, n) < Nth(K, m)
      /\ \A i \in K : \E n \in 1..c : Nth(K, n) = i
  BY <1>5, <1>6, NthIsInPlace
<1> HIDE DEF c
<1>8. \A n \in 1..c : t[n] = list[Nth(K, n)] /\ t[n] \in Nat
  BY <1>2, <1>3, <1>7
<1>9. t \in Seq(Nat) /\ Len(t) = c /\ DOMAIN t = 1..c
  <2>1. t \in [1..c -> Nat]
    BY <1>2, <1>8
  <2>2. QED
    BY <1>7, <2>1
<1>10. ASSUME NEW n \in 1..c, NEW m \in 1..c, n < m PROVE t[n] < t[m]
  <2>1. Nth(K, n) \in K /\ Nth(K, m) \in K /\ Nth(K, n) < Nth(K, m)
    BY <1>7, <1>10
  <2>2. list[Nth(K, n)] < list[Nth(K, m)]
    BY <2>1 DEF BasicAscend, K, list
  <2>3. QED
    BY <1>8, <2>2
<1>11. ToSet(t) = BasicOf(a[at])
  <2>1. ToSet(t) = {t[n] : n \in 1..c}
    BY <1>9, Zenon DEF ToSet
  <2>2. BasicOf(a[at]) = {list[i] : i \in K}
    BY DEF BasicOf, K, list
  <2>3. {t[n] : n \in 1..c} \subseteq {list[i] : i \in K}
    BY <1>7, <1>8
  <2>4. ASSUME NEW i \in K PROVE list[i] \in {t[n] : n \in 1..c}
    <3>1. PICK n \in 1..c : Nth(K, n) = i
      BY <1>7
    <3>2. t[n] = list[i]
      BY <1>8, <3>1
    <3>3. QED
      BY <3>2
  <2>5. QED
    BY <2>1, <2>2, <2>3, <2>4
<1>12. Len(t) \in 0..Len(list)
  BY <1>3, <1>5, <1>7, <1>9 DEF c
<1>13. QED
  BY <1>9, <1>10, <1>11, <1>12 DEF AscOf, t, s, list

\* b is what slices.DeleteFunc makes of a: the kept zones, then the empty ones.
Deleted(a, b, at, kept) ==
    /\ b \in [Arrays -> Seq(Nat)]
    /\ Len(b[at]) = Len(a[at])
    /\ \A i \in 1..Len(kept) : b[at][i] = kept[i]
    /\ \A i \in (Len(kept) + 1)..Len(a[at]) : b[at][i] = 0
    /\ \A c \in Arrays \ {at} : b[c] = a[c]

LEMMA DeleteFuncLeaves ==
  ASSUME NEW a \in [Arrays -> Seq(Nat)], NEW at \in Arrays, BasicAscend(a[at])
  PROVE  Deleted(a, DeleteFunc(a, Slice(at, Len(a[at]))), at, Kept(a, Slice(at, Len(a[at]))))
<1> DEFINE list == a[at]
           s == Slice(at, Len(list))
           kept == Kept(a, s)
           zeros == [i \in 1..(Len(list) - Len(kept)) |-> 0]
           new == kept \o zeros
           b == DeleteFunc(a, s)
<1>1. s.at = at /\ s.len = Len(list)
  BY DEF Slice
<1>2. list \in Seq(Nat) /\ Len(list) \in Nat
  OBVIOUS
<1>3. kept \in Seq(Nat) /\ Len(kept) \in 0..Len(list)
  BY <1>2, KeptIsBasic DEF AscOf
<1>4. b = [a EXCEPT ![at] = new \o SubSeq(a[at], Len(new) + 1, Len(a[at]))]
  BY <1>1 DEF DeleteFunc, Overwrite, Cleared
<1> HIDE DEF list, kept, s, b
<1>5. Len(list) - Len(kept) \in Nat
  BY <1>2, <1>3
<1>6. zeros \in Seq(Nat) /\ Len(zeros) = Len(list) - Len(kept)
      /\ \A i \in 1..(Len(list) - Len(kept)) : zeros[i] = 0
  BY <1>5
<1> HIDE DEF zeros
<1>7. /\ new \in Seq(Nat) /\ Len(new) = Len(list)
      /\ \A i \in 1..Len(kept) : new[i] = kept[i]
      /\ \A i \in (Len(kept) + 1)..Len(list) : new[i] = 0
  <2>1. new \in Seq(Nat) /\ Len(new) = Len(kept) + Len(zeros)
    BY <1>3, <1>6
  <2>2. \A i \in 1..Len(kept) : new[i] = kept[i]
    BY <1>3, <1>6
  <2>3. ASSUME NEW i \in (Len(kept) + 1)..Len(list) PROVE new[i] = 0
    <3>1. new[i] = zeros[i - Len(kept)]
      <4>1. i \in 1..(Len(kept) + Len(zeros)) /\ ~(i <= Len(kept))
        BY <1>2, <1>3, <1>6
      <4>2. kept \in Seq(Nat) /\ zeros \in Seq(Nat)
        BY <1>3, <1>6
      <4>3. QED
        BY ONLY <4>1, <4>2, ConcatProperties
    <3>2. i - Len(kept) \in 1..(Len(list) - Len(kept))
      BY <1>2, <1>3
    <3>3. QED
      BY <1>6, <3>1, <3>2
  <2>4. QED
    BY <1>2, <1>3, <1>6, <2>1, <2>2, <2>3
<1> HIDE DEF new
<1>8. new \o SubSeq(a[at], Len(new) + 1, Len(a[at])) = new
  <2>1. SubSeq(a[at], Len(new) + 1, Len(a[at])) = << >>
    BY <1>2, <1>7 DEF list
  <2>2. QED
    BY <1>7, <2>1, ConcatEmptySeq
<1>9. b = [a EXCEPT ![at] = new]
  BY <1>4, <1>8
<1>10. b[at] = new /\ b \in [Arrays -> Seq(Nat)] /\ \A c \in Arrays \ {at} : b[c] = a[c]
  BY <1>7, <1>9
<1>11. QED
  BY <1>7, <1>10 DEF Deleted, b, s, list, kept

\* The first len elements of the array list S in ascending order.
Cut(a, at, len, S) == len \in 0..Len(a[at]) /\ AscOf(SubSeq(a[at], 1, len), S)

\* The list begins with kept.
Begins(list, kept) == SubSeq(list, 1, Len(kept)) = kept /\ Len(kept) \in 0..Len(list)

(* The kept zones are the beginning of the array.                          *)
LEMMA KeptComesFirst ==
  ASSUME NEW a \in [Arrays -> Seq(Nat)], NEW b, NEW at \in Arrays, NEW kept \in Seq(Nat),
         Len(kept) \in 0..Len(a[at]), Deleted(a, b, at, kept)
  PROVE  Begins(b[at], kept)
<1> DEFINE t == SubSeq(b[at], 1, Len(kept))
<1>1. b[at] \in Seq(Nat) /\ Len(b[at]) = Len(a[at]) /\ Len(kept) \in 0..Len(b[at])
  BY DEF Deleted
<1>2. t \in Seq(Nat) /\ Len(t) = Len(kept) /\ \A i \in 1..Len(kept) : t[i] = b[at][i]
  BY <1>1, SMTT(30)
<1> HIDE DEF t
<1>3. \A i \in 1..Len(t) : t[i] = kept[i]
  BY <1>2 DEF Deleted
<1>4. t = kept
  BY <1>2, <1>3, SeqEqual
<1>5. QED
  BY <1>1, <1>4 DEF t, Begins

(* In an ascending array the basic zones are ascending.                    *)
LEMMA AscBasic ==
  ASSUME NEW s, NEW S, AscOf(s, S)
  PROVE  BasicAscend(s) /\ BasicOf(s) = S \cap BasicAZs
<1>1. s \in Seq(Nat) /\ Len(s) \in Nat /\ DOMAIN s = 1..Len(s)
  BY DEF AscOf
<1>2. S = {s[i] : i \in 1..Len(s)}
  BY <1>1 DEF AscOf, ToSet
<1>3. \A i : i \in Basic(s, Len(s)) <=> i \in 1..Len(s) /\ s[i] \in BasicAZs
  BY DEF Basic
<1>4. BasicAscend(s)
  BY <1>3 DEF BasicAscend, AscOf
<1> DEFINE D == 1..Len(s)
<1> HIDE DEF D
<1>5. BasicOf(s) = {s[i] : i \in Basic(s, Len(s))}
  BY DEF BasicOf
<1>6. {s[i] : i \in Basic(s, Len(s))} \subseteq S \cap BasicAZs
  BY <1>2, <1>3
<1>7. S \cap BasicAZs \subseteq {s[i] : i \in Basic(s, Len(s))}
  BY <1>2, <1>3
<1>8. QED
  BY <1>4, <1>5, <1>6, <1>7

(* slices.DeleteFunc leaves an array of which it would keep the same again: *)
(* what it clears is no basic zone.                                        *)
LEMMA DeletedBasic ==
  ASSUME NEW a \in [Arrays -> Seq(Nat)], NEW b, NEW at \in Arrays, NEW kept, NEW S,
         AscOf(kept, S), S \subseteq BasicAZs,
         Len(kept) \in 0..Len(a[at]), Deleted(a, b, at, kept)
  PROVE  BasicAscend(b[at]) /\ BasicOf(b[at]) = S
<1> DEFINE list == b[at]
<1>1. list \in Seq(Nat) /\ Len(list) = Len(a[at]) /\ Len(list) \in Nat
  BY DEF Deleted
<1>2. kept \in Seq(Nat) /\ Len(kept) \in Nat /\ DOMAIN kept = 1..Len(kept)
  BY DEF AscOf
<1>3. S = {kept[i] : i \in 1..Len(kept)}
  BY <1>2 DEF AscOf, ToSet
<1>4. 0 \notin BasicAZs
  BY ZonesAreRanks
<1>5. /\ \A i \in 1..Len(kept) : list[i] = kept[i]
      /\ \A i \in (Len(kept) + 1)..Len(list) : list[i] = 0
  BY <1>1 DEF Deleted
<1> HIDE DEF list
<1>6. ASSUME NEW i \in Basic(list, Len(list)) PROVE i \in 1..Len(kept)
  <2>1. i \in 1..Len(list) /\ list[i] \in BasicAZs
    BY DEF Basic
  <2>2. i \notin (Len(kept) + 1)..Len(list)
    BY <1>4, <1>5, <2>1
  <2>3. QED
    BY <1>1, <1>2, <2>1, <2>2
<1>7. ASSUME NEW i \in 1..Len(kept) PROVE i \in Basic(list, Len(list))
  <2>1. list[i] \in BasicAZs
    BY <1>3, <1>5
  <2>2. i \in 1..Len(list)
    BY <1>1, <1>2
  <2>3. QED
    BY <2>1, <2>2 DEF Basic
<1>8. Basic(list, Len(list)) = 1..Len(kept)
  BY <1>6, <1>7
<1>9. BasicAscend(list)
  BY <1>5, <1>8 DEF BasicAscend, AscOf
<1>10. BasicOf(list) = {list[i] : i \in 1..Len(kept)}
  BY <1>8 DEF BasicOf
<1> DEFINE D == 1..Len(kept)
<1>11. {list[i] : i \in D} = {kept[i] : i \in D}
  <2>1. \A i \in D : list[i] = kept[i]
    BY <1>5
  <2> HIDE DEF D
  <2>2. QED
    BY <2>1
<1>12. QED
  BY <1>3, <1>9, <1>10, <1>11 DEF list

(* The two slices.DeleteFunc of generateInstallConfig: each kind of machine *)
(* is left with its own basic zones, ascending, also where the second one  *)
(* goes over the array that the first one has already shortened.           *)
LEMMA FilterKeepsBasic ==
  ASSUME NEW a \in [Arrays -> Seq(Nat)], NEW c \in Arrays, NEW w \in Arrays,
         NEW C, NEW W, AscOf(a[c], C), AscOf(a[w], W),
         NEW first, first = DeleteFunc(a, Slice(c, Len(a[c]))),
         NEW last, last = DeleteFunc(first, Slice(w, Len(a[w]))),
         NEW kc, kc = Kept(a, Slice(c, Len(a[c]))),
         NEW kw, kw = Kept(first, Slice(w, Len(a[w])))
  PROVE  /\ last \in [Arrays -> Seq(Nat)]
         /\ Cut(last, c, Len(kc), C \cap BasicAZs)
         /\ Cut(last, w, Len(kw), W \cap BasicAZs)
<1>1. BasicAscend(a[c]) /\ BasicOf(a[c]) = C \cap BasicAZs
  BY AscBasic
<1>2. BasicAscend(a[w]) /\ BasicOf(a[w]) = W \cap BasicAZs
  BY AscBasic
<1>3. a[c] \in Seq(Nat) /\ a[w] \in Seq(Nat)
  OBVIOUS
<1>4. AscOf(kc, C \cap BasicAZs) /\ Len(kc) \in 0..Len(a[c])
  BY <1>1, <1>3, KeptIsBasic
<1>5. Deleted(a, first, c, kc)
  BY <1>1, DeleteFuncLeaves
<1>6. first \in [Arrays -> Seq(Nat)] /\ first[w] \in Seq(Nat)
  BY <1>5 DEF Deleted
<1>7. kc \in Seq(Nat)
  BY <1>4 DEF AscOf
<1>8. Begins(first[c], kc)
  BY <1>4, <1>5, <1>7, KeptComesFirst
<1>9. BasicAscend(first[w]) /\ BasicOf(first[w]) = W \cap BasicAZs /\ Len(first[w]) = Len(a[w])
  <2>1. CASE w # c
    <3>1. first[w] = a[w]
      BY <1>5, <2>1 DEF Deleted
    <3>2. QED
      BY <1>2, <3>1
  <2>2. CASE w = c
    <3>1. C = W
      BY <2>2 DEF AscOf
    <3>2. C \cap BasicAZs \subseteq BasicAZs
      OBVIOUS
    <3>3. BasicAscend(first[c]) /\ BasicOf(first[c]) = C \cap BasicAZs
      BY <1>4, <1>5, <3>2, DeletedBasic
    <3>4. Len(first[c]) = Len(a[c])
      BY <1>5 DEF Deleted
    <3>5. QED
      BY <2>2, <3>1, <3>3, <3>4
  <2>3. QED
    BY <2>1, <2>2
<1>10. /\ last = DeleteFunc(first, Slice(w, Len(first[w])))
       /\ kw = Kept(first, Slice(w, Len(first[w])))
  BY <1>9
<1>11. AscOf(kw, W \cap BasicAZs) /\ Len(kw) \in 0..Len(first[w])
  BY <1>6, <1>9, <1>10, KeptIsBasic
<1>12. Deleted(first, last, w, kw)
  BY <1>6, <1>9, <1>10, DeleteFuncLeaves
<1>13. kw \in Seq(Nat)
  BY <1>11 DEF AscOf
<1>14. Begins(last[w], kw)
  BY <1>6, <1>11, <1>12, <1>13, KeptComesFirst
<1>15. Begins(last[c], kc)
  <2>1. CASE w # c
    <3>1. last[c] = first[c]
      BY <1>12, <2>1 DEF Deleted
    <3>2. QED
      BY <1>8, <3>1
  <2>2. CASE w = c
    <3>1. C = W
      BY <2>2 DEF AscOf
    <3>2. kc = kw
      BY <1>4, <1>11, <3>1, AscUnique
    <3>3. QED
      BY <1>14, <2>2, <3>2
  <2>3. QED
    BY <2>1, <2>2
<1>16. last \in [Arrays -> Seq(Nat)]
  BY <1>12 DEF Deleted
<1>17. QED
  BY <1>4, <1>11, <1>14, <1>15, <1>16 DEF Begins, Cut

(* slices.Sort of what is in ascending order already changes nothing.      *)
LEMMA SortAgain ==
  ASSUME NEW a \in [Arrays -> Seq(Nat)], NEW at \in Arrays, NEW len \in 0..Len(a[at]),
         NEW S, AscOf(SubSeq(a[at], 1, len), S)
  PROVE  Overwrite(a, Slice(at, len), Sorted(SubSeq(a[at], 1, len))) = a
<1> DEFINE list == a[at]
           t == SubSeq(list, 1, len)
<1>1. list \in Seq(Nat) /\ Len(list) \in Nat /\ len \in Nat
  OBVIOUS
<1>2. t \in Seq(Nat) /\ Len(t) = len
  BY <1>1
<1> HIDE DEF t
<1>3. ASSUME NEW i \in 1..Len(t), NEW j \in 1..Len(t), t[i] = t[j] PROVE i = j
  <2>1. t[i] \in Nat /\ t[j] \in Nat /\ i \in Nat /\ j \in Nat
    BY <1>1, <1>2
  <2>2. \A p, q \in 1..Len(t) : p < q => t[p] < t[q]
    BY DEF AscOf, t
  <2>3. ~(i < j) /\ ~(j < i)
    BY <1>3, <2>1, <2>2
  <2>4. QED
    BY <2>1, <2>3
<1>4. AscOf(Sorted(t), ToSet(t))
  BY <1>2, <1>3, SortedIsAscending
<1>5. AscOf(t, ToSet(t))
  BY DEF AscOf, t
<1>6. Sorted(t) = t
  BY <1>4, <1>5, AscUnique
<1>7. t \o SubSeq(list, len + 1, Len(list)) = list
  <2>1. 1 \in 1..Len(list) + 1 /\ len \in 1 - 1 .. Len(list) /\ Len(list) \in len .. Len(list)
    BY <1>1
  <2>2. SubSeq(list, 1, len) \o SubSeq(list, len + 1, Len(list)) = SubSeq(list, 1, Len(list))
    BY <1>1, <2>1, ConcatAdjacentSubSeq
  <2>3. SubSeq(list, 1, Len(list)) = list
    BY <1>1, SubSeqFull
  <2>4. QED
    BY <2>2, <2>3 DEF t
<1>8. Overwrite(a, Slice(at, len), t) = [a EXCEPT ![at] = t \o SubSeq(list, len + 1, Len(list))]
  BY <1>2 DEF Overwrite, Slice
<1>9. QED
  BY <1>6, <1>7, <1>8 DEF t

-----------------------------------------------------------------------------
(* The zones.                                                              *)

\* What computeskus.Zones may return: no zone twice.
GoodList(s) ==
    s \in Seq(Nat \ {0}) /\ \A i, j \in 1..Len(s) : s[i] = s[j] => i = j

\* The zones a kind of machine may use, those the control plane takes of them,
\* and whether a kind would be spread over one or two.
Usable(k) == IF zonal THEN Eligible(k) ELSE {}
LowestOf(S) == {z \in S : Cardinality(Below(S, z)) < Wanted}
Few == \E k \in Kinds : Cardinality(Usable(k)) \in {1, 2}

\* s lists S as an install config does: ascending, no zones as the empty one.
Spread(s, S) == (S = {} /\ s = <<0>>) \/ (S # {} /\ AscOf(s, S))

\* The two pools' slices, as they stay from when the zones are counted.
PoolsAreSpread(cp, w) ==
    /\ ~Few
    /\ Spread(Contents(cp), LowestOf(Usable("controlPlane")))
    /\ Contents(cp) # <<0>> => Len(Contents(cp)) = Wanted
    /\ Spread(Contents(w), Usable("worker"))

\* At each place of the function, how the slices and the arrays they are cut
\* from relate to the zones that Azure listed.
ZoneInv ==
    /\ sku \in [Kinds -> Arrays]
    /\ array \in [Arrays -> Seq(Nat)]
    /\ \A k \in Kinds : GoodList(listed[k])
    /\ pc \in {"document", "zones"} => \A k \in Kinds : array[sku[k]] = listed[k]
    /\ pc = "sort" =>
         /\ zonal
         /\ \A k \in Kinds : /\ array[sku[k]] = listed[k]
                             /\ zones[k] = Slice(sku[k], Len(listed[k]))
    /\ pc = "filter" =>
         /\ zonal /\ ~expanded
         /\ \A k \in Kinds : /\ AscOf(array[sku[k]], ToSet(listed[k]))
                             /\ zones[k] = Slice(sku[k], Len(array[sku[k]]))
    /\ pc = "count" =>
         /\ zonal
         /\ \A k \in Kinds : /\ zones[k] = Slice(sku[k], zones[k].len)
                             /\ Cut(array, sku[k], zones[k].len, Eligible(k))
    /\ pc \in {"disks", "image", "config"} =>
         PoolsAreSpread(zones["controlPlane"], zones["worker"])
    /\ pc \in {"complete", "done"} =>
         PoolsAreSpread(config["controlPlane"].zones, config["worker"].zones)
    /\ pc = "refused" => Few

(* Azure lists no zone twice.                                              *)
LEMMA ListsAreGood ==
  ASSUME NEW s \in Lists
  PROVE  GoodList(s)
<1>1. Cardinality(Zones) \in Nat
  BY ZonesAreFinite, FS_CardinalityType
<1>2. PICK n \in 0..Cardinality(Zones) : s \in [1..n -> Zones]
  BY DEF Lists
<1>3. n \in Nat /\ DOMAIN s = 1..n /\ \A i \in 1..n : s[i] \in Nat \ {0}
  <2>1. n \in Nat
    BY <1>1
  <2>2. DOMAIN s = 1..n /\ \A i \in 1..n : s[i] \in Zones
    BY <1>2
  <2>3. QED
    BY <2>1, <2>2, ZonesAreRanks
<1>4. s \in Seq(Nat \ {0}) /\ Len(s) = n
  <2>1. s \in [1..n -> Nat \ {0}]
    BY <1>2, <1>3
  <2>2. QED
    BY <1>3, <2>1
<1>5. IsInjective(s)
  BY DEF Lists
<1>6. QED
  BY <1>3, <1>4, <1>5 DEF GoodList, IsInjective

LEMMA ZoneInvInit == Init => ZoneInv
<1> SUFFICES ASSUME Init PROVE ZoneInv
  OBVIOUS
<1>1. pc = "document" /\ listed = [k \in Kinds |-> array[sku[k]]]
  BY DEF Init
<1>2. sku \in [Kinds -> Arrays] /\ array \in [Arrays -> {s : s \in Lists \cup {<< >>}}]
  <2>1. CASE AnySkus
    BY <2>1 DEF AnySkus, Arrays
  <2>2. CASE array = [a \in Arrays |-> << >>] /\ sku = [k \in Kinds |-> "sku1"]
    BY <2>2 DEF Arrays
  <2>3. QED
    BY <2>1, <2>2 DEF Init
<1>3. GoodList(<< >>)
  BY DEF GoodList
<1>4. \A a \in Arrays : GoodList(array[a])
  <2> TAKE a \in Arrays
  <2>1. array[a] \in Lists \/ array[a] = << >>
    BY <1>2
  <2>2. QED
    BY <1>3, <2>1, ListsAreGood
<1>5. array \in [Arrays -> Seq(Nat)]
  <2>1. \A a \in Arrays : array[a] \in Seq(Nat)
    BY <1>4 DEF GoodList
  <2>2. QED
    BY <1>2, <2>1
<1>6. \A k \in Kinds : listed[k] = array[sku[k]] /\ GoodList(listed[k])
  BY <1>1, <1>2, <1>4
<1>7. QED
  BY <1>1, <1>2, <1>5, <1>6 DEF ZoneInv

(* A region without zones.                                                 *)
LEMMA ReadZonesKeeps == ZoneInv /\ ReadZones => ZoneInv'
<1> SUFFICES ASSUME ZoneInv, ReadZones PROVE ZoneInv'
  OBVIOUS
<1>1. /\ pc = "zones"
      /\ UNCHANGED <<input, array>>
  BY DEF ReadZones
<1>2. /\ sku \in [Kinds -> Arrays] /\ array \in [Arrays -> Seq(Nat)]
      /\ \A k \in Kinds : GoodList(listed[k]) /\ array[sku[k]] = listed[k]
  BY <1>1 DEF ZoneInv
<1>3. CASE zonal
  BY <1>1, <1>2, <1>3 DEF ReadZones, ZoneInv, SkuZones, input
<1>4. CASE ~zonal
  <2>1. zones' = [k \in Kinds |-> Literal] /\ pc' = "disks" /\ ~zonal'
    BY <1>1, <1>4 DEF ReadZones, input
  <2>2. \A k \in Kinds : Usable(k)' = {}
    BY <2>1 DEF Usable
  <2>3. Cardinality({}) = 0 /\ LowestOf({}) = {}
    BY FS_EmptySet DEF LowestOf
  <2>4. ~Few'
    BY <2>2, <2>3 DEF Few
  <2>5. Contents(zones["controlPlane"])' = <<0>> /\ Contents(zones["worker"])' = <<0>>
    BY <2>1 DEF Contents, Kinds
  <2>6. Usable("controlPlane")' = {} /\ Usable("worker")' = {}
    BY <2>2 DEF Kinds
  <2>7. PoolsAreSpread(zones["controlPlane"], zones["worker"])'
    BY <2>3, <2>4, <2>5, <2>6 DEF PoolsAreSpread, Spread, LowestOf
  <2>8. QED
    BY <1>1, <1>2, <2>1, <2>7 DEF ZoneInv, input
<1>5. QED
  BY <1>3, <1>4

(* slices.Sort of both kinds' zones.                                       *)
LEMMA SortZonesKeeps == ZoneInv /\ SortZones => ZoneInv'
<1> SUFFICES ASSUME ZoneInv, SortZones PROVE ZoneInv'
  OBVIOUS
<1>1. /\ pc = "sort" /\ zonal
      /\ sku \in [Kinds -> Arrays] /\ array \in [Arrays -> Seq(Nat)]
      /\ \A k \in Kinds : /\ GoodList(listed[k]) /\ array[sku[k]] = listed[k]
                          /\ zones[k] = Slice(sku[k], Len(listed[k]))
  BY DEF ZoneInv, SortZones
<1>2. /\ UNCHANGED <<expanded, zonal, listed, sku, zones>>
      /\ array' = [a \in Arrays |->
           IF \E k \in Kinds : zones[k].at = a THEN Sorted(array[a]) ELSE array[a]]
      /\ pc' = IF expanded THEN "count" ELSE "filter"
  BY DEF SortZones, input
<1>3. \A k \in Kinds : zones[k].at = sku[k] /\ zones[k].len = Len(listed[k])
  BY <1>1, SliceParts
<1>4. ASSUME NEW k \in Kinds PROVE array'[sku[k]] = Sorted(listed[k])
  <2>1. sku[k] \in Arrays /\ \E j \in Kinds : zones[j].at = sku[k]
    BY <1>1, <1>3
  <2>2. array'[sku[k]] = Sorted(array[sku[k]])
    BY <1>2, <2>1
  <2>3. QED
    BY <1>1, <2>2
<1>5. ASSUME NEW k \in Kinds
      PROVE  /\ AscOf(Sorted(listed[k]), ToSet(listed[k]))
             /\ Len(Sorted(listed[k])) = Len(listed[k]) /\ Len(listed[k]) \in Nat
             /\ Sorted(listed[k]) \in Seq(Nat)
  <2>1. listed[k] \in Seq(Nat) /\ Len(listed[k]) \in Nat /\ DOMAIN listed[k] = 1..Len(listed[k])
        /\ \A i, j \in 1..Len(listed[k]) : listed[k][i] = listed[k][j] => i = j
    BY <1>1 DEF GoodList
  <2>2. AscOf(Sorted(listed[k]), ToSet(listed[k]))
    BY <2>1, SortedIsAscending
  <2>3. Sorted(listed[k]) \in Seq(Nat)
    BY <2>2 DEF AscOf
  <2>4. DOMAIN Sorted(listed[k]) = 1..Len(listed[k])
    BY <2>1 DEF Sorted
  <2>5. Len(Sorted(listed[k])) = Len(listed[k])
    BY <2>1, <2>3, <2>4
  <2>6. QED
    BY <2>1, <2>2, <2>3, <2>5
<1>6. array' \in [Arrays -> Seq(Nat)]
  <2>1. ASSUME NEW a \in Arrays PROVE array'[a] \in Seq(Nat)
    <3>1. CASE \E k \in Kinds : zones[k].at = a
      <4>1. PICK k \in Kinds : sku[k] = a
        BY <1>3, <3>1
      <4>2. QED
        BY <1>4, <1>5, <4>1
    <3>2. CASE ~\E k \in Kinds : zones[k].at = a
      BY <1>1, <1>2, <3>2
    <3>3. QED
      BY <3>1, <3>2
  <2>2. QED
    BY <1>2, <2>1
<1>7. CASE ~expanded
  <2>1. ASSUME NEW k \in Kinds
        PROVE  /\ AscOf(array[sku[k]], ToSet(listed[k]))'
               /\ zones'[k] = Slice(sku'[k], Len(array'[sku'[k]]))
    <3>1. array'[sku'[k]] = Sorted(listed[k]) /\ listed' = listed /\ zones' = zones /\ sku' = sku
      BY <1>2, <1>4
    <3>2. AscOf(array'[sku'[k]], ToSet(listed'[k]))
      BY <1>5, <3>1
    <3>3. zones[k] = Slice(sku[k], Len(array'[sku[k]]))
      BY <1>1, <1>5, <3>1
    <3>4. QED
      BY <3>1, <3>2, <3>3
  <2>2. QED
    BY <1>1, <1>2, <1>6, <1>7, <2>1 DEF ZoneInv
<1>8. CASE expanded
  <2>1. ASSUME NEW k \in Kinds
        PROVE  /\ zones'[k] = Slice(sku'[k], zones'[k].len)
               /\ Cut(array', sku'[k], zones'[k].len, Eligible(k)')
    <3>1. array'[sku'[k]] = Sorted(listed[k]) /\ listed' = listed /\ zones' = zones /\ sku' = sku
          /\ expanded' = expanded
      BY <1>2, <1>4
    <3>2. zones'[k].len = Len(array'[sku'[k]])
      BY <1>3, <1>5, <3>1
    <3>3. SubSeq(array'[sku'[k]], 1, zones'[k].len) = Sorted(listed[k])
      BY <1>5, <3>1, <3>2, SubSeqFull
    <3>4. Eligible(k)' = ToSet(listed[k])
      BY <1>8, <3>1 DEF Eligible
    <3>5. zones'[k].len \in 0..Len(array'[sku'[k]])
      BY <1>5, <3>1, <3>2
    <3>6. zones'[k] = Slice(sku'[k], zones'[k].len)
      BY <1>1, <1>3, <3>1
    <3>7. AscOf(SubSeq(array'[sku'[k]], 1, zones'[k].len), Eligible(k)')
      BY <1>5, <3>3, <3>4
    <3>8. QED
      BY <3>5, <3>6, <3>7 DEF Cut
  <2>2. QED
    BY <1>1, <1>2, <1>6, <1>8, <2>1 DEF ZoneInv
<1>9. QED
  BY <1>7, <1>8

(* slices.DeleteFunc on both kinds' zones.                                 *)
LEMMA FilterZonesKeeps == ZoneInv /\ FilterZones => ZoneInv'
<1> SUFFICES ASSUME ZoneInv, FilterZones PROVE ZoneInv'
  OBVIOUS
<1> DEFINE cp == zones["controlPlane"]
           w == zones["worker"]
           first == DeleteFunc(array, cp)
<1>1. /\ pc = "filter" /\ zonal /\ ~expanded
      /\ sku \in [Kinds -> Arrays] /\ array \in [Arrays -> Seq(Nat)]
      /\ \A k \in Kinds : /\ GoodList(listed[k])
                          /\ AscOf(array[sku[k]], ToSet(listed[k]))
                          /\ zones[k] = Slice(sku[k], Len(array[sku[k]]))
  BY DEF ZoneInv, FilterZones
<1>2. /\ UNCHANGED <<expanded, zonal, listed, sku>> /\ pc' = "count"
      /\ array' = DeleteFunc(first, w)
      /\ zones' = [k \in Kinds |->
           IF k = "controlPlane" THEN Slice(cp.at, Len(Kept(array, cp)))
           ELSE Slice(w.at, Len(Kept(first, w)))]
  BY DEF FilterZones, input
<1>3. /\ "controlPlane" \in Kinds /\ "worker" \in Kinds
      /\ \A k \in Kinds : k = "controlPlane" \/ k = "worker"
  BY DEF Kinds
<1>4. /\ cp = Slice(sku["controlPlane"], Len(array[sku["controlPlane"]]))
      /\ w = Slice(sku["worker"], Len(array[sku["worker"]]))
      /\ sku["controlPlane"] \in Arrays /\ sku["worker"] \in Arrays
      /\ AscOf(array[sku["controlPlane"]], ToSet(listed["controlPlane"]))
      /\ AscOf(array[sku["worker"]], ToSet(listed["worker"]))
  BY <1>1, <1>3
<1>5. cp.at = sku["controlPlane"] /\ w.at = sku["worker"]
  BY <1>4 DEF Slice
<1>6. /\ zones'["controlPlane"] = Slice(sku["controlPlane"], Len(Kept(array, cp)))
      /\ zones'["worker"] = Slice(sku["worker"], Len(Kept(first, w)))
  BY <1>2, <1>3, <1>5
<1>7. zones'["controlPlane"].len = Len(Kept(array, cp)) /\ zones'["worker"].len = Len(Kept(first, w))
  BY <1>6 DEF Slice
<1> HIDE DEF cp, w, first
<1>8. /\ array' \in [Arrays -> Seq(Nat)]
      /\ Cut(array', sku["controlPlane"], Len(Kept(array, cp)),
             ToSet(listed["controlPlane"]) \cap BasicAZs)
      /\ Cut(array', sku["worker"], Len(Kept(first, w)),
             ToSet(listed["worker"]) \cap BasicAZs)
  <2>1. array \in [Arrays -> Seq(Nat)] /\ first = DeleteFunc(array, cp)
    BY <1>1 DEF first
  <2>2. QED
    BY <1>2, <1>4, <2>1, FilterKeepsBasic, ZenonT(60)
<1>9. \A k \in Kinds : Eligible(k)' = ToSet(listed[k]) \cap BasicAZs
  BY <1>1, <1>2 DEF Eligible
<1>10. ASSUME NEW k \in Kinds
       PROVE  /\ zones'[k] = Slice(sku'[k], zones'[k].len)
              /\ Cut(array', sku'[k], zones'[k].len, Eligible(k)')
  <2>1. CASE k = "controlPlane"
    BY <1>2, <1>6, <1>7, <1>8, <1>9, <2>1
  <2>2. CASE k = "worker"
    BY <1>2, <1>6, <1>7, <1>8, <1>9, <2>2
  <2>3. QED
    BY <1>3, <2>1, <2>2
<1>11. QED
  BY <1>1, <1>2, <1>8, <1>10 DEF ZoneInv

(* The first three zones of an ascending list are the lowest three.        *)
LEMMA LowestComeFirst ==
  ASSUME NEW t, NEW S, AscOf(t, S), Len(t) >= Wanted
  PROVE  /\ AscOf(SubSeq(t, 1, Wanted), LowestOf(S)) /\ LowestOf(S) # {}
         /\ Len(SubSeq(t, 1, Wanted)) = Wanted
<1>1. t \in Seq(Nat) /\ Len(t) \in Nat /\ DOMAIN t = 1..Len(t) /\ Wanted \in 0..Len(t)
  BY DEF AscOf, Wanted
<1>2. S = {t[i] : i \in 1..Len(t)}
  BY <1>1 DEF AscOf, ToSet
<1>3. \A i \in 1..Len(t) : Cardinality(Below(S, t[i])) = i - 1
  BY AscRank
<1> DEFINE D == 1..Len(t)
           W == 1..Wanted
<1>4. W \subseteq D /\ 1 \in W /\ \A i \in D : i - 1 < Wanted <=> i \in W
  BY <1>1 DEF Wanted
<1>5. \A i \in D : t[i] \in S /\ (t[i] \in LowestOf(S) <=> i \in W)
  <2> TAKE i \in D
  <2>1. t[i] \in S
    BY <1>2
  <2>2. Cardinality(Below(S, t[i])) < Wanted <=> i \in W
    BY <1>3, <1>4
  <2>3. QED
    BY <2>1, <2>2 DEF LowestOf
<1>6. LowestOf(S) \subseteq S
  BY DEF LowestOf
<1>7. S = {t[i] : i \in D}
  BY <1>2
<1>8. AscOf(SubSeq(t, 1, Wanted), {t[i] : i \in W}) /\ Len(SubSeq(t, 1, Wanted)) = Wanted
  BY <1>1, AscPrefix
<1> HIDE DEF D, W
<1>9. LowestOf(S) \subseteq {t[i] : i \in W}
  BY <1>5, <1>6, <1>7
<1>10. {t[i] : i \in W} \subseteq LowestOf(S)
  BY <1>4, <1>5
<1>11. LowestOf(S) = {t[i] : i \in W}
  BY <1>9, <1>10
<1>12. t[1] \in LowestOf(S)
  BY <1>4, <1>11
<1>13. QED
  BY <1>8, <1>11, <1>12

(* The beginning of a beginning.                                           *)
LEMMA CutShorter ==
  ASSUME NEW list \in Seq(Nat), NEW len \in 0..Len(list), NEW m \in 0..len
  PROVE  SubSeq(SubSeq(list, 1, len), 1, m) = SubSeq(list, 1, m)
<1> DEFINE t == SubSeq(list, 1, len)
<1>1. Len(list) \in Nat /\ len \in Nat /\ m \in Nat /\ m \in 0..Len(list)
  OBVIOUS
<1>2. t \in Seq(Nat) /\ Len(t) = len /\ \A i \in 1..len : t[i] = list[i]
  BY <1>1
<1>3. /\ SubSeq(list, 1, m) \in Seq(Nat) /\ Len(SubSeq(list, 1, m)) = m
      /\ \A i \in 1..m : SubSeq(list, 1, m)[i] = list[i]
  BY <1>1
<1> HIDE DEF t
<1>4. /\ SubSeq(t, 1, m) \in Seq(Nat) /\ Len(SubSeq(t, 1, m)) = m
      /\ \A i \in 1..m : SubSeq(t, 1, m)[i] = t[i]
  BY <1>1, <1>2
<1>5. \A i \in 1..m : SubSeq(t, 1, m)[i] = SubSeq(list, 1, m)[i]
  BY <1>1, <1>2, <1>3, <1>4, SMTT(30)
<1>6. SubSeq(t, 1, m) = SubSeq(list, 1, m)
  BY <1>3, <1>4, <1>5, SeqEqual
<1>7. QED
  BY <1>6 DEF t

(* The number of the zones is looked at, the control plane's list is cut,  *)
(* and the workers' is sorted once more.                                   *)
LEMMA CountZonesKeeps == ZoneInv /\ CountZones => ZoneInv'
<1> SUFFICES ASSUME ZoneInv, CountZones PROVE ZoneInv'
  OBVIOUS
<1>1. /\ pc = "count" /\ zonal
      /\ sku \in [Kinds -> Arrays] /\ array \in [Arrays -> Seq(Nat)]
      /\ \A k \in Kinds : /\ GoodList(listed[k])
                          /\ zones[k] = Slice(sku[k], zones[k].len)
                          /\ Cut(array, sku[k], zones[k].len, Eligible(k))
  BY DEF ZoneInv, CountZones
<1>2. UNCHANGED <<expanded, zonal, listed, sku>>
  BY DEF CountZones, input
<1>3. "controlPlane" \in Kinds /\ "worker" \in Kinds
  BY DEF Kinds
<1>4. ASSUME NEW k \in Kinds
      PROVE  /\ Usable(k) = Eligible(k) /\ Usable(k)' = Eligible(k)
             /\ zones[k].len = Cardinality(Eligible(k)) /\ zones[k].len \in Nat
             /\ IsFiniteSet(Eligible(k))
             /\ array[sku[k]] \in Seq(Nat) /\ zones[k].len \in 0..Len(array[sku[k]])
             /\ AscOf(SubSeq(array[sku[k]], 1, zones[k].len), Eligible(k))
             /\ Len(SubSeq(array[sku[k]], 1, zones[k].len)) = zones[k].len
  <2> DEFINE len == zones[k].len
             list == array[sku[k]]
  <2>1. Usable(k) = Eligible(k) /\ Usable(k)' = Eligible(k)
    BY <1>1, <1>2 DEF Usable, Eligible
  <2>2. list \in Seq(Nat)
    BY <1>1
  <2>3. len \in 0..Len(list) /\ AscOf(SubSeq(list, 1, len), Eligible(k))
    BY <1>1 DEF Cut
  <2>4. Len(list) \in Nat
    BY <2>2
  <2> HIDE DEF len, list
  <2>5. Len(SubSeq(list, 1, len)) = len /\ len \in Nat
    BY <2>2, <2>3, <2>4
  <2>6. IsFiniteSet(Eligible(k)) /\ Cardinality(Eligible(k)) = len
    BY <2>3, <2>5, AscLength
  <2>7. QED
    BY <2>1, <2>2, <2>3, <2>5, <2>6 DEF len, list
<1>5. CASE \E k \in Kinds : TooFew(k, zones[k].len)
  <2>1. pc' = "refused" /\ UNCHANGED <<array, zones>>
    BY <1>5 DEF CountZones
  <2>2. PICK k \in Kinds : TooFew(k, zones[k].len)
    BY <1>5
  <2>3. zones[k].len \in {1, 2}
    BY <1>4, <2>2 DEF TooFew, Wanted
  <2>4. Cardinality(Usable(k)') \in {1, 2}
    BY <1>4, <2>3
  <2>5. Few'
    BY <2>4 DEF Few
  <2>6. QED
    BY <1>1, <1>2, <2>1, <2>5 DEF ZoneInv
<1>6. CASE ~\E k \in Kinds : TooFew(k, zones[k].len)
  <2>1. /\ pc' = "disks"
        /\ zones' = [k \in Kinds |->
             IF zones[k].len = 0 THEN Literal
             ELSE IF k = "controlPlane" /\ zones[k].len >= Wanted
             THEN Slice(zones[k].at, Wanted) ELSE zones[k]]
        /\ array' = IF zones["worker"].len = 0 THEN array
                    ELSE Overwrite(array, zones["worker"], Sorted(Contents(zones["worker"])))
    BY <1>6 DEF CountZones
  <2>2. ASSUME NEW k \in Kinds PROVE zones[k].len = 0 \/ zones[k].len >= Wanted
    BY <1>4, <1>6, <2>2 DEF TooFew, Wanted
  <2>3. \A k \in Kinds : \A len : /\ Slice(sku[k], len).at = sku[k]
                                 /\ Slice(sku[k], len).len = len
                                 /\ Slice(sku[k], len) # Literal
    <3>1. \A k \in Kinds : sku[k] # "literal"
      BY <1>1 DEF Arrays
    <3>2. Literal.at = "literal"
      BY SliceParts DEF Literal
    <3>3. QED
      BY <3>1, <3>2, SliceParts
  <2>4. array' = array
    <3> DEFINE w == sku["worker"]
               len == zones["worker"].len
    <3>1. zones["worker"] = Slice(w, len) /\ w \in Arrays
      BY <1>1, <1>3
    <3>2. Contents(zones["worker"]) = SubSeq(array[w], 1, len)
      <4>1. zones["worker"] # Literal /\ zones["worker"].at = w
        BY <1>3, <2>3, <3>1
      <4>2. QED
        BY <4>1 DEF Contents
    <3>3. len \in 0..Len(array[w]) /\ AscOf(SubSeq(array[w], 1, len), Eligible("worker"))
      BY <1>3, <1>4
    <3> HIDE DEF w, len
    <3>4. Overwrite(array, Slice(w, len), Sorted(SubSeq(array[w], 1, len))) = array
      BY <1>1, <3>1, <3>3, SortAgain
    <3>5. QED
      BY <2>1, <3>1, <3>2, <3>4
  <2>5. ~Few'
    <3>1. ASSUME NEW k \in Kinds PROVE Cardinality(Usable(k)') \notin {1, 2}
      <4>1. zones[k].len \in Nat /\ zones[k].len = Cardinality(Usable(k)')
        BY <1>4
      <4>2. zones[k].len = 0 \/ zones[k].len >= 3
        BY <2>2 DEF Wanted
      <4>3. QED
        BY <4>1, <4>2
    <3>2. QED
      BY <3>1 DEF Few
  <2>6. ASSUME NEW k \in Kinds, zones[k].len = 0
        PROVE  Usable(k)' = {} /\ Contents(zones[k])' = <<0>>
    <3>1. zones'[k] = Literal
      BY <2>1, <2>6
    <3>2. Eligible(k) = {}
      BY <1>4, <2>6, FS_EmptySet
    <3>3. QED
      BY <1>4, <3>1, <3>2 DEF Contents
  <2>7. ASSUME NEW k \in Kinds, zones[k].len # 0 PROVE Usable(k)' # {}
    <3>1. Eligible(k) # {}
      BY <1>4, <2>7, FS_EmptySet
    <3>2. QED
      BY <1>4, <3>1
  <2>8. Spread(Contents(zones["worker"])', Usable("worker")')
    <3>1. CASE zones["worker"].len = 0
      BY <1>3, <2>6, <3>1 DEF Spread
    <3>2. CASE zones["worker"].len # 0
      <4>1. zones'["worker"] = zones["worker"]
        BY <1>3, <2>1, <3>2
      <4>2. Contents(zones["worker"])' = SubSeq(array[sku["worker"]], 1, zones["worker"].len)
        <5>1. zones["worker"] = Slice(sku["worker"], zones["worker"].len)
          BY <1>1, <1>3
        <5>2. zones["worker"] # Literal /\ zones["worker"].at = sku["worker"]
          BY <1>3, <2>3, <5>1
        <5>3. QED
          BY <2>4, <4>1, <5>2 DEF Contents
      <4>3. QED
        BY <1>3, <1>4, <2>7, <3>2, <4>2 DEF Spread
    <3>3. QED
      BY <3>1, <3>2
  <2>9. /\ Spread(Contents(zones["controlPlane"])', LowestOf(Usable("controlPlane")'))
        /\ Contents(zones["controlPlane"])' # <<0>> =>
             Len(Contents(zones["controlPlane"])') = Wanted
    <3>1. CASE zones["controlPlane"].len = 0
      <4>1. LowestOf({}) = {}
        BY DEF LowestOf
      <4>2. QED
        BY <1>3, <2>6, <3>1, <4>1 DEF Spread
    <3>2. CASE zones["controlPlane"].len # 0
      <4> DEFINE at == sku["controlPlane"]
                 len == zones["controlPlane"].len
                 list == array[at]
                 t == SubSeq(list, 1, len)
                 E == Eligible("controlPlane")
      <4>1. len >= Wanted
        BY <1>3, <2>2, <3>2
      <4>2. zones["controlPlane"].at = at
        <5>1. zones["controlPlane"] = Slice(at, len)
          BY <1>1, <1>3
        <5>2. Slice(at, len).at = at
          BY <1>3, <2>3
        <5>3. QED
          BY <5>1, <5>2
      <4>3. zones'["controlPlane"] = Slice(at, Wanted)
        BY <1>3, <2>1, <3>2, <4>1, <4>2
      <4>4. Slice(at, Wanted) # Literal /\ Slice(at, Wanted).at = at /\ Slice(at, Wanted).len = Wanted
        BY <1>3, <2>3
      <4>5. Contents(zones["controlPlane"])' = SubSeq(list, 1, Wanted)
        BY <2>4, <4>3, <4>4 DEF Contents
      <4>6. list \in Seq(Nat) /\ len \in 0..Len(list) /\ AscOf(t, E) /\ Len(t) = len /\ len \in Nat
        BY <1>3, <1>4
      <4>7. Usable("controlPlane")' = E
        BY <1>3, <1>4
      <4> HIDE DEF at, len, list, E
      <4>8. SubSeq(t, 1, Wanted) = SubSeq(list, 1, Wanted)
        <5>1. Wanted \in 0..len
          BY <4>1, <4>6 DEF Wanted
        <5>2. QED
          BY <4>6, <5>1, CutShorter
      <4> HIDE DEF t
      <4>9. /\ AscOf(SubSeq(t, 1, Wanted), LowestOf(E)) /\ LowestOf(E) # {}
            /\ Len(SubSeq(t, 1, Wanted)) = Wanted
        <5>1. Len(t) >= Wanted
          BY <4>1, <4>6
        <5>2. QED
          BY <4>6, <5>1, LowestComeFirst
      <4>10. QED
        BY <4>5, <4>7, <4>8, <4>9 DEF Spread
    <3>3. QED
      BY <3>1, <3>2
  <2>10. PoolsAreSpread(zones["controlPlane"], zones["worker"])'
    BY <2>5, <2>8, <2>9 DEF PoolsAreSpread, LowestOf
  <2>11. QED
    BY <1>1, <1>2, <2>1, <2>4, <2>10 DEF ZoneInv
<1>7. QED
  BY <1>5, <1>6

(* The steps after that leave the slices and the arrays as they are.       *)
LEMMA ZoneInvNext == ZoneInv /\ [Next]_vars => ZoneInv'
<1> SUFFICES ASSUME ZoneInv, [Next]_vars PROVE ZoneInv'
  OBVIOUS
<1>0. ASSUME UNCHANGED <<expanded, zonal, listed, sku, array>>
      PROVE  /\ Few' = Few
             /\ \A cp, w : PoolsAreSpread(cp, w) => PoolsAreSpread(cp, w)'
  BY <1>0 DEF PoolsAreSpread, Few, Usable, Eligible, Contents
<1>1. CASE ReadDocument
  BY <1>1 DEF ReadDocument, ZoneInv, Fail, input
<1>2. CASE ReadZones
  BY <1>2, ReadZonesKeeps
<1>3. CASE UnknownSize
  BY <1>3 DEF UnknownSize, ZoneInv, Fail, input
<1>4. CASE SortZones
  BY <1>4, SortZonesKeeps
<1>5. CASE FilterZones
  BY <1>5, FilterZonesKeeps
<1>6. CASE CountZones
  BY <1>6, CountZonesKeeps
<1>7. CASE ReadDiskSets
  <2>1. /\ pc = "disks" /\ pc' \in {"image", "failed"}
        /\ UNCHANGED <<expanded, zonal, listed, sku, array, zones>>
    BY <1>7 DEF ReadDiskSets, Reads, Fail, input
  <2>2. PoolsAreSpread(zones["controlPlane"], zones["worker"])'
    BY <1>0, <2>1 DEF ZoneInv
  <2>3. QED
    BY <2>1, <2>2 DEF ZoneInv
<1>8. CASE ChooseImage
  <2>1. /\ pc = "image" /\ pc' \in {"config", "failed"}
        /\ UNCHANGED <<expanded, zonal, listed, sku, array, zones>>
    BY <1>8 DEF ChooseImage, Fail, input
  <2>2. PoolsAreSpread(zones["controlPlane"], zones["worker"])'
    BY <1>0, <2>1 DEF ZoneInv
  <2>3. QED
    BY <2>1, <2>2 DEF ZoneInv
<1>9. CASE BuildConfig
  <2>1. /\ pc = "config" /\ pc' = "complete"
        /\ UNCHANGED <<expanded, zonal, listed, sku, array, zones>>
        /\ config' = [k \in Kinds |-> [zones |-> zones[k], image |-> image]]
    BY <1>9 DEF BuildConfig, input
  <2>2. /\ config'["controlPlane"].zones = zones["controlPlane"]
        /\ config'["worker"].zones = zones["worker"]
    BY <2>1 DEF Kinds
  <2>3. PoolsAreSpread(config["controlPlane"].zones, config["worker"].zones)'
    BY <1>0, <2>1, <2>2 DEF ZoneInv
  <2>4. QED
    BY <2>1, <2>3 DEF ZoneInv
<1>10. CASE Complete
  <2>1. /\ pc = "complete" /\ pc' \in {"done", "failed"}
        /\ UNCHANGED <<expanded, zonal, listed, sku, array, zones, config>>
    BY <1>10 DEF Complete, Reads, Fail, input
  <2>2. PoolsAreSpread(config["controlPlane"].zones, config["worker"].zones)'
    BY <1>0, <2>1 DEF ZoneInv
  <2>3. QED
    BY <2>1, <2>2 DEF ZoneInv
<1>11. CASE Ended \/ UNCHANGED vars
  <2>1. UNCHANGED <<expanded, zonal, listed, sku, array, zones, config, pc>>
    BY <1>11 DEF Ended, vars, input
  <2>2. QED
    BY <2>1 DEF ZoneInv, PoolsAreSpread, Few, Usable, Eligible, Contents
<1>12. QED
  BY <1>1, <1>2, <1>3, <1>4, <1>5, <1>6, <1>7, <1>8, <1>9, <1>10, <1>11 DEF Next

\* The zones that Azure listed are zones of the region.
ListedInv == \A k \in Kinds : ToSet(listed[k]) \subseteq Zones

(* No step changes what Azure listed.                                      *)
LEMMA ListedHolds == Spec => []ListedInv
<1>1. ASSUME Init PROVE ListedInv
  <2> SUFFICES ASSUME NEW k \in Kinds PROVE ToSet(listed[k]) \subseteq Zones
    BY DEF ListedInv
  <2>1. listed[k] = array[sku[k]] /\ sku[k] \in Arrays
    BY <1>1 DEF Init, AnySkus, Arrays
  <2>2. array[sku[k]] \in Lists \/ array[sku[k]] = << >>
    BY <1>1, <2>1 DEF Init, AnySkus
  <2>3. CASE array[sku[k]] = << >>
    BY <2>1, <2>3 DEF ToSet
  <2>4. CASE array[sku[k]] \in Lists
    <3>1. PICK n \in 0..Cardinality(Zones) : array[sku[k]] \in [1..n -> Zones]
      BY <2>4 DEF Lists
    <3>2. \A i \in DOMAIN listed[k] : listed[k][i] \in Zones
      BY <2>1, <3>1
    <3>3. QED
      BY <3>2 DEF ToSet
  <2>5. QED
    BY <2>2, <2>3, <2>4
<1>2. ListedInv /\ [Next]_vars => ListedInv'
  <2> SUFFICES ASSUME ListedInv, [Next]_vars PROVE ListedInv'
    OBVIOUS
  <2>1. listed' = listed
    BY DEF vars, input, Next, ReadDocument, ReadZones, UnknownSize, SortZones, FilterZones,
       CountZones, ReadDiskSets, ChooseImage, BuildConfig, Complete, Reads, Ended
  <2>2. QED
    BY <2>1 DEF ListedInv
<1>3. QED
  BY <1>1, <1>2, PTL DEF Spec

(* An ascending list of T, which with a zone of S has all that come before  *)
(* it, is picked by number if the numbers are in the order of the strings. *)
LEMMA PickedInOrder ==
  ASSUME NEW s, NEW S, NEW T, T \subseteq S, S \subseteq Zones,
         \A z \in S : Number[z] < 10,
         Ascending(s, T), T = {} => S = {},
         \A y \in T, z \in S : z < y => z \in T
  PROVE  PickedByNumber(s, S)
<1> SUFFICES ASSUME NEW i \in DOMAIN s, NEW z \in S, Number[z] < Number[s[i]]
             PROVE  \E j \in 1..(i - 1) : s[j] = z
  BY DEF PickedByNumber
<1>1. T # {}
  OBVIOUS
<1>2. ToSet(s) = T /\ \A m, n \in DOMAIN s : m < n => s[m] < s[n]
  BY <1>1 DEF Ascending
<1>3. s[i] \in T /\ s[i] \in Zones /\ z \in Zones
  BY <1>2 DEF ToSet
<1>4. s[i] \in Nat /\ z \in Nat
  BY <1>3, ZonesAreRanks
<1>5. z < s[i]
  BY <1>3, ZonesAreNumbered
<1>6. PICK j \in DOMAIN s : s[j] = z
  BY <1>2, <1>3, <1>5 DEF ToSet
<1>7. DOMAIN s = 1..Len(s) /\ Len(s) \in Nat
  BY <1>1 DEF Ascending
<1>8. ~(i < j) /\ i # j
  BY <1>2, <1>4, <1>5, <1>6
<1>9. j \in 1..(i - 1)
  BY <1>7, <1>8
<1>10. QED
  BY <1>6, <1>9

(* The lowest of some zones are there if there are any, and with one all    *)
(* that are lower.                                                         *)
LEMMA LowestAreLowest ==
  ASSUME NEW S, S \subseteq Zones
  PROVE  /\ LowestOf(S) \subseteq S
         /\ LowestOf(S) = {} => S = {}
         /\ \A y \in LowestOf(S), z \in S : z < y => z \in LowestOf(S)
<1>1. IsFiniteSet(S) /\ S \subseteq Nat
  BY ZonesAreFinite, ZonesAreRanks, FS_Subset
<1>2. \A y \in S : IsFiniteSet(Below(S, y)) /\ Cardinality(Below(S, y)) \in Nat
  BY <1>1, FS_Subset, FS_CardinalityType DEF Below
<1>3. ASSUME S # {} PROVE LowestOf(S) # {}
  <2>1. PICK y \in S : \A z \in S : y <= z
    BY <1>1, <1>3, LeastNumber
  <2>2. Below(S, y) = {}
    <3>1. ASSUME NEW z \in S PROVE ~(z < y)
      <4>1. z \in Nat /\ y \in Nat /\ y <= z
        BY <1>1, <2>1
      <4>2. QED
        BY <4>1
    <3>2. QED
      BY <3>1 DEF Below
  <2>3. Cardinality(Below(S, y)) < Wanted
    BY <2>2, FS_EmptySet DEF Wanted
  <2>4. QED
    BY <2>3 DEF LowestOf
<1>4. ASSUME NEW y \in LowestOf(S), NEW z \in S, z < y PROVE z \in LowestOf(S)
  <2>1. y \in S /\ Cardinality(Below(S, y)) < Wanted
    BY DEF LowestOf
  <2>2. Below(S, z) \subseteq Below(S, y)
    <3>1. ASSUME NEW x \in S, x < z PROVE x < y
      <4>1. x \in Nat /\ y \in Nat /\ z \in Nat
        BY <1>1, <2>1
      <4>2. QED
        BY <1>4, <3>1, <4>1
    <3>2. QED
      BY <3>1 DEF Below
  <2>3. Cardinality(Below(S, z)) <= Cardinality(Below(S, y))
    BY <1>2, <2>1, <2>2, FS_Subset
  <2>4. Cardinality(Below(S, z)) < Wanted
    BY <1>2, <2>1, <2>3 DEF Wanted
  <2>5. QED
    BY <2>4 DEF LowestOf
<1>5. QED
  BY <1>3, <1>4 DEF LowestOf

(* However Azure lists the zones, whatever zones there are and whether or  *)
(* not the two kinds of machines are of one VM size: the control plane is on *)
(* the first three of its zones in the order of strings, which is that of   *)
(* the numbers where these have one digit, the workers are on all of theirs, *)
(* and only a kind with one or two zones is refused.                       *)
THEOREM ZonesHold == Spec => []ZonesAreRight
<1>1. ASSUME NEW s, NEW S, Spread(s, S) PROVE Ascending(s, S)
  <2>1. CASE S = {}
    BY <1>1, <2>1 DEF Spread, Ascending
  <2>2. CASE S # {}
    <3>1. AscOf(s, S)
      BY <1>1, <2>2 DEF Spread
    <3>2. s \in Seq(Nat) /\ ToSet(s) = S
      BY <3>1 DEF AscOf
    <3>3. DOMAIN s = 1..Len(s)
      BY <3>2
    <3>4. \A i, j \in DOMAIN s : i < j => s[i] < s[j]
      BY <3>1, <3>3 DEF AscOf
    <3>5. QED
      BY <2>2, <3>2, <3>4 DEF Ascending
  <2>3. QED
    BY <2>1, <2>2
<1>2. ASSUME ZoneInv, ListedInv PROVE ZonesAreRight
  <2>1. /\ \A k : Usable(k) = IF zonal THEN Eligible(k) ELSE {}
        /\ Few <=> \E k \in Kinds :
                     Cardinality(IF zonal THEN Eligible(k) ELSE {}) \in {1, 2}
    BY DEF Usable, Few
  <2>2. pc = "refused" => Few
    BY <1>2 DEF ZoneInv
  <2>3. ASSUME pc = "done"
        PROVE  /\ ~Few
               /\ Ascending(Contents(config["controlPlane"].zones),
                            LowestOf(Usable("controlPlane")))
               /\ Ascending(Contents(config["worker"].zones), Usable("worker"))
    BY <1>1, <1>2, <2>3 DEF ZoneInv, PoolsAreSpread
  <2>4. ASSUME NEW k \in Kinds PROVE Usable(k) \subseteq Zones
    BY <1>2 DEF ListedInv, Usable, Eligible
  <2>5. ASSUME pc = "done", NEW k \in Kinds, \A z \in Usable(k) : Number[z] < 10
        PROVE  PickedByNumber(Contents(config[k].zones), Usable(k))
    <3>1. CASE k = "worker"
      <4>1. /\ Usable("worker") \subseteq Zones
            /\ Ascending(Contents(config["worker"].zones), Usable("worker"))
            /\ \A z \in Usable("worker") : Number[z] < 10
        BY <2>3, <2>4, <2>5, <3>1
      <4>2. PickedByNumber(Contents(config["worker"].zones), Usable("worker"))
        BY <4>1, PickedInOrder
      <4>3. QED
        BY <3>1, <4>2
    <3>2. CASE k = "controlPlane"
      <4> DEFINE S == Usable("controlPlane")
                 t == Contents(config["controlPlane"].zones)
      <4>1. S \subseteq Zones /\ Ascending(t, LowestOf(S)) /\ \A z \in S : Number[z] < 10
        BY <2>3, <2>4, <2>5, <3>2
      <4> HIDE DEF S, t
      <4>2. /\ LowestOf(S) \subseteq S
            /\ LowestOf(S) = {} => S = {}
            /\ \A y \in LowestOf(S), z \in S : z < y => z \in LowestOf(S)
        BY <4>1, LowestAreLowest
      <4>3. PickedByNumber(t, S)
        <5> DEFINE T == LowestOf(S)
        <5>1. /\ T \subseteq S /\ S \subseteq Zones /\ \A z \in S : Number[z] < 10
              /\ Ascending(t, T)
              /\ T = {} => S = {}
              /\ \A y \in T, z \in S : z < y => z \in T
          BY <4>1, <4>2
        <5> HIDE DEF T
        <5>2. QED
          BY <5>1, PickedInOrder
      <4>4. QED
        BY <3>2, <4>3 DEF S, t
    <3>3. QED
      BY <3>1, <3>2 DEF Kinds
  <2>6. QED
    BY <2>2, <2>3, <2>5 DEF ZonesAreRight, Usable, Few, LowestOf
<1>3. QED
  BY <1>2, ZoneInvInit, ZoneInvNext, ListedHolds, PTL DEF Spec

-----------------------------------------------------------------------------
(* The resources of the template.                                          *)

(* The template of deployResourceTemplate, for any number of machines and  *)
(* any zones: no two resources have one name, all that a resource waits for *)
(* is an interface of the template, a machine waits for its own interface,  *)
(* every interface is that of one machine and shares no pool for SSH, and   *)
(* machines have different zones if the zones differ.                      *)
THEOREM TemplateFitsTogether ==
  ASSUME NEW n \in Nat, NEW zs, NEW outbound
  PROVE  LET R == Resources(n, zs, outbound)
             vms == {r \in R : r.type = "vm"}
             nics == {r \in R : r.type = "nic"}
         IN  /\ \A q, r \in R : q.name = r.name => q = r
             /\ \A r \in R : r.dependsOn \subseteq {x.name : x \in nics}
             /\ \A vm \in vms : vm.nic \in vm.dependsOn
             /\ \A nic \in nics : \E vm \in vms : vm.nic = nic.name
             /\ \A v, w \in vms : v.nic = w.nic => v = w
             /\ \A m, q \in nics : m # q =>
                  m.pools \cap q.pools = {<<"internal">>} \cup External(outbound)
             /\ (\A i, j \in 1..n : zs[i] = zs[j] => i = j) =>
                  \A v, w \in vms : v.zone = w.zone => v = w \/ v.zone = 0
<1> DEFINE R == Resources(n, zs, outbound)
           N == 0..(n - 1)
           Bnic == NIC(BootstrapNIC, {<<"internal">>} \cup External(outbound))
           Mnic(i) == NIC(MasterNIC(i), {<<"internal">>, <<"ssh-", i>>} \cup External(outbound))
           Bvm == VM(BootstrapVM, BootstrapNIC, {BootstrapNIC}, 0)
           Mvm(i) == VM(MasterVM(i), MasterNIC(i), {MasterNIC(i)}, ZoneOf(zs, i))
           vms == {r \in R : r.type = "vm"}
           nics == {r \in R : r.type = "nic"}
<1>1. R = {Bnic, Bvm} \cup {Mnic(i) : i \in N} \cup {Mvm(i) : i \in N}
  BY DEF Resources, networkBootstrapNIC, networkMasterNICs, computeBootstrapVM,
     computeMasterVMs, DependsOn, MachineNIC, MasterNIC, BootstrapNIC
<1>2. /\ BootstrapNIC # BootstrapVM
      /\ \A i \in N : /\ MasterNIC(i) # BootstrapNIC /\ MasterNIC(i) # BootstrapVM
                      /\ MasterVM(i) # BootstrapNIC /\ MasterVM(i) # BootstrapVM
      /\ \A i, j \in N : /\ MasterNIC(i) # MasterVM(j)
                         /\ MasterNIC(i) = MasterNIC(j) => i = j
                         /\ MasterVM(i) = MasterVM(j) => i = j
  BY DEF BootstrapNIC, BootstrapVM, MasterNIC, MasterVM
<1>3. /\ Bnic.type = "nic" /\ Bnic.name = BootstrapNIC /\ Bnic.dependsOn = {}
      /\ Bvm.type = "vm" /\ Bvm.name = BootstrapVM /\ Bvm.nic = BootstrapNIC
      /\ Bvm.dependsOn = {BootstrapNIC} /\ Bvm.zone = 0
      /\ Bnic.pools = {<<"internal">>} \cup External(outbound)
  BY DEF NIC, VM
<1>4. \A i \in N :
        /\ Mnic(i).type = "nic" /\ Mnic(i).name = MasterNIC(i) /\ Mnic(i).dependsOn = {}
        /\ Mvm(i).type = "vm" /\ Mvm(i).name = MasterVM(i) /\ Mvm(i).nic = MasterNIC(i)
        /\ Mvm(i).dependsOn = {MasterNIC(i)} /\ Mvm(i).zone = ZoneOf(zs, i)
        /\ Mnic(i).pools = {<<"internal">>, <<"ssh-", i>>} \cup External(outbound)
  BY DEF NIC, VM
<1> HIDE DEF R, N, Bnic, Mnic, Bvm, Mvm
<1>5. /\ vms = {Bvm} \cup {Mvm(i) : i \in N}
      /\ nics = {Bnic} \cup {Mnic(i) : i \in N}
  BY <1>1, <1>3, <1>4
<1>6. \A q, r \in R : q.name = r.name => q = r
  BY <1>1, <1>2, <1>3, <1>4
<1>7. {x.name : x \in nics} = {BootstrapNIC} \cup {MasterNIC(i) : i \in N}
  BY <1>3, <1>4, <1>5
<1>8. \A r \in R : r.dependsOn \subseteq {x.name : x \in nics}
  BY <1>1, <1>3, <1>4, <1>7
<1> HIDE DEF vms, nics
<1>9. /\ \A vm \in vms : vm.nic \in vm.dependsOn
      /\ \A v, w \in vms : v.nic = w.nic => v = w
  BY <1>2, <1>3, <1>4, <1>5
<1>10. \A nic \in nics : \E vm \in vms : vm.nic = nic.name
  BY <1>3, <1>4, <1>5
<1>11. ASSUME NEW m \in nics, NEW q \in nics, m # q
       PROVE  m.pools \cap q.pools = {<<"internal">>} \cup External(outbound)
  <2>1. \A i, j \in N : i # j => <<"ssh-", i>> # <<"ssh-", j>>
    OBVIOUS
  <2>2. \A i \in N : <<"ssh-", i>> # <<"internal">>
    OBVIOUS
  <2>3. m = Bnic \/ \E i \in N : m = Mnic(i)
    BY <1>5
  <2>4. q = Bnic \/ \E i \in N : q = Mnic(i)
    BY <1>5
  <2>5. QED
    BY <1>3, <1>4, <1>11, <2>1, <2>2, <2>3, <2>4
<1>12. ASSUME \A i, j \in 1..n : zs[i] = zs[j] => i = j,
              NEW v \in vms, NEW w \in vms, v.zone = w.zone, v.zone # 0
       PROVE  v = w
  <2>1. PICK i \in N : v = Mvm(i) /\ v.zone = ZoneOf(zs, i)
    BY <1>3, <1>4, <1>5, <1>12
  <2>2. PICK j \in N : w = Mvm(j) /\ w.zone = ZoneOf(zs, j)
    BY <1>3, <1>4, <1>5, <1>12
  <2>3. i + 1 \in 1..n /\ j + 1 \in 1..n
    BY DEF N
  <2>4. zs[i + 1] = zs[j + 1]
    BY <1>12, <2>1, <2>2 DEF ZoneOf
  <2>5. i = j
    <3>1. i + 1 = j + 1
      BY <1>12, <2>3, <2>4
    <3>2. QED
      BY <3>1 DEF N
  <2>6. QED
    BY <2>1, <2>2, <2>5
<1>13. QED
  BY <1>6, <1>8, <1>9, <1>10, <1>11, <1>12 DEF R, vms, nics

(* Different names are as many as what is named.                           *)
LEMMA ImageSize ==
  ASSUME NEW S, IsFiniteSet(S), NEW f, f \in [S -> {f[x] : x \in S}],
         \A x, y \in S : f[x] = f[y] => x = y
  PROVE  /\ IsFiniteSet({f[x] : x \in S})
         /\ Cardinality({f[x] : x \in S}) = Cardinality(S)
<1> DEFINE T == {f[x] : x \in S}
<1>1. \A y \in T : \E x \in S : f[x] = y
  OBVIOUS
<1> HIDE DEF T
<1>2. f \in Bijection(S, T)
  BY <1>1 DEF Bijection, Injection, Surjection, IsInjective, T
<1>3. ExistsBijection(S, T)
  BY <1>2 DEF ExistsBijection
<1>4. IsFiniteSet(T) /\ Cardinality(T) = Cardinality(S)
  BY <1>3, FS_Bijection
<1>5. QED
  BY <1>4 DEF T

\* The machines among the resources, and those of the control plane.
Machines(R) == {r \in R : r.type = "vm"}
Masters(zs) ==
    {VM(MasterVM(i), MasterNIC(i), {MasterNIC(i)}, ZoneOf(zs, i)) : i \in 0..2}
Bootstrap == VM(BootstrapVM, BootstrapNIC, {BootstrapNIC}, 0)

(* The template of Wanted machines has finitely many resources, and its    *)
(* machines are the bootstrap machine, without a zone, and the others.     *)
LEMMA TemplateParts ==
  ASSUME NEW zs, NEW outbound
  PROVE  /\ IsFiniteSet(Resources(Wanted, zs, outbound))
         /\ Machines(Resources(Wanted, zs, outbound)) = {Bootstrap} \cup Masters(zs)
<1> DEFINE R == Resources(Wanted, zs, outbound)
           N == 0..2
           Bnic == NIC(BootstrapNIC, {<<"internal">>} \cup External(outbound))
           Mnic(i) == NIC(MasterNIC(i), {<<"internal">>, <<"ssh-", i>>} \cup External(outbound))
           Bvm == VM(BootstrapVM, BootstrapNIC, {BootstrapNIC}, 0)
           Mvm(i) == VM(MasterVM(i), MasterNIC(i), {MasterNIC(i)}, ZoneOf(zs, i))
<1>1. Wanted - 1 = 2
  BY DEF Wanted
<1>2. R = {Bnic, Bvm} \cup {Mnic(i) : i \in N} \cup {Mvm(i) : i \in N}
  BY <1>1 DEF Resources, networkBootstrapNIC, networkMasterNICs, computeBootstrapVM,
     computeMasterVMs, DependsOn, MachineNIC, MasterNIC, BootstrapNIC
<1>3. N = {0, 1, 2}
  OBVIOUS
<1>4. Bnic.type = "nic" /\ Bvm.type = "vm" /\ \A i \in N : Mnic(i).type = "nic" /\ Mvm(i).type = "vm"
  BY DEF NIC, VM
<1> HIDE DEF R, N, Bnic, Mnic, Bvm, Mvm
<1>5. {r \in R : r.type = "vm"} = {Bvm} \cup {Mvm(i) : i \in N}
  BY <1>2, <1>4
<1>6. R = {Bnic, Bvm, Mnic(0), Mnic(1), Mnic(2), Mvm(0), Mvm(1), Mvm(2)}
  BY <1>2, <1>3
<1>7. IsFiniteSet(R)
  <2>1. IsFiniteSet({}) /\ \A S, x : IsFiniteSet(S) => IsFiniteSet(S \cup {x})
    BY FS_EmptySet, FS_AddElement
  <2>2. R = {} \cup {Bnic} \cup {Bvm} \cup {Mnic(0)} \cup {Mnic(1)} \cup {Mnic(2)}
              \cup {Mvm(0)} \cup {Mvm(1)} \cup {Mvm(2)}
    BY <1>6
  <2>3. QED
    BY <2>1, <2>2
<1>8. Machines(R) = {Bootstrap} \cup Masters(zs)
  BY <1>5 DEF Machines, Bootstrap, Masters, N, Bvm, Mvm
<1>9. QED
  BY <1>7, <1>8 DEF R

\* The list of zones of a region that has none.
NoZones == <<0>>

(* A template for no zones or for three different ones is sound.           *)
LEMMA SoundTemplate ==
  ASSUME NEW zs, NEW outbound,
         \/ zs = NoZones
         \/ /\ zs # NoZones /\ \A i \in 1..3 : zs[i] # 0
            /\ \A i, j \in 1..3 : zs[i] = zs[j] => i = j
  PROVE  FitsTogether(Resources(Wanted, zs, outbound), outbound)
<1> DEFINE R == Resources(Wanted, zs, outbound)
           vms == {r \in R : r.type = "vm"}
           nics == {r \in R : r.type = "nic"}
           placed == {vm \in vms : vm.zone # 0}
           N == 0..2
           Bvm == VM(BootstrapVM, BootstrapNIC, {BootstrapNIC}, 0)
           Mvm(i) == VM(MasterVM(i), MasterNIC(i), {MasterNIC(i)}, ZoneOf(zs, i))
<1>1. Wanted \in Nat /\ 1..Wanted = 1..3
  BY DEF Wanted
<1>2. /\ \A q, r \in R : q.name = r.name => q = r
      /\ \A r \in R : r.dependsOn \subseteq {x.name : x \in nics}
      /\ \A vm \in vms : vm.nic \in vm.dependsOn
      /\ \A nic \in nics : \E vm \in vms : vm.nic = nic.name
      /\ \A v, w \in vms : v.nic = w.nic => v = w
      /\ \A m, q \in nics : m # q =>
           m.pools \cap q.pools = {<<"internal">>} \cup External(outbound)
      /\ (\A i, j \in 1..Wanted : zs[i] = zs[j] => i = j) =>
           \A v, w \in vms : v.zone = w.zone => v = w \/ v.zone = 0
  BY <1>1, TemplateFitsTogether
<1>3. IsFiniteSet(R) /\ vms = {Bvm} \cup {Mvm(i) : i \in N}
  <2>1. IsFiniteSet(R) /\ Machines(R) = {Bootstrap} \cup Masters(zs)
    BY TemplateParts
  <2> HIDE DEF R
  <2>2. QED
    BY <2>1 DEF Machines, Bootstrap, Masters
<1>4. Bvm.zone = 0 /\ \A i \in N : Mvm(i).zone = ZoneOf(zs, i) /\ Mvm(i).name = MasterVM(i)
  BY DEF VM
<1>5. \A i, j \in N : MasterVM(i) = MasterVM(j) => i = j
  BY DEF MasterVM
<1>6. \A i \in N : i + 1 \in 1..3
  OBVIOUS
<1>7. IsFiniteSet(N) /\ Cardinality(N) = 3
  <2>1. \A c \in Nat \ {0} : IsFiniteSet(0..(c - 1)) /\ Cardinality(0..(c - 1)) = c
    BY FS_Interval
  <2>2. 3 \in Nat \ {0} /\ 3 - 1 = 2
    OBVIOUS
  <2>3. QED
    BY <2>1, <2>2
<1> HIDE DEF R, N, Bvm, Mvm, vms, nics
<1>8. Cardinality({r.name : r \in R}) = Cardinality(R)
  <2> DEFINE f == [r \in R |-> r.name]
  <2>1. {f[r] : r \in R} = {r.name : r \in R}
    OBVIOUS
  <2>2. f \in [R -> {f[r] : r \in R}] /\ \A q, r \in R : f[q] = f[r] => q = r
    BY <1>2
  <2> HIDE DEF f
  <2>3. Cardinality({f[r] : r \in R}) = Cardinality(R)
    BY <1>3, <2>2, ImageSize
  <2>4. QED
    BY <2>1, <2>3
<1>9. ASSUME NEW nic \in nics PROVE Cardinality({vm \in vms : vm.nic = nic.name}) = 1
  <2>1. PICK v \in vms : v.nic = nic.name
    BY <1>2
  <2>2. {vm \in vms : vm.nic = nic.name} = {v}
    BY <1>2, <2>1
  <2>3. QED
    BY <2>2, FS_Singleton
<1>10. /\ Cardinality(placed) \in {0, Wanted}
       /\ Cardinality({vm.zone : vm \in placed}) = Cardinality(placed)
  <2>1. CASE zs = NoZones
    <3>1. \A i \in N : ZoneOf(zs, i) = 0
      BY <2>1 DEF ZoneOf, NoZones
    <3>2. placed = {}
      BY <1>3, <1>4, <3>1
    <3>3. {vm.zone : vm \in placed} = {}
      BY <3>2
    <3>4. QED
      BY <3>2, <3>3, FS_EmptySet
  <2>2. CASE /\ zs # NoZones /\ \A i \in 1..3 : zs[i] # 0
             /\ \A i, j \in 1..3 : zs[i] = zs[j] => i = j
    <3> DEFINE m == [i \in N |-> Mvm(i)]
               z == [vm \in placed |-> vm.zone]
    <3>1. \A i \in N : ZoneOf(zs, i) # 0
      BY <1>6, <2>2 DEF ZoneOf, NoZones
    <3>2. placed = {m[i] : i \in N}
      <4>1. {Mvm(i) : i \in N} = {m[i] : i \in N}
        OBVIOUS
      <4>2. placed = {Mvm(i) : i \in N}
        BY <1>3, <1>4, <3>1
      <4>3. QED
        BY <4>1, <4>2
    <3>3. m \in [N -> {m[i] : i \in N}] /\ \A i, j \in N : m[i] = m[j] => i = j
      BY <1>4, <1>5
    <3> HIDE DEF m
    <3>4. IsFiniteSet({m[i] : i \in N}) /\ Cardinality({m[i] : i \in N}) = 3
      BY <1>7, <3>3, ImageSize
    <3>5. IsFiniteSet(placed) /\ Cardinality(placed) = Wanted
      BY <3>2, <3>4 DEF Wanted
    <3>6. \A v, w \in placed : v.zone = w.zone => v = w
      BY <1>1, <1>2, <2>2
    <3> HIDE DEF placed
    <3>7. {z[vm] : vm \in placed} = {vm.zone : vm \in placed}
      OBVIOUS
    <3>8. z \in [placed -> {z[vm] : vm \in placed}] /\ \A v, w \in placed : z[v] = z[w] => v = w
      BY <3>6
    <3> HIDE DEF z
    <3>9. Cardinality({z[vm] : vm \in placed}) = Cardinality(placed)
      BY <3>5, <3>8, ImageSize
    <3>10. QED
      BY <3>5, <3>7, <3>9
  <2>3. QED
    BY <2>1, <2>2
<1>11. QED
  BY <1>2, <1>8, <1>9, <1>10 DEF FitsTogether, R, vms, nics

(* The template that deployResourceTemplate makes from the install config is *)
(* sound, whatever zones Azure listed: the list it picks the machines' zones *)
(* from has three different ones or is that of a region without zones.     *)
THEOREM TemplateHolds == Spec => []TemplateIsSound
<1>1. ASSUME ZoneInv PROVE TemplateIsSound
  <2> SUFFICES ASSUME pc = "done" PROVE TemplateIsSound
    BY DEF TemplateIsSound
  <2> DEFINE zs == Contents(config["controlPlane"].zones)
             S == LowestOf(Usable("controlPlane"))
  <2>1. Spread(zs, S) /\ (zs # NoZones => Len(zs) = 3)
    BY <1>1 DEF ZoneInv, PoolsAreSpread, Wanted, NoZones
  <2>2. S \subseteq Nat \ {0}
    <3>1. GoodList(listed["controlPlane"])
      BY <1>1 DEF ZoneInv, Kinds
    <3>2. ToSet(listed["controlPlane"]) \subseteq Nat \ {0}
      BY <3>1 DEF GoodList, ToSet
    <3>3. S \subseteq ToSet(listed["controlPlane"])
      BY DEF LowestOf, Usable, Eligible
    <3>4. QED
      BY <3>2, <3>3
  <2> HIDE DEF zs, S
  <2>3. ASSUME zs # NoZones
        PROVE  /\ \A i \in 1..3 : zs[i] # 0
               /\ \A i, j \in 1..3 : zs[i] = zs[j] => i = j
    <3>1. AscOf(zs, S) /\ Len(zs) = 3
      BY <2>1, <2>3 DEF Spread, NoZones
    <3>2. zs \in Seq(Nat) /\ DOMAIN zs = 1..3
      BY <3>1 DEF AscOf
    <3>3. S = {zs[i] : i \in 1..3}
      BY <3>1, <3>2 DEF AscOf, ToSet
    <3>4. \A i \in 1..3 : zs[i] \in S /\ zs[i] \in Nat
      BY <2>2, <3>3
    <3>5. \A i, j \in 1..3 : i < j => zs[i] < zs[j]
      BY <3>1 DEF AscOf
    <3>6. ASSUME NEW i \in 1..3, NEW j \in 1..3, zs[i] = zs[j] PROVE i = j
      <4>1. ~(i < j) /\ ~(j < i)
        BY <3>4, <3>5, <3>6
      <4>2. QED
        BY <4>1
    <3>7. QED
      BY <2>2, <3>4, <3>6
  <2>4. \A outbound : FitsTogether(Resources(Wanted, zs, outbound), outbound)
    BY <2>3, SoundTemplate
  <2>5. \A outbound : Template(outbound) = Resources(Wanted, zs, outbound)
    BY DEF Template, zs
  <2>6. QED
    BY <2>4, <2>5 DEF TemplateIsSound
<1>2. QED
  BY <1>1, ZoneInvInit, ZoneInvNext, PTL DEF Spec

-----------------------------------------------------------------------------
(* The image.                                                              *)

\* From when it is chosen the image is that of the generations that were read,
\* of which each kind of machine has one; both pools of the config have it.
ImageInv ==
    /\ pc \in {"config", "complete", "done"} =>
         /\ \A k \in Kinds : gens[k] # {} /\ gens[k] \subseteq {"V1", "V2"}
         /\ image = IF NeedsV2(gens) THEN "V2" ELSE "V1"
    /\ pc \in {"complete", "done"} => \A k \in Kinds : config[k].image = image

(* generateInstallConfig chooses the image once, from both kinds' SKUs.    *)
LEMMA ImageInvNext == ImageInv /\ [Next]_vars => ImageInv'
<1> SUFFICES ASSUME ImageInv, [Next]_vars PROVE ImageInv'
  OBVIOUS
<1> USE DEF ImageInv, Fail, Reads, NeedsV2, V2Only
<1>1. CASE ReadDocument
  BY <1>1 DEF ReadDocument
<1>2. CASE ReadZones \/ UnknownSize
  BY <1>2 DEF ReadZones, UnknownSize
<1>3. CASE SortZones \/ FilterZones \/ CountZones
  BY <1>3 DEF SortZones, FilterZones, CountZones
<1>4. CASE ReadDiskSets
  BY <1>4 DEF ReadDiskSets
<1>5. CASE ChooseImage
  BY <1>5 DEF ChooseImage, HasCapabilities
<1>6. CASE BuildConfig
  BY <1>6 DEF BuildConfig
<1>7. CASE Complete
  BY <1>7 DEF Complete
<1>8. CASE Ended \/ UNCHANGED vars
  BY <1>8 DEF Ended, vars
<1>9. QED
  BY <1>1, <1>2, <1>3, <1>4, <1>5, <1>6, <1>7, <1>8 DEF Next

(* The image generation that generateInstallConfig picks boots every machine *)
(* of both pools whenever the two SKUs have a generation in common.        *)
THEOREM ImageFitsBothPools == Spec => []ImageFitsAll
<1>1. Init => ImageInv
  BY DEF Init, ImageInv
<1>2. ImageInv => ImageFitsAll
  BY DEF ImageInv, ImageFitsAll, NeedsV2, V2Only, Kinds
<1>3. QED
  BY <1>1, <1>2, ImageInvNext, PTL DEF Spec

================================================================================
