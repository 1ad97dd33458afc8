------------------------------- MODULE PullSecret -------------------------------
(***************************************************************************)
(* The cluster's pull secret: the service's own (ARO_PULL_SECRET), the     *)
(* customer's over it, and the credentials of the registry profiles over   *)
(* both.  Pure functions on texts; what JSON makes of a text is its form   *)
(* and the entry of each registry.  A registry may have the entry null.    *)
(***************************************************************************)
EXTENDS Naturals, SequencesExt

Text(form, auths) == [form |-> form, auths |-> auths]
Empty == Text("empty", << >>)
Garbage == Text("garbage", << >>)
Null == Text("null", << >>)
Json(auths) == Text("json", auths)

\* What a function returns instead of a text, or does.
Error == Text("error", << >>)
Panic == Text("panic", << >>)
IsText(t) == t.form \notin {"error", "panic"}

\* json.Unmarshal into a *pullSecret; the text null leaves the pointer nil.
Unmarshal(t) ==
    CASE t.form = "empty" -> Json(<< >>)
      [] t.form = "garbage" -> Error
      [] OTHER -> t

\* A Go map returns nil, which is also the entry null, for what is not there.
Entry(auths, k) == IF k \in DOMAIN auths THEN auths[k] ELSE "null"

\* Mutated: the entries of base win.
MergeUnder(_base, _ps) ==
    LET base == Unmarshal(_base)  ps == Unmarshal(_ps) IN
    IF Error \in {base, ps} THEN Error
    ELSE IF Null \in {base, ps} THEN Panic
    ELSE Json(base.auths @@ ps.auths)

\* ps over base.  An entry that equals base's is left alone, so a null for a
\* registry that base does not have is dropped.  Reading ps through a nil
\* pointer panics, and so does reading base where there is something to merge.
Merge(_base, _ps) ==
    LET base == Unmarshal(_base)  ps == Unmarshal(_ps)
        differs == {k \in DOMAIN ps.auths : Entry(base.auths, k) # ps.auths[k]}
    IN IF Error \in {base, ps} THEN Error
       ELSE IF ps = Null \/ (base = Null /\ DOMAIN ps.auths # {}) THEN Panic
       ELSE IF base = Null THEN Null
       ELSE Json([k \in DOMAIN base.auths \cup differs |->
                    IF k \in differs THEN ps.auths[k] ELSE base.auths[k]])

\* An assignment to a Go map.
SetEntry(auths, k, v) ==
    [n \in DOMAIN auths \cup {k} |-> IF n = k THEN v ELSE auths[n]]

\* The credentials of each registry profile in turn.
SetProfiles(auths, rps) ==
    LET after[i \in 0..Len(rps)] ==
          IF i = 0 THEN auths ELSE SetEntry(after[i - 1], rps[i].name, rps[i].auth)
    IN after[Len(rps)]

SetRegistryProfiles(_ps, rps) ==
    LET ps == Unmarshal(_ps) IN
    IF ps = Error THEN Error
    ELSE IF ps = Null THEN Panic
    ELSE Json(SetProfiles(ps.auths, rps))

RemoveKey(_ps, key) ==
    LET ps == Unmarshal(_ps) IN
    IF ps = Error THEN Error
    ELSE IF ps = Null THEN Panic
    ELSE Json([k \in DOMAIN ps.auths \ {key} |-> ps.auths[k]])

\* Mutated: the customer's secret is merged over the registry profiles.
ProfilesFirst(env, ps, rps) ==
    LET set == SetRegistryProfiles(env, rps) IN
    IF IsText(set) THEN Merge(set, ps) ELSE set
Build(env, ps, rps) ==
    LET merged == Merge(env, ps) IN
    IF IsText(merged) THEN SetRegistryProfiles(merged, rps) ELSE merged

================================================================================
