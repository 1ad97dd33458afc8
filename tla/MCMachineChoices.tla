---------------------------- MODULE MCMachineChoices ----------------------------
(* Model-checking instances of MachineChoices.                             *)
EXTENDS MachineChoices

\* In the order of strings: "1", "10", "2", "3".
MCZones == 1..4
MCNumber == <<1, 10, 2, 3>>
MCBasicAZs == {1, 3, 4}

\* Two registries, one of which is to be removed, each with one of two
\* credentials, a null or nothing; two profiles at most.
MCRegistries == {CloudKey, "registry"}
MCTexts ==
    {Empty, Garbage, Null} \cup
    {Json(a) : a \in UNION {[S -> {"null", "x", "y"}] : S \in SUBSET MCRegistries}}
MCProfiles ==
    LET Profile == [name : MCRegistries, auth : {"x", "z"}]
    IN UNION {[1..n -> Profile] : n \in 0..2}
================================================================================
