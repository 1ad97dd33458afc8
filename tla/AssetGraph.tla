------------------------------ MODULE AssetGraph ------------------------------
(***************************************************************************)
(* The in-memory asset graph of one `create manifests`: what               *)
(* applyInstallConfigCustomisations sets and resolves, and what the        *)
(* command resolves again and writes to the assets directory; and what a   *)
(* later `create cluster`, which may be another version of the program,    *)
(* decodes of the graph that was persisted.                                *)
(*                                                                         *)
(* Graph.Resolve is a recursive depth-first walk; here its call stack is a *)
(* sequence of frames and every call and every return is a step.  The      *)
(* dependencies of an asset are taken in any order (the code's is one of   *)
(* them).  Assets are numbered along their dependencies, as any finite     *)
(* acyclic graph can be.                                                   *)
(***************************************************************************)
EXTENDS Naturals, Sequences

CONSTANT Assets  \* the types of assets; a dependency has the smaller number

ASSUME AssetsAreNumbered == Assets \subseteq Nat \ {0}

VARIABLES
    deps,       \* Dependencies() of every asset
    overrides,  \* the assets given to the graph before resolution
    targets,    \* targetassets.IgnitionConfigs
    g,          \* the Graph: what was generated or set, by type
    made,       \* Generate calls so far
    stack,      \* calls of Resolve that wait for a dependency, the last on top
    phase,      \* which loop over the targets is running, and how it ended
    target,     \* the target being handled, 0 for none
    todo,       \* the targets this loop has not handled
    saved,      \* the graph in storage: for each asset the call that made it,
                \* 0 where that was a call of an earlier run
    read        \* what `create cluster` asked of it and got

input == <<deps, overrides, targets>>
disk == <<saved, read>>
vars == <<input, g, made, stack, phase, target, todo, disk>>

-----------------------------------------------------------------------------
\* What is in the graph: the Generate call that made it, 1 for what was set,
\* and which contents of its parents that call saw.
Given == [made |-> 1, saw |-> [d \in {} |-> 0]]

\* The fields that one version of the program writes of an asset, and those that
\* another knows: it may have dropped some and may have new ones.
Written == {"kept", "dropped"}
Schemas == {S \in SUBSET (Written \cup {"new"}) : "kept" \in S}

Frame == [asset : Assets, left : SUBSET Assets]

TypeOK ==
    /\ deps \in [Assets -> SUBSET Assets]
    /\ overrides \subseteq Assets /\ targets \subseteq Assets
    /\ DOMAIN g \subseteq Assets
    /\ \A a \in DOMAIN g :
         \E S \in SUBSET Assets : g[a] \in [made : 1..made, saw : [S -> Nat]]
    /\ made \in Nat
    /\ stack \in Seq(Frame)
    /\ phase \in {"resolve", "customise", "write", "done", "failed", "panicked",
                 "loaded", "refused"}
    /\ saved \in [DOMAIN saved -> 0..made] /\ DOMAIN saved \subseteq Assets
    /\ read \in [asset : Assets \cup {0}, schema : Schemas, fields : SUBSET Written]
    /\ target \in Assets \cup {0}
    /\ todo \subseteq targets

\* What the targets need: the least set that holds them and, with every asset
\* that was not given, its dependencies.
Needed ==
    {a \in Assets : \A S \in SUBSET Assets :
        (targets \subseteq S /\ \A b \in S \ overrides : deps[b] \subseteq S) => a \in S}

\* Nothing in storage, or what an earlier run with the same targets persisted.
NoGraph == [a \in {} |-> 0]
Earlier == [a \in overrides \cup Needed |-> 0]

\* g.Set(installConfig, image, clusterID, boundSASigningKey); then the targets.
Init ==
    /\ deps \in [Assets -> SUBSET Assets]
    /\ \A a \in Assets : \A d \in deps[a] : d < a
    /\ overrides \in SUBSET Assets
    /\ targets \in SUBSET Assets \ {{}}
    /\ g = [a \in overrides |-> Given]
    /\ made = 1
    /\ stack = << >>
    /\ phase = "resolve" /\ target = 0 /\ todo = targets
    /\ saved \in {NoGraph, Earlier}
    /\ read = [asset |-> 0, schema |-> Written, fields |-> {}]

-----------------------------------------------------------------------------
\* Graph.Get(a) # nil.  Mutated: whatever was set beforehand is not looked at.
PresentUnlessSet(a) == a \in DOMAIN g /\ g[a].made > 1
Present(a) == a \in DOMAIN g

Top == stack[Len(stack)]
Below == SubSeq(stack, 1, Len(stack) - 1)

\* Resolve(a) returns at once or starts on the dependencies of a.
Enter(a, below) ==
    stack' = IF Present(a) THEN below
             ELSE Append(below, [asset |-> a, left |-> deps[a]])

Running == phase \in {"resolve", "write"}

\* The loop over the targets calls Resolve.
NextTarget ==
    /\ Running /\ target = 0
    /\ \E t \in todo :
         /\ target' = t
         /\ todo' = todo \ {t}
         /\ Enter(t, << >>)
    /\ UNCHANGED <<input, g, made, phase, disk>>

\* Resolve calls itself for a dependency.
Descend ==
    /\ stack # << >>
    /\ \E d \in Top.left :
         Enter(d, Append(Below, [Top EXCEPT !.left = @ \ {d}]))
    /\ UNCHANGED <<input, g, made, phase, target, todo, disk>>

\* The dependencies Resolve waits for before it generates.  Mutated: the last
\* one is forgotten.
AlmostReady(f) == \A d, e \in f.left : d = e
Ready(f) == f.left = {}

\* Graph.Set of the asset that was just generated.
Set(a) ==
    LET v == [made |-> made', saw |-> [d \in deps[a] \cap DOMAIN g |-> g[d].made]] IN
    g' = [b \in DOMAIN g \cup {a} |-> IF b = a THEN v ELSE g[b]]

\* Every dependency is resolved: the asset is generated from the graph and set.
Generate ==
    /\ stack # << >> /\ Ready(Top)
    /\ made' = made + 1
    /\ Set(Top.asset)
    /\ stack' = Below
    /\ UNCHANGED <<input, phase, target, todo, disk>>

\* Generate fails, and so does every call on the stack.  The command's second
\* loop goes on to assert the type of what is not in the graph.
GenerateFails ==
    /\ stack # << >> /\ Ready(Top)
    /\ made' = made + 1
    /\ stack' = << >>
    /\ phase' = IF phase = "resolve" THEN "failed" ELSE "panicked"
    /\ UNCHANGED <<input, g, target, todo, disk>>

\* Resolve of the target has returned.
Resolved ==
    /\ phase = "resolve" /\ target # 0 /\ stack = << >>
    /\ target' = 0
    /\ UNCHANGED <<input, g, made, stack, phase, todo, disk>>

\* PersistToFile(g.Get(m)): the target is in the graph or the assertion of its
\* type panics; the write may fail.
Write ==
    /\ phase = "write" /\ target # 0 /\ stack = << >>
    /\ phase' \in IF target \in DOMAIN g THEN {"write", "failed"} ELSE {"panicked"}
    /\ target' = 0
    /\ UNCHANGED <<input, g, made, stack, todo, disk>>

\* When a loop over the targets ends.  Mutated: it stops before the last one.
LastOneLeft == \A t, u \in todo : t = u
AllHandled == todo = {}

\* A loop has handled its targets.
LoopEnds ==
    /\ Running /\ target = 0 /\ AllHandled
    /\ phase' = IF phase = "resolve" THEN "customise" ELSE "done"
    /\ UNCHANGED <<input, g, made, stack, target, todo, disk>>

\* What the second loop handles.  Mutated: all there is in the graph.
WholeGraph == DOMAIN g
SecondLoop == targets

\* graph.Exists, and the graph that is in storage after persistGraph.
Exists == saved # NoGraph
Persisted == IF Exists THEN saved ELSE [a \in DOMAIN g |-> g[a].made]

\* The customisations edit assets in place and the whole graph is persisted,
\* unless there is an earlier one, or that fails; then the command's own loop
\* starts.
Customise ==
    /\ phase = "customise"
    /\ \/ /\ phase' = "write" /\ todo' = SecondLoop
          /\ saved' = Persisted
       \/ phase' = "failed" /\ UNCHANGED <<todo, saved>>
    /\ UNCHANGED <<input, g, made, stack, target, read>>

\* json.Decoder with DisallowUnknownFields: whether it takes what was written.
\* Mutated: without, it skips what it does not know.
Leniently(schema) == TRUE
Decodes(schema) == Written \subseteq schema

\* PersistedGraph.Get, for what was given to the graph (the install config),
\* wanted of it (the masters' pointer config) or needed for that (the bootstrap
\* machine's kubeconfig).  There is no text to decode where the asset was not
\* persisted.
GetPersisted ==
    /\ phase = "done"
    /\ \E a \in targets \cup overrides \cup UNION {deps[t] : t \in targets \ overrides},
          schema \in Schemas :
         LET ok == a \in DOMAIN saved /\ Decodes(schema) IN
         /\ phase' = IF ok THEN "loaded" ELSE "refused"
         /\ read' = [asset |-> a, schema |-> schema,
                     fields |-> IF ok THEN Written \cap schema ELSE {}]
    /\ UNCHANGED <<input, g, made, stack, target, todo, saved>>

Ended == phase \in {"failed", "panicked", "loaded", "refused"} /\ UNCHANGED vars

Step ==
    \/ NextTarget \/ Descend \/ Generate \/ GenerateFails \/ Resolved
    \/ LoopEnds \/ Customise \/ Write \/ GetPersisted

Next == Step \/ Ended

Spec == Init /\ [][Next]_vars

-----------------------------------------------------------------------------
(* Properties.                                                             *)

\* The graph is filled in an order of the dependencies: one asset at a time,
\* one that is needed and not there, with all that it depends on already
\* there; nothing that is there is ever generated again.
FillsInOrder ==
    [][g' # g => \E a \in Needed \ DOMAIN g :
          /\ deps[a] \subseteq DOMAIN g
          /\ DOMAIN g' = DOMAIN g \cup {a}
          /\ \A b \in DOMAIN g : g'[b] = g[b]]_vars

\* Everything in the graph was made from the contents that are in the graph:
\* two assets that share a parent saw the same parent.
OneSnapshot ==
    \A a \in DOMAIN g \ overrides :
        /\ deps[a] \subseteq DOMAIN g[a].saw
        /\ \A d \in deps[a] : d \in DOMAIN g /\ g[a].saw[d] = g[d].made

\* Once the first loop is done the graph is what was given and what the targets
\* need, and the command's own loop finds every target in it: after the graph
\* is customised and persisted nothing is generated, so nothing can be missing
\* when the type of the asset is asserted.
SecondLoopOnlyReads ==
    phase \in {"customise", "write", "done", "panicked", "loaded", "refused"} =>
        /\ DOMAIN g = overrides \cup Needed
        /\ stack = << >>

\* `create cluster` gets an asset with every field that was written of it, out of
\* a graph that is all of one run, this one's as the last call of Generate made it
\* or the earlier one's, or it gets nothing; and it is refused only by a version
\* of the program that has dropped a field: all it asks for is there.
LoadIsExact ==
    /\ phase = "loaded" =>
         /\ read.fields = Written /\ read.asset \in DOMAIN saved
         /\ \/ saved = Earlier
            \/ \A a \in DOMAIN saved : saved[a] = g[a].made
    /\ phase = "refused" => ~(Written \subseteq read.schema)

================================================================================
