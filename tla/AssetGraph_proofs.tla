--------------------------- MODULE AssetGraph_proofs ---------------------------
(***************************************************************************)
(* Theorems about AssetGraph, for every set of assets, every acyclic       *)
(* relation between them, every choice of what is given and of what is     *)
(* wanted, and every order in which Resolve takes the dependencies.        *)
(***************************************************************************)
EXTENDS AssetGraph, SequenceTheorems, TLAPS

-----------------------------------------------------------------------------
(* What the targets need.                                                  *)

Acyclic == \A a \in Assets : \A d \in deps[a] : d < a

(* The targets are needed, and so is what a needed asset that was not given *)
(* depends on; no closed set of assets that holds the targets leaves one    *)
(* out.                                                                    *)
LEMMA NeededIsLeast ==
  ASSUME TypeOK
  PROVE  /\ Needed \subseteq Assets /\ targets \subseteq Needed
         /\ \A a \in Needed \ overrides : deps[a] \subseteq Needed
         /\ \A S \in SUBSET Assets :
              (targets \subseteq S /\ \A b \in S \ overrides : deps[b] \subseteq S)
                  => Needed \subseteq S
<1>1. Needed \subseteq Assets /\ targets \subseteq Needed
  BY DEF TypeOK, Needed
<1>2. ASSUME NEW a \in Needed \ overrides, NEW d \in deps[a]
      PROVE  d \in Needed
  BY <1>1 DEF TypeOK, Needed
<1>3. ASSUME NEW S \in SUBSET Assets,
             targets \subseteq S, \A b \in S \ overrides : deps[b] \subseteq S
      PROVE  Needed \subseteq S
  BY <1>3 DEF Needed
<1>4. QED
  BY <1>1, <1>2, <1>3

-----------------------------------------------------------------------------
(* The call stack of Resolve.                                              *)

\* The calls of s are for assets that are needed and not in D, each for a
\* dependency of the one below; of what an asset depends on, all that is not
\* left is in D, but for what the call above it is for, or, at the top, for X.
Chained(s, D, X) ==
    /\ \A k \in 1..Len(s) :
         s[k].asset \in Needed \ D /\ s[k].left \subseteq deps[s[k].asset]
    /\ \A j, k \in 1..Len(s) : j < k => s[k].asset < s[j].asset
    /\ \A k \in 1..Len(s) : \A d \in deps[s[k].asset] \ s[k].left :
         \/ d \in D
         \/ k < Len(s) /\ d = s[k + 1].asset
         \/ k = Len(s) /\ d \in X

(* The return of a call leaves the calls below it.                         *)
LEMMA BelowTop ==
  ASSUME TypeOK, stack # << >>
  PROVE  /\ Len(stack) \in Nat \ {0} /\ Top \in Frame
         /\ Below \in Seq(Frame) /\ Len(Below) = Len(stack) - 1
         /\ \A k \in 1..Len(Below) : Below[k] = stack[k]
<1>1. stack \in Seq(Frame)
  BY DEF TypeOK
<1>2. Len(stack) \in Nat \ {0} /\ \A k \in 1..Len(stack) : stack[k] \in Frame
  BY <1>1, EmptySeq, ElementOfSeq
<1> DEFINE n == Len(stack) - 1
<1>3. n \in Nat /\ 1 \in Int /\ \A k \in 1..n : stack[k] \in Frame
  BY <1>2
<1>4. /\ SubSeq(stack, 1, n) \in Seq(Frame)
      /\ Len(SubSeq(stack, 1, n)) = IF 1 <= n THEN n - 1 + 1 ELSE 0
      /\ \A k \in 1..(n - 1 + 1) : SubSeq(stack, 1, n)[k] = stack[1 + k - 1]
  <2> HIDE DEF n
  <2> QED
    BY <1>3, SubSeqProperties
<1>5. Below \in Seq(Frame) /\ Len(Below) = n /\ \A k \in 1..n : Below[k] = stack[k]
  <2>1. Below = SubSeq(stack, 1, n)
    BY DEF Below
  <2> HIDE DEF n
  <2>2. (IF 1 <= n THEN n - 1 + 1 ELSE 0) = n /\ n - 1 + 1 = n
    BY <1>3
  <2>3. \A k \in 1..n : 1 + k - 1 = k
    BY <1>3
  <2>4. QED
    BY <1>4, <2>1, <2>2, <2>3
<1>6. Top \in Frame
  BY <1>2 DEF Top
<1>7. QED
  BY <1>2, <1>5, <1>6

(* A call that has returned has put its asset into the graph.              *)
LEMMA ChainedPop ==
  ASSUME TypeOK, stack # << >>, NEW D, Chained(stack, D, {})
  PROVE  Chained(Below, D \cup {Top.asset}, {})
<1> DEFINE s == Below
           n == Len(stack)
<1>1. n \in Nat \ {0} /\ Len(s) = n - 1 /\ \A k \in 1..(n - 1) : s[k] = stack[k]
  BY BelowTop
<1>2. /\ \A k \in 1..n :
           stack[k].asset \in Needed \ D /\ stack[k].left \subseteq deps[stack[k].asset]
      /\ \A j, k \in 1..n : j < k => stack[k].asset < stack[j].asset
      /\ \A k \in 1..n : \A d \in deps[stack[k].asset] \ stack[k].left :
           d \in D \/ (k < n /\ d = stack[k + 1].asset)
  BY DEF Chained
<1>a. Top = stack[n] /\ \A k \in 1..n : stack[k].asset \in Nat
  BY <1>2, NeededIsLeast, AssetsAreNumbered DEF Top
<1> HIDE DEF s, n
<1>3. ASSUME NEW k \in 1..Len(s)
      PROVE  /\ s[k].asset \in Needed \ (D \cup {Top.asset})
             /\ s[k].left \subseteq deps[s[k].asset]
  <2>1. k \in 1..n /\ n \in 1..n /\ k < n /\ s[k] = stack[k]
    BY <1>1
  <2>2. stack[n].asset < stack[k].asset
    BY <1>2, <2>1
  <2>3. stack[n].asset # stack[k].asset
    BY <1>a, <2>1, <2>2
  <2>4. QED
    BY <1>2, <1>a, <2>1, <2>3
<1>4. ASSUME NEW j \in 1..Len(s), NEW k \in 1..Len(s), j < k
      PROVE  s[k].asset < s[j].asset
  BY <1>1, <1>2, <1>4
<1>5. ASSUME NEW k \in 1..Len(s), NEW d \in deps[s[k].asset] \ s[k].left
      PROVE  \/ d \in D \cup {Top.asset}
             \/ k < Len(s) /\ d = s[k + 1].asset
  <2>1. k \in 1..n /\ k < n /\ s[k] = stack[k]
    BY <1>1
  <2>2. d \in D \/ d = stack[k + 1].asset
    BY <1>2, <2>1
  <2>3. CASE k + 1 = n
    BY <1>a, <2>2, <2>3
  <2>4. CASE k + 1 # n
    BY <1>1, <2>1, <2>2, <2>4
  <2>5. QED
    BY <2>3, <2>4
<1>6. QED
  BY <1>3, <1>4, <1>5 DEF Chained, s

(* Resolve takes a dependency of the asset at the top: it is not left any  *)
(* more, and nothing is known of it yet.                                   *)
LEMMA ChainedTake ==
  ASSUME TypeOK, stack # << >>, NEW D, Chained(stack, D, {}), NEW d \in Top.left
  PROVE  LET s == Append(Below, [Top EXCEPT !.left = @ \ {d}])
         IN  /\ s \in Seq(Frame) /\ Len(s) = Len(stack)
             /\ Chained(s, D, {d})
             /\ \A k \in 1..Len(s) : s[k].asset = stack[k].asset
<1> DEFINE f == [Top EXCEPT !.left = @ \ {d}]
           s == Append(Below, f)
           n == Len(stack)
<1>1. /\ n \in Nat \ {0} /\ Top \in Frame /\ Top = stack[n]
      /\ Below \in Seq(Frame) /\ Len(Below) = n - 1
      /\ \A k \in 1..(n - 1) : Below[k] = stack[k]
  BY BelowTop DEF Top
<1>2. f \in Frame /\ f.asset = Top.asset /\ f.left = Top.left \ {d}
  BY <1>1 DEF Frame
<1>3. /\ s \in Seq(Frame) /\ Len(s) = n /\ s[n] = f
      /\ \A k \in 1..(n - 1) : s[k] = stack[k]
  <2>1. /\ s \in Seq(Frame) /\ Len(s) = Len(Below) + 1 /\ s[Len(Below) + 1] = f
        /\ \A k \in 1..Len(Below) : s[k] = Below[k]
    <3> HIDE DEF f
    <3> QED
      BY <1>1, <1>2, AppendProperties
  <2> HIDE DEF s, n, f
  <2>2. Len(Below) + 1 = n
    BY <1>1
  <2>3. QED
    BY <1>1, <2>1, <2>2
<1>4. /\ \A k \in 1..n :
           stack[k].asset \in Needed \ D /\ stack[k].left \subseteq deps[stack[k].asset]
      /\ \A j, k \in 1..n : j < k => stack[k].asset < stack[j].asset
      /\ \A k \in 1..n : \A e \in deps[stack[k].asset] \ stack[k].left :
           e \in D \/ (k < n /\ e = stack[k + 1].asset)
  BY DEF Chained
<1> HIDE DEF s, n, f
<1>5. \A k \in 1..n : s[k].asset = stack[k].asset /\ s[k].left \subseteq stack[k].left
  <2> SUFFICES ASSUME NEW k \in 1..n
               PROVE  s[k].asset = stack[k].asset /\ s[k].left \subseteq stack[k].left
    OBVIOUS
  <2>1. CASE k = n
    BY <1>1, <1>2, <1>3, <2>1
  <2>2. CASE k # n
    BY <1>1, <1>3, <2>2
  <2>3. QED
    BY <2>1, <2>2
<1>6. ASSUME NEW k \in 1..n, NEW e \in deps[s[k].asset] \ s[k].left
      PROVE  \/ e \in D
             \/ k < n /\ e = s[k + 1].asset
             \/ k = n /\ e \in {d}
  <2>1. CASE k = n
    BY <1>1, <1>2, <1>3, <1>4, <2>1
  <2>2. CASE k # n
    <3>1. k \in 1..(n - 1) /\ k + 1 \in 1..n /\ s[k] = stack[k]
      BY <1>1, <1>3, <2>2
    <3>2. e \in D \/ (k < n /\ e = stack[k + 1].asset)
      BY <1>4, <3>1
    <3>3. s[k + 1].asset = stack[k + 1].asset
      BY <1>5, <3>1
    <3>4. QED
      BY <3>2, <3>3
  <2>3. QED
    BY <2>1, <2>2
<1>7. Chained(s, D, {d})
  BY <1>3, <1>4, <1>5, <1>6 DEF Chained
<1>8. QED
  BY <1>3, <1>5, <1>7 DEF s, n, f

(* Resolve is called for an asset: it is in the graph and the call returns *)
(* at once, or the call waits for the asset's dependencies.                *)
LEMMA ChainedEnter ==
  ASSUME TypeOK, NEW s \in Seq(Frame), NEW a \in Needed, Enter(a, s),
         Chained(s, DOMAIN g, {a}), \A k \in 1..Len(s) : a < s[k].asset
  PROVE  /\ stack' \in Seq(Frame)
         /\ Chained(stack', DOMAIN g, {})
         /\ s = << >> /\ a \in DOMAIN g => stack' = << >>
         /\ s = << >> /\ a \notin DOMAIN g => stack' # << >> /\ stack'[1].asset = a
         /\ s # << >> => stack' # << >> /\ stack'[1].asset = s[1].asset
<1> DEFINE D == DOMAIN g
           n == Len(s)
<1>1. /\ \A k \in 1..n :
           s[k].asset \in Needed \ D /\ s[k].left \subseteq deps[s[k].asset]
      /\ \A j, k \in 1..n : j < k => s[k].asset < s[j].asset
      /\ \A k \in 1..n : \A e \in deps[s[k].asset] \ s[k].left :
           e \in D \/ (k < n /\ e = s[k + 1].asset) \/ (k = n /\ e \in {a})
  BY DEF Chained
<1>2. n \in Nat /\ (s # << >> => n # 0) /\ (s = << >> => n = 0)
  BY EmptySeq, LenProperties
<1>3. CASE a \in D
  <2>1. stack' = s
    BY <1>3 DEF Enter, Present
  <2>2. Chained(s, D, {})
    BY <1>1, <1>3 DEF Chained
  <2>3. QED
    BY <1>3, <2>1, <2>2
<1>4. CASE a \notin D
  <2> DEFINE f == [asset |-> a, left |-> deps[a]]
             u == Append(s, f)
  <2>1. stack' = u
    BY <1>4 DEF Enter, Present
  <2>2. f \in Frame /\ f.asset = a /\ f.left = deps[a]
    BY NeededIsLeast DEF Frame, TypeOK
  <2>3. /\ u \in Seq(Frame) /\ u # << >> /\ Len(u) = n + 1 /\ u[n + 1] = f
        /\ \A k \in 1..n : u[k] = s[k]
    <3> HIDE DEF f
    <3> QED
      BY <2>2, AppendProperties
  <2> HIDE DEF u, f, n
  <2>4. ASSUME NEW k \in 1..(n + 1)
        PROVE  u[k].asset \in Needed \ D /\ u[k].left \subseteq deps[u[k].asset]
    <3>1. CASE k = n + 1
      BY <1>4, <2>2, <2>3, <3>1
    <3>2. CASE k # n + 1
      BY <1>1, <1>2, <2>3, <3>2
    <3>3. QED
      BY <3>1, <3>2
  <2>5. ASSUME NEW j \in 1..(n + 1), NEW k \in 1..(n + 1), j < k
        PROVE  u[k].asset < u[j].asset
    <3>1. j \in 1..n /\ u[j] = s[j]
      BY <1>2, <2>3, <2>5
    <3>2. CASE k = n + 1
      BY <2>2, <2>3, <3>1, <3>2 DEF n
    <3>3. CASE k # n + 1
      BY <1>1, <1>2, <2>3, <2>5, <3>1, <3>3
    <3>4. QED
      BY <3>2, <3>3
  <2>6. ASSUME NEW k \in 1..(n + 1), NEW e \in deps[u[k].asset] \ u[k].left
        PROVE  e \in D \/ (k < n + 1 /\ e = u[k + 1].asset)
    <3>1. CASE k = n + 1
      BY <2>2, <2>3, <3>1
    <3>2. CASE k = n /\ k # n + 1
      BY <1>1, <1>2, <2>2, <2>3, <3>2
    <3>3. CASE k # n /\ k # n + 1
      <4>1. k \in 1..n /\ k + 1 \in 1..n /\ u[k] = s[k] /\ u[k + 1] = s[k + 1] /\ k < n + 1
        BY <1>2, <2>3, <3>3
      <4>2. QED
        BY <1>1, <3>3, <4>1
    <3>4. QED
      BY <3>1, <3>2, <3>3
  <2>7. Chained(u, D, {})
    BY <2>3, <2>4, <2>5, <2>6 DEF Chained
  <2>8. s = << >> => u[1].asset = a
    BY <1>2, <2>2, <2>3
  <2>9. s # << >> => u[1] = s[1]
    BY <1>2, <2>3
  <2>10. QED
    BY <1>4, <2>1, <2>3, <2>7, <2>8, <2>9
<1>5. QED
  BY <1>3, <1>4

-----------------------------------------------------------------------------
(* The inductive invariant.                                                *)

\* The graph holds what was given and else only what the targets need, made
\* from what the graph holds.
GraphInv ==
    /\ Acyclic
    /\ overrides \subseteq DOMAIN g /\ DOMAIN g \subseteq overrides \cup Needed
    /\ OneSnapshot

\* Resolve is under way only in the first loop, for the loop's target; every
\* target that the loop has handled is in the graph, and from its end on all
\* of them are.
Second == {"customise", "write", "done", "loaded", "refused"}
WalkInv ==
    /\ Chained(stack, DOMAIN g, {})
    /\ stack # << >> => phase = "resolve" /\ target # 0 /\ stack[1].asset = target
    /\ phase = "resolve" => targets \ todo \subseteq DOMAIN g \cup {target}
    /\ phase = "resolve" /\ target # 0 /\ stack = << >> => target \in DOMAIN g
    /\ phase \in Second => targets \subseteq DOMAIN g
    /\ phase = "customise" => target = 0
    /\ phase = "write" /\ target # 0 => target \in targets
    /\ phase # "panicked"

\* What was persisted stays what is in the graph, and an earlier graph stays.
SavedInv ==
    /\ phase \in {"resolve", "customise"} => saved = NoGraph \/ saved = Earlier
    /\ phase \in Second \ {"customise"}
         => saved = Earlier \/ saved = [a \in DOMAIN g |-> g[a].made]
    /\ LoadIsExact

ResolveInv == TypeOK /\ GraphInv /\ WalkInv /\ SavedInv

(* At first the graph holds what was given and nothing is called.          *)
LEMMA ResolveInvInit == Init => ResolveInv
<1> SUFFICES ASSUME Init PROVE ResolveInv
  OBVIOUS
<1>1. stack \in Seq(Frame) /\ Len(stack) = 0
  BY EmptySeq DEF Init
<1>2. \A a \in DOMAIN g :
         \E S \in SUBSET Assets : g[a] \in [made : 1..made, saw : [S -> Nat]]
  <2> SUFFICES ASSUME NEW a \in DOMAIN g
               PROVE  g[a] \in [made : 1..made, saw : [{} -> Nat]]
    OBVIOUS
  <2>1. g[a] = Given /\ made = 1
    BY DEF Init
  <2>2. Given.made \in 1..1 /\ [d \in {} |-> 0] \in [{} -> Nat]
    BY DEF Given
  <2>3. QED
    BY <2>1, <2>2 DEF Given
<1>3. saved \in [DOMAIN saved -> 0..made] /\ DOMAIN saved \subseteq Assets
  <2>1. overrides \cup Needed \subseteq Assets /\ made = 1
    BY DEF Init, Needed
  <2>2. CASE saved = NoGraph
    BY <2>2 DEF NoGraph
  <2>3. CASE saved = Earlier
    <3> DEFINE S == overrides \cup Needed
    <3>1. saved = [b \in S |-> 0] /\ S \subseteq Assets
      BY <2>1, <2>3 DEF Earlier
    <3> HIDE DEF S
    <3>2. 0 \in 0..made
      BY <2>1
    <3>3. QED
      BY <3>1, <3>2
  <2>4. QED
    BY <2>2, <2>3 DEF Init
<1>4. read \in [asset : Assets \cup {0}, schema : Schemas, fields : SUBSET Written]
  BY DEF Init, Schemas, Written
<1>5. TypeOK
  BY <1>1, <1>2, <1>3, <1>4 DEF Init, TypeOK
<1>6. GraphInv
  BY DEF Init, GraphInv, Acyclic, OneSnapshot
<1>7. Chained(stack, DOMAIN g, {})
  BY <1>1 DEF Chained
<1>8. WalkInv
  BY <1>7 DEF Init, WalkInv, Second
<1>9. SavedInv
  BY DEF Init, SavedInv, Second, LoadIsExact
<1>10. QED
  BY <1>5, <1>6, <1>8, <1>9 DEF ResolveInv

(* No step changes what was asked for, and so what is needed.              *)
LEMMA InputIsConstant ==
  ASSUME [Next]_vars
  PROVE  UNCHANGED input /\ Needed' = Needed /\ Earlier' = Earlier
<1>1. UNCHANGED input
  BY DEF Next, Step, NextTarget, Descend, Generate, GenerateFails, Resolved, LoopEnds,
     Customise, Write, GetPersisted, Ended, vars
<1>2. Needed' = Needed
  BY <1>1 DEF Needed, input
<1>3. QED
  BY <1>1, <1>2 DEF Earlier, input

(* Resolve called for a target by a loop, or for a dependency by itself.   *)
LEMMA CallsAreChained ==
  ASSUME TypeOK, GraphInv, WalkInv, NextTarget \/ Descend
  PROVE  /\ stack' \in Seq(Frame) /\ Chained(stack', DOMAIN g, {})
         /\ NextTarget =>
               /\ target' \in targets /\ stack = << >>
               /\ target' \in DOMAIN g => stack' = << >>
               /\ target' \notin DOMAIN g => stack' # << >> /\ stack'[1].asset = target'
         /\ ~NextTarget => stack' # << >> /\ stack'[1].asset = stack[1].asset
<1>1. ASSUME NextTarget
      PROVE  /\ stack' \in Seq(Frame) /\ Chained(stack', DOMAIN g, {})
             /\ target' \in targets /\ stack = << >>
             /\ target' \in DOMAIN g => stack' = << >>
             /\ target' \notin DOMAIN g => stack' # << >> /\ stack'[1].asset = target'
  <2>1. PICK t \in todo : target' = t /\ Enter(t, << >>)
    BY <1>1 DEF NextTarget
  <2>2. stack = << >> /\ t \in targets /\ t \in Needed
    BY <1>1, NeededIsLeast DEF NextTarget, WalkInv, TypeOK
  <2>3. << >> \in Seq(Frame) /\ Len(<< >>) = 0
    BY EmptySeq
  <2>4. Chained(<< >>, DOMAIN g, {t}) /\ \A k \in 1..Len(<< >>) : t < << >>[k].asset
    BY <2>3 DEF Chained
  <2>5. /\ stack' \in Seq(Frame) /\ Chained(stack', DOMAIN g, {})
        /\ t \in DOMAIN g => stack' = << >>
        /\ t \notin DOMAIN g => stack' # << >> /\ stack'[1].asset = t
    BY <2>1, <2>2, <2>3, <2>4, ChainedEnter
  <2>6. QED
    BY <2>1, <2>2, <2>5
<1>2. ASSUME Descend
      PROVE  /\ stack' \in Seq(Frame) /\ Chained(stack', DOMAIN g, {})
             /\ stack' # << >> /\ stack'[1].asset = stack[1].asset
  <2>1. stack # << >> /\ Chained(stack, DOMAIN g, {})
    BY <1>2 DEF Descend, WalkInv
  <2>2. PICK d \in Top.left : Enter(d, Append(Below, [Top EXCEPT !.left = @ \ {d}]))
    BY <1>2 DEF Descend
  <2> DEFINE s == Append(Below, [Top EXCEPT !.left = @ \ {d}])
             n == Len(stack)
  <2>3. /\ s \in Seq(Frame) /\ Len(s) = n /\ Chained(s, DOMAIN g, {d})
        /\ \A k \in 1..Len(s) : s[k].asset = stack[k].asset
    BY <2>1, ChainedTake
  <2>4. Enter(d, s)
    BY <2>2
  <2> HIDE DEF s
  <2>5. n \in Nat \ {0} /\ Top = stack[n]
    BY <2>1, BelowTop DEF Top
  <2>6. /\ \A k \in 1..n : stack[k].asset \in Needed \ DOMAIN g
        /\ Top.left \subseteq deps[Top.asset]
        /\ \A k \in 1..n : k < n => Top.asset < stack[k].asset
    BY <2>1, <2>5 DEF Chained
  <2>7. Top.asset \in Needed \ overrides
    BY <2>5, <2>6 DEF GraphInv
  <2>8. /\ d \in Needed /\ d < Top.asset
        /\ d \in Nat /\ \A k \in 1..n : stack[k].asset \in Nat
    BY <2>6, <2>7, NeededIsLeast, AssetsAreNumbered DEF GraphInv, Acyclic
  <2>9. \A k \in 1..n : d < stack[k].asset
    <3> SUFFICES ASSUME NEW k \in 1..n PROVE d < stack[k].asset
      OBVIOUS
    <3>1. CASE k = n
      BY <2>5, <2>8, <3>1
    <3>2. CASE k # n
      <4>1. Top.asset < stack[k].asset
        BY <2>5, <2>6, <3>2
      <4>2. Top.asset \in Nat /\ stack[k].asset \in Nat
        BY <2>5, <2>8
      <4>3. QED
        BY <2>8, <4>1, <4>2
    <3>3. QED
      BY <3>1, <3>2
  <2>10. \A k \in 1..Len(s) : d < s[k].asset
    BY <2>3, <2>9
  <2>11. s # << >>
    BY <2>3, <2>5, EmptySeq
  <2>12. s[1].asset = stack[1].asset
    BY <2>3, <2>5
  <2>13. QED
    BY <2>3, <2>4, <2>8, <2>10, <2>11, <2>12, ChainedEnter
<1>3. QED
  BY <1>1, <1>2

(* Generate runs for an asset that is needed and not in the graph, when all *)
(* that it depends on is there.                                            *)
LEMMA GenerateIsDue ==
  ASSUME TypeOK, GraphInv, WalkInv, stack # << >>, Ready(Top)
  PROVE  /\ Top.asset \in Needed \ DOMAIN g
         /\ deps[Top.asset] \subseteq DOMAIN g
         /\ phase = "resolve"
<1> DEFINE n == Len(stack)
<1>1. n \in Nat \ {0} /\ Top = stack[n] /\ n \in 1..n /\ ~(n < n)
  BY BelowTop DEF Top
<1>2. Chained(stack, DOMAIN g, {}) /\ phase = "resolve"
  BY DEF WalkInv
<1>3. QED
  BY <1>1, <1>2 DEF Chained, Ready

(* What Generate makes of the graph.                                       *)
LEMMA GenerateSets ==
  ASSUME TypeOK, Generate
  PROVE  LET a == Top.asset IN
         /\ a \in Assets /\ DOMAIN g' = DOMAIN g \cup {a} /\ DOMAIN g' \subseteq Assets
         /\ \A b \in DOMAIN g \ {a} : g'[b] = g[b]
         /\ g'[a] = [made |-> made + 1,
                     saw |-> [d \in deps[a] \cap DOMAIN g |-> g[d].made]]
         /\ made' = made + 1 /\ made \in Nat
<1>1. Top \in Frame
  BY BelowTop DEF Generate
<1>2. QED
  BY <1>1 DEF Generate, Set, TypeOK, Frame

(* Every step keeps the types.                                             *)
LEMMA TypeNext == ResolveInv /\ [Next]_vars => TypeOK'
<1> SUFFICES ASSUME ResolveInv, [Next]_vars PROVE TypeOK'
  OBVIOUS
<1>a. TypeOK /\ GraphInv /\ WalkInv
  BY DEF ResolveInv
<1> USE <1>a DEF disk, input
<1>1. CASE NextTarget
  <2>1. stack' \in Seq(Frame) /\ target' \in Assets /\ todo' \subseteq targets
    BY <1>1, CallsAreChained DEF NextTarget, TypeOK
  <2>2. QED
    BY <1>1, <2>1 DEF NextTarget, TypeOK
<1>2. CASE Descend
  <2>1. stack' \in Seq(Frame)
    BY <1>2, CallsAreChained
  <2>2. QED
    BY <1>2, <2>1 DEF Descend, TypeOK
<1>3. CASE Generate
  <2> DEFINE a == Top.asset
  <2>1. /\ a \in Assets /\ DOMAIN g' = DOMAIN g \cup {a} /\ DOMAIN g' \subseteq Assets
        /\ \A b \in DOMAIN g \ {a} : g'[b] = g[b]
        /\ g'[a] = [made |-> made + 1,
                    saw |-> [d \in deps[a] \cap DOMAIN g |-> g[d].made]]
        /\ made' = made + 1 /\ made \in Nat
    BY <1>3, GenerateSets
  <2>2. \A b \in DOMAIN g : g[b].made \in 1..made
    BY DEF TypeOK
  <2>3. ASSUME NEW b \in DOMAIN g'
        PROVE  \E S \in SUBSET Assets : g'[b] \in [made : 1..made', saw : [S -> Nat]]
    <3>1. CASE b = a
      <4> DEFINE S == deps[a] \cap DOMAIN g
                 w == [d \in S |-> g[d].made]
      <4>1. S \in SUBSET Assets
        BY DEF TypeOK
      <4>2. w \in [S -> Nat]
        BY <2>1, <2>2
      <4>3. made + 1 \in 1..made'
        BY <2>1
      <4>4. g'[b] = [made |-> made + 1, saw |-> w]
        BY <2>1, <3>1
      <4> HIDE DEF S, w
      <4>5. QED
        BY <4>1, <4>2, <4>3, <4>4
    <3>2. CASE b # a
      <4>1. b \in DOMAIN g /\ g'[b] = g[b]
        BY <2>1, <3>2
      <4>2. PICK S \in SUBSET Assets : g[b] \in [made : 1..made, saw : [S -> Nat]]
        BY <4>1 DEF TypeOK
      <4>3. 1..made \subseteq 1..made'
        BY <2>1
      <4>4. g[b] \in [made : 1..made', saw : [S -> Nat]]
        BY <4>2, <4>3
      <4>5. QED
        BY <4>1, <4>4
    <3>3. QED
      BY <3>1, <3>2
  <2>4. stack' \in Seq(Frame)
    BY <1>3, BelowTop DEF Generate
  <2>5. made' \in Nat /\ saved' \in [DOMAIN saved' -> 0..made']
        /\ DOMAIN saved' \subseteq Assets
    BY <1>3, <2>1 DEF Generate, TypeOK
  <2> HIDE DEF a
  <2>6. QED
    BY <1>3, <2>1, <2>3, <2>4, <2>5 DEF Generate, TypeOK
<1>4. CASE GenerateFails
  <2>1. made' = made + 1 /\ made \in Nat /\ UNCHANGED <<g, saved>>
    BY <1>4 DEF GenerateFails, TypeOK
  <2>2. ASSUME NEW b \in DOMAIN g'
        PROVE  \E S \in SUBSET Assets : g'[b] \in [made : 1..made', saw : [S -> Nat]]
    <3>1. PICK S \in SUBSET Assets : g[b] \in [made : 1..made, saw : [S -> Nat]]
      BY <2>1 DEF TypeOK
    <3>2. 1..made \subseteq 1..made'
      BY <2>1
    <3>3. g[b] \in [made : 1..made', saw : [S -> Nat]]
      BY <3>1, <3>2
    <3>4. QED
      BY <2>1, <3>3
  <2>3. stack' \in Seq(Frame)
    BY <1>4, EmptySeq DEF GenerateFails
  <2>4. made' \in Nat /\ saved' \in [DOMAIN saved' -> 0..made']
    BY <2>1 DEF TypeOK
  <2>5. QED
    BY <1>4, <2>1, <2>2, <2>3, <2>4 DEF GenerateFails, TypeOK
<1>5. CASE Resolved
  BY <1>5 DEF Resolved, TypeOK
<1>6. CASE LoopEnds
  BY <1>6 DEF LoopEnds, TypeOK
<1>7. CASE Customise
  <2>1. todo' \subseteq targets /\ phase' \in {"write", "failed"}
    BY <1>7 DEF Customise, SecondLoop, TypeOK
  <2>2. saved' \in [DOMAIN saved' -> 0..made] /\ DOMAIN saved' \subseteq Assets
    <3>1. CASE UNCHANGED saved
      BY <3>1 DEF TypeOK
    <3>2. CASE saved' = [a \in DOMAIN g |-> g[a].made]
      <4>1. \A a \in DOMAIN g : g[a].made \in 1..made
        BY DEF TypeOK
      <4>2. DOMAIN g \subseteq Assets
        BY DEF TypeOK
      <4>3. QED
        BY <3>2, <4>1, <4>2
    <3>3. QED
      BY <1>7, <3>1, <3>2 DEF Customise, Persisted
  <2>3. QED
    BY <1>7, <2>1, <2>2 DEF Customise, TypeOK
<1>8. CASE Write
  BY <1>8 DEF Write, TypeOK
<1>9. CASE GetPersisted
  <2>1. read' \in [asset : Assets \cup {0}, schema : Schemas, fields : SUBSET Written]
    <3>1. UNION {deps[t] : t \in targets \ overrides} \subseteq Assets
      BY DEF TypeOK
    <3>2. QED
      BY <1>9, <3>1 DEF GetPersisted, TypeOK
  <2>2. QED
    BY <1>9, <2>1 DEF GetPersisted, TypeOK
<1>10. CASE Ended \/ UNCHANGED vars
  BY <1>10 DEF Ended, vars, TypeOK
<1>11. QED
  BY <1>1, <1>2, <1>3, <1>4, <1>5, <1>6, <1>7, <1>8, <1>9, <1>10 DEF Next, Step

(* What is generated is needed, and sees the contents that stay in the      *)
(* graph.                                                                  *)
LEMMA GraphInvNext == ResolveInv /\ [Next]_vars => GraphInv'
<1> SUFFICES ASSUME ResolveInv, [Next]_vars PROVE GraphInv'
  OBVIOUS
<1>a. TypeOK /\ GraphInv /\ WalkInv
  BY DEF ResolveInv
<1>b. UNCHANGED <<deps, overrides, targets, Needed>>
  BY InputIsConstant DEF input
<1>1. CASE Generate
  <2> DEFINE a == Top.asset
  <2>1. /\ DOMAIN g' = DOMAIN g \cup {a}
        /\ \A b \in DOMAIN g \ {a} : g'[b] = g[b]
        /\ g'[a].made = made + 1
        /\ g'[a].saw = [d \in deps[a] \cap DOMAIN g |-> g[d].made]
    BY <1>1, <1>a, GenerateSets
  <2>2. a \in Needed \ DOMAIN g /\ deps[a] \subseteq DOMAIN g
    BY <1>1, <1>a, GenerateIsDue DEF Generate
  <2> HIDE DEF a
  <2>3. ASSUME NEW b \in DOMAIN g' \ overrides
        PROVE  /\ deps[b] \subseteq DOMAIN g'[b].saw
               /\ \A d \in deps[b] : d \in DOMAIN g' /\ g'[b].saw[d] = g'[d].made
    <3>1. CASE b = a
      <4>1. DOMAIN g'[b].saw = deps[a]
        BY <2>1, <2>2, <3>1
      <4>2. \A d \in deps[a] : g'[b].saw[d] = g[d].made /\ g'[d] = g[d] /\ d \in DOMAIN g'
        BY <2>1, <2>2, <3>1
      <4>3. QED
        BY <3>1, <4>1, <4>2
    <3>2. CASE b # a
      <4>1. b \in DOMAIN g \ overrides /\ g'[b] = g[b]
        BY <2>1, <3>2
      <4>2. /\ deps[b] \subseteq DOMAIN g[b].saw
            /\ \A d \in deps[b] : d \in DOMAIN g /\ g[b].saw[d] = g[d].made
        BY <1>a, <4>1 DEF GraphInv, OneSnapshot
      <4>3. \A d \in deps[b] : d \in DOMAIN g' /\ g'[d] = g[d]
        BY <2>1, <2>2, <4>2
      <4>4. QED
        BY <4>1, <4>2, <4>3
    <3>3. QED
      BY <3>1, <3>2
  <2>4. OneSnapshot'
    BY <1>b, <2>3 DEF OneSnapshot
  <2>5. QED
    BY <1>a, <1>b, <2>1, <2>2, <2>4 DEF GraphInv, Acyclic
<1>2. CASE UNCHANGED g
  BY <1>2, <1>a, <1>b DEF GraphInv, Acyclic, OneSnapshot
<1>3. Generate \/ UNCHANGED g
  BY DEF Next, Step, NextTarget, Descend, GenerateFails, Resolved, LoopEnds, Customise,
     Write, GetPersisted, Ended, vars
<1>4. QED
  BY <1>1, <1>2, <1>3

(* The stack stays the chain of the calls for one target, and every target *)
(* that is handled is in the graph; the second loop makes no call that     *)
(* waits.                                                                  *)
LEMMA WalkInvNext == ResolveInv /\ [Next]_vars => WalkInv'
<1> SUFFICES ASSUME ResolveInv, [Next]_vars PROVE WalkInv'
  OBVIOUS
<1>a. /\ TypeOK /\ GraphInv /\ WalkInv /\ 0 \notin targets
  BY AssetsAreNumbered DEF ResolveInv, TypeOK
<1>b. UNCHANGED <<deps, overrides, targets, Needed>>
  BY InputIsConstant DEF input
<1>c. Chained(stack', DOMAIN g', {}) <=> Chained(stack, DOMAIN g, {})'
  BY <1>b DEF Chained
<1>d. UNCHANGED <<stack, g>> => Chained(stack, DOMAIN g, {})'
  BY <1>a, <1>c DEF WalkInv
<1> USE <1>a, <1>b DEF WalkInv, Second
<1>1. CASE NextTarget
  <2>1. Chained(stack, DOMAIN g, {})'
    BY <1>1, <1>c, CallsAreChained DEF NextTarget
  <2>2. /\ target' \in targets /\ stack = << >> /\ target = 0 /\ target' # 0
        /\ target' \in DOMAIN g => stack' = << >>
        /\ target' \notin DOMAIN g => stack' # << >> /\ stack'[1].asset = target'
        /\ todo' = todo \ {target'} /\ UNCHANGED <<g, phase>>
        /\ phase \in {"resolve", "write"}
    BY <1>1, CallsAreChained DEF NextTarget, Running
  <2>3. QED
    BY <2>1, <2>2
<1>2. CASE Descend
  <2>1. Chained(stack, DOMAIN g, {})'
    BY <1>2, <1>c, CallsAreChained DEF Descend
  <2>2. /\ stack # << >> /\ UNCHANGED <<g, phase, target, todo>>
        /\ stack' # << >> /\ stack'[1].asset = stack[1].asset
    <3>1. phase = "resolve" /\ target # 0 /\ ~NextTarget
      BY <1>2 DEF Descend, NextTarget
    <3>2. QED
      BY <1>2, <3>1, CallsAreChained DEF Descend
  <2>3. QED
    BY <2>1, <2>2
<1>3. CASE Generate
  <2>1. /\ stack # << >> /\ phase = "resolve" /\ stack' = Below
        /\ UNCHANGED <<phase, target, todo>>
    BY <1>3, GenerateIsDue DEF Generate
  <2>2. DOMAIN g' = DOMAIN g \cup {Top.asset}
    BY <1>3, GenerateSets
  <2>3. Chained(stack, DOMAIN g, {})'
    BY <1>c, <2>1, <2>2, ChainedPop
  <2>4. /\ Len(stack) \in Nat \ {0} /\ Len(Below) = Len(stack) - 1 /\ Below \in Seq(Frame)
        /\ \A k \in 1..Len(Below) : Below[k] = stack[k]
    BY <2>1, BelowTop
  <2>5. CASE Below = << >>
    <3>1. Len(stack) = 1
      BY <2>4, <2>5, EmptySeq
    <3>2. Top.asset = target
      BY <2>1, <3>1 DEF Top
    <3>3. QED
      BY <2>1, <2>2, <2>3, <2>5, <3>2
  <2>6. CASE Below # << >>
    <3>1. Below[1] = stack[1]
      BY <2>4, <2>6, EmptySeq
    <3>2. QED
      BY <2>1, <2>2, <2>3, <2>6, <3>1
  <2>7. QED
    BY <2>5, <2>6
<1>4. CASE GenerateFails
  <2>1. phase' = "failed" /\ stack' = << >> /\ UNCHANGED g
    BY <1>4, GenerateIsDue DEF GenerateFails
  <2>2. Chained(stack, DOMAIN g, {})'
    BY <2>1, EmptySeq DEF Chained
  <2>3. QED
    BY <2>1, <2>2
<1>5. CASE Resolved
  BY <1>5, <1>d DEF Resolved
<1>6. CASE LoopEnds
  BY <1>6, <1>d DEF LoopEnds, Running, AllHandled
<1>7. CASE Customise
  BY <1>7, <1>d DEF Customise
<1>8. CASE Write
  BY <1>8, <1>d DEF Write
<1>9. CASE GetPersisted
  BY <1>9, <1>d DEF GetPersisted
<1>10. CASE Ended \/ UNCHANGED vars
  BY <1>10, <1>d DEF Ended, vars
<1>11. QED
  BY <1>1, <1>2, <1>3, <1>4, <1>5, <1>6, <1>7, <1>8, <1>9, <1>10 DEF Next, Step

(* Nothing changes the graph after it is persisted, and what create cluster *)
(* asks for is in it.                                                      *)
LEMMA SavedInvNext == ResolveInv /\ [Next]_vars => SavedInv'
<1> SUFFICES ASSUME ResolveInv, [Next]_vars PROVE SavedInv'
  OBVIOUS
<1>a. TypeOK /\ GraphInv /\ WalkInv /\ SavedInv
  BY DEF ResolveInv
<1>b. UNCHANGED <<overrides, targets, Earlier>>
  BY InputIsConstant DEF input
<1> USE <1>a, <1>b DEF SavedInv, Second, LoadIsExact, disk
<1>1. CASE NextTarget
  BY <1>1 DEF NextTarget, Running
<1>2. CASE Descend
  BY <1>2 DEF Descend, WalkInv
<1>3. CASE Generate
  BY <1>3 DEF Generate, WalkInv
<1>4. CASE GenerateFails
  BY <1>4 DEF GenerateFails, WalkInv
<1>5. CASE Resolved
  BY <1>5 DEF Resolved
<1>6. CASE LoopEnds
  BY <1>6 DEF LoopEnds, Running
<1>7. CASE Customise
  BY <1>7 DEF Customise, Persisted, Exists
<1>8. CASE Write
  BY <1>8 DEF Write
<1>9. CASE GetPersisted
  <2> DEFINE Asked == targets \cup overrides \cup UNION {deps[t] : t \in targets \ overrides}
  <2>1. targets \subseteq DOMAIN g /\ overrides \subseteq DOMAIN g
    BY <1>9 DEF GetPersisted, WalkInv, GraphInv
  <2>2. \A t \in targets \ overrides : deps[t] \subseteq DOMAIN g
    BY <2>1 DEF GraphInv, OneSnapshot
  <2>3. Asked \subseteq DOMAIN g
    BY <2>1, <2>2
  <2>4. saved = Earlier \/ saved = [a \in DOMAIN g |-> g[a].made]
    BY <1>9 DEF GetPersisted
  <2>5. PICK a \in Asked, schema \in Schemas :
          LET ok == a \in DOMAIN saved /\ Decodes(schema) IN
          /\ phase' = IF ok THEN "loaded" ELSE "refused"
          /\ read' = [asset |-> a, schema |-> schema,
                      fields |-> IF ok THEN Written \cap schema ELSE {}]
    BY <1>9 DEF GetPersisted
  <2>6. UNCHANGED <<g, saved>>
    BY <1>9 DEF GetPersisted
  <2>7. a \in DOMAIN saved
    <3>1. a \in DOMAIN g
      BY <2>3
    <3>2. Asked \subseteq overrides \cup Needed
      BY NeededIsLeast
    <3>3. QED
      BY <2>4, <3>1, <3>2 DEF Earlier
  <2> HIDE DEF Asked
  <2>8. CASE Written \subseteq schema
    <3>1. phase' = "loaded" /\ read'.asset = a /\ read'.fields = Written \cap schema
      BY <2>5, <2>7, <2>8 DEF Decodes
    <3>2. Written \cap schema = Written
      BY <2>8
    <3>3. saved' = Earlier' \/ saved' = [b \in DOMAIN g' |-> g'[b].made]
      BY <2>4, <2>6
    <3>4. QED
      BY <2>6, <2>7, <3>1, <3>2, <3>3
  <2>9. CASE ~(Written \subseteq schema)
    <3>1. phase' = "refused" /\ read'.schema = schema
      BY <2>5, <2>9 DEF Decodes
    <3>2. saved' = Earlier' \/ saved' = [b \in DOMAIN g' |-> g'[b].made]
      BY <2>4, <2>6
    <3>3. QED
      BY <2>9, <3>1, <3>2
  <2>10. QED
    BY <2>8, <2>9
<1>10. CASE Ended \/ UNCHANGED vars
  BY <1>10 DEF Ended, vars
<1>11. QED
  BY <1>1, <1>2, <1>3, <1>4, <1>5, <1>6, <1>7, <1>8, <1>9, <1>10 DEF Next, Step

(* The invariant holds in every reachable state.                           *)
LEMMA Invariance == Spec => []ResolveInv
<1>1. Init => ResolveInv
  BY ResolveInvInit
<1>2. ResolveInv /\ [Next]_vars => ResolveInv'
  BY TypeNext, GraphInvNext, WalkInvNext, SavedInvNext DEF ResolveInv
<1>3. QED
  BY <1>1, <1>2, PTL DEF Spec

-----------------------------------------------------------------------------
(* The theorems.                                                           *)

(* Graph.Resolve keeps the graph, its own calls and what is persisted in    *)
(* their types.                                                            *)
THEOREM TypeCorrect == Spec => []TypeOK
<1>1. ResolveInv => TypeOK
  BY DEF ResolveInv
<1>2. QED
  BY <1>1, Invariance, PTL

(* Every asset that Graph.Resolve generated saw the parents that are in the *)
(* graph: no parent is generated twice or replaced after it was seen.      *)
THEOREM GraphIsOneSnapshot == Spec => []OneSnapshot
<1>1. ResolveInv => OneSnapshot
  BY DEF ResolveInv, GraphInv
<1>2. QED
  BY <1>1, Invariance, PTL

(* After applyInstallConfigCustomisations has resolved the targets the graph *)
(* is exactly what was given and what the targets need, and the loop of     *)
(* create manifests over the same targets generates nothing.               *)
THEOREM WritingOnlyReads == Spec => []SecondLoopOnlyReads
<1>1. ResolveInv => SecondLoopOnlyReads
  <2> SUFFICES ASSUME ResolveInv, phase \in Second
               PROVE  DOMAIN g = overrides \cup Needed /\ stack = << >>
    BY DEF SecondLoopOnlyReads, Second, ResolveInv, WalkInv
  <2>1. TypeOK /\ GraphInv /\ WalkInv
    BY DEF ResolveInv
  <2>2. targets \subseteq DOMAIN g /\ stack = << >>
    BY <2>1 DEF WalkInv, Second
  <2>3. \A b \in DOMAIN g \ overrides : deps[b] \subseteq DOMAIN g
    BY <2>1 DEF GraphInv, OneSnapshot
  <2>4. DOMAIN g \in SUBSET Assets
    BY <2>1 DEF TypeOK
  <2>5. Needed \subseteq DOMAIN g
    BY <2>1, <2>2, <2>3, <2>4, NeededIsLeast
  <2>6. QED
    BY <2>1, <2>2, <2>5 DEF GraphInv
<1>2. QED
  BY <1>1, Invariance, PTL

(* The type assertion on g.Get(m) in create manifests never meets a nil:    *)
(* the command does not panic, whether or not an asset fails to generate.  *)
THEOREM NeverPanics == Spec => [](phase # "panicked")
<1>1. ResolveInv => phase # "panicked"
  BY DEF ResolveInv, WalkInv
<1>2. QED
  BY <1>1, Invariance, PTL

(* PersistedGraph.Get gives create cluster an asset with every field that   *)
(* was written of it, out of a graph of one run, and refuses only a program *)
(* that does not know a field.                                             *)
THEOREM LoadingIsExact == Spec => []LoadIsExact
<1>1. ResolveInv => LoadIsExact
  BY DEF ResolveInv, SavedInv
<1>2. QED
  BY <1>1, Invariance, PTL

(* Graph.Resolve generates one needed asset at a time, after all that it    *)
(* depends on, and never one that is in the graph.                         *)
THEOREM ResolutionIsOrdered == Spec => FillsInOrder
<1> DEFINE A == g' # g => \E a \in Needed \ DOMAIN g :
                  /\ deps[a] \subseteq DOMAIN g
                  /\ DOMAIN g' = DOMAIN g \cup {a}
                  /\ \A b \in DOMAIN g : g'[b] = g[b]
<1>1. ResolveInv /\ [Next]_vars => [A]_vars
  <2> SUFFICES ASSUME ResolveInv, Next, g' # g
               PROVE  \E a \in Needed \ DOMAIN g :
                        /\ deps[a] \subseteq DOMAIN g
                        /\ DOMAIN g' = DOMAIN g \cup {a}
                        /\ \A b \in DOMAIN g : g'[b] = g[b]
    OBVIOUS
  <2>1. TypeOK /\ GraphInv /\ WalkInv
    BY DEF ResolveInv
  <2>2. Generate
    BY DEF Next, Step, NextTarget, Descend, GenerateFails, Resolved, LoopEnds, Customise,
       Write, GetPersisted, Ended, vars
  <2>3. Top.asset \in Needed \ DOMAIN g /\ deps[Top.asset] \subseteq DOMAIN g
    BY <2>1, <2>2, GenerateIsDue DEF Generate
  <2>4. /\ DOMAIN g' = DOMAIN g \cup {Top.asset}
        /\ \A b \in DOMAIN g \ {Top.asset} : g'[b] = g[b]
    BY <2>1, <2>2, GenerateSets
  <2>5. QED
    BY <2>3, <2>4
<1>2. QED
  BY <1>1, Invariance, PTL DEF Spec, FillsInOrder

================================================================================
