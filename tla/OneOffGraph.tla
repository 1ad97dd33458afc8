------------------------------ MODULE OneOffGraph ------------------------------
(***************************************************************************)
(* What the two commands promise each other: the cluster's asset graph is  *)
(* generated and persisted once, in one step, and everything the cluster   *)
(* is made from is taken from that graph.                                  *)
(***************************************************************************)
CONSTANTS Gen,   \* the graphs that may be generated
          None   \* no graph is persisted

VARIABLES persisted,  \* the persisted graph
          used        \* the graphs the cluster was made from

Init == persisted = None /\ used = {}

\* A graph is persisted where there was none.
Persist ==
    /\ persisted = None
    /\ persisted' \in Gen
    /\ UNCHANGED used

\* A part of the cluster is made from the persisted graph.
Use ==
    /\ persisted # None
    /\ used' = used \cup {persisted}
    /\ UNCHANGED persisted

Next == Persist \/ Use

Spec == Init /\ [][Next]_<<persisted, used>>
================================================================================
