-------------------------- MODULE MCInstallLifecycle --------------------------
(* Model-checking instances of InstallLifecycle.                           *)
EXTENDS InstallLifecycle, TLC

\* Runs that overlap are interchangeable.  For the instances that are not
\* Exclusive and check no liveness property: elsewhere NextRun tells runs apart.
Symmetry == Permutations(Proc)
================================================================================
