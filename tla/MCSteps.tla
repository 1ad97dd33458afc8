-------------------------------- MODULE MCSteps --------------------------------
(* Model-checking instances of Steps.                                      *)
EXTENDS Steps

MCStep(kind, timeout, interval, fail) ==
    [kind |-> kind, timeout |-> timeout, interval |-> interval, fail |-> fail]

\* Install()'s three steps, a retried deployment, an action and a condition
\* that must hold, and a fourth that may fail, its timeout no multiple of its
\* interval.
InstallProgram ==
    << MCStep("retry", 5, 2, TRUE), MCStep("action", 1, 1, TRUE),
       MCStep("condition", 6, 2, TRUE), MCStep("condition", 7, 3, FALSE) >>

\* The step in which the code and its comment disagree.
RetryProgram == << MCStep("retry", 4, 2, TRUE) >>
================================================================================
