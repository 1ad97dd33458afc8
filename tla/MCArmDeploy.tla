------------------------------ MODULE MCArmDeploy ------------------------------
(* Model-checking instances of ArmDeploy.                                  *)
EXTENDS ArmDeploy
================================================================================
