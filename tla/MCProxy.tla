--------------------------------- MODULE MCProxy ---------------------------------
(* The model-checking instance of Proxy.                                   *)
EXTENDS Proxy
================================================================================
