------------------------------ MODULE MCAssetGraph ------------------------------
(* Model-checking instances of AssetGraph: every acyclic graph of N types, *)
(* every choice of what is given and of what is wanted.                    *)
EXTENDS AssetGraph

CONSTANT N

MCAssets == 1..N
================================================================================
