---------------------------- MODULE MCBootstrapFiles ----------------------------
(* Model-checking instances of BootstrapFiles.                             *)
EXTENDS BootstrapFiles

\* A name of the RP's own, one of the wrapper's and three of the installer's.
MCManifestPaths == {"rp.yaml", OwnManifest, DnsPath, CvoPath, McsSecret}
================================================================================
