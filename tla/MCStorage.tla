------------------------------- MODULE MCStorage -------------------------------
(* "/" with a subdirectory of its own filesystem and /var, a mount point, with   *)
(* /var/log below it.  Reading the journal may hang for ever.                    *)
EXTENDS StorageScreen, TLC
CONSTANTS root, var, log
MCDir == {root, var, log}
MCParentOf == (var :> root) @@ (log :> var)
MCMountOf == (root :> root) @@ (var :> var) @@ (log :> var)
MCTask == {"what-fills", "which-full"}
MCBounded == MCDir
=================================================================================
