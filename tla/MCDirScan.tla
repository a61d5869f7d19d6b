-------------------------------- MODULE MCDirScan --------------------------------
(* A tree of eleven nodes:                                                        *)
(*   root/  a/  b/  f2 (another name of f1's file), s -> somewhere                *)
(*              m/  g    (another file system)                                    *)
(*              f1                                                                *)
(*          f3 (a name of f1's file, too)                                         *)
(*          v/  w    (removed by other programs at any moment)                    *)
EXTENDS DirScan, TLC
CONSTANTS root, a, b, f1, f2, f3, s, m, g, v, w
MCNode == {root, a, b, f1, f2, f3, s, m, g, v, w}
MCParent == (a :> root) @@ (b :> a) @@ (f1 :> a) @@ (f2 :> b) @@ (f3 :> root)
    @@ (s :> b) @@ (m :> a) @@ (g :> m) @@ (v :> root) @@ (w :> v)
MCKind == [n \in MCNode |->
    IF n \in {root, a, b, m, v} THEN "dir" ELSE IF n = s THEN "symlink" ELSE "file"]
MCDevice == [n \in MCNode |-> IF n \in {m, g} THEN "other" ELSE "own"]
MCInode == [n \in MCNode |-> IF n \in {f2, f3} THEN f1 ELSE n]
MCVolatile == {v, w}
MCMayDeny == {root, b}
=================================================================================
