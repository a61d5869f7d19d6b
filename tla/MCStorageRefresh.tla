----------------------------- MODULE MCStorageRefresh -----------------------------
(* One directory and the deleted-files report. *)
EXTENDS StorageRefresh
CONSTANT root
MCDir == {root}
MCParentOf == <<>>
MCMountOf == [d \in {root} |-> root]
MCTask == {"what-fills", "deleted-held"}
===================================================================================
