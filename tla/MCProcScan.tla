------------------------------- MODULE MCProcScan -------------------------------
(* Two pids and three processes: every pid can be used again, and one twice.      *)
EXTENDS ProcScan, TLC
CONSTANTS p1, p2
MCPid == {p1, p2}
Pids == Permutations(MCPid)
=================================================================================
