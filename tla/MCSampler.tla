------------------------------- MODULE MCSampler -------------------------------
(* One source of single values and one of a list; samples every two waits.  Ages  *)
(* up to five waits are told apart: more than two intervals.                      *)
EXTENDS Sampler
MCSource == {"swap", "net"}
MCList == {"net"}
=================================================================================
