---------------------------------- MODULE Rules ----------------------------------
(* Verdicts and the limits they are given by (src/analyze/rules.rs).  The load is  *)
(* in tenths, sizes are in quarters of a GiB, everything else is in percent or in  *)
(* the unit of its name.                                                           *)
EXTENDS Naturals

\* Verdict, in the order of its declaration, which is the one it is compared by.
Unknown == 0
Ok == 1
Warn == 2
Critical == 3
Verdict == {Unknown, Ok, Warn, Critical}

LOAD_PER_CORE_WARN == 8
LOAD_PER_CORE_CRITICAL == 20
CPU_BUSY_WARN == 85
CPU_STEAL_WARN == 5
PSI_WARN == 20
PSI_CRITICAL == 50
PSI_MEMORY_WARN == 10
MEM_AVAILABLE_WARN == 15
MEM_AVAILABLE_CRITICAL == 5
SWAP_OUT_WARN == 50
DISK_UTIL_WARN == 80
DISK_AWAIT_WARN_MS == 20
IOWAIT_WARN == 15

GiB == 4
SPACE_WARN_PCT == 90
SPACE_CRITICAL_PCT == 95
SPACE_FREE_WARN_BYTES == GiB
SPACE_TIGHT_PCT == 75
INODE_WARN_PCT == 85
INODE_CRITICAL_PCT == 90
DELETED_HELD_WARN_BYTES == GiB
LOG_SHARE_WARN_PCT == 25
LOG_SIZE_WARN_BYTES == 5 * GiB

\* The largest of a non-empty set of numbers.
Largest(S) == CHOOSE x \in S : \A y \in S : y <= x
=================================================================================
