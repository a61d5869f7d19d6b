---------------------------------- MODULE Space ----------------------------------
(* How full the filesystems are and why: src/collect/mounts.rs, the space part of *)
(* src/analyze/storage.rs, and what src/ui/screens/storage.rs makes of them, as   *)
(* operators.  Sizes are in quarters of a GiB; a percentage is compared by        *)
(* multiplying.  Evidence and explanations are left out.                          *)
EXTENDS Rules, Integers, Sequences, SequencesExt

CONSTANT NoAnswer   \* what a call gives that could not be answered

SumOf(s) == FoldSeq(LAMBDA x, y : x + y, 0, s)

---------------------------------------------------------------------------------
(* mounts.rs.  A mount is a record of target, device number (dev), kind, whether   *)
(* it is read-only (ro), and its usage: NoAnswer when statvfs fails, else          *)
(* [total, free, available, inodes, inodes_free]                                   *)

Usages == [total : Nat, free : Nat, available : Nat, inodes : Nat, inodes_free : Nat]

\* A list of mounts, which are there whether statvfs answers or not.
IsTable(table) ==
    /\ Len(table) \in Nat /\ DOMAIN table = 1..Len(table)
    /\ \A i \in DOMAIN table :
        table[i] # NoAnswer /\ table[i].usage \in Usages \cup {NoAnswer}

\* Kernel filesystems and snap images are of no interest.
IsUserFilesystem(mount) == mount.kind = "user"

Used(u) == IF u.free > u.total THEN 0 ELSE u.total - u.free

Reserved(u) == IF u.available > u.free THEN 0 ELSE u.free - u.available

\* used_pct >= pct; what is reserved counts as used.
UsedAtLeast(u, pct) ==
    LET all == Used(u) + u.available
    IN  IF all = 0 THEN pct = 0 ELSE 100 * Used(u) >= pct * all

InodesUsed(u) == IF u.inodes_free > u.inodes THEN 0 ELSE u.inodes - u.inodes_free

HasInodes(u) == u.inodes # 0

InodesAtLeast(u, pct) == HasInodes(u) /\ 100 * InodesUsed(u) >= pct * u.inodes

\* The used share as numerator and denominator; what cannot be measured counts as 0.
Share(mount) ==
    IF mount.usage = NoAnswer \/ Used(mount.usage) + mount.usage.available = 0
    THEN <<0, 1>> ELSE <<Used(mount.usage), Used(mount.usage) + mount.usage.available>>

Fuller(a, b) == Share(a)[1] * Share(b)[2] > Share(b)[1] * Share(a)[2]

\* The first mount of every device, by its place in the mount table.
OncePerDevice(table) ==
    LET user == {i \in DOMAIN table : IsUserFilesystem(table[i])}
    IN  {i \in user : \A j \in user : j < i => table[j].dev # table[i].dev}

\* usage: what is of interest in the mount table.
UsageOf(table) ==
    [i \in {j \in OncePerDevice(table) : table[j].usage = NoAnswer \/ table[j].usage.total # 0}
        |-> table[i]]

\* Mutant: in the order of the mount table.
PrecedesUnsorted(mounts, i, j) == i < j

\* The order of usage: the fullest first, by a stable sort.
Precedes(mounts, i, j) ==
    \/ Fuller(mounts[i], mounts[j])
    \/ ~Fuller(mounts[j], mounts[i]) /\ i < j

\* The first of some mounts in that order.
FirstOf(mounts, places) ==
    CHOOSE i \in places : \A j \in places \ {i} : Precedes(mounts, i, j)

---------------------------------------------------------------------------------
(* analyze/storage.rs: findings                                                    *)

\* Rather full, and little left in absolute terms.
Tight(u) == UsedAtLeast(u, SPACE_TIGHT_PCT) /\ u.available < SPACE_FREE_WARN_BYTES

SpaceVerdict(mount) ==
    IF mount.usage = NoAnswer THEN Unknown
    ELSE IF UsedAtLeast(mount.usage, SPACE_CRITICAL_PCT) THEN Critical
    ELSE IF UsedAtLeast(mount.usage, SPACE_WARN_PCT) \/ Tight(mount.usage) THEN Warn
    ELSE Ok

SpaceFindings(mounts) == [i \in DOMAIN mounts |-> SpaceVerdict(mounts[i])]

InodeVerdict(u) ==
    IF InodesAtLeast(u, INODE_CRITICAL_PCT) THEN Critical
    ELSE IF InodesAtLeast(u, INODE_WARN_PCT) THEN Warn ELSE Ok

\* Only for what could be measured; a filesystem without fixed inodes is fine.
InodeFindings(mounts) ==
    [i \in {j \in DOMAIN mounts : mounts[j].usage # NoAnswer} |-> InodeVerdict(mounts[i].usage)]

\* DeletedFiles: files is a sequence of [pid, bytes], bytes being NoAnswer when the
\* size could not be read.
HeldBytes(deleted) ==
    SumOf([i \in DOMAIN deleted.files |->
        IF deleted.files[i].bytes = NoAnswer THEN 0 ELSE deleted.files[i].bytes])

DeletedVerdict(deleted) ==
    IF HeldBytes(deleted) >= DELETED_HELD_WARN_BYTES THEN Warn ELSE Ok

\* LogFootprint: the journal is part of /var/log and counts only without it.
LogBytes(logs) ==
    IF logs.var_log # NoAnswer THEN logs.var_log
    ELSE IF logs.journal # NoAnswer THEN logs.journal ELSE 0

\* bytes are at least pct percent of what is used; a share of nothing is 0.
ShareAtLeast(bytes, u, pct) == Used(u) # 0 /\ 100 * bytes >= pct * Used(u)

LogVerdict(logs, mount) ==
    IF \/ LogBytes(logs) >= LOG_SIZE_WARN_BYTES
       \/ /\ mount # NoAnswer
          /\ mount.usage # NoAnswer
          /\ ShareAtLeast(LogBytes(logs), mount.usage, LOG_SHARE_WARN_PCT)
    THEN Warn ELSE Ok

---------------------------------------------------------------------------------
(* diagnose_full: a report that is not there yet is NoAnswer, dirs is the number   *)
(* of entries of the scan                                                          *)

CauseOrder == <<"inodes exhausted", "deleted files", "logs", "large directories",
                "reserved for root">>

\* What speaks for each cause.
Supports(u, deleted, logs, dirs, cause) ==
    CASE cause = "inodes exhausted" -> InodesAtLeast(u, INODE_WARN_PCT)
      [] cause = "deleted files" ->
            /\ deleted # NoAnswer
            /\ \/ HeldBytes(deleted) >= DELETED_HELD_WARN_BYTES
               \/ ShareAtLeast(HeldBytes(deleted), u, 5)
      [] cause = "logs" ->
            logs # NoAnswer /\ ShareAtLeast(LogBytes(logs), u, LOG_SHARE_WARN_PCT)
      [] cause = "large directories" -> dirs # NoAnswer /\ dirs > 0
      [] OTHER -> u.available = 0 /\ Reserved(u) > 0

\* Their places in the order.
CausesFound(u, deleted, logs, dirs) ==
    {i \in DOMAIN CauseOrder : Supports(u, deleted, logs, dirs, CauseOrder[i])}

IsFull(u) == UsedAtLeast(u, SPACE_WARN_PCT) \/ Tight(u)

\* Mutant: a cause found later replaces the one found first.
DiagnoseFullLast(mount, deleted, logs, dirs) ==
    IF mount.usage = NoAnswer THEN "undetermined"
    ELSE IF ~IsFull(mount.usage) THEN "not full"
    ELSE LET found == CausesFound(mount.usage, deleted, logs, dirs)
         IN  IF found = {} THEN "undetermined" ELSE CauseOrder[Largest(found)]

\* The first cause that something speaks for.
DiagnoseFull(mount, deleted, logs, dirs) ==
    IF mount.usage = NoAnswer THEN "undetermined"
    ELSE IF ~IsFull(mount.usage) THEN "not full"
    ELSE LET found == CausesFound(mount.usage, deleted, logs, dirs)
         IN  IF found = {} THEN "undetermined"
             ELSE CauseOrder[CHOOSE i \in found : \A j \in found : i <= j]
=================================================================================
