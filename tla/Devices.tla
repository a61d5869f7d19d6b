--------------------------------- MODULE Devices ---------------------------------
(* Drives, arrays and the state of filesystems: what src/collect/blockdev.rs,      *)
(* smart.rs, storage_errors.rs and fsinfo.rs read and what src/analyze/storage.rs  *)
(* says of it, as operators.  The output of a command is a record [spawned,        *)
(* denied, said]; said is what its text, if any, amounts to.                       *)
EXTENDS Space, Gate

---------------------------------------------------------------------------------
(* blockdev.rs: a device is a record of name, kind ("sata", "nvme", "virtual" or   *)
(* "noise"), the node its health is asked at, and size                             *)

BlockDevices(found) == {d \in found : d.kind # "noise" /\ d.size > 0}

\* mdstat is a sequence of lines, the headers of arrays and the states of their
\* members; a state belongs to the header last seen, and replaces an earlier one.
StatesOf(mdstat, i) ==
    {k \in (i + 1)..Len(mdstat) :
        /\ mdstat[k].line = "state"
        /\ \A j \in (i + 1)..k : mdstat[j].line # "header"}

RaidArrays(mdstat) ==
    LET headers == SetToSortSeq({i \in DOMAIN mdstat : mdstat[i].line = "header"},
                                LAMBDA i, j : i < j)
    IN  [a \in DOMAIN headers |->
            [name  |-> mdstat[headers[a]].name,
             state |-> IF StatesOf(mdstat, headers[a]) = {} THEN <<>>
                       ELSE mdstat[Largest(StatesOf(mdstat, headers[a]))].members]]

Degraded(array) == "_" \in ToSet(array.state)

---------------------------------------------------------------------------------
(* smart.rs                                                                        *)

\* The devices that can be asked.
Drives(found) == {d \in BlockDevices(found) : d.kind \in {"sata", "nvme"}}

ToolOf(drive) == IF drive.kind = "nvme" THEN "nvme" ELSE "smartctl"

HealthCommand(drive) ==
    [program |-> ToolOf(drive),
     args    |-> IF drive.kind = "nvme" THEN <<Word("smart-log"), Word(drive.node)>>
                 ELSE <<Flag("H"), Flag("A"), Word(drive.node)>>]

\* SATA: the attributes worth a look; hours and temperature are no fault.
SATA_ATTRS == {5, 187, 188, 197, 198, 199, 9, 194}

SataAttributes(said) ==
    {[id |-> a.id, concern |-> a.id \notin {9, 194} /\ a.value > 0] :
        a \in {b \in said.attributes : b.id \in SATA_ATTRS}}

\* What is looked for in the log of an NVMe drive; its temperature, its unsafe shutdowns
\* and the length of its error log are together the history.
NVME_FIELDS ==
    {"critical_warning", "percentage_used", "available_spare", "media_errors", "history"}

\* NVMe: one attribute for each field that is there.
NvmeConcern(field, value) ==
    CASE field = "critical_warning" -> value # 0
      [] field = "percentage_used" -> value >= 90
      [] field = "available_spare" -> value < 20
      [] field = "media_errors" -> value > 0
      [] OTHER -> FALSE

NvmeAttributes(said) ==
    {[id |-> field, concern |-> NvmeConcern(field, said[field])] :
        field \in {f \in NVME_FIELDS : said[f] # NoAnswer}}

\* What the text of a drive's report comes to.
Parsed(drive, said) ==
    IF drive.kind = "nvme"
    THEN [healthy    |-> IF said["critical_warning"] = NoAnswer THEN NoAnswer
                         ELSE said["critical_warning"] = 0,
          attributes |-> NvmeAttributes(said)]
    ELSE [healthy |-> said.healthy, attributes |-> SataAttributes(said)]

Nothing(drive, parsed) ==
    parsed.attributes = {} /\ (drive.kind = "nvme" \/ parsed.healthy = NoAnswer)

\* read_sata and read_nvme: present is the set of programs on PATH; raw is the output
\* that is kept as evidence.
ReadDrive(drive, present, output) ==
    LET without(why, raw) == [drive |-> drive, availability |-> why, healthy |-> NoAnswer,
                              attributes |-> {}, raw |-> raw]
        parsed == Parsed(drive, output.said)
    IN  IF ToolOf(drive) \notin present THEN without("not installed", NoAnswer)
        ELSE IF Parse(HealthCommand(drive)) # Accepted THEN without("unsupported", NoAnswer)
        ELSE IF output.denied THEN without("needs privilege", output)
        ELSE IF ~output.spawned \/ Nothing(drive, parsed) THEN without("parse failed", output)
        ELSE [drive |-> drive, availability |-> "ok", healthy |-> parsed.healthy,
              attributes |-> parsed.attributes, raw |-> output]

\* healthy is Some(false).
Failing(report) == report.healthy = FALSE

\* Mutant: a drive that could not be asked has nothing to concern.
DriveVerdictHasty(health) ==
    IF Failing(health) THEN Critical
    ELSE IF \E a \in health.attributes : a.concern THEN Warn ELSE Ok

DriveVerdict(health) ==
    IF health.availability # "ok" THEN Unknown
    ELSE IF Failing(health) THEN Critical
    ELSE IF \E a \in health.attributes : a.concern THEN Warn
    ELSE Ok

---------------------------------------------------------------------------------
(* storage_errors.rs: hits are numbers of lines, one for each pattern that was     *)
(* found                                                                           *)

SearchCommand(pattern) ==
    [program |-> "journalctl",
     args    |-> <<Flag("k"), Flag("b"), Flag("0"), Long("--grep"), Word(pattern),
                   Long("--no-pager")>>]

Clean(errors) == errors.availability = "ok" /\ errors.hits = <<>>

KernelVerdict(errors) ==
    IF errors.availability # "ok" THEN Unknown ELSE IF Clean(errors) THEN Ok ELSE Warn

---------------------------------------------------------------------------------
(* fsinfo.rs: recorded are the error counters in /sys/fs/ext4, by the name of the  *)
(* device                                                                          *)

Health(mounts, recorded) ==
    [i \in DOMAIN mounts |->
        [target    |-> mounts[i].target,
         read_only |-> mounts[i].ro,
         errors    |-> IF mounts[i].ext /\ mounts[i].source \in DOMAIN recorded
                       THEN recorded[mounts[i].source] ELSE NoAnswer]]

\* filesystem_findings, where nothing asks for the kernel errors they are NoAnswer.
FilesystemVerdicts(filesystems, errors, arrays) ==
    {Critical : f \in {g \in Range(filesystems) : g.read_only}}
    \cup {Warn : f \in {g \in Range(filesystems) : g.errors # NoAnswer /\ g.errors > 0}}
    \cup (IF errors = NoAnswer THEN {} ELSE {KernelVerdict(errors)})
    \cup {IF Degraded(a) THEN Critical ELSE Ok : a \in ToSet(arrays)}

\* The task fs-health: all is well unless something is worth a warning.
FsHealthBadge(filesystems, errors, arrays) ==
    LET problems == {v \in FilesystemVerdicts(filesystems, errors, arrays) : v >= Warn}
    IN  IF problems = {} THEN Ok ELSE Largest(problems)
=================================================================================
