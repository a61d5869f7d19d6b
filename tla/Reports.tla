--------------------------------- MODULE Reports ---------------------------------
(* The storage screen with what its reports say (src/app/storage.rs and            *)
(* src/ui/screens/storage.rs), where module StorageScreen has only that they are   *)
(* there.  The search for deleted files (src/collect/deleted.rs) is taken step by   *)
(* step, with processes closing files and ending meanwhile; the other collectors    *)
(* are one step each, that of the kernel log (src/collect/storage_errors.rs) with   *)
(* every combination of outcomes of its searches.  A scene fixes which jobs the     *)
(* user's tasks ask for and what may be found.                                      *)
EXTENDS Devices, FiniteSets

CONSTANTS
    Scenes,     \* records of jobs, tables (mount tables), handles (open files), mdstats
                \* (sequences of lines) and recorded (error counters of ext4, by device)
    Found,      \* devices of /sys/block, a set
    Outputs,    \* what the command for a drive may put out, a function of its kind
    Readable,   \* processes whose files may be listed
    Directories, \* directories that may be scanned
    Footprints, \* records of journal and var_log, either NoAnswer
    DirCounts,  \* numbers of entries of a directory scan
    Patterns,   \* the sequence of what the kernel log is searched for
    Idle        \* no search is on its way

Job == {"deleted", "logs", "dirs", "drives", "errors"}

ASSUME ReportsAssumption ==
    \A s \in Scenes : s.jobs \subseteq Job /\ s.tables # {} /\ s.mdstats # {} /\ s.recorded # {}

ASSUME PathsAssumption == Directories # {}

ASSUME TablesAssumption == \A s \in Scenes : \A t \in s.tables : IsTable(t)

\* Nothing that can be read is taken for its absence.
ASSUME AbsenceAssumption ==
    /\ \A s \in Scenes : Idle \notin s.handles
    /\ \A outputs \in Outputs, kind \in {"sata", "nvme"} : outputs[kind] # NoAnswer
    /\ NoAnswer # FALSE

VARIABLES
    scene,      \* one of Scenes
    table,      \* the mount table
    open,       \* the handles that are open
    gone,       \* the names that have been deleted
    shown,      \* StorageState: the reports that are there
    held,       \* the search for deleted files
    since,      \* what has been held since before that search began
    path,       \* the directory that is looked at
    scans       \* the directories that are being scanned

vars == <<scene, table, open, gone, shown, held, since, path, scans>>

\* StorageState::default; mounts, arrays and filesystems are read at once.
Unread == [mounts |-> NoAnswer, arrays |-> <<>>, filesystems |-> <<>>, deleted |-> NoAnswer,
           logs |-> NoAnswer, dirs |-> NoAnswer, drives |-> NoAnswer, errors |-> NoAnswer]

Init ==
    /\ scene \in Scenes
    /\ table \in scene.tables
    /\ open = scene.handles
    /\ gone \in SUBSET {h.name : h \in scene.handles}
    /\ shown = Unread
    /\ held = Idle
    /\ since = {}
    /\ path \in Directories
    /\ scans = {}

Set(report, value) == shown' = [shown EXCEPT ![report] = value]

---------------------------------------------------------------------------------
(* Other programs                                                                  *)

Write(t) == table' = t /\ UNCHANGED <<scene, open, gone, shown, held, since, path, scans>>

Unlink(name) ==
    /\ gone' = gone \cup {name}
    /\ UNCHANGED <<scene, table, open, shown, held, since, path, scans>>

Close(h) ==
    /\ open' = open \ {h}
    /\ since' = since \ {h}
    /\ UNCHANGED <<scene, table, gone, shown, held, path, scans>>

---------------------------------------------------------------------------------
(* load_fast, and r                                                                *)

LoadFast(mdstat, recorded) ==
    /\ shown.mounts = NoAnswer
    /\ shown' = [shown EXCEPT !.mounts = UsageOf(table),
                              !.arrays = RaidArrays(mdstat),
                              !.filesystems = Health(UsageOf(table), recorded)]
    /\ UNCHANGED <<scene, table, open, gone, held, since, path, scans>>

\* reset: what is on its way goes on.
Refresh ==
    /\ shown' = Unread
    /\ UNCHANGED <<scene, table, open, gone, held, since, path, scans>>

Asks(job) == shown.mounts # NoAnswer /\ job \in scene.jobs /\ shown[job] = NoAnswer

---------------------------------------------------------------------------------
(* deleted.rs, scan: the processes that hold files one by one, and their descriptors *)
(* one by one.  A handle is a process, the name by which it opened the file, the   *)
(* size, and what that name looks like: "/dev/" stands for the two beginnings that *)
(* are left out, "(deleted)" for a name that ends as the kernel marks deleted ones *)

AliveNow == {h.pid : h \in open}

\* Nothing is searched, and nothing said of it, when /proc cannot be listed.
BeginHeld ==
    /\ Asks("deleted") /\ held = Idle
    /\ \E listed \in BOOLEAN :
            held' = [todo |-> IF listed THEN AliveNow ELSE {}, fds |-> {}, at |-> Idle,
                     files |-> <<>>, denied |-> 0, listed |-> listed, missed |-> {}]
    /\ since' = {h \in open : h.name \in gone}
    /\ UNCHANGED <<scene, table, open, gone, shown, path, scans>>

\* Mutant: a process whose files cannot be listed is passed by.
OpenFdsSilent(pid) ==
    /\ held' = [held EXCEPT !.todo = @ \ {pid},
                            !.fds = IF pid \in Readable THEN {h \in open : h.pid = pid} ELSE {}]
    /\ UNCHANGED <<scene, table, open, gone, shown, since, path, scans>>

\* A process without handles left has closed them, or has ended; the latter counts as
\* denied.
OpenFds(pid) ==
    /\ \/ /\ pid \in Readable
          /\ held' = [held EXCEPT !.todo = @ \ {pid}, !.fds = {h \in open : h.pid = pid}]
       \/ /\ pid \notin Readable \cap AliveNow
          /\ held' = [held EXCEPT !.todo = @ \ {pid}, !.denied = @ + 1]
    /\ UNCHANGED <<scene, table, open, gone, shown, since, path, scans>>

\* What the target of the descriptor ends with, unless it is of no interest.
LooksDeleted(h) == h.looks # "/dev/" /\ (h.name \in gone \/ h.looks = "(deleted)")

\* read_link tells whether the name has been deleted; it may fail, and does for what has
\* been closed meanwhile.
ReadLink(h) ==
    /\ \/ /\ h \in open
          /\ held' = [held EXCEPT !.fds = @ \ {h}, !.at = IF LooksDeleted(h) THEN h ELSE Idle]
       \/ held' = [held EXCEPT !.fds = @ \ {h}, !.missed = @ \cup {h}]
    /\ UNCHANGED <<scene, table, open, gone, shown, since, path, scans>>

\* The line for a handle, of which the name and its look are one string in the code.
LineOf(h, bytes) == [pid |-> h.pid, name |-> h.name, looks |-> h.looks, bytes |-> bytes]

\* metadata: the same goes for the size.
ReadSize ==
    /\ \/ /\ held.at \in open
          /\ held' = [held EXCEPT !.at = Idle,
                                  !.files = Append(@, LineOf(held.at, held.at.bytes))]
       \/ held' = [held EXCEPT !.at = Idle, !.files = Append(@, LineOf(held.at, NoAnswer)),
                               !.missed = @ \cup {held.at}]
    /\ UNCHANGED <<scene, table, open, gone, shown, since, path, scans>>

\* listed and missed are not in the report of the code: nothing tells the reader.
EndHeld ==
    /\ Set("deleted", [files |-> held.files, denied |-> held.denied,
                       listed |-> held.listed, missed |-> held.missed])
    /\ held' = Idle
    /\ UNCHANGED <<scene, table, open, gone, since, path, scans>>

Searching == held # Idle
Between == Searching /\ held.at = Idle /\ held.fds = {}

HeldStep ==
    \/ BeginHeld
    \/ Between /\ \E pid \in held.todo : OpenFds(pid)
    \/ Searching /\ held.at = Idle /\ \E h \in held.fds : ReadLink(h)
    \/ Searching /\ held.at # Idle /\ ReadSize
    \/ Between /\ held.todo = {} /\ EndHeld

---------------------------------------------------------------------------------
(* The scan of a directory, which the user may leave for another one               *)

\* jobs_for, when the screen is drawn: the directory that is looked at, if its scan is
\* not on its way.
StartScan ==
    /\ Asks("dirs")
    /\ scans' = scans \cup {path}
    /\ UNCHANGED <<scene, table, open, gone, shown, held, since, path>>

\* descend and ascend: the scan goes, that of the other directory is asked for; the
\* thread may not start.
Navigate(d) ==
    /\ "dirs" \in scene.jobs /\ d # path
    /\ path' = d
    /\ Set("dirs", NoAnswer)
    /\ scans' \in {scans, scans \cup {d}}
    /\ UNCHANGED <<scene, table, open, gone, held, since>>

\* apply: whichever scan ends is shown, and its directory looked at.
EndScan(d, entries) ==
    /\ scans' = scans \ {d}
    /\ path' = d
    /\ Set("dirs", entries)
    /\ UNCHANGED <<scene, table, open, gone, held, since>>

---------------------------------------------------------------------------------
(* The other jobs                                                                  *)

\* logspace.rs, footprint: what the journal says of itself, and /var/log.
MeasureLogs(footprint) ==
    /\ Asks("logs")
    /\ Set("logs", footprint)
    /\ UNCHANGED <<scene, table, open, gone, held, since, path, scans>>

\* read_all: every drive is asked in turn.
AskDrives(present, outputs) ==
    /\ Asks("drives")
    /\ Set("drives", [d \in Drives(Found) |-> ReadDrive(d, present, outputs[d.kind])])
    /\ UNCHANGED <<scene, table, open, gone, held, since, path, scans>>

\* storage_errors.rs, scan: one search after the other; a command that cannot be
\* started ends them all, one that fails has found nothing.
Searched(outcomes) ==
    LET aborted == {i \in DOMAIN outcomes : outcomes[i] = "not started"}
        done == IF aborted = {} THEN outcomes
                ELSE SubSeq(outcomes, 1, (CHOOSE i \in aborted : \A j \in aborted : i <= j) - 1)
    IN  [availability |-> IF aborted = {} THEN "ok" ELSE "parse failed",
         hits         |-> SelectSeq(done, LAMBDA o : o \notin {"nothing", "failed"})]

SearchKernelLog(present, outcomes) ==
    /\ Asks("errors")
    /\ Set("errors",
           IF "journalctl" \notin present THEN
               [availability |-> "not installed", hits |-> <<>>, outcomes |-> <<>>]
           ELSE LET allowed == SelectSeq(Patterns,
                        LAMBDA p : Parse(SearchCommand(p)) = Accepted)
                    got == [i \in DOMAIN allowed |-> outcomes[allowed[i]]]
                IN  Searched(got) @@ [outcomes |-> got])
    /\ UNCHANGED <<scene, table, open, gone, held, since, path, scans>>

---------------------------------------------------------------------------------

Next ==
    \/ \E t \in scene.tables : Write(t)
    \/ \E h \in open : Unlink(h.name) \/ Close(h)
    \/ \E mdstat \in scene.mdstats, recorded \in scene.recorded : LoadFast(mdstat, recorded)
    \/ Refresh
    \/ HeldStep
    \/ \E footprint \in Footprints : MeasureLogs(footprint)
    \/ StartScan
    \/ \E d \in Directories : Navigate(d)
    \/ \E d \in scans, entries \in DirCounts : EndScan(d, entries)
    \/ \E present \in SUBSET {"smartctl", "nvme"}, outputs \in Outputs :
            AskDrives(present, outputs)
    \/ \E present \in SUBSET {"journalctl"},
          outcomes \in [ToSet(Patterns) -> {"nothing", "failed", "not started", "lines"}] :
            SearchKernelLog(present, outcomes)

Spec == Init /\ [][Next]_vars

---------------------------------------------------------------------------------
(* What is on the screen                                                           *)

Loaded == shown.mounts # NoAnswer

\* which_full, the headline: the first of the worst findings, by its mount.
Headline ==
    LET verdicts == SpaceFindings(shown.mounts)
    IN  shown.mounts[FirstOf(shown.mounts,
            {i \in DOMAIN verdicts : verdicts[i] = Largest(Range(verdicts))})]

\* StorageState::fullest; the first of the list.
Fullest == shown.mounts[FirstOf(shown.mounts, DOMAIN shown.mounts)]

\* StorageState::diagnosis, of the fullest filesystem.
Cause ==
    IF ~Loaded \/ DOMAIN shown.mounts = {} THEN "none"
    ELSE DiagnoseFull(Fullest, shown.deleted, shown.logs, shown.dirs)

\* deleted_held: the total is called a lower bound.
LowerBound == shown.deleted.denied > 0

\* logs: the logs are measured against /var or, if that is no mount, against /.
LogMount ==
    LET at(target) == {i \in DOMAIN shown.mounts : shown.mounts[i].target = target}
        found == IF at("/var") # {} THEN at("/var") ELSE at("/")
    IN  IF found = {} THEN NoAnswer ELSE shown.mounts[FirstOf(shown.mounts, found)]

---------------------------------------------------------------------------------
(* Correctness                                                                     *)

\* Deleted space is not hidden: whatever was held before the search began and still is,
\* is in the report with its size, unless the report calls itself a lower bound.  Three
\* things are hidden nevertheless, and the report looks complete: everything when /proc
\* could not be listed, a descriptor that could not be read, and what lies under /dev/ or
\* in a memfd.  And what is in the report has lost the name by which it was opened,
\* though it may have others, or has a name that looks it (scan, src/collect/deleted.rs).
HeldNeverHidden ==
    shown.deleted # NoAnswer =>
        /\ ~LowerBound /\ shown.deleted.listed /\ held = Idle =>
            \A h \in since \ shown.deleted.missed :
                h.looks = "/dev/" \/ LineOf(h, h.bytes) \in Range(shown.deleted.files)
        /\ \A line \in Range(shown.deleted.files) :
                line.name \in gone \/ line.looks = "(deleted)"

\* The place of a cause in the order of certainty, undetermined being the last.
Rank ==
    [cause \in Range(CauseOrder) \cup {"undetermined", "not full", "none"} |->
        IF cause \in Range(CauseOrder)
        THEN CHOOSE i \in DOMAIN CauseOrder : CauseOrder[i] = cause
        ELSE Len(CauseOrder) + 1]

\* The reports a diagnosis needs arrive in any order, and the cause that is named
\* meanwhile is never replaced by a less certain one: until r, it stays or gives way
\* to one that is looked at before it (diagnose_full, src/analyze/storage.rs).  One cause
\* is only as lasting as its report: large directories are no longer blamed when the user
\* goes to another directory, or the scan of another one ends (descend and apply,
\* src/app/storage.rs).
CauseOnlySharpens ==
    [][Loaded /\ shown' # shown /\ shown'.mounts = shown.mounts =>
            /\ \/ Rank[Cause'] <= Rank[Cause]
               \/ Cause = "large directories" /\ shown'.dirs # shown.dirs
            /\ Cause = "not full" <=> Cause' = "not full"]_vars

\* Two tasks that look at the same reports do not contradict each other.  "Nothing is
\* close to full" is said of the fullest filesystem alone, and then no other one that
\* could be measured is above the limit, and the headline above it is no worse than
\* a warning.  What deleted_held warns of is not passed over where the fullest one is
\* explained; and logs that the task of the logs calls modest are not blamed there, if
\* that is the filesystem they are on (which_full, deleted_held and logs in
\* src/ui/screens/storage.rs, usage in src/collect/mounts.rs).
TasksAgree ==
    /\ Cause = "not full" =>
        /\ \A i \in DOMAIN shown.mounts :
            shown.mounts[i].usage # NoAnswer =>
                ~UsedAtLeast(shown.mounts[i].usage, SPACE_WARN_PCT)
        /\ SpaceVerdict(Headline) \in {Ok, Warn, Unknown}
        /\ SpaceVerdict(Headline) = Warn => Tight(Headline.usage)
    /\ Cause \in {"logs", "large directories", "reserved for root"} /\ shown.deleted # NoAnswer =>
        DeletedVerdict(shown.deleted) = Ok
    /\ Cause = "logs" /\ LogMount = Fullest =>
        LogVerdict(shown.logs, LogMount) = Warn

\* A drive looks healthy only when its tool ran, was not refused, said something and
\* nothing that announces a failure; it is called failing exactly when it said so
\* itself (read_sata, read_nvme and drive_findings).
DriveIsHeard(d) ==
    LET heard == d.raw # NoAnswer /\ d.raw.spawned /\ ~d.raw.denied
    IN  /\ DriveVerdict(d) = Ok =>
            heard /\ ~Nothing(d.drive, Parsed(d.drive, d.raw.said))
            /\ \A a \in Parsed(d.drive, d.raw.said).attributes : ~a.concern
        /\ DriveVerdict(d) = Critical <=>
            heard /\ Failing(Parsed(d.drive, d.raw.said))

\* journalctl was missing, or could no longer be started in the middle of the search.
SearchBrokenOff == shown.errors # NoAnswer /\ shown.errors.availability # "ok"

\* A missing member of an array, a read-only filesystem and a line in the kernel log
\* are never under a badge that says all is well (filesystem_findings and fs_health),
\* except that the lines found before a search was broken off do not count: they are in
\* the report, and the badge may say so all the same (src/analyze/storage.rs:564 and
\* src/ui/screens/storage.rs:762).
BadgeIsEarned ==
    FsHealthBadge(shown.filesystems, shown.errors, shown.arrays) = Ok =>
        /\ \A i \in DOMAIN shown.arrays : "_" \notin ToSet(shown.arrays[i].state)
        /\ Loaded => \A i \in DOMAIN shown.mounts : ~shown.mounts[i].ro
        /\ shown.errors = NoAnswer \/ SearchBrokenOff \/ shown.errors.hits = <<>>

\* A drive that is ill or could not be asked does not look healthy, nor do filesystems
\* and arrays that are ill; of the kernel log this holds as far as BadgeIsEarned says.
NoFalseComfort ==
    /\ shown.drives # NoAnswer =>
        \A drive \in DOMAIN shown.drives : DriveIsHeard(shown.drives[drive])
    /\ BadgeIsEarned

\* Violated.  docs/development.md:129: a value that could not be read is not dressed
\* up as 0, so the log is not called clean when a search of it failed.
CleanIsKnown ==
    shown.errors # NoAnswer /\ KernelVerdict(shown.errors) = Ok =>
        \A i \in DOMAIN shown.errors.outcomes : shown.errors.outcomes[i] = "nothing"
=================================================================================
