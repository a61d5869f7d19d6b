# syschk — models, model checking and proofs

syschk is a terminal program that diagnoses an Ubuntu machine without changing
anything on it. This directory holds TLA+ models of the parts of it that have
behaviour, the TLC configurations that check them on small instances, and
theorems about them that TLAPS checks for every instance. Paths below are
relative to the crate's `src/` directory.

## 1. Inventory

| part | state | operations | depends on |
| --- | --- | --- | --- |
| background jobs, `app/jobs.rs` | list of running keys, channel, one thread per job | `request`, thread body, `drain` | the collectors it runs |
| storage screen, `app/storage.rs` | reports on hand, scan, path being viewed | `load_fast`, `jobs_for`, `apply`, `descend`, `ascend`, `reset` | jobs, mounts |
| event loop, `app/runtime.rs` | none of its own | sample, poll collectors, draw, wait for a key | everything in `app/` |
| application, `app/state.rs` | screen, cursors, overlay, digit buffer, row, sort, pin, freeze | `on_key`, `maybe_sample`, `poll_collectors` | storage screen, sampler, catalogue |
| directory measurement, `collect/dirsize.rs` | `Walk`: inodes seen, counters, deadline | `scan`, `walk_dir`, `file_bytes` | the file system |
| sampler, `app/sampler.rs` | previous snapshots, last tick, rates, trends | `due`, `tick` | counter collectors, process list |
| process list, `collect/process.rs` | `ProcCache`: identity by pid, pids denied | `read_cached`, `rows` | `/proc` |
| counter collectors, `collect/{cpu,memory,blockio,network,pressure}.rs` | none | read a snapshot, subtract two | `/proc` |
| assessment, `analyze/{bottleneck,rules}.rs` | none | `assess` | sampler |
| space diagnosis, `analyze/storage.rs` | none | `space_findings`, `diagnose_full`, ... | storage screen |
| slow collectors, `collect/{deleted,logspace,smart,storage_errors}.rs` | none | one report each | `/proc`, external commands |
| mounts and devices, `collect/{mounts,blockdev,fsinfo}.rs` | none | read and sort | `/proc`, `/sys` |
| read-only gate, `util/exec.rs` | none | `check`, `run` | the policy table |
| commands, `commands/*.rs` | none | `check`, `doctor`, `tasks`, `policy` | sampler, analysis, catalogues, gate |
| task catalogue and search, `tasks/*.rs` | none | look-up, ranking | |
| tool inventory, `tools/*.rs` | none | what is installed | |
| rendering, `ui/` | none | drawing; what the screens claim | everything above |

**How they interact.** Everything the user sees is owned by one thread, the event
loop. In every turn it samples (live screens only), takes the answers of the
background jobs, applies them to the storage state, asks for the jobs the selected
task lacks, draws, and waits at most a second for a key. Jobs run in threads of
their own, share nothing with the loop and answer through a channel. There are no
locks; what is hard is the order of things:

* a job may answer before the loop has noted that it runs, and at any point of
  the loop that takes the answers;
* the user changes task, directory or screen, or refreshes, while jobs are in
  flight; answers arrive in any order and perhaps never (an external command has
  no timeout);
* a thread cannot be created, and somebody has to ask again;
* the file system changes under the measurement of a directory, and the deadline
  interrupts a recursion anywhere;
* a process exits and its pid is used again between two samples; a source cannot
  be read once; the user freezes and leaves.

**What makes the parts correct.**

* *Jobs*: one job per key at a time; `running` is exactly what is in the air;
  request and drain are atomic to the caller, answers arrive once and in order;
  a job that ends frees its key.
* *Storage screen*: what is displayed is the scan of the path the keys start from;
  nothing is measured that is on hand or belongs to another screen; results stay
  until the user takes them away; a user who waits gets an answer.
* *Directory measurement*: every file is counted once, under the right entry, on
  one file system only; whatever is missing is announced; it ends.
* *Sampler and process list*: rates are differences of two snapshots of the same
  thing over the time between them; unknown is not zero; no process is listed under
  the command line of another, and a refusal does not pass from one process to the next
  beyond one scan.
* *Assessment*: the axis that is named is the one in most trouble; what gets worse
  does not look better; rates are of the processes and devices that are there now.
* *Diagnosis and slow collectors*: a cause once found is only replaced by a more
  certain one, as long as its report is there; what is held by deleted files is not
  hidden as far as it can be read; a drive that could not be asked and a filesystem that is ill
  do not look healthy; two tasks do not contradict each other.
* *Gate*: a line that is refused stays refused when its short flags are joined or taken
  apart and its arguments moved (not, in the code, when it is rewritten as `--flag=value`).
* *Commands*: the exit code says what was printed.
* *Keys*: a number typed selects that entry, the search cursor is on a hit, a pin
  is on the row the user sees.

The hazards behind this list are in `PROJECT.json`, each with its line and with
the properties that watch over it.

## 2. Modules

| module | models | kind |
| --- | --- | --- |
| `AtomicJobs` | what `app/jobs.rs` promises: request and drain as single steps | abstract specification |
| `Jobs` | `app/jobs.rs` as written: spawn, then push; one `try_recv` at a time | detailed specification, implements `AtomicJobs` |
| `StorageScreen` | `app/storage.rs`, `App::poll_collectors`, the loop and the keys of the storage screen, on top of `AtomicJobs` | composition |
| `StorageRefresh` | `StorageScreen` with two history variables for the age of what is displayed | auxiliary |
| `DirScan` | `collect/dirsize.rs`: the walk, its deadline, other programs removing files | detailed specification |
| `ProcScan` | `collect/process.rs`: reading the processes file by file, and the cache, while processes start, change and exit | detailed specification |
| `Sampler` | `app/sampler.rs` as `app/runtime.rs` and `maybe_sample` drive it | detailed specification |
| `Screens` | the keys of `app/state.rs`: screens, cursors, digits, overlays, the process table | detailed specification |
| `Rules` | `analyze/rules.rs`: verdicts and limits | operators |
| `Assess` | `analyze/bottleneck.rs`: the verdict of each axis, the axis that is named, the headline | operators |
| `Rates` | the subtractions of two snapshots in `collect/{cpu,memory,blockio,network,process}.rs` | operators |
| `Monitor` | `Sampler::tick` with what it reads, and what the screens *Live* and *Slow* claim | specification over `Assess` and `Rates` |
| `Space` | `collect/mounts.rs` and the space part of `analyze/storage.rs` | operators |
| `Gate` | `util/exec.rs`: the policies and `check` | operators |
| `Catalogue` | `tools/` and `tasks/search.rs` | operators |
| `Devices` | `collect/{blockdev,smart,storage_errors,fsinfo}.rs` and what `analyze/storage.rs` says of them | operators over `Space` and `Gate` |
| `Commands` | `main.rs` and `commands/`: every subcommand and its exit code | composition of `Monitor`, `Space`, `Catalogue`, `Gate` |
| `Reports` | the storage screen with the contents of its reports, `collect/{deleted,logspace}.rs`, `ui/screens/storage.rs` | composition over `Devices` |
| `JobsProofs`, `StorageProofs`, `DirScanProofs`, `ProcScanProofs`, `SamplerProofs`, `ScreensProofs`, `ReportsProofs` | theorems about the modules of these names | proofs |
| `CommandsProofs` | theorems about `Commands` and all it is composed of: `Rates`, `Assess`, `Monitor`, `Space`, `Catalogue`, `Gate` | proofs |
| `MCJobs`, `MCStorage`, `MCStorageRefresh`, `MCDirScan`, `MCProcScan`, `MCSampler`, `MCScreens`, `MCCommands`, `MCReports` | the instances TLC checks | instances |

A definition called *Mutant* in a module is the definition after it with a bug
somebody might write; no specification uses it. Each shows that one property
fails when the code is wrong in that way.

### Jobs

`running[k]` and `workers[k]` say how often a key stands in `Jobs.running` and how
many threads execute it; both are 0 or 1, which is a theorem and not an assumption.
`Spawn` and `Push` are the two halves of `request`: the thread runs in between.
`BeginDrain`, `Receive`, `EndDrain` are the loop of `drain`. `Finish` is the end
of the thread; sending after `Drop` does nothing. A request that finds its key
running, or whose thread cannot be created, changes nothing and is a stuttering
step. `retain` removes every entry of a key, so `Receive` sets its number to 0.

`ImplementsAtomicJobs` maps the detailed state to the abstract one: the key of a
thread just spawned, and those of the answers already taken by a drain that is
still running, count as running; `out \o channel` are the answers not handed over
yet. Under this mapping `Spawn` is the abstract request, `EndDrain` the abstract
drain, and `Push`, `BeginDrain`, `Receive` stutter.

### StorageScreen

One turn of the loop is `Drain`, `Poll`, then a key or `Idle`. `Poll` is the rest
of `poll_collectors`: every drained answer is applied in order, the fast data is
read when it is not loaded, and the jobs the task lacks are requested. A request
for several jobs is one step, since only the loop reads and writes the running
list. Reports are abstracted to their presence (`held`, `dir`), the
path to a directory of a finite tree with mount points. Which mount is the fullest
is chosen anew by every `load_fast`, and none may be readable. `Goto` stands for
all keys that end at a task of the storage screen, `Leave` for those that end
elsewhere. `Enter` and `Backspace` contain the request that `descend` makes.

### DirScan

The call stack of `walk_dir` is the path from `Root` to `cur`; the frame of a
directory is what its iterator has still to return (`todo`), and what it has added
up (`bytes`, `items`). Sums of bytes are represented by the set of files whose
blocks they hold, so that *which* files were counted can be stated; that no
addition joins overlapping sets, i.e. that the set is as good as the number, is
part of `CountedOnce`. `Entry`s for files hold themselves or, for a further name
of a counted file, nothing. Time passes in every step (`late` may become true), so
each of the three checks of the deadline is met on either side of it. `gone` grows
when other programs remove files; `Hidden`, `MayDeny` are the nodes for which
`symlink_metadata` or `read_dir` fail.

### ProcScan

A process is its start time, the number of the `Fork` that made it. What is read
from the files of a pid is whatever process has the pid at that moment: `ReadStat`,
`ReadCmd`, `ReadOwner` and `ReadIo` are the four reads of `read_one`, and `Fork`, `Exec` and
`Exit` happen between any two of them. `Exec` is a running process that changes its
program or its owner, which leaves its start time alone. A command line and an owner
are represented by their *image*: the process they were read from and how often it
had changed by then; a process that is gone leaves the name in `stat`. `List` reads
the directory once, though the code iterates over it: a process that starts during
the scan is simply not in it. `EndScan` contains `ProcCache::retain`. `refused`,
`stayed`, `before` and `outdated` are history: who was refused, who has been there since the listing,
which pids the last result had, and who changed after having been looked at first.

The cache takes (pid, start time) for the command line and owner. That is false of a process
that changes, so `OwnCommand` says what is left: never the image of another process, and
the present one unless the process changed after it was looked at first.

### Sampler

A snapshot is its age in waits of the loop. `Tick` computes the rate of each
source from the previous snapshot, if it has one, and the time since the last tick;
the rate records both, so that `DividedByItsSpan` can compare them. `broken` are the
sources that cannot be read now (`/proc/net/dev` without an interface counts as
unreadable: `read` returns nothing). Point values (memory, load, pressure) are
copied as read and left out, and so are the trends.

### Screens

One action per kind of key, with the guards of the arms of `on_key` and in their
order. The screens that only show text are one, `Other`; of the tasks, those of
the live screen are modelled one by one since the sort order depends on them. The
process table is the list in the order of `sort`, before `sorted_procs` moves the pinned
process up, which is what `Rows` does. By pid there is one such order, by anything else
each may occur, as the figures are not modelled. What a search finds is any of a set of lists of
hits.

### Rules, Assess, Rates, Monitor

A percentage is a whole number, the load is in tenths, sizes are in quarters of a
GiB. In `Space` a quotient is compared with a limit by multiplying, so that nothing depends on
rounding. In `Rates` and `Assess` quotients are rounded down where the code keeps an `f32`: a
limit that is a whole number is reached by both or by neither, but two rates that differ by less
than a unit are equal in the model, and which of two such disks is the busiest is left open. `Monitor` is `Sampler::tick` with values: `m` are the metrics on display,
`prev` the snapshots kept for the next rate, and `Tick(now, gap)` reads any of the
samples of `Sample`, in which any file may be `Missing`, any time after the last one
(`gap` 0 stands for less than 50 ms). `Sampler` has when ticks happen, `Monitor`
what they make of what they read. A list of devices is a function from their places in
`/proc` to their rates; where the code sorts it, the order is a relation (`Ahead`, and
`Precedes` of mounts in `Space`), which says in full who comes before whom, equals
included, and is all that is needed to say who is first. `Banner` and `Culprits` are what `slow.rs` and
`live.rs` claim on screen.

### Space, Gate, Catalogue, Devices

These are translations of pure functions. A mount is a record of its device number,
its kind and its usage, or `NoAnswer` when `statvfs` fails; `UsageOf` keeps of a mount table
those that `usage` lists, and `FirstOf` is the one that is listed first. An argument of a command
is a record of how many dashes it begins with, which letters a cluster has, whether
it is an assignment, what it joins by it, and its text; `Says(args)` is what a line says to a program that
reads it as getopt does, a long flag joined with its value included, which `arg_matches`
does not see (`HidesJoined`); it is used by the properties only. Of the policy table `Gate` holds the programs
the collectors run and one entry for every kind of rule. The output of an external command is what its text
amounts to, together with whether it could be started and was refused for lack of
privileges. Where a word occurs in a task, and the tables of tools and tasks, are
parameters.

### Commands

The program started with any subcommand: `tui` ticks until it is quit, `check` ticks twice
and reads one mount table, `doctor`, `tasks` and `policy` read once. `input` is what the
command has read, so that the properties can say what must have been printed. A
filesystem without any size is not measured by the code and says nothing of room, so
`ExitCodeIsWhatIsPrinted` leaves it out.

### Reports

The storage screen once more, with contents where `StorageScreen` has presence and with
the search for deleted files taken process by process and descriptor by descriptor
(`BeginHeld`, `OpenFds`, `ReadLink`, `ReadSize`, `EndHeld`) while `Unlink` and `Close`
happen between any two of them. A process without handles left has ended. Each of the
reads may fail: the listing of `/proc` (`listed`), `read_link` and `metadata` (`missed`), as
the report does not tell, and the listing of descriptors (`denied`), which it does. A
handle is held by a *name*: `Unlink` takes one name, as the kernel's mark " (deleted)"
does, and what the name looks like decides whether it is left out. `since` is
history: what has been held since before the search began.

The directory scan has its path and the scans on their way: `StartScan` is the request of
the screen, `Navigate` Enter and Backspace, and `EndScan` the end of whichever scan, whose directory
is then looked at. A scene fixes which jobs the user's tasks ask for and what may be
found, and `Refresh` (the key r) may happen at any time. The other collectors are one step each.

Where `ProcScan`, `Sampler` and `Screens` meet: `Sampler` reads `ProcScan` in one step, since the loop's
thread does nothing else meanwhile; `Screens` sees of both only that a `Sample`
replaces the table. `StorageScreen` and `Screens` share the keys of the storage
screen: the former has their effect on the data, the latter on the cursors.

## 3. Runs

| run | instance | shows |
| --- | --- | --- |
| `jobs` | 3 keys, one may hang | all properties of `Jobs`, refinement and liveness included |
| `storage` | `/`, `/var` (a mount point), `/var/log`; tasks *what-fills* and *which-full*; the reports *deleted* and *logs* may hang | all properties of `StorageScreen` |
| `dirscan` | 11 nodes: three names of one file at three depths, a mount point, a symbolic link, directories that may be denied, files that vanish | all properties of `DirScan` |
| `procscan` | 2 pids, 3 processes, each of which may change its program or owner once | all properties of `ProcScan` |
| `sampler` | one source of each kind, a sample every second wait, ages up to 5 waits | all properties of `Sampler` |
| `screens` | 2 processes, all 14 entries of the menu, searches with one hit and with two, directories of up to 2 entries | all properties of `Screens` |
| `commands` | a calm system and every reading that is worse in one file or missing, 0 or 1 s apart; 8 mount tables, 3 tools, 3 tasks, all lines of 8 programs with up to 2 arguments | claims of the banner, exit codes, rates, the gate |
| `reports` | 7 scenes: a full disk with the reports on it (2 directories), searches among 3 processes and among strange names, 2 drives, the kernel log with 2 patterns | the properties of `Reports` |
| `storage_view_stays` | as `storage` | violation of `ViewStaysPut` |
| `storage_refresh` | one directory and one report | violation of `FreshAfterRefresh` |
| `check_could_not` | as `commands` | violation of `CouldNotCheck` |
| `kernel_clean` | as `reports` | violation of `CleanIsKnown` |

**Why the bounds are enough.** Keys interact only through equality, so for the job
manager two keys show every interference between jobs and a third a bystander that
hangs. On the storage screen three directories give every relation the code
distinguishes: a child on the same file system, a parent on another one, and no
parent at all; the two tasks share the scan and differ in their reports, which is
all `jobs_for` looks at. The tree of `DirScan` has each kind of node, a directory
within a directory, and one inode with names in the root, below it and two levels
below. No counter is cut off in these: the three models have finitely many states by
themselves, since a key has at most one answer in the air.

`ProcScan` bounds the number of processes (`MaxStart`) and of changes of each (`MaxExec`):
with three of them on two pids a pid is used three times, or one of them twice, before,
during and between scans; one change shows every order of it and the reads.
`Sampler` bounds ages (`Long`): five waits are more than two intervals, and beyond
that the code makes no difference; the two sources differ as the code's do, one
kind keeps its value without time between samples, the other is emptied. `Screens`
bounds the entries of a directory (`MaxRow`), of which only the number counts; the
menu has its real length because the digit buffer depends on it.

In `commands` every limit of `rules.rs` that can decide a verdict has a reading on either
side of it, and the worse readings differ from the calm one in one file each (and in
memory together with the swapped pages), so that any tick may make one thing worse,
better or unreadable; rates need two readings and `WorseNeverLooksBetter` two sets of
rates, so three ticks show every case, and the ticks of the view are not bounded at
all. The mount tables have a full, a tight, a roomy and an unreadable filesystem, one
mounted twice, one without fixed inodes and one without blocks. Two arguments show a
flag alone, joined with another, before and after it; longer lines are the matter of
the theorems in `CommandsProofs`. In `reports` three processes hold two files: two that may be listed
and share one, and one that may not be listed; in a scene of its own one process has
two descriptors, one of them under `/dev/`, and another a name that ends as if it were deleted. Two
directories are enough for a scan to be left, to end late and to replace the other. The
sizes lie on both sides of the limits, and every outcome of a command is there for
either kind of drive and for each of two searches.

**Deadlock** is not checked in the runs of the job manager, the storage screen, the
measurement, the keys and the commands because the program may really stop: the user
quits, the measurement ends, a command returns its exit code.

**Fairness.** The loop turns for ever because `event::poll` has a timeout: `Drain`,
`Poll` and some key or timeout are weakly fair. In `Jobs`, `BeginDrain` is strongly
fair: the loop calls drain once per turn and makes finitely many requests in
between, which keep disabling it. `request` and `drain` themselves are straight-line
code. `PollSucceeds` is strongly fair: creating a thread does not fail for ever.
Only jobs of `Bounded` end for sure; `DirScan` is the reason why directory scans are
among them (`Ends`), and the lack of a timeout in `ReadOnlyCommand::run` the reason
why jobs that run external commands are not. `DirScan` assumes that the thread runs
and that no system call blocks for ever. In `Sampler`, `MaybeSample` is weakly fair, being
the first thing in each turn, and `Timeout` strongly: a user does not press a key
within every single wait for ever.

## 4. What the violations say

They are listed under `findings` in `PROJECT.json` with the sentences of the code
or docs that they contradict.

1. A scan that ends late moves the user back to a directory they have left: `apply`
   sets the path being viewed, whoever asked for the scan.
2. After `r`, answers measured before `r` are displayed as fresh and nothing is
   measured again, because a refresh does not tell the jobs in flight.
3. `check` never returns its exit code 3: `warming_up()` is false after two ticks even
   if nothing could be read in either.
4. A search of the kernel log that failed counts as one that found nothing, and the
   kernel log is called free of storage errors.

What else was met while modelling. The models do as the code does in each case, and
the properties leave the case out where it would violate them; none has a run of its
own.

* *Storage screen.* `ascend` goes above the mount point although its comment says it does
  not (`app/storage.rs:110`). Logs, deleted files and the directory scan are held
  against the fullest filesystem even if they lie on another one (`app/storage.rs:130`).
  The task *which-full* may say "nothing is close to full" of a filesystem that
  another line warns of because little is left in absolute terms.
* *Directory measurement.* An entry whose metadata cannot be read is missing from the
  sums without a word (`collect/dirsize.rs:153`; the constant `Hidden`). When a name of
  a counted hard link is removed during the scan, the file is counted again under its
  last name (line 180; the assumption `OneName`).
* *Process list.* The command line and owner of a process are remembered for as long as it
  runs: after an exec or a change of user it is listed under the old ones
  (`collect/process.rs:50`, `:119`; `Exec` in `ProcScan`). Refusals are remembered by pid alone:
  when the pid of a refused process is used again within one interval, the figures of
  the new one are left out of the next scan as well (`:154`; `NewcomersAreAsked`).
* *Keys.* Up, Down and Enter give the live screen the sort order of the task they arrive
  at; PageUp, PageDown, Home, End and a search hit leave that of the last one
  (`app/state.rs:335`, `:466`).
* *Assessment.* Memory that was never read counts as none left. Stolen time is reported
  as a warning where a queue alone would be critical, and the busiest disk hides a
  slower one that is saturated (`Masked` in `Monitor`). While the sampler warms up the task
  of stuck processes already says that nothing is stuck.
* *Rates.* A process whose i/o may not be read ranks with 0 B/s among the culprits; one
  whose i/o could be read this time but not last time has a rate of 0 and not none.
* *Diagnosis.* Exhausted inodes are looked at only when the blocks are 90 % used or tight, although
  they come first in the documented order. `check` says that every filesystem has room
  though one of them could not be measured. An array that is not running has no
  missing members. A file held by several descriptors is counted once for each.
  Large directories are blamed only as long as their scan is on display: in another
  directory the cause may be undetermined again (`app/storage.rs:106`; `CauseOnlySharpens`).
* *Deleted files.* When `/proc` cannot be listed, or a descriptor not be read, the report
  lacks what is there and does not call itself a lower bound (`collect/deleted.rs:66`, `:91`).
  Files under `/dev/`, which include `/dev/shm`, are left out although they hold memory.
  The mark is that of a name: a file that is listed may have other names and lose no space, and
  a name that ends with " (deleted)" looks deleted. A process that ended during the
  search counts as denied.
* *Filesystem health.* Lines that were found before `journalctl` could no longer be started
  do not reach the badge, which may say that no filesystem has flagged a problem
  (`analyze/storage.rs:565`, `ui/screens/storage.rs:762`; `SearchBrokenOff`). Filesystems on `/dev/mapper` never find their error counter.
* *Commands and gate.* `arg_matches` compares `--flag=value` as a whole, so that
  `smartctl --test=short` passes where `smartctl --test short` is refused, against the comment at
  `util/exec.rs:705` (`HidesJoined`). `doctor` with a bundle ends with 0 when tools of other bundles are
  missing. Two entries of the policy table ask for subcommands that cannot occur:
  `mount` lists flags, and `docker images` lacks the "ls" its entry needs.

## 5. Proofs

`JobsProofs`, for every set of keys:

* `TypeCorrect`, `NeverTwice`, `RunningHonest`: `Spec` implies `[]TypeOK`,
  `[]SingleFlight` and `[]RunningIsInFlight`. `SingleFlight` alone is not inductive: that
  no second thread starts depends on `running` being honest, and `running` is honest
  only together with the one key that is spawned and not yet recorded. The
  inductive invariant joins the three and says that `pending` is empty except
  between `Spawn` and `Push`.
* `Refinement`: initial states map to initial states and every step to a step of
  `AtomicJobs` or a stutter, from the same invariant.

`StorageProofs`, for every tree, mount table and set of tasks that satisfy
`DirAssumption`:

* `TypeCorrect` and `DisplayConsistent` from the invariant that adds "a loaded screen
  has a path". The lemma `AppliedTypes` says what applying a batch of answers does;
  it needs that a non-empty set of positions has a last one.
* `NoNeedlessStart` and `ResultsKept`: the two action properties.

`DirScanProofs`, for every tree (`TreeAssumption`; `ReachedAssumption`, which says that all of it
is reached from the root, gives induction over the tree):

* The open calls are the way from the root to the innermost directory, and none of
  the directories on it is still ahead (`WayInv`). What lies under a name still to visit
  has not been counted (`Fresh` in `SumInv`), which is why every node is visited once.
* `EveryFileOnce`: the sums of the open calls and of the entries reported are disjoint, and
  the inode of a counted file with other names is in `seen`. It assumes `OneName`, that
  a file removed during the scan has no other name; without it the statement is
  false.
* `NothingIsMissing`: every file that is still there is in a sum or below a name still to
  visit, until the deadline or a denied directory is noted (`Told`); at the end
  nothing is ahead. It assumes `Hidden = {}`, as the run does.
* `ItemsAreComplete`: the same for the numbers of items, which travel up the calls with
  every return (`Accounted`).
* `TypesHold`.

`ProcScanProofs`, for any set of pids and any number of processes and changes:

* `ScanTypeCorrect`, `CommandsAreRight`, `RefusedOnce`, `RefusalsAreForgotten`, `ScansAreComplete`.
  That a listed process has its own command line needs more than the snapshot: what
  the cache remembers, what is being read and what is being put together must each
  be right *or belong to a process that is gone*, since a pid may change hands
  between two reads. `AskedOnce` needs that whoever was refused and is still there has
  its pid in `io_denied`, which `retain` keeps because such a process is in the result.
  A remembered image is the present one or its process is in `outdated`, which a process
  enters when it changes while it is remembered or being read.

`SamplerProofs`, for any sources, interval and minimal gap:

* `SamplerTypeCorrect`, `RatesAreRight`, `WarmUpIsOver`, from the invariant that a
  snapshot which is kept was taken by the last tick: this is why the code must drop
  the snapshot of a source that failed, and what the mutant `SnapshotKept` breaks.

`ScreensProofs`, for any finite set of pids, whatever a search finds of the tasks there are
and any bound on directories (`ProcessAssumption`, `HitsAssumption`, `RowAssumption`):

* `TypedIsSelected` and `EveryDigitCounts`: between two keys the digit buffer is empty, or holds one digit, or a
  0 and a digit, and a number in it is that of the selected entry (`DigitsInv`); this is what the
  keys that move the cursor must not break without clearing the buffer.
* `MarkedIsThere`: the cursor of the search is on a hit, or there are none and it is 0 (`HitsInv`).
* `CursorStaysWithPinned`: only `p` changes what is pinned; the row under the cursor is a
  process of the table, and once pinned it is the first (`PinnedFirst`). It needs that the
  table is a list of processes whatever has been sorted (`TableInv`).
* `KeysKeepTypes`: the conjunction of these with `PlacesInv`. That the table is in the order
  of `sort` survives every key because only `Resort` changes either; that the cursor of
  *Live* is at a task needs `HitIsMarked` when Enter follows a hit.

`ReportsProofs`, for any scenes, processes, files, devices and outputs:

* `NothingHeldIsHidden`: during the search, a handle held since before it began is in a process
  still to be opened, among the descriptors of the one that is open, or in the
  files found, unless some process was denied, the handle could not be read or is left
  out, or nothing was listed; and while it runs there is no report.
* `CauseSharpens`: a report that arrives only adds evidence, so that the first place in
  `CauseOrder` that something speaks for can only move forward; the scan of a directory is
  evidence for one place only, so that it takes nothing from another (`EvidenceStays`).
* `TasksDoNotContradict`: the mounts on display are those of some mount table (`TableInv`), so
  that the first of them in the order of the list exists and no other is fuller; then
  what is said of that one bounds every other one that could be measured.
* `NothingIllLooksHealthy`: of each report the verdict is traced back to the output it
  was made from; of the kernel log, when its search was not broken off.

`CommandsProofs`, for any readings, times, mount tables, tools, tasks, queries and lines. What
the readings are assumed to be: numbers are unsigned, devices have names of their own, and no more
memory is available than there is (`SampleAssumption`); a mount table is a list
(`TablesAssumption`); where a word occurs is known for every task, and only in the places
that have a weight (`QueriesAssumption`, `FoundAssumption`).

* `MonitorInv` says that the metrics are of their types, that no disk is listed twice or busy for more
  than all the time, and that `prev` is what the last tick read. It is needed because
  verdicts compare products of what is in `m`, and because the busiest disk has to exist.
* `ClaimsAreBacked`: from it, that the axis chosen by score among the worst is one of them and
  none presses harder, and that the headline agrees with the verdicts.
* `WorseLooksNoBetter`: axis by axis through the conditions of `assess`, in their order, for
  any two metrics of these types.
* `RatesAreOfThePresent`: of any two readings; a pid or a name that is in one only has no rate.
* `ExitCodesTellWhatIsPrinted`: `ExitInv` says of what the exit code was made; the theorem adds that
  the filesystems not listed are no fuller than those that are, and that a task is found exactly when
  every word occurs in it, its score being the sum of positive weights.
* `TypesAreKept`: of `MonitorInv` and `ExitInv`.
* An argument matches a token of the policy exactly when it says it (`MatchIsSaid`); hence a line that
  is refused for an argument stays refused when its single-letter flags are joined or taken apart
  and its arguments moved or followed by others, except for `--flag=value` (`NoDisguise`), and without
  subcommands, conditions and such arguments only what a line
  says counts at all (`OnlyWhatIsSaidCounts`), for every policy whose tokens can be written.
* `TableTokens`: all of the table consists of such tokens; with it `NoLineIsDisguised` says of
  `Commands` that `policy` lets no line through that is rewritten in these ways, whatever lines
  the catalogue has.

Where these need induction, over how many words a query has or which of many is first, it is over
a *set* of numbers: a set of natural numbers that is not empty has a least element (`NatHasLeast`), so one
that holds 0 and all successors holds all (`Induct`), and an order of finitely many
has a first (`HasFirst`). This is also why sorted lists are functions and relations here.

Every invariant and every action property of the passing runs is thus a theorem. Only
model-checked are the liveness properties (`Answered`, `TaskGetsAnswered`, `Ends`,
`Recovers`), since TLAPS does not handle fairness.

## 6. Not modelled

* Parsing of `/proc`, `/sys` and of the output of commands: what a text amounts to is
  the input of the models. That a text which cannot be parsed is no reading is
  modelled.
* Drawing, layout, wording and number formats; of the screens only what they claim.
* The tables of tasks and tools, which are data, and most of the policy table: one
  entry for every kind of rule is there. `run` of the gate is the outcome of a command.
* `collect/mod.rs` and `collect/system.rs`: stateless reads behind one trait.
* Partitions, drive models and mount options, which no verdict depends on.

Their status in `PROJECT.json` is *partly* or *not_modelled* with the reason.

## 7. Plan

1. *Done*: `AtomicJobs`, `Jobs`, `StorageScreen`, `DirScan`; proofs for the first three.
2. *Done*: `ProcScan` and `Sampler` with their proofs; `Screens`.
3. *Done*: assessment, diagnosis and the commands as operators over discretised inputs
   and in `Monitor` and `Commands`.
4. *Done*: the slow collectors and the gate in `Devices`, `Gate` and `Reports`; their proofs; the
   proofs of `DirScan` and `Screens`.
5. *Done*: theorems for what was only checked: the claims, the rates, the exit codes, the
   tasks that agree, the order of the table and the pinned row.
6. Next: that `Sampler` and `Monitor` are one, by a refinement that forgets the values;
   the whole policy table, and that each entry refuses what its comment says it refuses.
7. `Reports` on top of `StorageScreen`, so that contents, the tree and the job manager are
   seen together.
