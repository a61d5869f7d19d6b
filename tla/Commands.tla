-------------------------------- MODULE Commands --------------------------------
(* The program as it is started from the command line (src/main.rs, src/cli.rs,   *)
(* src/commands): without a subcommand the interactive view, which samples as long *)
(* as it runs (Monitor); `check` samples twice, a second apart, and reads the mount *)
(* table (Space); `doctor` and `tasks` look into the catalogues (Catalogue);        *)
(* `policy` puts the commands of the catalogue through the gate (Gate).  All but    *)
(* the view end with an exit code that sums up what they have printed.             *)
EXTENDS Monitor, Space, Catalogue, Gate

CONSTANTS
    Tables,     \* mount tables
    Systems,    \* what is present: sets of paths and executables
    Lines,      \* the commands of the task catalogue, sets of lines
    Queries,    \* sequences of words
    Screens,    \* numbers of screens that may be asked for
    None,       \* an option that is not given
    NoExit      \* the program still runs

ASSUME TablesAssumption == \A t \in Tables : IsTable(t)

\* Where a word occurs is known for every task.
ASSUME QueriesAssumption ==
    \A i \in DOMAIN Tasks : Queries \subseteq Seq(DOMAIN Tasks[i].found)

\* An argument of a line is an assignment or is not.
ASSUME LinesAssumption ==
    \A lines \in Lines : \A line \in lines :
        \A i \in DOMAIN line.args : line.args[i].sets \in BOOLEAN

VARIABLES
    command,    \* the subcommand
    input,      \* what the command has read
    exit        \* the exit code

vars == <<monitorVars, command, input, exit>>

Init ==
    /\ MonitorInit
    /\ command \in {"tui", "check", "doctor", "tasks", "policy"}
    /\ input = None
    /\ exit = NoExit

Running(c) == command = c /\ exit = NoExit

Ends(read, code) == input' = read /\ exit' = code /\ UNCHANGED <<monitorVars, command>>

---------------------------------------------------------------------------------
(* The interactive view                                                            *)

TuiTick(now, gap) == Running("tui") /\ Tick(now, gap) /\ UNCHANGED <<command, input, exit>>

\* q, or drawing or reading a key fails and main returns the error.
Quit == Running("tui") /\ \E code \in {0, 1} : Ends(None, code)

---------------------------------------------------------------------------------
(* check                                                                           *)

\* The verdicts of the section Storage.
StorageFindings(t) ==
    Range(SpaceFindings(UsageOf(t))) \cup Range(InodeFindings(UsageOf(t)))

\* Only what is worth a warning is printed.
Notable(t) == {verdict \in StorageFindings(t) : verdict >= Warn}

\* Mutant: the exit code forgets the inodes.
StorageWorstSpace(t) == Largest({Ok} \cup Range(SpaceFindings(UsageOf(t))))

\* Without any filesystem all is well.
StorageWorst(t) == IF StorageFindings(t) = {} THEN Ok ELSE Largest(StorageFindings(t))

ExitCode(worst) == CASE worst = Critical -> 2 [] worst = Warn -> 1 [] OTHER -> 0

\* Two ticks, the second of them after a second's sleep.
CheckTick(now) ==
    /\ Running("check") /\ WarmingUp
    /\ Tick(now, IF samples = 0 THEN 0 ELSE 1)
    /\ UNCHANGED <<command, input, exit>>

\* warming_up() cannot hold after two ticks: exit code 3 is never returned.
Report(t) ==
    /\ Running("check") /\ ~WarmingUp
    /\ Ends(t, ExitCode(Largest({Worst(Shown.findings), StorageWorst(t)})))

---------------------------------------------------------------------------------
(* doctor, tasks and policy read once and end                                      *)

\* The tools that are listed as missing, of one bundle or of all.
Listed(bundle, present) ==
    {i \in IF bundle = None THEN DOMAIN Tools ELSE InBundle(bundle) :
        StatusOf(Tools[i], present) = "missing"}

Doctor(bundle, present) ==
    /\ Running("doctor")
    /\ Ends([bundle |-> bundle, present |-> present],
            IF bundle \notin Bundles \cup {None} THEN 2
            ELSE IF Listed(bundle, present) # {} THEN 1 ELSE 0)

\* --markdown goes before the query, and the query before the screen.
Markdown == Running("tasks") /\ Ends([query |-> None, screen |-> None], 0)

TasksCommand(query, screen) ==
    /\ Running("tasks")
    /\ Ends([query |-> query, screen |-> screen],
            IF query # None THEN (IF DOMAIN Find(query) = {} THEN 1 ELSE 0)
            ELSE IF screen # None /\ screen \notin 1..14 THEN 2 ELSE 0)

Rejected(lines) == {line \in lines : Parse(line) # Accepted}

Policy(lines) == Running("policy") /\ Ends(lines, IF Rejected(lines) = {} THEN 0 ELSE 1)

---------------------------------------------------------------------------------

Next ==
    \/ \E now \in Sample, gap \in Gaps : TuiTick(now, gap)
    \/ Quit
    \/ \E now \in Sample : CheckTick(now)
    \/ \E t \in Tables : Report(t)
    \/ \E bundle \in Bundles \cup {"unknown", None}, present \in Systems : Doctor(bundle, present)
    \/ \E query \in Queries \cup {None}, screen \in Screens \cup {None} : TasksCommand(query, screen)
    \/ Markdown
    \/ \E lines \in Lines : Policy(lines)

Spec == Init /\ [][Next]_vars

---------------------------------------------------------------------------------
(* Correctness                                                                     *)

\* The metrics are of their types, and the program ends with a code it documents.
TypeOK ==
    /\ MonitorTypeOK
    /\ command \in {"tui", "check", "doctor", "tasks", "policy"}
    /\ exit \in {NoExit, 0, 1, 2}

Ended(c) == command = c /\ exit # NoExit

\* A script that looks at the exit code alone learns what was printed.  check: 2 when
\* a line says CRITICAL, 1 when the worst says WARNING, 0 when none does; and that
\* every filesystem has room is not printed while one that could be measured, and has
\* any size, has none left, in bytes or in inodes.  doctor: 1 exactly when a tool that applies has
\* none of its programs here, as far as it was asked for.  tasks: 1 exactly when
\* there is no task in which every word occurs.  (src/commands)
ExitCodeIsWhatIsPrinted ==
    /\ Ended("check") =>
        LET printed == {Shown.findings[a] : a \in Axis} \cup Notable(input)
        IN  /\ exit = 2 <=> Critical \in printed
            /\ exit = 1 <=> Warn \in printed /\ Critical \notin printed
            /\ Notable(input) = {} => \A i \in DOMAIN input :
                    /\ IsUserFilesystem(input[i])
                    /\ input[i].usage # NoAnswer /\ input[i].usage.total # 0
                    => \/ \E j \in 1..(i - 1) : input[j].dev = input[i].dev
                       \/ /\ ~UsedAtLeast(input[i].usage, SPACE_WARN_PCT)
                          /\ ~InodesAtLeast(input[i].usage, INODE_WARN_PCT)
    /\ Ended("doctor") /\ exit # 2 =>
        (exit = 1 <=> \E i \in DOMAIN Tools :
            /\ input.bundle \in {None, Tools[i].bundle}
            /\ Tools[i].only_if \in input.present \cup {NoPath}
            /\ Tools[i].binaries \cap input.present = {})
    /\ Ended("tasks") /\ input.query \notin {None, <<>>} =>
        (exit = 1 <=> \A i \in DOMAIN Tasks : \E j \in DOMAIN input.query :
            Tasks[i].found[input.query[j]] = {})

\* No line of the catalogue passes the gate because its single-letter flags are
\* joined or taken apart, or because its arguments stand elsewhere or among others,
\* when a line that says no more than it was refused for an argument.  Excepted is
\* what is forbidden as a long flag or word and given as --flag=value: arg_matches
\* compares such an argument as a whole (src/util/exec.rs:831-846).
NothingIsDisguised ==
    Ended("policy") => \A x, y \in input :
        /\ x.program = y.program
        /\ Says(x.args) \subseteq Says(y.args)
        /\ Parse(x) = "forbidden argument"
        => \/ Parse(y) = "forbidden argument"
           \/ HidesJoined(Allowlist[y.program], y.args)

\* Violated.  src/src/commands/check.rs:7: exit code 3 says that the check itself
\* could not be made, so it is what a check ends with that could read nothing.
CouldNotCheck == Ended("check") /\ m = NothingRead => exit = 3
=================================================================================
