-------------------------------- MODULE Sampler --------------------------------
(* The sampler (src/app/sampler.rs) as the event loop drives it                   *)
(* (App::maybe_sample, src/app/state.rs; event_loop, src/app/runtime.rs): rates   *)
(* are differences of two snapshots of a counter source divided by the time       *)
(* between two samples.  Sources come and go: /proc/net/dev gives no snapshot on  *)
(* a machine without a network interface, any file may fail to be read.           *)
(* A snapshot is represented by its age, in units of the loop's wait; the numbers *)
(* in it do not matter, only which snapshots a rate is computed from.             *)
EXTENDS Naturals

CONSTANTS
    Source,     \* swap (vm), disk, net, proc; cpu too, whose shares need no division
    List,       \* sources whose rates are a list, one per device or process
    MinGap,     \* 50 ms: a shorter time between samples gives no rates
    Interval,   \* Sampler.interval
    Long        \* bound: ages from Long on are not told apart

ASSUME TimeAssumption ==
    /\ List \subseteq Source
    /\ MinGap \in Nat \ {0} /\ Interval \in Nat /\ Long \in Nat
    /\ MinGap <= Interval /\ Interval <= Long

VARIABLES
    broken,     \* the sources that cannot be read at the moment
    live,       \* the screen is Live or Slow
    frozen,     \* App.frozen
    pc,         \* the loop is about to "sample" or to "wait" for a key
    since,      \* age of Sampler.last_tick
    samples,    \* Sampler.samples, up to 2
    prev,       \* age of Sampler.prev_cpu, prev_vm, ...
    shown,      \* Sampler.cpu, swap, ...: the time its snapshots are apart (span),
                \* the time it is divided by (secs), whether the last tick computed it
    failed      \* history: the sources that could not be read in some tick

screenVars == <<live, frozen>>
samplerVars == <<since, samples, prev, shown, failed>>
vars == <<broken, screenVars, pc, samplerVars>>

Age == 0 .. Long
Never == Long + 1
NoRate == [span |-> 0, secs |-> 0, fresh |-> FALSE]

TypeOK ==
    /\ broken \in SUBSET Source
    /\ live \in BOOLEAN /\ frozen \in BOOLEAN
    /\ pc \in {"sample", "wait"}
    /\ since \in Age \cup {Never}
    /\ samples \in 0 .. 2
    /\ prev \in [Source -> Age \cup {Never}]
    /\ shown \in [Source -> [span : Age, secs : Age, fresh : BOOLEAN]]
    /\ failed \in SUBSET Source

Init ==
    /\ broken \in SUBSET Source
    /\ live = FALSE /\ frozen = FALSE
    /\ pc = "sample"
    /\ since = Never /\ samples = 0
    /\ prev = [s \in Source |-> Never]
    /\ shown = [s \in Source |-> NoRate]
    /\ failed = {}

---------------------------------------------------------------------------------

\* Mutant: a sample that is exactly on time gives no rates.
ElapsedLate == IF since \in Age /\ since > Interval THEN since ELSE 0

\* The time between this sample and the one before, 0 if too short or unknown.
Elapsed == IF since \in Age /\ since >= MinGap THEN since ELSE 0

Due == since = Never \/ since >= Interval

\* Mutant: a snapshot that cannot be replaced is kept for the next tick.
SnapshotKept(s) == IF s \in broken THEN prev[s] ELSE 0

\* Mutant: the first snapshot is never taken.
SnapshotAfterRate(s) == IF s \in broken \/ prev[s] = Never THEN Never ELSE 0

\* Age of prev_x after a tick: the new snapshot, or none.
Snapshot(s) == IF s \in broken THEN Never ELSE 0

Stale(rate) == [rate EXCEPT !.fresh = FALSE]

\* Mutant: without an earlier snapshot the counters since boot are the difference.
RateSinceBoot(s) ==
    CASE s \in broken -> Stale(shown[s])
      [] s \notin broken /\ Elapsed > 0 ->
            [span |-> prev[s], secs |-> Elapsed, fresh |-> TRUE]
      [] OTHER -> IF s \in List THEN NoRate ELSE Stale(shown[s])

\* What is shown of source s after a tick: rates of the two snapshots if there are
\* two; without any time between them a list is emptied, a single value kept.
Rate(s) ==
    CASE s \in broken \/ prev[s] = Never -> Stale(shown[s])
      [] s \notin broken /\ prev[s] # Never /\ Elapsed > 0 ->
            [span |-> prev[s], secs |-> Elapsed, fresh |-> TRUE]
      [] OTHER -> IF s \in List THEN NoRate ELSE Stale(shown[s])

\* Up to the 2 that warming_up asks for.
SamplesAfter == IF samples < 2 THEN samples + 1 ELSE 2

\* last_tick is set whatever could be read.
Tick ==
    /\ shown' = [s \in Source |-> Rate(s)]
    /\ prev' = [s \in Source |-> Snapshot(s)]
    /\ samples' = SamplesAfter
    /\ since' = 0
    /\ failed' = failed \cup broken

\* App::maybe_sample, at the top of the loop; then the screen is drawn.
MaybeSample ==
    /\ pc = "sample" /\ pc' = "wait"
    /\ \/ live /\ ~frozen /\ Due /\ Tick
       \/ ~(live /\ ~frozen /\ Due) /\ UNCHANGED samplerVars
    /\ UNCHANGED <<broken, screenVars>>

\* event::poll waits for a key; time passes until the timeout, or not.
Older(age) == IF age < Long THEN age + 1 ELSE age

TimePasses ==
    /\ since' = Older(since)
    /\ prev' = [s \in Source |-> Older(prev[s])]
    /\ UNCHANGED <<samples, shown, failed>>

Timeout ==
    /\ pc = "wait" /\ pc' = "sample"
    /\ TimePasses
    /\ UNCHANGED <<broken, screenVars>>

\* f on a live screen: on the others it is not read, and the state stays frozen.
Freeze ==
    /\ live
    /\ frozen' = ~frozen
    /\ UNCHANGED live

\* Enter, q, Esc, t, a search hit: to a live screen or to another.
Move ==
    /\ live' = ~live
    /\ UNCHANGED frozen

OtherKey == UNCHANGED screenVars

Key ==
    /\ pc = "wait" /\ pc' = "sample"
    /\ Freeze \/ Move \/ OtherKey
    /\ TimePasses \/ UNCHANGED samplerVars
    /\ UNCHANGED broken

\* External: a source becomes unreadable or readable.
Break(s) ==
    /\ s \notin broken
    /\ broken' = broken \cup {s}
    /\ UNCHANGED <<screenVars, pc, samplerVars>>

Repair(s) ==
    /\ s \in broken
    /\ broken' = broken \ {s}
    /\ UNCHANGED <<screenVars, pc, samplerVars>>

Next ==
    \/ MaybeSample \/ Timeout \/ Key
    \/ \E s \in Source : Break(s) \/ Repair(s)

\* The loop turns for ever and its waits time out again and again.
Fairness == WF_vars(MaybeSample) /\ SF_vars(Timeout)

Spec == Init /\ [][Next]_vars

FairSpec == Spec /\ Fairness

---------------------------------------------------------------------------------
(* Correctness *)

\* A rate is divided by the time that really lies between its two snapshots, after
\* failed reads, absences from the screen and freezes of any length.
DividedByItsSpan ==
    \A s \in Source : shown[s].span = shown[s].secs

\* Once the screen says that it is no longer warming up, every source that could
\* always be read has a rate, and one of the last tick.
WarmIsMeasured ==
    samples = 2 => \A s \in Source \ failed : shown[s].fresh

\* A source that can be read again is shown again, as soon as the user stays on a
\* live screen that is not frozen.
Recovers ==
    \A s \in Source :
        <>[](live /\ ~frozen /\ s \notin broken) => <>[](shown[s].fresh)

=================================================================================
