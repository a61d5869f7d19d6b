--------------------------------- MODULE Monitor ---------------------------------
(* What the sampler makes of the system (Sampler::tick, src/app/sampler.rs) and    *)
(* what the screens Live and Slow then claim (src/ui/screens/slow.rs, live.rs):    *)
(* readings become metrics, metrics become verdicts and one named axis.  When a    *)
(* tick happens is the matter of module Sampler; here a tick may happen at any     *)
(* time and read, or fail to read, any file.                                       *)
EXTENDS Assess, FiniteSets

CONSTANTS
    Sample,     \* what one tick may read: functions from files to readings
    Gaps,       \* the times between ticks in seconds; 0 stands for less than 50 ms
    Missing     \* a file that cannot be read, or a reading there never was

File == {"pressure", "memory", "load", "stat", "vm", "disk", "net", "proc"}

\* A list of devices, each with a name of its own.
IsList(s) ==
    /\ Len(s) \in Nat /\ DOMAIN s = 1..Len(s)
    /\ \A i, j \in DOMAIN s : s[i].name = s[j].name => i = j

\* What a file may say: numbers are unsigned, and no more memory is available than
\* there is.
MaySay(file, x) ==
    /\ file = "pressure" => x \in [{"cpu", "memory", "io"} -> Nat \cup {NoPsi}]
    /\ file = "memory" =>
        /\ x \in [total : Nat, available : Nat, swap_total : Nat, swap_free : Nat]
        /\ x.available <= x.total
    /\ file \in {"load", "vm"} => x \in Nat
    /\ file = "stat" => x \in [cores : Nat, blocked : Nat, times : [CpuTimes -> Nat]]
    /\ file = "disk" => IsList(x) /\ \A i \in DOMAIN x :
        {x[i].ios, x[i].bytes, x[i].ms, x[i].busy} \subseteq Nat
    /\ file = "net" => IsList(x) /\ \A i \in DOMAIN x : {x[i].bytes, x[i].errors} \subseteq Nat
    /\ file = "proc" => \A pid \in DOMAIN x :
        x[pid].ticks \in Nat /\ x[pid].io \in Nat \cup {NoIo}

ASSUME SampleAssumption ==
    /\ Gaps \subseteq Nat
    /\ \A now \in Sample : \A file \in File :
        now[file] # Missing => MaySay(file, now[file])

VARIABLES
    m,          \* Sampler.pressure, memory, load, cpu, cores, blocked, swap, disks, nets
    rows,       \* Sampler.procs
    io_visible, \* Sampler.io_visible
    prev,       \* Sampler.prev_cpu, prev_vm, prev_disk, prev_net, prev_proc
    samples     \* Sampler.samples, up to 2

monitorVars == <<m, rows, io_visible, prev, samples>>

NoSample == [f \in File |-> Missing]

MonitorInit ==
    /\ m = NothingRead
    /\ rows = <<>>
    /\ io_visible = FALSE
    /\ prev = NoSample
    /\ samples = 0

---------------------------------------------------------------------------------

\* A point value: what was just read, or else what was there.
Point(now, file, old) == IF now[file] = Missing THEN old ELSE now[file]

\* Both snapshots of a file are there.
Two(now, file) == prev[file] # Missing /\ now[file] # Missing

\* The metrics after a tick that read now, gap seconds after the one before.  The
\* pressure alone is not kept when it cannot be read.
MetricsAfter(now, gap) ==
    [pressure |-> IF now["pressure"] = Missing THEN NothingRead.pressure ELSE now["pressure"],
     memory   |-> Point(now, "memory", m.memory),
     load     |-> Point(now, "load", m.load),
     stat     |-> IF now["stat"] = Missing THEN m.stat
                  ELSE [cores |-> now["stat"].cores, blocked |-> now["stat"].blocked],
     cpu      |-> IF Two(now, "stat") /\ gap > 0
                  THEN Usage(prev["stat"].times, now["stat"].times) ELSE m.cpu,
     swap     |-> IF Two(now, "vm") /\ gap > 0
                  THEN SwapRate(prev["vm"], now["vm"], gap) ELSE m.swap,
     disks    |-> IF Two(now, "disk") THEN DiskRates(prev["disk"], now["disk"], gap) ELSE m.disks,
     nets     |-> IF Two(now, "net") THEN NetRates(prev["net"], now["net"], gap) ELSE m.nets]

RowsAfter(now, gap) ==
    IF Two(now, "proc") THEN Rows(prev["proc"], now["proc"], gap) ELSE rows

\* io_readable: some process other than the user's own told its i/o.
IoVisibleAfter(now) ==
    IF now["proc"] = Missing THEN io_visible
    ELSE \E pid \in DOMAIN now["proc"] : now["proc"][pid].io # NoIo

Tick(now, gap) ==
    /\ m' = MetricsAfter(now, gap)
    /\ rows' = RowsAfter(now, gap)
    /\ io_visible' = IoVisibleAfter(now)
    /\ prev' = now
    /\ samples' = IF samples < 2 THEN samples + 1 ELSE 2

---------------------------------------------------------------------------------
(* What is on the screen                                                           *)

\* Fewer than two samples; the screens say "Measuring" as long.
WarmingUp == samples < 2

Shown == Assessment(m, samples)

\* slow.rs, draw_banner: the worst verdict, what is claimed, and one per axis.
Banner ==
    [badge |-> Worst(Shown.findings), claim |-> Shown.headline, axes |-> Shown.findings]

\* The five processes of the highest value, of equals those that come first in the
\* list, which is in the order of the pids.
Heaviest(value) ==
    {p \in DOMAIN value :
        Cardinality({q \in DOMAIN value :
            value[q] > value[p] \/ (value[q] = value[p] /\ q < p)}) < 5}

\* slow.rs, culprit: i/o only if any of it is visible, and unreadable i/o ranks as none.
Culprits ==
    [cpu    |-> Heaviest([p \in DOMAIN rows |-> rows[p].cpu]),
     memory |-> Heaviest([p \in DOMAIN rows |-> rows[p].rss]),
     io     |-> IF ~io_visible THEN {}
                ELSE Heaviest([p \in DOMAIN rows |-> IF rows[p].io = NoIo THEN 0 ELSE rows[p].io])]

---------------------------------------------------------------------------------
(* Correctness                                                                     *)

MonitorTypeOK ==
    /\ m.memory.total \in Nat /\ m.swap \in Nat
    /\ \A i \in DOMAIN m.disks : m.disks[i].util \in 0..100
    /\ m.cpu.busy \in 0..100
    /\ io_visible \in BOOLEAN
    /\ samples \in 0..2
    /\ Shown.findings \in [Axis -> Verdict]

\* The sentence on top is backed by the verdicts below it: an axis is named exactly
\* when some axis is in trouble, the one named is in the worst, none of the others
\* that are as bad is harder pressed, and nothing is called unsaturated or severe
\* before there are two samples (assess, src/analyze/bottleneck.rs).
ClaimIsBacked ==
    LET axes == Banner.axes
        axis == Shown.axis
    IN  /\ axis = NoAxis <=> \A a \in Axis : axes[a] <= Ok
        /\ axis # NoAxis =>
            /\ \A a \in Axis : axes[a] <= axes[axis]
            /\ \A a \in Axis : axes[a] = axes[axis] => Score(m, a) <= Score(m, axis)
        /\ Banner.claim = "measuring" <=> samples < 2
        /\ Banner.claim = "severe" <=> \E a \in Axis : axes[a] = Critical
        /\ Banner.badge <= Ok <=> Banner.claim \in {"measuring", "nothing saturated"}

\* Every reading of y is as bad as that of x, or worse.
NoBetter(x, y) ==
    /\ \A a \in {"cpu", "memory", "io"} : x.pressure[a] <= y.pressure[a]
    /\ x.memory.total > 0
    /\ y.memory.available * x.memory.total <= x.memory.available * y.memory.total
    /\ SwapUsed(x) <= SwapUsed(y)
    /\ x.load <= y.load
    /\ x.stat.cores = y.stat.cores /\ x.stat.blocked <= y.stat.blocked
    /\ x.cpu.busy <= y.cpu.busy /\ x.cpu.steal <= y.cpu.steal /\ x.cpu.iowait <= y.cpu.iowait
    /\ x.swap <= y.swap
    /\ \A i \in DOMAIN x.disks : \E j \in DOMAIN y.disks :
            /\ x.disks[i].name = y.disks[j].name
            /\ x.disks[i].util <= y.disks[j].util /\ x.disks[i].wait <= y.disks[j].wait
    /\ \A i \in DOMAIN x.nets : \E j \in DOMAIN y.nets :
            x.nets[i].name = y.nets[j].name /\ x.nets[i].errors <= y.nets[j].errors

\* Two cases in which the code looks away: stolen time is reported instead of a
\* queue, and of the disks only the busiest counts.
Masked(x, y, axis) ==
    \/ axis = "cpu" /\ y.cpu.steal > CPU_STEAL_WARN /\ x.cpu.steal <= CPU_STEAL_WARN
    \/ axis = "disk" /\ Saturated(x) /\ ~Saturated(y)
       /\ x.disks[Busiest(x)].name # y.disks[Busiest(y)].name

\* Nothing that gets worse makes a verdict better, across the early returns and
\* the order of the conditions of cpu, memory, disk and network in
\* src/analyze/bottleneck.rs; the two exceptions are the masked cases.
WorseNeverLooksBetter ==
    [][samples = 2 /\ NoBetter(m, m') => \A axis \in Axis :
            \/ Masked(m, m', axis)
            \/ Findings(m, 2)[axis] <= Findings(m', 2)[axis]]_monitorVars

\* Of the processes: what is there for the first time has no rate; i/o that may not
\* be read is no number, and without any that may there is no ranking by it.
ProcsOfThePresent ==
    prev["proc"] # Missing /\ prev'["proc"] # Missing =>
        /\ \A pid \in DOMAIN rows' :
            /\ rows'[pid].cpu <= prev'["proc"][pid].ticks
            /\ rows'[pid].io <= prev'["proc"][pid].io
            /\ rows'[pid].io = NoIo <=> prev'["proc"][pid].io = NoIo
            /\ pid \notin DOMAIN prev["proc"] => rows'[pid].cpu = 0 /\ rows'[pid].io <= 0
        /\ Culprits'.io # {} => \E pid \in DOMAIN rows' : rows'[pid].io # NoIo

\* Of the disks and of the interfaces: only what is in both samples has a rate.
DisksOfThePresent ==
    prev["disk"] # Missing /\ prev'["disk"] # Missing =>
        \A i \in DOMAIN m'.disks :
            /\ Places(prev["disk"], m'.disks[i].name) # {}
            /\ \E j \in Places(prev'["disk"], m'.disks[i].name) :
                    m'.disks[i].bytes <= prev'["disk"][j].bytes

NetsOfThePresent ==
    prev["net"] # Missing /\ prev'["net"] # Missing =>
        \A i \in DOMAIN m'.nets :
            /\ Places(prev["net"], m'.nets[i].name) # {}
            /\ \E j \in Places(prev'["net"], m'.nets[i].name) :
                    m'.nets[i].errors <= prev'["net"][j].errors

\* A rate is never more than what the process or device that is there now has
\* counted, although the one before it may have had the same pid or name (the
\* subtractions and matches of process.rs, blockio.rs and network.rs under
\* src/collect).
RateIsOfThePresent ==
    [][ProcsOfThePresent /\ DisksOfThePresent /\ NetsOfThePresent]_monitorVars
=================================================================================
