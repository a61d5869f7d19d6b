--------------------------------- MODULE Assess ---------------------------------
(* The bottleneck assessment of src/analyze/bottleneck.rs, as operators over one  *)
(* set of metrics.  Percentages are whole numbers, the load is in tenths; a        *)
(* quotient is compared by multiplying.  Evidence, headlines and explanations are  *)
(* left out, but for what a headline claims.                                       *)
EXTENDS Rules, Rates, Sequences

\* Pressure that the kernel does not report.
NoPsi == -1

---------------------------------------------------------------------------------
(* Metrics: a function from sources to readings.  point values come from one      *)
(* sample (pressure, memory, load, stat), rates from two (cpu, swap, disks, nets) *)

\* The sampler before its first sample: nothing has been read.
NothingRead ==
    [pressure |-> [cpu |-> NoPsi, memory |-> NoPsi, io |-> NoPsi],
     memory   |-> [total |-> 0, available |-> 0, swap_total |-> 0, swap_free |-> 0],
     load     |-> 0,
     stat     |-> [cores |-> 0, blocked |-> 0],
     cpu      |-> [busy |-> 0, steal |-> 0, iowait |-> 0],
     swap     |-> 0,
     disks    |-> <<>>,
     nets     |-> <<>>]

\* Pressure of an axis, 0 when the kernel does not report it.
Psi(m, axis) == IF m.pressure[axis] = NoPsi THEN 0 ELSE m.pressure[axis]

\* load / cores, compared with a limit per core.
LoadAbove(m, limit) ==
    m.load > limit * (IF m.stat.cores = 0 THEN 1 ELSE m.stat.cores)

\* Memory::available_pct: without a total there is nothing left.
AvailablePct(m) ==
    IF m.memory.total = 0 THEN 0 ELSE (100 * m.memory.available) \div m.memory.total

SwapUsed(m) ==
    IF m.memory.swap_free > m.memory.swap_total THEN 0
    ELSE m.memory.swap_total - m.memory.swap_free

\* The last of the disks with the highest utilisation, the disks being sorted by
\* throughput.
Busiest(m) ==
    CHOOSE i \in DOMAIN m.disks :
        \A j \in DOMAIN m.disks \ {i} :
            \/ m.disks[j].util < m.disks[i].util
            \/ m.disks[j].util = m.disks[i].util /\ Ahead(m.disks, j, i)

\* Only the busiest disk is looked at.
Saturated(m) ==
    /\ DOMAIN m.disks # {}
    /\ m.disks[Busiest(m)].util > DISK_UTIL_WARN
    /\ m.disks[Busiest(m)].wait > DISK_AWAIT_WARN_MS

---------------------------------------------------------------------------------
(* The verdict of each axis, from the second sample on                            *)

Cpu(m) ==
    CASE m.cpu.steal > CPU_STEAL_WARN -> Warn
      [] /\ m.cpu.steal <= CPU_STEAL_WARN
         /\ Psi(m, "cpu") > PSI_CRITICAL \/ LoadAbove(m, LOAD_PER_CORE_CRITICAL) -> Critical
      [] /\ m.cpu.steal <= CPU_STEAL_WARN
         /\ Psi(m, "cpu") <= PSI_CRITICAL /\ ~LoadAbove(m, LOAD_PER_CORE_CRITICAL)
         /\ \/ Psi(m, "cpu") > PSI_WARN
            \/ LoadAbove(m, LOAD_PER_CORE_WARN)
            \/ m.cpu.busy > CPU_BUSY_WARN -> Warn
      [] OTHER -> Ok

SwappingOut(m) == m.swap > SWAP_OUT_WARN /\ SwapUsed(m) > 0

\* Mutant: swapping is asked for before the memory that is left.
MemorySwapFirst(m) ==
    IF SwappingOut(m) THEN Warn
    ELSE IF AvailablePct(m) < MEM_AVAILABLE_CRITICAL THEN Critical
    ELSE IF Psi(m, "memory") > PSI_MEMORY_WARN \/ AvailablePct(m) < MEM_AVAILABLE_WARN
    THEN Warn ELSE Ok

Memory(m) ==
    IF AvailablePct(m) < MEM_AVAILABLE_CRITICAL THEN Critical
    ELSE IF \/ SwappingOut(m)
            \/ Psi(m, "memory") > PSI_MEMORY_WARN
            \/ AvailablePct(m) < MEM_AVAILABLE_WARN
    THEN Warn ELSE Ok

Disk(m) ==
    IF Psi(m, "io") > PSI_CRITICAL THEN Critical
    ELSE IF \/ Psi(m, "io") > PSI_WARN
            \/ Saturated(m)
            \/ m.cpu.iowait > IOWAIT_WARN
            \/ m.stat.blocked > 0
    THEN Warn ELSE Ok

\* Errors of the interval, not those since boot.
Network(m) == IF \E i \in DOMAIN m.nets : m.nets[i].errors > 0 THEN Warn ELSE Ok

---------------------------------------------------------------------------------
(* assess: the findings and the axis that is named                                *)

AxisOrder == <<"cpu", "memory", "disk", "network">>
Axis == {"cpu", "memory", "disk", "network"}
NoAxis == "none"

Finding(m, samples, axis) ==
    IF samples < 2 THEN Unknown
    ELSE CASE axis = "cpu" -> Cpu(m) [] axis = "memory" -> Memory(m)
           [] axis = "disk" -> Disk(m) [] OTHER -> Network(m)

Findings(m, samples) == [axis \in Axis |-> Finding(m, samples, axis)]

\* Assessment::worst.
Worst(findings) == Largest({findings[axis] : axis \in Axis})

\* The disk that is first by throughput, not the busiest one.
FirstUtil(m) ==
    IF DOMAIN m.disks = {} THEN 0
    ELSE m.disks[CHOOSE i \in DOMAIN m.disks :
            \A j \in DOMAIN m.disks \ {i} : Ahead(m.disks, i, j)].util

\* How hard pressed an axis is, by the indicator that is compared between axes.
Score(m, axis) ==
    CASE axis = "cpu" -> Largest({Psi(m, "cpu"), m.cpu.busy})
      [] axis = "memory" -> Largest({Psi(m, "memory"), 100 - AvailablePct(m)})
      [] axis = "disk" -> Largest({Psi(m, "io"), FirstUtil(m)})
      [] OTHER -> 0

\* The axes with the worst verdict, as positions in the order they are looked at.
Candidates(findings) ==
    {i \in DOMAIN AxisOrder : findings[AxisOrder[i]] = Worst(findings)}

\* Mutant: an axis whose score is 0 is never chosen.
BottleneckAboveZero(m, findings) ==
    LET C == {i \in Candidates(findings) : Score(m, AxisOrder[i]) > 0}
    IN  IF Worst(findings) <= Ok \/ C = {} THEN NoAxis
        ELSE AxisOrder[CHOOSE i \in C : \A j \in C :
                \/ Score(m, AxisOrder[j]) < Score(m, AxisOrder[i])
                \/ Score(m, AxisOrder[j]) = Score(m, AxisOrder[i]) /\ i <= j]

\* The first of the candidates with the highest score.
Bottleneck(m, findings) ==
    LET C == Candidates(findings)
    IN  IF Worst(findings) <= Ok THEN NoAxis
        ELSE AxisOrder[CHOOSE i \in C : \A j \in C :
                \/ Score(m, AxisOrder[j]) < Score(m, AxisOrder[i])
                \/ Score(m, AxisOrder[j]) = Score(m, AxisOrder[i]) /\ i <= j]

\* What the headline claims.
Headline(axis, worst) ==
    CASE axis = NoAxis /\ worst = Unknown -> "measuring"
      [] axis = NoAxis /\ worst # Unknown -> "nothing saturated"
      [] axis # NoAxis /\ worst = Critical -> "severe"
      [] OTHER -> "likely"

Assessment(m, samples) ==
    LET f == Findings(m, samples)
    IN  [findings |-> f, axis |-> Bottleneck(m, f),
         headline |-> Headline(Bottleneck(m, f), Worst(f))]
=================================================================================
