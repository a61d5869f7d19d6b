------------------------------- MODULE MCCommands -------------------------------
EXTENDS Commands

times(user, idle, iowait, steal) ==
    [user |-> user, system |-> 0, idle |-> idle, iowait |-> iowait, irq |-> 0, steal |-> steal]
psi(cpu, memory, io) == [cpu |-> cpu, memory |-> memory, io |-> io]
ram(available, swap_free) ==
    [total |-> 100, available |-> available, swap_total |-> 10, swap_free |-> swap_free]
dev(name, ios, bytes, ms, busy) ==
    [name |-> name, ios |-> ios, bytes |-> bytes, ms |-> ms, busy |-> busy]
nic(name, bytes, errors) == [name |-> name, bytes |-> bytes, errors |-> errors]
task(ticks, io, state) == [ticks |-> ticks, io |-> io, rss |-> 1, state |-> state]

MCCalm == [
    pressure |-> psi(0, 0, 0), memory |-> ram(60, 10), load |-> 5,
    stat |-> [cores |-> 2, blocked |-> 0, times |-> times(100, 100, 10, 10)],
    vm   |-> 10,
    disk |-> <<dev("a", 10, 60, 10, 10), dev("b", 10, 50, 10, 10)>>,
    net  |-> <<nic("eth", 10, 5)>>,
    proc |-> (7 :> task(50, 40, "S"))]

\* What else each file may say.
MCOther == [
    pressure |-> {psi(60, 15, 0), psi(30, 0, 60)},
    memory   |-> {ram(10, 10), ram(3, 5)},
    load     |-> {50},
    stat     |-> {[cores |-> 2, blocked |-> 1, times |-> times(190, 110, 10, 10)],
                  [cores |-> 2, blocked |-> 0, times |-> times(190, 170, 40, 30)]},
    vm       |-> {90},
    disk     |-> {<<dev("a", 20, 90, 510, 910)>>,
                  <<dev("a", 20, 65, 310, 860), dev("b", 110, 99, 110, 1160)>>,
                  <<dev("b", 2, 3, 2, 2)>>},
    net      |-> {<<nic("eth", 12, 8)>>, <<nic("wlan", 1, 1), nic("eth", 3, 0)>>},
    proc     |-> {(7 :> task(5, 4, "D")), (7 :> task(60, NoIo, "S")) @@ (8 :> task(9, 30, "S"))}]

With(now, file) == {[now EXCEPT ![file] = x] : x \in MCOther[file] \cup {Missing}}

MCSample ==
    {MCCalm, NoSample} \cup UNION {With(MCCalm, file) : file \in File}
    \cup {[MCCalm EXCEPT !["memory"] = x, !["vm"] = 90] : x \in MCOther["memory"]}

fs(dev_, kind, total, free, available, inodes, inodes_free) ==
    [target |-> "/", dev |-> dev_, kind |-> kind, ro |-> FALSE,
     usage |-> [total |-> total, free |-> free, available |-> available,
                inodes |-> inodes, inodes_free |-> inodes_free]]
gone == [target |-> "/nfs", dev |-> 9, kind |-> "user", ro |-> FALSE, usage |-> NoAnswer]

MCTables == {
    <<>>, <<gone>>,
    <<fs(1, "user", 100, 50, 45, 100, 50), gone>>,
    <<fs(1, "pseudo", 100, 0, 0, 0, 0), fs(2, "user", 100, 8, 8, 100, 50)>>,
    <<fs(1, "user", 100, 50, 45, 100, 50), fs(1, "user", 100, 0, 0, 100, 0),
      fs(2, "user", 100, 40, 40, 100, 12)>>,
    <<fs(1, "user", 100, 50, 45, 0, 0), fs(2, "user", 40, 20, 20, 50, 5)>>,
    <<fs(3, "user", 12, 3, 3, 0, 0), fs(4, "user", 0, 0, 0, 0, 0)>>,
    <<fs(5, "user", 100, 5, 0, 100, 90)>>}

MCGaps == {0, 1}

tool(id, bundle, binaries, only_if) ==
    [id |-> id, bundle |-> bundle, binaries |-> binaries, only_if |-> only_if]

MCTools == <<
    tool("procps", "core", {"ps", "free"}, NoPath),
    tool("smartmontools", "storage", {"smartctl"}, NoPath),
    tool("nvidia-utils", "hardware", {"nvidia-smi"}, "/proc/driver/nvidia")>>

MCSystems == SUBSET {"ps", "free", "smartctl", "nvidia-smi", "/proc/driver/nvidia"}

mctask(screen, title, tools, disk, full) ==
    [screen |-> screen, title |-> title, tools |-> tools, found |-> [disk |-> disk, full |-> full]]

MCTasks == <<
    mctask(2, 1, {}, {"answers"}, {}),
    mctask(5, 3, {"smartmontools"}, {"alias", "part_of_alias"}, {"title"}),
    mctask(5, 2, {}, {"title", "word_of_title", "id"}, {"screen"})>>

MCQueries == {<<>>, <<"disk">>, <<"full">>, <<"disk", "full">>}
MCScreens == {0, 1, 14, 15}

line(program, args) == [program |-> program, args |-> args]
forced == [Long("--force-all") EXCEPT !.prefix = "--force"]
limit == Joined("--nofile", "9")
zv == Cluster({"z", "v"})
zl == Cluster({"z", "l"})

\* Words and flags of each program, in any order, up to two to a line.
MCArgs(program) ==
    CASE program = "nc" -> {Flag("z"), Flag("l"), zv, zl, Word("host")}
      [] program = "nvme" -> {Word("list"), Word("smart-log"), Word("delete"), Flag("H")}
      [] program = "prlimit" -> {Flag("p"), Word("1"), limit, Joined("--pid", "1")}
      [] program = "lxc" -> {Word("config"), Word("show"), Word("set"), Word("exec")}
      [] program = "smartctl" -> 
            {Flag("H"), Flag("A"), Flag("t"), Cluster({"A", "t"}), Long("--test"), Word("short"),
             Joined("--test", "short"), Joined("--format", "brief")}
      [] program = "journalctl" -> {Flag("k"), Long("--rotate"), Long("--sync")}
      [] OTHER -> {Word("file"), forced}

MCLinesOf(program) ==
    {line(program, args) : args \in UNION {[1..n -> MCArgs(program)] : n \in 0..2}}

\* All lines of a program, and each of them alone.
MCLines ==
    {MCLinesOf(program) : program \in DOMAIN Allowlist \cup {"mkfs"}}
    \cup UNION {{{l} : l \in MCLinesOf(program)} : program \in DOMAIN Allowlist \cup {"mkfs"}}
=================================================================================
