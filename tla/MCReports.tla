-------------------------------- MODULE MCReports --------------------------------
EXTENDS Reports

at(target, mount) == [mount EXCEPT !.target = target]
fs(dev_, total, free, available, inodes_free, ro, ext) ==
    [target |-> "/", source |-> "sda", dev |-> dev_, kind |-> "user", ro |-> ro, ext |-> ext,
     usage |-> [total |-> total, free |-> free, available |-> available,
                inodes |-> 100, inodes_free |-> inodes_free]]
gone_ == [target |-> "/nfs", source |-> "nfs", dev |-> 9, kind |-> "user", ro |-> FALSE,
          ext |-> FALSE, usage |-> NoAnswer]

roomy == <<gone_, fs(1, 100, 50, 45, 50, FALSE, TRUE)>>
full == <<fs(1, 100, 50, 45, 50, TRUE, TRUE), at("/var", fs(2, 100, 8, 8, 50, FALSE, FALSE))>>
spent == <<fs(1, 100, 5, 0, 10, FALSE, TRUE)>>
tight == <<fs(1, 100, 20, 15, 50, FALSE, TRUE), at("/srv", fs(2, 12, 3, 3, 50, FALSE, TRUE))>>

header(name) == [line |-> "header", name |-> name]
state(members) == [line |-> "state", members |-> members]
mirrors == <<header("md0"), state(<<"U", "U">>), header("md1"), state(<<"U", "_">>)>>

device(name, kind, size) == [name |-> name, kind |-> kind, node |-> name, size |-> size]
MCFound == {device("loop0", "noise", 1), device("md0", "virtual", 1), device("nvme0n1", "nvme", 1),
            device("sda", "sata", 1), device("sdb", "sata", 0)}

nvme(critical, used, spare, history) ==
    [critical_warning |-> critical, percentage_used |-> used, available_spare |-> spare,
     media_errors |-> NoAnswer, history |-> history]
sata(healthy, attributes) == [healthy |-> healthy, attributes |-> attributes]
attribute(id, value) == [id |-> id, value |-> value]

Said(kind) ==
    IF kind = "nvme"
    THEN {nvme(NoAnswer, NoAnswer, NoAnswer, NoAnswer), nvme(NoAnswer, NoAnswer, NoAnswer, 7),
          nvme(0, 90, 20, 7), nvme(0, 89, 19, 7), nvme(4, 1, 99, 7)}
    ELSE {sata(NoAnswer, {}), sata(TRUE, {attribute(9, 7), attribute(12, 3)}),
          sata(TRUE, {attribute(5, 1)}), sata(FALSE, {attribute(197, 0)}),
          sata(NoAnswer, {attribute(194, 40)})}

OutputsOf(kind) ==
    {[spawned |-> TRUE, denied |-> denied, said |-> said] :
        denied \in BOOLEAN, said \in Said(kind)}
    \cup {[spawned |-> FALSE, denied |-> FALSE, said |-> said] :
            said \in {s \in Said(kind) : Nothing([kind |-> kind], Parsed([kind |-> kind], s))}}

MCOutputs == {("nvme" :> n) @@ ("sata" :> s) : n \in OutputsOf("nvme"), s \in OutputsOf("sata")}

handle(pid, name, looks, bytes) == [pid |-> pid, name |-> name, looks |-> looks, bytes |-> bytes]
plain(pid, name, bytes) == handle(pid, name, "plain", bytes)
shared == {plain(1, "a", 3), plain(2, "a", 3), plain(3, "b", 5)}
strange == {plain(1, "a", 3), handle(1, "shm", "/dev/", 4), handle(2, "c", "(deleted)", 3)}
MCReadable == {1, 2}
MCDirectories == {"/", "/home"}

footprint(journal, var_log) == [journal |-> journal, var_log |-> var_log]
MCFootprints == {footprint(NoAnswer, NoAnswer), footprint(30, NoAnswer), footprint(30, 10)}
MCDirCounts == {0, 2}
MCPatterns == <<"I/O error", "nvme.*(reset|timeout|abort)">>

scene_(jobs, tables, handles, mdstats, recorded) ==
    [jobs |-> jobs, tables |-> tables, handles |-> handles, mdstats |-> mdstats,
     recorded |-> {"sda" :> n : n \in recorded}]

MCScenes == {
    scene_({"deleted", "logs"}, {<<>>, roomy, full, spent, tight}, {plain(1, "b", 5)},
           {<<>>}, {0}),
    scene_({"deleted", "logs", "dirs"}, {full}, {plain(1, "b", 5)}, {<<>>}, {0}),
    scene_({"logs", "dirs"}, {full, spent}, {}, {<<>>}, {0}),
    scene_({"deleted"}, {roomy}, shared, {<<>>}, {0}),
    scene_({"deleted"}, {roomy}, strange, {<<>>}, {0}),
    scene_({"drives"}, {roomy}, {}, {<<>>}, {0}),
    scene_({"errors"}, {<<>>, roomy, full}, {},
           {<<>>, mirrors, Tail(mirrors), <<header("md1")>>}, {0, 2})}
=================================================================================
