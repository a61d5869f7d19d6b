---------------------------------- MODULE Gate ----------------------------------
(* The gate every external command passes (src/util/exec.rs).  An argument is a   *)
(* record of its text, the number of dashes it begins with, the letters of a       *)
(* single-dash cluster (which count, not its text), whether it contains a "=" and  *)
(* what it joins by it, and which of the global prefixes it begins with.  The      *)
(* table is cut down to the programs the collectors run and to one entry for every *)
(* kind of rule; a token that is a single-dash option of several letters (find     *)
(* -delete) does not occur in it.                                                  *)
EXTENDS Naturals, Sequences

NoPrefix == "no prefix"
NoText == "no text"
GLOBAL_FORBIDDEN_PREFIXES ==
    {"--set", "--write", "--delete", "--remove", "--create", "--force", "--erase", "--reset",
     "--flush", "--vacuum", "--rotate", "--install", "--purge"}

Arg(text, dashes) ==
    [text |-> text, dashes |-> dashes, letters |-> {}, sets |-> FALSE, prefix |-> NoPrefix,
     name |-> NoText, value |-> NoText]
Word(text) == Arg(text, 0)
Long(text) == Arg(text, 2)
Cluster(letters) == [Arg(NoText, 1) EXCEPT !.letters = letters]
Flag(l) == Cluster({l})

\* --name=value: as a text it is none that a policy names.
Joined(name, value) ==
    [Arg(NoText, 2) EXCEPT !.sets = TRUE, !.name = name, !.value = value]

---------------------------------------------------------------------------------
(* Tokens of a policy: a flag of one letter, a whole argument, or any assignment   *)

Letter(l) == [kind |-> "letter", text |-> l]
Whole(text) == [kind |-> "whole", text |-> text]
Assignment == [kind |-> "assignment", text |-> "="]
Letters(S) == {Letter(l) : l \in S}
Wholes(S) == {Whole(text) : text \in S}

RO == [forbidden |-> {}, require |-> {}, subs |-> {}, cond |-> {}]
Forbid(policy, tokens) == [policy EXCEPT !.forbidden = tokens]
Require(policy, tokens) == [policy EXCEPT !.require = tokens]
Subs(policy, names) == [policy EXCEPT !.subs = names]
Cond(policy, pairs) == [policy EXCEPT !.cond = pairs]

MUTATE == Wholes(
    {"add", "del", "delete", "set", "flush", "change", "replace", "install", "remove", "purge",
     "start", "stop", "restart", "reload", "enable", "disable", "mask", "unmask", "kill",
     "destroy", "create", "prune", "rm", "rmi", "exec", "run", "build", "push", "apply", "edit",
     "patch", "scale", "drain", "cordon", "uncordon", "shutdown", "reboot", "undefine", "launch",
     "move", "publish", "snapshot", "rollback", "send", "receive", "mount", "unmount", "umount",
     "scrub", "clear", "attach", "detach", "offline", "online", "upgrade", "autoremove"})

Journalctl == Forbid(RO, Wholes(
    {"--rotate", "--sync", "--relinquish-var", "--setup-keys", "--update-catalog"}))
Lxc == Cond(Subs(Forbid(RO, MUTATE), {"list", "info", "config"}), {<<"config", "show">>})
Netcat == Require(Forbid(RO, Letters({"l", "e", "c", "k"})), Letters({"z"}))
Nvme == Subs(Forbid(RO, MUTATE),
    {"list", "smart-log", "error-log", "id-ctrl", "id-ns", "list-ns", "fw-log", "self-test-log"})
Prlimit == Require(Forbid(RO, {Assignment}), Letters({"p"}) \cup Wholes({"--pid"}))
Smartctl == Forbid(RO, Letters({"t", "X", "s", "o", "S", "F"})
                       \cup Wholes({"--test", "--abort", "--smart"}))

Allowlist ==
    [program \in {"cat", "journalctl", "lxc", "nc", "nvme", "prlimit", "smartctl"} |->
        CASE program = "cat" -> RO
          [] program = "journalctl" -> Journalctl
          [] program = "lxc" -> Lxc
          [] program = "nc" -> Netcat
          [] program = "nvme" -> Nvme
          [] program = "prlimit" -> Prlimit
          [] program = "smartctl" -> Smartctl]

---------------------------------------------------------------------------------
(* check                                                                           *)

\* Mutant: a cluster of flags is only compared as a whole.
ArgMatchesWhole(arg, token) ==
    \/ token.kind = "assignment" /\ arg.sets
    \/ token.kind = "letter" /\ arg.dashes = 1 /\ arg.letters = {token.text}
    \/ token.kind = "whole" /\ arg.text = token.text

ArgMatches(arg, token) ==
    \/ token.kind = "assignment" /\ arg.sets
    \/ token.kind = "letter" /\ arg.dashes = 1 /\ token.text \in arg.letters
    \/ token.kind = "whole" /\ arg.text = token.text

Modifies(policy, arg) ==
    \/ arg.prefix \in GLOBAL_FORBIDDEN_PREFIXES
    \/ \E bad \in policy.forbidden : ArgMatches(arg, bad)

\* The place of the first argument that is no flag.
IsSubcommand(args, i) == args[i].dashes = 0 /\ \A j \in 1..(i - 1) : args[j].dashes # 0

Has(args, text) == \E i \in DOMAIN args : args[i].text = text

Accepted == "accepted"

\* Check of a line against the policy of its program: the first rule that is broken.
Check(policy, args) ==
    IF \E i \in DOMAIN args : Modifies(policy, args[i]) THEN "forbidden argument"
    ELSE IF /\ policy.subs # {}
            /\ \E i \in DOMAIN args : IsSubcommand(args, i) /\ args[i].text \notin policy.subs
    THEN "forbidden subcommand"
    ELSE IF \/ \E c \in policy.cond : Has(args, c[1]) /\ ~Has(args, c[2])
            \/ /\ policy.require # {}
               /\ ~\E i \in DOMAIN args, r \in policy.require : ArgMatches(args[i], r)
    THEN "missing argument"
    ELSE Accepted

\* ReadOnlyCommand::new and parse: a line is [program, args].
Parse(line) ==
    IF line.program \notin DOMAIN Allowlist THEN "unknown program"
    ELSE Check(Allowlist[line.program], line.args)

---------------------------------------------------------------------------------
(* What a line says.  A cluster says its letters, a long flag joined with a value   *)
(* says the flag and the value: what getopt makes of them, not what the gate does.  *)

\* What is said by a flag that is joined with its value: the gate does not look there.
SaidJoined(arg) == Wholes({arg.name, arg.value} \ {NoText})

ArgSays(arg) ==
    (IF arg.dashes = 1 THEN Letters(arg.letters) ELSE {})
    \cup Wholes({arg.text} \ {NoText})
    \cup SaidJoined(arg)
    \cup (IF arg.sets THEN {Assignment} ELSE {})
    \cup {[kind |-> "prefix", text |-> p] : p \in {arg.prefix} \ {NoPrefix}}

Says(args) == UNION {ArgSays(args[i]) : i \in DOMAIN args}

\* Something the policy forbids stands in the line, but joined with or as the value
\* of a long flag (smartctl --test=short, where --test short is refused).
HidesJoined(policy, args) ==
    \E i \in DOMAIN args : SaidJoined(args[i]) \cap policy.forbidden # {}

=================================================================================
