-------------------------------- MODULE Catalogue --------------------------------
(* The two catalogues: the tools with their state on this system (src/tools) and   *)
(* the tasks with the search for them (src/tasks/search.rs).  A word is a model     *)
(* value; where it occurs in the texts of a task is given by the task.             *)
EXTENDS Rules, Sequences, FiniteSets

CONSTANTS
    Tools,      \* sequence of [id, bundle, binaries, only_if], only_if a path or NoPath
    Tasks,      \* sequence of [screen, title, tools, found]
    NoPath

---------------------------------------------------------------------------------
(* tools: what is present is a set of paths and of executables on PATH            *)

Bundles ==
    {"core", "storage", "network", "hardware", "diagnostics", "updates", "containers", "advanced"}

InBundle(bundle) == {i \in DOMAIN Tools : Tools[i].bundle = bundle}

StatusOf(tool, present) ==
    IF tool.only_if # NoPath /\ tool.only_if \notin present THEN "n/a"
    ELSE IF tool.binaries \cap present # {} THEN "installed" ELSE "missing"

---------------------------------------------------------------------------------
(* tasks: found says where a word occurs in the texts of a task                    *)

Weight ==
    [alias |-> 100, part_of_alias |-> 60, word_of_title |-> 50, title |-> 30, screen |-> 20,
     id |-> 15, answers |-> 10]

ASSUME FoundAssumption ==
    \A i \in DOMAIN Tasks : \A term \in DOMAIN Tasks[i].found :
        Tasks[i].found[term] \subseteq DOMAIN Weight

Best(task, term) == Largest({0} \cup {Weight[place] : place \in task.found[term]})

\* Every word must occur somewhere.
ScoreOf(task, terms) ==
    IF \E i \in DOMAIN terms : Best(task, terms[i]) = 0 THEN 0
    ELSE LET total[n \in 0..Len(terms)] ==
                IF n = 0 THEN 0 ELSE total[n - 1] + Best(task, terms[n])
         IN  total[Len(terms)]

\* A task is printed before another one.
Before(a, b, terms) ==
    \/ ScoreOf(a, terms) > ScoreOf(b, terms)
    \/ /\ ScoreOf(a, terms) = ScoreOf(b, terms)
       /\ \/ a.screen < b.screen
          \/ a.screen = b.screen /\ a.title < b.title

\* The tasks with a score, each with its place in the list that is printed.
Find(terms) ==
    LET hits == {i \in DOMAIN Tasks : ScoreOf(Tasks[i], terms) > 0}
    IN  [i \in hits |-> 1 + Cardinality({j \in hits \ {i} :
            \/ Before(Tasks[j], Tasks[i], terms)
            \/ ~Before(Tasks[i], Tasks[j], terms) /\ j < i})]
=================================================================================
