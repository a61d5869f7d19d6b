--------------------------------- MODULE DirScan ---------------------------------
(* The directory measurement (src/collect/dirsize.rs): scan() walks the children  *)
(* of a directory, walk_dir() recurses below them, and meanwhile time passes and  *)
(* other programs remove files.  A call of walk_dir is the frame of its directory: *)
(* the names still to visit and what was added up so far.  A sum of bytes is the  *)
(* SET of files whose blocks it holds; that no file is added twice is a property. *)
EXTENDS FiniteSets

CONSTANTS
    Node,           \* the files, directories and symbolic links of the tree
    Root,           \* the directory that is measured
    Parent,         \* Parent[n], for every node but Root
    Kind,           \* Kind[n]: "dir", "file" or "symlink"
    Device,         \* Device[n]: st_dev
    Inode,          \* Inode[n]: the same for two files iff they are hard links
    LinkedOutside,  \* files that also have a name outside the tree
    Hidden,         \* nodes whose metadata cannot be read, although they are listed
    MayDeny,        \* directories that read_dir() may refuse to list
    Volatile        \* nodes other programs may remove during the scan

Dirs == {n \in Node : Kind[n] = "dir"}
Files == {n \in Node : Kind[n] = "file"}
Children(d) == {n \in Node \ {Root} : Parent[n] = d}

ASSUME TreeAssumption ==
    /\ Root \in Dirs
    /\ Parent \in [Node \ {Root} -> Dirs]
    /\ \A n \in Node : Kind[n] \in {"dir", "file", "symlink"}

\* All of it is reached from the root.
ASSUME ReachedAssumption ==
    \A S \in SUBSET Node :
        Root \in S /\ (\A n \in Node \ {Root} : Parent[n] \in S => n \in S) => S = Node

ASSUME ConditionsAssumption ==
    LinkedOutside \cup Hidden \cup MayDeny \cup Volatile \subseteq Node

VARIABLES
    pc,             \* "start", "walk" or "done"
    cur,            \* the directory of the innermost call
    todo,           \* todo[d]: names its read_dir iterator has still to return
    bytes,          \* bytes[n]: files whose blocks are in n's sum
    items,          \* items[d]: nodes counted by the call for d
    seen,           \* Walk.seen_hardlinks
    files,          \* Walk.files
    denied,         \* Walk.denied
    crossed,        \* Walk.crossed
    truncated,      \* Walk.truncated
    entries,        \* DirScan.entries: the children of Root reported on
    late,           \* the deadline has passed
    gone            \* nodes other programs have removed

walk == <<seen, files, denied, crossed, truncated>>
vars == <<pc, cur, todo, bytes, items, walk, entries, late, gone>>

TypeOK ==
    /\ pc \in {"start", "walk", "done"}
    /\ cur \in Dirs
    /\ todo \in [Node -> SUBSET Node]
    /\ bytes \in [Node -> SUBSET Files]
    /\ items \in [Node -> SUBSET Node]
    /\ seen \in SUBSET {Inode[f] : f \in Files}
    /\ files \in SUBSET Files
    /\ denied \in SUBSET Dirs
    /\ crossed \in SUBSET Dirs
    /\ truncated \in BOOLEAN
    /\ entries \in SUBSET Children(Root)
    /\ late \in BOOLEAN
    /\ gone \in SUBSET Volatile

Init ==
    /\ pc = "start" /\ cur = Root
    /\ todo = [n \in Node |-> {}]
    /\ bytes = [n \in Node |-> {}]
    /\ items = [n \in Node |-> {}]
    /\ seen = {} /\ files = {} /\ denied = {} /\ crossed = {} /\ truncated = FALSE
    /\ entries = {}
    /\ late = FALSE /\ gone = {}

\* Whatever runs takes time.
TimePasses == late' \in {late, TRUE}

\* Another program removes a file, or a directory with all that is in it.
Remove(n) ==
    /\ n \in Volatile \ gone
    /\ Children(n) \subseteq gone
    /\ gone' = gone \cup {n}
    /\ UNCHANGED <<pc, cur, todo, bytes, items, walk, entries, late>>

\* scan() up to its loop: metadata(path) fails, or read_dir(path), or neither.
Start ==
    /\ pc = "start"
    /\ \/ /\ Root \in Hidden \cup gone
          /\ pc' = "done"
          /\ UNCHANGED <<todo, denied>>
       \/ /\ Root \notin Hidden \cup gone /\ Root \in MayDeny \cup Volatile
          /\ pc' = "done"
          /\ denied' = {Root}
          /\ UNCHANGED todo
       \/ /\ Root \notin Hidden \cup gone
          /\ pc' = "walk"
          /\ todo' = [todo EXCEPT ![Root] = Children(Root) \ gone]
          /\ UNCHANGED denied
    /\ TimePasses
    /\ UNCHANGED <<cur, bytes, items, seen, files, crossed, truncated, entries, gone>>

---------------------------------------------------------------------------------
(* The loop body: one name of the innermost directory. *)

Visit(n) == pc = "walk" /\ n \in todo[cur] /\ TimePasses

\* symlink_metadata succeeds.
Stat(n) == n \notin gone \cup Hidden

\* Counted as an item of the directory, except by scan() itself.
ItemsWith(new) == IF cur = Root THEN items ELSE [items EXCEPT ![cur] = @ \cup new]

\* Mutant: the loop ends at the deadline and does not tell.
EndOfBodySilent(n) ==
    /\ truncated' = truncated
    /\ todo' = [todo EXCEPT ![cur] = IF late' THEN {} ELSE @ \ {n}]

\* The check of the deadline that ends the loop body for n.
EndOfBody(n) ==
    /\ truncated' = (truncated \/ late')
    /\ todo' = [todo EXCEPT ![cur] = IF late' THEN {} ELSE @ \ {n}]

\* The entry is gone, or cannot be looked up: continue.
Skip(n) ==
    /\ Visit(n) /\ ~Stat(n)
    /\ todo' = [todo EXCEPT ![cur] = @ \ {n}]
    /\ UNCHANGED <<pc, cur, bytes, items, walk, entries, gone>>

\* Mutant: a mount point is passed by before it is counted as an item.
CrossUncounted(n) ==
    /\ Visit(n) /\ Stat(n)
    /\ n \in Dirs /\ Device[n] # Device[Root]
    /\ crossed' = crossed \cup {n}
    /\ todo' = [todo EXCEPT ![cur] = @ \ {n}]
    /\ UNCHANGED <<pc, cur, bytes, items, seen, files, denied, truncated, entries, gone>>

\* A mount point: noted and passed by.
Cross(n) ==
    /\ Visit(n) /\ Stat(n)
    /\ n \in Dirs /\ Device[n] # Device[Root]
    /\ crossed' = crossed \cup {n}
    /\ items' = ItemsWith({n})
    /\ todo' = [todo EXCEPT ![cur] = @ \ {n}]
    /\ UNCHANGED <<pc, cur, bytes, seen, files, denied, truncated, entries, gone>>

\* Mutant: hard links are not recognised.
AddsBlocksAlways(f) == TRUE

\* nlink() > 1: the file has another name that still exists.
HasLinks(f) ==
    f \in LinkedOutside \/ \E g \in Files \ (gone \cup {f}) : Inode[g] = Inode[f]

\* file_bytes: the blocks of a file with several names count the first time only.
AddsBlocks(f) == ~(HasLinks(f) /\ Inode[f] \in seen)

\* Mutant: symbolic links are not told from files.
CountLinks(n) ==
    /\ Visit(n) /\ Stat(n)
    /\ n \in Node \ Dirs
    /\ seen' = IF HasLinks(n) THEN seen \cup {Inode[n]} ELSE seen
    /\ files' = files \cup {n}
    /\ LET added == IF AddsBlocks(n) THEN {n} ELSE {}
       IN  IF cur = Root
           THEN /\ entries' = entries \cup {n}
                /\ bytes' = [bytes EXCEPT ![n] = added]
           ELSE /\ entries' = entries
                /\ bytes' = [bytes EXCEPT ![cur] = @ \cup added]
    /\ items' = ItemsWith({n})
    /\ EndOfBody(n)
    /\ UNCHANGED <<pc, cur, denied, crossed, gone>>

\* A file: its blocks go into the sum of the directory, or into its own entry.
Count(n) ==
    /\ Visit(n) /\ Stat(n)
    /\ n \in Files
    /\ seen' = IF HasLinks(n) THEN seen \cup {Inode[n]} ELSE seen
    /\ files' = files \cup {n}
    /\ LET added == IF AddsBlocks(n) THEN {n} ELSE {}
       IN  IF cur = Root
           THEN /\ entries' = entries \cup {n}
                /\ bytes' = [bytes EXCEPT ![n] = added]
           ELSE /\ entries' = entries
                /\ bytes' = [bytes EXCEPT ![cur] = @ \cup added]
    /\ items' = ItemsWith({n})
    /\ EndOfBody(n)
    /\ UNCHANGED <<pc, cur, denied, crossed, gone>>

\* A symbolic link is an item and nothing more.
Ignore(n) ==
    /\ Visit(n) /\ Stat(n)
    /\ n \in Node \ (Dirs \cup Files)
    /\ items' = ItemsWith({n})
    /\ EndOfBody(n)
    /\ UNCHANGED <<pc, cur, bytes, seen, files, denied, crossed, entries, gone>>

Subdirectory(n) ==
    /\ Visit(n) /\ Stat(n)
    /\ n \in Dirs /\ Device[n] = Device[Root]
    /\ items' = ItemsWith({n})
    /\ UNCHANGED <<pc, seen, files, crossed, gone>>

Reported(n) == IF cur = Root THEN entries \cup {n} ELSE entries

\* walk_dir returns at once: the deadline has passed, or the directory cannot be
\* listed (or was removed a moment ago).
GiveUp(n) ==
    /\ Subdirectory(n)
    /\ \/ late' /\ denied' = denied
       \/ ~late /\ n \in MayDeny \cup Volatile /\ denied' = denied \cup {n}
    /\ entries' = Reported(n)
    /\ EndOfBody(n)
    /\ UNCHANGED <<cur, bytes>>

\* Mutant: the caller's iterator does not move on.
DescendStays(n) ==
    /\ Subdirectory(n)
    /\ ~late
    /\ cur' = n
    /\ todo' = [todo EXCEPT ![n] = Children(n) \ gone]
    /\ UNCHANGED <<bytes, denied, truncated, entries>>

\* walk_dir starts to walk the subdirectory.
Descend(n) ==
    /\ Subdirectory(n)
    /\ ~late
    /\ cur' = n
    /\ todo' = [todo EXCEPT ![cur] = @ \ {n}, ![n] = Children(n) \ gone]
    /\ UNCHANGED <<bytes, denied, truncated, entries>>

\* walk_dir returns; its sums are added to the caller's, whose loop body ends.
Return ==
    /\ pc = "walk" /\ cur # Root /\ todo[cur] = {}
    /\ TimePasses
    /\ LET p == Parent[cur]
       IN  /\ cur' = p
           /\ entries' = IF p = Root THEN entries \cup {cur} ELSE entries
           /\ bytes' = IF p = Root THEN bytes ELSE [bytes EXCEPT ![p] = @ \cup bytes[cur]]
           /\ items' = IF p = Root THEN items ELSE [items EXCEPT ![p] = @ \cup items[cur]]
           /\ truncated' = (truncated \/ late')
           /\ todo' = IF late' THEN [todo EXCEPT ![p] = {}] ELSE todo
    /\ UNCHANGED <<pc, seen, files, denied, crossed, gone>>

\* scan() sums up its entries and returns.
Finish ==
    /\ pc = "walk" /\ cur = Root /\ todo[Root] = {}
    /\ pc' = "done"
    /\ UNCHANGED <<cur, todo, bytes, items, walk, entries, late, gone>>

Step ==
    \/ Start
    \/ \E n \in Node : Skip(n) \/ Cross(n) \/ Count(n) \/ Ignore(n) \/ GiveUp(n) \/ Descend(n)
    \/ Return
    \/ Finish

Next == Step \/ \E n \in Node : Remove(n)

Spec == Init /\ [][Next]_vars

\* The thread runs on; no system call of the walk blocks for ever.
FairSpec == Spec /\ WF_vars(Step)

---------------------------------------------------------------------------------
(* Correctness *)

\* What lies below d: all that is reached through directories of the file system
\* that is measured, mount points included.
Below(d) ==
    LET closed(S) == \A n \in Node \ {Root} :
            Parent[n] \in S /\ Device[Parent[n]] = Device[Root] => n \in S
    IN  {n \in Node : \A S \in SUBSET Node : d \in S /\ closed(S) => n \in S}
Tree == [d \in Dirs |-> Below(d) \ {d}]

Total == UNION {bytes[e] : e \in entries}

\* "Hard links to one file are counted once" (dirsize.rs:6): no two files of one
\* inode are in the sums, wherever in the tree they are met, and a call adds to its
\* caller's sum nothing that is in it already.
CountedOnce ==
    /\ \A m, n \in Node : \A f \in bytes[m], g \in bytes[n] :
          Inode[f] = Inode[g] => f = g
    /\ cur # Root /\ Parent[cur] # Root => bytes[cur] \cap bytes[Parent[cur]] = {}
    /\ \A d, e \in entries : d # e => bytes[d] \cap bytes[e] = {}

\* "Never cut off silently and pretend to have counted it all" (dirsize.rs:10): a
\* report that names neither the deadline nor a denied directory holds every file
\* that is still there, on this file system, under its own entry.
SaysWhatIsMissing ==
    pc = "done" /\ ~truncated /\ denied = {} =>
        /\ \A f \in (Tree[Root] \cap Files) \ gone : \E g \in Total : Inode[g] = Inode[f]
        /\ \A e \in entries : bytes[e] \subseteq IF e \in Dirs THEN Tree[e] ELSE {e}

\* The number of items of a directory is that of everything below it, mount points
\* and symbolic links included, or the report says why not.
ItemsAreAll ==
    pc = "done" /\ ~truncated /\ denied = {} /\ gone = {} =>
        \A e \in entries \cap Dirs : items[e] = Tree[e]

\* Measuring ends, whatever other programs remove meanwhile.
Ends == <>(pc = "done")

=================================================================================
