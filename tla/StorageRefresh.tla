------------------------------ MODULE StorageRefresh ------------------------------
(* StorageScreen with history variables that remember which jobs were started      *)
(* before the last refresh (key r): they constrain nothing and say how old what is *)
(* on display is.                                                                  *)
EXTENDS StorageScreen

VARIABLES
    stale,      \* jobs in flight since before the last refresh
    old         \* on display, but measured by a job started before the last refresh

hvars == <<vars, stale, old>>

HInit == Init /\ stale = {} /\ old = {}

\* apply: what the drain returned replaces what was on display.
HPoll ==
    /\ Poll
    /\ old' = (old \ Range(returned)) \cup (Range(returned) \cap stale)
    /\ stale' = stale \ Range(returned)

HRefresh ==
    /\ Refresh
    /\ stale' = running
    /\ old' = {}

HOther ==
    /\ \/ \E k \in Key : Finish(k)
       \/ Drain \/ Idle \/ Leave \/ Enter \/ Backspace \/ Quit
       \/ \E t \in Task : Goto(t)
    /\ UNCHANGED <<stale, old>>

HSpec == HInit /\ [][HPoll \/ HRefresh \/ HOther]_hvars

\* After a refresh ("re-read", storage.rs:138; "re-reading storage state" on the
\* status line) nothing on display was measured by a job started before it.
FreshAfterRefresh == \A k \in held \cup {dir} : k \notin old

===================================================================================
