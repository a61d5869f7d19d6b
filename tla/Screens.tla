-------------------------------- MODULE Screens --------------------------------
(* The keys (App::on_key, on_digit, on_key_overlay and what they call,            *)
(* src/app/state.rs): screens, cursors, the number typed on Home, the overlays    *)
(* and the process table of the live screens.  The data of the Storage screen is  *)
(* modelled in StorageScreen; here it has a table with a cursor.                  *)
(* Screens that are only looked at are all "Other"; of a search's query it is     *)
(* only known whether it is empty, and which tasks it finds.                      *)
EXTENDS Naturals, Sequences, FiniteSets, SequencesExt

CONSTANTS
    Process,        \* pids, natural numbers
    NoProcess,
    HitLists,       \* what a search may find: sequences of <<screen, task index>>
    MaxRow          \* bound: entries of a directory on the Storage screen

ASSUME ProcessAssumption == Process \subseteq Nat /\ IsFiniteSet(Process)

ASSUME RowAssumption == MaxRow \in Nat

VARIABLES
    screen, overlay, quit,
    homeCursor, liveCursor,     \* App.cursors of the two screens, from 0
    digits,                     \* App.digits
    query, hits, hitCursor,     \* Overlay::Search: query, search::find, cursor
    frozen, sort, pinned, row,  \* App.frozen, sort, pinned, row_cursor
    table                       \* Sampler.procs in the order of sort

search == <<query, hits, hitCursor>>
tableVars == <<sort, pinned, row, table>>
vars == <<screen, overlay, quit, homeCursor, liveCursor, digits, search, frozen, tableVars>>

\* MENU, and the tasks of Live in the order of the registry.
Menu == <<"Live", "Slow", "Other", "Storage">> \o [i \in 1 .. 10 |-> "Other"]
LiveTasks == <<"overview", "cpu", "memory", "disk-io", "network", "stuck", "freeze">>

\* A search finds tasks of the registry.
ASSUME HitsAssumption ==
    /\ HitLists \subseteq Seq(ToSet(Menu) \X Nat)
    /\ \A list \in HitLists : \A i \in DOMAIN list :
        list[i][1] = "Live" => list[i][2] < Len(LiveTasks)

Sorts == <<"Cpu", "Memory", "Io", "Pid">>
SortAfter(s) == LET i == CHOOSE i \in 1 .. 4 : Sorts[i] = s IN Sorts[(i % 4) + 1]

DefaultSort ==
    [t \in {"cpu", "memory", "disk-io"} |->
        CASE t = "cpu" -> "Cpu" [] t = "memory" -> "Memory" [] t = "disk-io" -> "Io"]
LiveTask(c) == LiveTasks[c + 1]

\* The orders the processes of a set may be in; by pid there is one.
AnyOrder == [procs \in SUBSET Process |-> Bijection(1 .. Cardinality(procs), procs)]
Orders(procs, by) ==
    {order \in AnyOrder[procs] :
        by = "Pid" => \A i, j \in DOMAIN order : i < j => order[i] < order[j]}

\* sorted_procs: the pinned process is moved to the top.
Rows(order, pin) ==
    IF pin \notin ToSet(order) THEN order
    ELSE LET at == CHOOSE i \in DOMAIN order : order[i] = pin
         IN  [i \in DOMAIN order |->
                IF i = 1 THEN pin ELSE IF i <= at THEN order[i - 1] ELSE order[i]]

LiveActive == screen \in {"Live", "Slow"}

TypeOK ==
    /\ screen \in {"Home"} \cup ToSet(Menu)
    /\ overlay \in {"none", "help", "search"}
    /\ quit \in BOOLEAN
    /\ homeCursor \in 0 .. Len(Menu) - 1
    /\ liveCursor \in 0 .. Len(LiveTasks) - 1
    /\ Len(digits) <= 2 /\ ToSet(digits) \subseteq 0 .. 9
    /\ query \in {"empty", "text"}
    /\ hits \in HitLists \cup {<<>>}
    /\ hitCursor \in Nat
    /\ frozen \in BOOLEAN
    /\ sort \in ToSet(Sorts)
    /\ pinned \in Process \cup {NoProcess}
    /\ row \in Nat
    /\ ToSet(table) \subseteq Process /\ table \in Orders(ToSet(table), sort)

Init ==
    /\ screen = "Home" /\ overlay = "none" /\ quit = FALSE
    /\ homeCursor = 0 /\ liveCursor = 0
    /\ digits = <<>>
    /\ query = "empty" /\ hits = <<>> /\ hitCursor = 0
    /\ frozen = FALSE /\ sort = "Cpu" /\ pinned = NoProcess /\ row = 0
    /\ table = <<>>

---------------------------------------------------------------------------------
(* The table *)

\* maybe_sample: processes come and go, and their figures change.
Sample ==
    /\ ~quit /\ LiveActive /\ ~frozen
    /\ \E procs \in SUBSET Process : table' \in Orders(procs, sort)
    /\ UNCHANGED <<screen, overlay, quit, homeCursor, liveCursor, digits, search, frozen,
                   sort, pinned, row>>

\* The table is drawn in the order of by.
Resort(by) ==
    /\ sort' = by
    /\ IF by = sort THEN UNCHANGED table ELSE table' \in Orders(ToSet(table), by)

\* sync_sort_with_task
SyncSort ==
    IF screen' = "Live" /\ LiveTask(liveCursor') \in DOMAIN DefaultSort
    THEN Resort(DefaultSort[LiveTask(liveCursor')])
    ELSE UNCHANGED <<sort, table>>

---------------------------------------------------------------------------------
(* Keys without an overlay *)

NoOverlay == ~quit /\ overlay = "none"

\* The loop returns and the App is dropped: nothing is remembered.
Quit ==
    /\ quit' = TRUE
    /\ screen' = "Home" /\ overlay' = "none"
    /\ homeCursor' = 0 /\ liveCursor' = 0 /\ digits' = <<>>
    /\ query' = "empty" /\ hits' = <<>> /\ hitCursor' = 0
    /\ frozen' = FALSE /\ sort' = "Cpu" /\ pinned' = NoProcess /\ row' = 0 /\ table' = <<>>

\* q, Esc.
Back ==
    /\ NoOverlay
    /\ \/ screen = "Home" /\ Quit
       \/ /\ screen # "Home"
          /\ screen' = "Home"
          /\ UNCHANGED <<overlay, quit, homeCursor, liveCursor, digits, search, frozen,
                         tableVars>>

\* ? and /
OpenOverlay ==
    /\ NoOverlay
    /\ \/ overlay' = "help" /\ UNCHANGED search
       \/ overlay' = "search" /\ query' = "empty" /\ hits' = <<>> /\ hitCursor' = 0
    /\ UNCHANGED <<screen, quit, homeCursor, liveCursor, digits, frozen, tableVars>>

\* s
NextOrder ==
    /\ NoOverlay /\ LiveActive
    /\ Resort(SortAfter(sort))
    /\ row' = 0
    /\ UNCHANGED <<screen, overlay, quit, homeCursor, liveCursor, digits, search, frozen,
                   pinned>>

\* f
Freeze ==
    /\ NoOverlay /\ LiveActive
    /\ frozen' = ~frozen
    /\ UNCHANGED <<screen, overlay, quit, homeCursor, liveCursor, digits, search, tableVars>>

\* Mutant: the cursor does not follow the row to the top.
RowStays == row
\* The row cursor after a process was pinned.
RowOfPinned == 0

\* p: pins the process under the cursor, or unpins it.
Pin ==
    /\ NoOverlay /\ LiveActive
    /\ row < Len(table)
    /\ LET p == Rows(table, pinned)[row + 1]
       IN  IF p = pinned THEN pinned' = NoProcess /\ UNCHANGED row
                         ELSE pinned' = p /\ row' = RowOfPinned
    /\ UNCHANGED <<screen, overlay, quit, homeCursor, liveCursor, digits, search, frozen, sort,
                   table>>

\* J, K, Shift with the arrows, on a live screen or on Storage: move_row.
MoveRow ==
    /\ NoOverlay /\ (LiveActive \/ screen = "Storage")
    /\ \E n \in IF LiveActive THEN {Len(table)} ELSE 0 .. MaxRow :
          IF n = 0 THEN row' = 0 ELSE row' \in {(row + 1) % n, (row + n - 1) % n}
    /\ UNCHANGED <<screen, overlay, quit, homeCursor, liveCursor, digits, search, frozen, sort,
                   pinned, table>>

\* r, and Enter and Backspace in a directory, on Storage.
StorageKey ==
    /\ NoOverlay /\ screen = "Storage"
    /\ row' = 0
    /\ digits' \in {digits, <<>>}
    /\ UNCHANGED <<screen, overlay, quit, homeCursor, liveCursor, search, frozen, sort, pinned,
                   table>>

\* t
Tools ==
    /\ NoOverlay
    /\ screen' = "Other" /\ digits' = <<>>
    /\ UNCHANGED <<overlay, quit, homeCursor, liveCursor, search, frozen, tableVars>>

\* Where a key moves a cursor at c of n entries.
Place(key, c, n) ==
    CASE key = "Up" -> (c + n - 1) % n
      [] key = "Down" -> (c + 1) % n
      [] key = "PageUp" -> (c + 2 * n - 5) % n
      [] key = "PageDown" -> (c + 5) % n
      [] key = "Home" -> 0
      [] key = "End" -> n - 1

MoveCursor(key) ==
    /\ homeCursor' = IF screen = "Home" THEN Place(key, homeCursor, Len(Menu)) ELSE homeCursor
    /\ liveCursor' = IF screen = "Live" THEN Place(key, liveCursor, Len(LiveTasks))
                                         ELSE liveCursor
    /\ UNCHANGED <<screen, overlay, quit, search, frozen, pinned, row>>

\* Up, k, Down, j.
Step ==
    /\ NoOverlay
    /\ digits' = <<>>
    /\ \E key \in {"Up", "Down"} : MoveCursor(key)
    /\ SyncSort

Leaps == {"PageUp", "PageDown", "Home", "End"}

\* Mutant: the keys that leap do not end the number that is being typed.
LeapKeepsDigits ==
    /\ NoOverlay
    /\ \E key \in Leaps : MoveCursor(key)
    /\ UNCHANGED <<digits, sort, table>>

Leap ==
    /\ NoOverlay
    /\ digits' = <<>>
    /\ \E key \in Leaps : MoveCursor(key)
    /\ UNCHANGED <<sort, table>>

\* Enter on Home.
Open ==
    /\ NoOverlay /\ screen = "Home"
    /\ digits' = <<>>
    /\ screen' = Menu[homeCursor + 1]
    /\ row' = 0
    /\ UNCHANGED <<overlay, quit, homeCursor, liveCursor, search, frozen, pinned>>
    /\ SyncSort

\* Enter elsewhere; Backspace where there is no directory to go up from.
EnterElsewhere ==
    /\ NoOverlay /\ screen # "Home"
    /\ digits' = <<>>
    /\ UNCHANGED <<screen, overlay, quit, homeCursor, liveCursor, search, frozen, tableVars>>

Backspace ==
    /\ NoOverlay
    /\ digits' = <<>>
    /\ screen' = "Home"
    /\ row' \in IF screen = "Storage" THEN {row, 0} ELSE {row}
    /\ UNCHANGED <<overlay, quit, homeCursor, liveCursor, search, frozen, sort, pinned, table>>

---------------------------------------------------------------------------------
(* Numbers *)

\* parse: of a number of up to three digits, which no buffer exceeds.
Value(number) ==
    LET place(k) == IF k < Len(number) THEN number[Len(number) - k] ELSE 0
    IN  100 * place(2) + 10 * place(1) + place(0)
InMenu(n) == n \in 1 .. Len(Menu)

\* The buffer after digit d: emptied when no longer number can be in the menu; a
\* number that is not in the menu gives way to its last digit.
Typed(number, d) ==
    LET longer == Append(number, d)
    IN  CASE ~InMenu(Value(longer)) -> <<d>>
          [] InMenu(Value(longer)) /\ Value(longer) * 10 > Len(Menu) -> <<>>
          [] OTHER -> longer

\* Mutant: a number that is not in the menu selects nothing.
SelectedNone(number, d) ==
    IF InMenu(Value(Append(number, d))) THEN Value(Append(number, d)) - 1 ELSE homeCursor

\* Mutant: numbers of the menu are taken for places counted from 0.
SelectedFromZero(number, d) ==
    IF InMenu(Value(Append(number, d))) THEN Value(Append(number, d)) ELSE homeCursor

\* The entry of Home that digit d selects.
Selected(number, d) ==
    CASE InMenu(Value(Append(number, d))) -> Value(Append(number, d)) - 1
      [] ~InMenu(Value(Append(number, d))) /\ InMenu(d) -> d - 1
      [] OTHER -> homeCursor

Digit(d) ==
    /\ NoOverlay /\ screen = "Home"
    /\ digits' = Typed(digits, d)
    /\ homeCursor' = Selected(digits, d)
    /\ UNCHANGED <<screen, overlay, quit, liveCursor, search, frozen, tableVars>>

---------------------------------------------------------------------------------
(* Keys of an overlay *)

CloseHelp ==
    /\ ~quit /\ overlay = "help"
    /\ overlay' = "none"
    /\ UNCHANGED <<screen, quit, homeCursor, liveCursor, digits, search, frozen, tableVars>>

Searching == ~quit /\ overlay = "search"
SearchEnds == overlay' = "none" /\ query' = "empty" /\ hits' = <<>> /\ hitCursor' = 0

\* Mutant: the cursor of the hits stays where it was.
HitAfterEditStays == hitCursor
\* The cursor of the hits after the query was changed.
HitAfterEdit == 0

\* A character more or less; a query without any finds nothing.
EditQuery ==
    /\ Searching
    /\ query' \in {"empty", "text"}
    /\ hits' \in IF query' = "empty" THEN {<<>>} ELSE HitLists
    /\ hitCursor' = HitAfterEdit
    /\ UNCHANGED <<screen, overlay, quit, homeCursor, liveCursor, digits, frozen, tableVars>>

MoveHit ==
    /\ Searching
    /\ IF hits = <<>> THEN hitCursor' = 0
       ELSE hitCursor' \in {(hitCursor + 1) % Len(hits),
                            (hitCursor + Len(hits) - 1) % Len(hits)}
    /\ UNCHANGED <<screen, overlay, quit, homeCursor, liveCursor, digits, query, hits, frozen,
                   tableVars>>

\* Enter on a hit: goto_task.
Goto ==
    /\ Searching /\ hitCursor < Len(hits)
    /\ SearchEnds
    /\ LET hit == hits[hitCursor + 1]
       IN  /\ screen' = hit[1]
           /\ liveCursor' = IF hit[1] = "Live" THEN hit[2] ELSE liveCursor
    /\ UNCHANGED <<quit, homeCursor, digits, frozen, tableVars>>

\* Esc, and Enter without a hit.
CloseSearch ==
    /\ Searching
    /\ SearchEnds
    /\ UNCHANGED <<screen, quit, homeCursor, liveCursor, digits, frozen, tableVars>>

CtrlC == ~quit /\ Quit

Key ==
    \/ Back \/ OpenOverlay \/ NextOrder \/ Freeze \/ Pin \/ MoveRow \/ StorageKey \/ Tools
    \/ Step \/ Leap \/ Open \/ EnterElsewhere \/ Backspace
    \/ \E d \in 0 .. 9 : Digit(d)
    \/ CloseHelp \/ EditQuery \/ MoveHit \/ Goto \/ CloseSearch \/ CtrlC

Next == Sample \/ Key

Spec == Init /\ [][Next]_vars

---------------------------------------------------------------------------------
(* Correctness *)

\* The number being typed is that of the selected entry, whichever keys, overlays
\* and screens come between its digits.
NumberIsSelected ==
    digits # <<>> /\ Value(digits) # 0 => homeCursor = Value(digits) - 1

\* A digit other than 0 always selects an entry whose number ends with it.
DigitCounts ==
    [][NoOverlay /\ screen = "Home" =>
        \A d \in 1 .. 9 : Digit(d) => (homeCursor' + 1) % 10 = d]_vars

\* p pins the process the cursor is at, and the cursor stays with it; it unpins
\* only the process the cursor is at.
PinFollowsCursor ==
    [][pinned' # pinned /\ ~quit' =>
        LET under == Rows(table, pinned)[row + 1]
        IN  \/ pinned' = under /\ Rows(table', pinned')[row' + 1] = under
            \/ pinned' = NoProcess /\ pinned = under]_vars

\* The cursor of a search is at one of its hits, if there are any: Enter goes to
\* what is marked.
HitIsMarked ==
    overlay = "search" /\ hits # <<>> => hitCursor < Len(hits)

=================================================================================
