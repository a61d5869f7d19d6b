------------------------------- MODULE MCScreens -------------------------------
(* Two processes; searches that find one task or those of two screens; a search   *)
(* that finds nothing is like one without a query.                                *)
EXTENDS Screens
CONSTANTS none
MCProcess == {1, 2}
MCHitLists == {<<<<"Slow", 0>>>>, <<<<"Live", 2>>, <<"Other", 1>>>>}
=================================================================================
