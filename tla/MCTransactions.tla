----------------------------- MODULE MCTransactions ----------------------------
(* Two processes.  Item x is in the first table and tracks the chunks of the *)
(* second one; y is in chunk 2, which both have, and chunk 3 is known to the *)
(* first process only until the other fetches it.                            *)
EXTENDS Transactions

MCTableOf == [c \in {1, 2, 3} |-> IF c = 1 THEN 1 ELSE 2]
MCHolders == [c \in {1, 2, 3} |-> IF c = 3 THEN {1} ELSE {1, 2}]
MCHomeOf == [i \in Items |-> CASE i = "x" -> 1 [] i = "z" -> 3 [] OTHER -> 2]
MCTrackerOf == [i \in Items |-> IF i \in {"z", "w"} THEN "x" ELSE NoItem]

\* a and f (which begins on the future of a) run in process 1, b and the transaction m
\* that b may be merged into in process 2.
MCHost == [t \in Trans |-> IF t \in {"a", "f"} THEN 1 ELSE 2]
MCNumberOf == [t \in Trans |-> IF t = "a" THEN 1 ELSE 2]
MCFresh == [t \in Trans |->
  CASE t = "a" -> {"z"} [] t = "b" -> {"w"} [] t = "f" -> {"v"} [] OTHER -> {}]
MCReads == [t \in Trans |-> IF t = "f" THEN {"x"} ELSE {}]
MCUpdates == [t \in Trans |->
  CASE t = "a" -> {"x", "y", "z"} [] t = "b" -> {"y"} [] OTHER -> {}]
MCRemoves == [t \in Trans |-> IF t = "b" THEN {"y"} ELSE {}]

\* The merge policy for y: the first change wins, and all that is tracked stays tracked.
MCCustomMerge(theirs, original, ours) ==
  IF theirs.id = "y" /\ original.fields[1].value.int = 0
  THEN [theirs EXCEPT !.trackees = MergeTrackees(@, ours.trackees)] ELSE NoMerge

\* The clock of the first process is behind.
MCStarts == {[p \in Procs |-> IF p = 1 THEN 1 ELSE 3]}

MCMaxOps == [t \in Trans |-> IF t = "f" THEN 1 ELSE 2]
MCMaxCommits == [t \in Trans |-> IF t = "b" THEN 2 ELSE 1]
================================================================================
