----------------------------- MODULE MCChordIndex ------------------------------
(* A small ring for ChordIndex. *)
EXTENDS ChordIndex

\* The chunk belongs between 2 and 4: to every peer in turn, as they come and go.
MCHashOf == [c \in Chunks |-> 3]

\* The founder gets the chunk and keeps it, 6 has it for a while, and 4 asks
\* who has it.
MCCalls == [p \in Peers |->
  CASE p = 2 -> {<<"announce", "x">>}
    [] p = 4 -> {<<"seek", "x">>}
    [] p = 6 -> {<<"announce", "x">>, <<"renounce", "x">>}
    [] OTHER -> {}]
================================================================================
