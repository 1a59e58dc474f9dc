-------------------------------- MODULE MCTables -------------------------------
(* Three processes and their calls for Tables. *)
EXTENDS Tables

CONSTANTS p, q, r

new(c) == [call |-> "new", chunk |-> c]
get(c) == [call |-> "get", chunk |-> c]

\* p creates a chunk while q comes to listen to it; p and q commit to the table's
\* definition; r gets the chunk, attaches a trigger to it and leaves.
MCCalls == [x \in Processes |->
  CASE x = p -> {[call |-> "listen"], new("a")}
    [] x = q -> {[call |-> "listen"], [call |-> "follow", peer |-> p]}
    [] x = r -> {get("a"), [call |-> "trigger"], [call |-> "kill"]}]

MCOwnerOf == [c \in Chunks |-> q]
================================================================================
