----------------------------- MODULE MCLegacyChunk -----------------------------
(* Small swarms for LegacyChunk *)
EXTENDS FixedSwarm

CONSTANTS a, b, c,  \* one client thread in each of the peers 1, 2 and 3
          d,        \* a second client thread in peer 1
          e,        \* a client thread in peer 4
          g, h,     \* threads that peers 1 and 2 spawn
          x, y, z   \* items: x is stored, y and z are new

MCHost == [t \in Threads |-> CASE t \in {a, d, g} -> 1 [] t \in {b, h} -> 2 [] t = c -> 3
                           [] t = e -> 4]

NothingFresh == [t \in Threads |-> {}]
FreshForBAndC == [t \in Threads |-> CASE t = b -> {y} [] t = c -> {z} [] OTHER -> {}]

\* The lock alone: writers in three of four peers, and a reader beside one of them
CallsLock == [t \in Threads |-> IF t = d THEN {"read"} ELSE {"write"}]
\* Peer 3 asks one of the founders to let it in; peer 1 may also invite it
CallsJoin == [t \in Threads |-> CASE t = a -> {"invite", "commit"}
                                  [] t = b -> {"insert"}
                                  [] t = c -> {"join", "read", "commit"}
                                  [] OTHER -> {}]
\* Peer 1 leaves while the others use the chunk and its triggers still run
CallsLeave == [t \in Threads |-> CASE t = a -> {"leave"}
                                   [] t = b -> {"commit"}
                                   [] t = c -> {"insert", "commit"}
                                   [] OTHER -> {"read"}]
\* Peer 1 alone has the chunk, and commits, invites peer 2 or leaves; the triggers of
\* peer 2 read the chunk
CallsTwoPeers == [t \in Threads |-> CASE t = a -> {"commit", "invite", "leave"}
                                   [] t = b -> {"insert"}
                                   [] OTHER -> {"read"}]

\* Three clients of a swarm that stays as it is: one commits, one inserts or commits,
\* one updates in a batch.
CallsData == [t \in Threads |-> CASE t = a -> {"commit"}
                                  [] t = b -> {"insert", "commit"}
                                  [] t = c -> {"batch"}
                                  [] OTHER -> {"read"}]

\* Nobody attempts the lock while a peer has it in order to leave; without this the
\* leaver can make the CHECK at the end of another peer's attempt fail.
HasItToLeave(t) ==
  \/ op[t] = "leave" /\ WriteHeld(t)
  \/ member[Host[t]] = "relinquished" /\ pc[t] \in {"writing", "unlocking"}
LeavesApart == \A t, u \in Threads : HasItToLeave(t) => ~Attempting(u)
LeaveApartSpec == Init /\ [][Next /\ LeavesApart']_vars
================================================================================
