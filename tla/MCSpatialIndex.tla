---------------------------- MODULE MCSpatialIndex -----------------------------
(* Two by two cells and a small ring for SpatialIndex. *)
EXTENDS SpatialIndex

Span(min, max) == [min |-> min, max |-> max]

MCBounds == <<Span(0, 4), Span(-2, 2), Span(0, 1)>>
MCSubdivision == <<2, 2, 1>>

\* In the order of the ring: cell 0, 10, cells 1 and 3, 20, cell 2, 30.
MCHashOf == <<15, 25, 17>> @@ (0 :> 5)

\* The last cell, up to the bounds; what is right; and all but the edges.
Corner == <<Span(3, 4), Span(1, 2), Span(0, 1)>>
Right == <<Span(2, 4), Span(-1, 1), Span(0, 1)>>
Middle == <<Span(1, 3), Span(-1, 1), Span(0, 1)>>

Announce(chunk, box) == [kind |-> "announce", chunk |-> chunk, box |-> box]
Listen(box) == [kind |-> "listen", box |-> box]
Seek(box) == [kind |-> "seek", box |-> box]

\* 20 joins and leaves for its successor, 30; 10 joins and stays.
MCCalls == [p \in Processes |->
  CASE p = 30 -> <<Listen(Right), Announce("x", Middle)>>
    [] p = 20 -> <<[kind |-> "join"], Announce("y", Corner), Listen(Corner), [kind |-> "leave"]>>
    [] p = 10 -> <<[kind |-> "join"], Listen(Corner), Seek(Right)>>]
================================================================================
