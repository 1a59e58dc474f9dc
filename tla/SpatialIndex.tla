------------------------------ MODULE SpatialIndex -----------------------------
(***************************************************************************)
(* The distributed index of where the chunks of a table are                *)
(* (map-api/src/spatial-index.cc, spatial-index-cell-data.cc) with the     *)
(* calls of the table that use it (map-api/src/net-table.cc).              *)
(*                                                                         *)
(* Space is divided into cells.  An entry of a ring like the one of module *)
(* ChordIndex lists the chunks that have been announced in a cell and the  *)
(* peers that listen there; the peer in charge of a cell tells them about  *)
(* new chunks, and they get those.  A process is the number its id hashes  *)
(* to.  Its calls come one after the other, its listenThread serves a      *)
(* request at a time, and all its requests take turns under                *)
(* Hub::peer_mutex_.  The ring itself changes in one step here.            *)
(***************************************************************************)
EXTENDS Integers, FiniteSets, Sequences, SequencesExt

CONSTANTS Processes,    \* by the hash of their ids
          Creator,      \* the one that creates the index
          Chunks,       \* ids of chunks
          Bounds,       \* bounds_: for each dimension, [min |-> , max |-> ]
          Subdivision,  \* subdivision_: for each dimension, how many cells
          HashOf,       \* the hash of each cell's key
          Calls,        \* what each process does, one call after the other
          Apart,        \* what is taken not to overlap, see below
          NoProcess

size == FoldLeft(LAMBDA n, k : n * k, 1, Subdivision)
Cells == 0 .. size - 1
Dimensions == 1 .. Len(Bounds)

ASSUME SpatialIndexAssumption ==
  /\ Processes \subseteq Int /\ Creator \in Processes /\ NoProcess \notin Processes
  /\ Len(Subdivision) = Len(Bounds)
  /\ \A d \in Dimensions : Subdivision[d] > 0 /\ Bounds[d].min < Bounds[d].max
  /\ HashOf \in [Cells -> Int]
  /\ Apart \subseteq {"accesses", "announcements", "changes"}

VARIABLES
  members,   \* the ring
  data,      \* data_: cell -> what is stored for it here, or Absent
  todo,      \* the calls a process still has to make, the one under way first
  call,      \* where that one is
  telling,   \* the threads that tell listeners: whom still, what, and for whom
  fetching,  \* the detached threads that get a chunk: <<process, chunk>>
  active,    \* active_chunks_
  left,      \* the processes that are no longer in any Hub::peers_
  aborted,   \* those that a CHECK has ended
  announced, \* history: <<chunk, box>> of the announcements that have returned
  listening, \* history: <<process, box>>, likewise
  owed,      \* history: <<process, chunk>>, who is to hear of what
  found      \* history: what a seek had to find, and what it did find

history == <<announced, listening, owed, found>>
vars == <<members, data, todo, call, telling, fetching, active, left, aborted, history>>

Absent == [stored |-> FALSE, chunks |-> {}, listeners |-> {}]
Empty == [Absent EXCEPT !.stored = TRUE]
Entries == [stored : BOOLEAN, chunks : SUBSET Chunks, listeners : SUBSET Processes]

Idle == [pc |-> "idle", cells |-> <<>>, at |-> NoProcess, value |-> Absent,
         got |-> {}, sure |-> {}]
Silent == [for |-> NoProcess, to |-> {}, new |-> {}]

\* addData is carried out by the thread that calls it or by a listenThread.
Threads == Processes \X {"caller", "listenThread"}

--------------------------------------------------------------------------------
(* Boxes and cells.                                                        *)

\* The cell, in one dimension, of a coordinate.
coefficientOf(d, value) ==
  IF value = Bounds[d].max THEN Subdivision[d] - 1
  ELSE ((value - Bounds[d].min) * Subdivision[d]) \div (Bounds[d].max - Bounds[d].min)

\* The cells of a box in the order they are visited.  A dimension after the
\* other is extruded; the first one is the least significant.
getCellsInBoundingBox(box) ==
  LET lower[d \in Dimensions] == IF d = 1 THEN 1 ELSE lower[d - 1] * Subdivision[d - 1]
      range(d) == coefficientOf(d, box[d].min) .. coefficientOf(d, box[d].max)
      indices[d \in 0 .. Len(Bounds)] ==
        IF d = 0 THEN {0} ELSE {i + k * lower[d] : i \in indices[d - 1], k \in range(d)}
  IN  SetToSortSeq(indices[Len(Bounds)], <)

\* Whether two boxes have a point in common.
Overlap(a, b) == \A d \in Dimensions : a[d].min <= b[d].max /\ b[d].min <= a[d].max

--------------------------------------------------------------------------------
(* The ring and the requests.                                              *)

\* Whether key is from, or clockwise between from and to, without to.
isIn(key, from, to) ==
  \/ key = from
  \/ to = from
  \/ from < to /\ from < key /\ key < to
  \/ to < from /\ (from < key \/ key < to)

\* The first peer after the key has its entry.  The one before is asked for it.
findSuccessor(key) ==
  CHOOSE s \in members : \A r \in members \ {s} : isIn(key, r, s)
findPredecessor(key) ==
  CHOOSE q \in members : findSuccessor(q) = findSuccessor(key)

\* A request of p is sent and answered in one step, unless its handler sends
\* requests in turn: addData.  While that goes on, no other request leaves p.
Waiting(p) == \E q \in Processes \ {p} : telling[<<q, "listenThread">>].for = p

\* An index that joins holds index_lock_, which the handlers need.
Serves(q) == telling[<<q, "listenThread">>] = Silent /\ call[q].pc # "joining"

rpc(p, q) == p = q \/ (Serves(q) /\ ~Waiting(p))

\* The peer before a key can be asked for the one after it.
getSuccessorRpc(p, key) == rpc(p, findPredecessor(key))

\* The neighbours of a peer that joins or leaves, locked, are told.
handleNotify(new) == members \cup {new}
handleReplace(old) == members \ {old}
notifyRpc(p) == members' = handleNotify(p)
replaceRpc(p) == members' = handleReplace(p)

\* What a peer replies that has stored an entry, or been asked for it.
handleAddData(q, cell, value) == [data EXCEPT ![q][cell] = value]
handleRetrieveData(q, cell) == data[q][cell]

\* mutant: what the peer goes on having is given away.
handleFetchResponsibilities_Swapped(q, requester) ==
  [c \in Cells |-> IF isIn(HashOf[c], requester, q) THEN data[q][c] ELSE Absent]

\* The entries q gives to the peer that joins before it.  It keeps them, too.
handleFetchResponsibilities(q, requester) ==
  [c \in Cells |-> IF isIn(HashOf[c], requester, q) THEN Absent ELSE data[q][c]]

\* mutant: what the peer has is kept.
handlePushResponsibilities_Keep(q, entries) ==
  [c \in Cells |-> IF data[q][c] = Absent THEN entries[c] ELSE data[q][c]]

\* The entries of a peer that leaves overwrite those of its successor.
handlePushResponsibilities(q, entries) ==
  [c \in Cells |-> IF entries[c] = Absent THEN data[q][c] ELSE entries[c]]

addDataRpc(p, q, cell, value) == rpc(p, q) /\ data' = handleAddData(q, cell, value)
fetchResponsibilitiesRpc(p, q) ==
  rpc(p, q) /\ data' = [data EXCEPT ![p] = handleFetchResponsibilities(q, p)]
pushResponsibilitiesRpc(p, q) ==
  rpc(p, q) /\ data' = [data EXCEPT ![q] = handlePushResponsibilities(q, data[p])]

--------------------------------------------------------------------------------
(* What is taken not to overlap.  The code does not see to any of it; what *)
(* goes wrong is said in the README.                                       *)

Kind(p) == IF todo[p] = <<>> THEN "none" ELSE Head(todo[p]).kind
Busy(p) == call[p].pc # "idle"
Writes == {"announce", "listen"}
Changes == {"join", "leave"}

\* "accesses": a cell is read, added to and written by one process at a time.
Accessing(c) == {p \in Processes : /\ Kind(p) \in Writes
                                   /\ call[p].pc \in {"refind", "write", "told"}
                                   /\ Head(call[p].cells) = c}

\* "announcements": there is one announcement at a time.
\* "changes": nothing is written while the ring changes, and a peer leaves when
\* nobody uses the index, not even the threads that get chunks.
MayBegin(p) ==
  LET others == {q \in Processes \ {p} : Busy(q)}
  IN  /\ "announcements" \in Apart /\ Kind(p) = "announce" =>
           \A q \in others : Kind(q) # "announce"
      /\ "changes" \in Apart =>
           CASE Kind(p) = "leave" -> others = {} /\ fetching = {}
             [] Kind(p) = "join" -> \A q \in others : Kind(q) \notin Writes \cup Changes
             [] Kind(p) \in Writes -> \A q \in others : Kind(q) \notin Changes
             [] OTHER -> \A q \in others : Kind(q) # "leave"

--------------------------------------------------------------------------------
(* The calls.                                                              *)

Goto(p, pc) == call' = [call EXCEPT ![p].pc = pc]
Box(p) == Head(todo[p]).box

\* Those who have listened where a chunk is announced for the first time.
Hearers(chunk, box) ==
  IF \E a \in announced : a[1] = chunk THEN {}
  ELSE {l[1] : l \in {k \in listening : Overlap(k[2], box)}} \ left

\* registerChunkInSpace, listenToSpace and getChunkReferencesInBoundingBox.  A
\* chunk that is announced is active here.
Begin(p) ==
  /\ ~Busy(p) /\ Kind(p) \in Writes \cup {"seek"} /\ MayBegin(p) /\ p \in members
  /\ call' = [call EXCEPT ![p] = [Idle EXCEPT
       !.pc = "find", !.cells = getCellsInBoundingBox(Box(p)),
       !.sure = {a[1] : a \in {b \in announced : Overlap(b[2], Box(p))}}]]
  /\ IF Kind(p) = "announce"
     THEN LET chunk == Head(todo[p]).chunk
          IN  /\ active' = [active EXCEPT ![p] = @ \cup {chunk}]
              /\ owed' = owed \cup Hearers(chunk, Box(p)) \X {chunk}
     ELSE UNCHANGED <<active, owed>>
  /\ UNCHANGED <<members, data, todo, telling, fetching, left, aborted, announced,
                 listening, found>>

\* findSuccessor, before the entry is read and again before it is written.
Find(p) ==
  /\ call[p].pc \in {"find", "refind"}
  /\ LET key == HashOf[Head(call[p].cells)]
     IN  /\ getSuccessorRpc(p, key)
         /\ call' = [call EXCEPT ![p].at = findSuccessor(key),
                                 ![p].pc = IF @ = "find" THEN "read" ELSE "write"]
  /\ UNCHANGED <<members, data, todo, telling, fetching, active, left, aborted, history>>

\* What the call adds to an entry, if it is not there yet.
Added(p, entry) ==
  CASE Kind(p) = "announce" -> [entry EXCEPT !.chunks = @ \cup {Head(todo[p]).chunk}]
    [] Kind(p) = "listen" -> [entry EXCEPT !.listeners = @ \cup {p}]
    [] OTHER -> entry

\* The call is over for this cell and goes on to the next one, or returns.
NextCell(p, got) ==
  IF Len(call[p].cells) > 1
  THEN /\ call' = [call EXCEPT ![p].pc = "find", ![p].cells = Tail(@), ![p].got = got]
       /\ UNCHANGED <<todo, announced, listening, found>>
  ELSE /\ call' = [call EXCEPT ![p] = Idle]
       /\ todo' = [todo EXCEPT ![p] = Tail(@)]
       /\ announced' = IF Kind(p) = "announce"
                       THEN announced \cup {<<Head(todo[p]).chunk, Box(p)>>} ELSE announced
       /\ listening' = IF Kind(p) = "listen"
                       THEN listening \cup {<<p, Box(p)>>} ELSE listening
       /\ found' = IF Kind(p) = "seek"
                   THEN found \cup {[sure |-> call[p].sure, got |-> got]} ELSE found

\* retrieveData for an accessor, which needs the entry.  A seek would ask once
\* more after a second; here it must be there at once.
Read(p) ==
  LET cell == Head(call[p].cells)
      entry == handleRetrieveData(call[p].at, cell)
  IN  /\ call[p].pc = "read" /\ rpc(p, call[p].at)
      /\ "accesses" \in Apart /\ Kind(p) \in Writes => Accessing(cell) = {}
      /\ UNCHANGED <<members, data, telling, fetching, active, left, owed>>
      /\ IF entry = Absent
         THEN /\ aborted' = aborted \cup {p}
              /\ Goto(p, "aborted")
              /\ UNCHANGED <<todo, announced, listening, found>>
         ELSE /\ UNCHANGED aborted
              /\ IF Kind(p) = "seek" THEN NextCell(p, call[p].got \cup entry.chunks)
                 ELSE /\ call' = [call EXCEPT ![p].pc = "refind",
                                              ![p].value = Added(p, entry)]
                      /\ UNCHANGED <<todo, announced, listening, found>>

\* mutant: those are told that listened before the chunks were there.
localUpdateCallback_Late(p, old, new) ==
  [for |-> p, to |-> old.listeners, new |-> old.chunks]

chunkIdSetDiff(new, old) == new.chunks \ old.chunks

\* The listeners of an entry are told of the chunks that are new in it.
localUpdateCallback(p, old, new) ==
  LET added == chunkIdSetDiff(new, old)
  IN  [for |-> p, to |-> IF added = {} THEN {} ELSE new.listeners, new |-> added]

\* addData: by the caller if it has the entry, or by the peer that has it.
Write(p) ==
  LET at == call[p].at
      cell == Head(call[p].cells)
      thread == <<at, IF at = p THEN "caller" ELSE "listenThread">>
  IN  /\ call[p].pc = "write"
      /\ addDataRpc(p, at, cell, call[p].value)
      /\ telling' = [telling EXCEPT ![thread] =
                       localUpdateCallback(p, data[at][cell], call[p].value)]
      /\ Goto(p, "told")
      /\ UNCHANGED <<members, todo, fetching, active, left, aborted, history>>

\* sendTriggerNotification.  A listener that has left is passed over; another
\* one starts a thread for each chunk.
sendTriggerNotification(t, l) ==
  LET p == t[1]
  IN  /\ l \in telling[t].to
      /\ l \in left \/ rpc(p, l)
      /\ fetching' = IF l \in left THEN fetching ELSE fetching \cup {l} \X telling[t].new
      /\ telling' = [telling EXCEPT ![t].to = @ \ {l}]
      /\ UNCHANGED <<members, data, todo, call, active, left, aborted, history>>

\* addData returns, to the caller.
Told(t) ==
  LET p == telling[t].for
  IN  /\ telling[t] # Silent /\ telling[t].to = {}
      /\ telling' = [telling EXCEPT ![t] = Silent]
      /\ NextCell(p, {})
      /\ UNCHANGED <<members, data, fetching, active, left, aborted, owed>>

\* handleSpatialIndexTrigger: a thread gets the chunk from a holder.
GetChunk(p, chunk) ==
  /\ <<p, chunk>> \in fetching
  /\ fetching' = fetching \ {<<p, chunk>>}
  /\ active' = [active EXCEPT ![p] = @ \cup {chunk}]
  /\ UNCHANGED <<members, data, todo, call, telling, left, aborted, history>>

--------------------------------------------------------------------------------
(* Peers that join and leave the ring.                                     *)

Step(p, pc) ==
  /\ call' = [call EXCEPT ![p] = [Idle EXCEPT !.pc = pc]]
  /\ todo' = IF pc = "idle" THEN [todo EXCEPT ![p] = Tail(@)] ELSE todo

\* joinSpatialIndex: the neighbours are locked, and the successor hands over
\* what becomes the peer's.
JoinFetch(p) ==
  /\ ~Busy(p) /\ Kind(p) = "join" /\ MayBegin(p)
  /\ fetchResponsibilitiesRpc(p, findSuccessor(p))
  /\ Step(p, "joining")
  /\ UNCHANGED <<members, telling, fetching, active, left, aborted, history>>

\* The neighbours are told.
JoinNotify(p) ==
  /\ call[p].pc = "joining"
  /\ notifyRpc(p)
  /\ Step(p, "idle")
  /\ UNCHANGED <<data, telling, fetching, active, left, aborted, history>>

\* leaveIndices: all the peer has goes to its successor.
LeavePush(p) ==
  /\ ~Busy(p) /\ Kind(p) = "leave" /\ MayBegin(p) /\ members # {p}
  /\ pushResponsibilitiesRpc(p, findSuccessor(p))
  /\ Step(p, "leaving")
  /\ UNCHANGED <<members, telling, fetching, active, left, aborted, history>>

\* The neighbours become each other's, the index is dropped, and the process
\* leaves the swarm.
LeaveReplace(p) ==
  /\ call[p].pc = "leaving"
  /\ replaceRpc(p)
  /\ data' = [data EXCEPT ![p] = [c \in Cells |-> Absent]]
  /\ left' = left \cup {p}
  /\ Step(p, "idle")
  /\ UNCHANGED <<telling, fetching, active, aborted, history>>

--------------------------------------------------------------------------------
(* The specification.                                                      *)

\* createSpatialIndex, with index_lock_ held, is over: every cell has an entry.
Init ==
  /\ members = {Creator}
  /\ data = [p \in Processes |-> [c \in Cells |-> IF p = Creator THEN Empty ELSE Absent]]
  /\ todo = Calls
  /\ call = [p \in Processes |-> Idle]
  /\ telling = [t \in Threads |-> Silent]
  /\ fetching = {} /\ left = {} /\ aborted = {}
  /\ active = [p \in Processes |-> {}]
  /\ announced = {} /\ listening = {} /\ owed = {} /\ found = {}

AtRest == /\ \A p \in Processes : todo[p] = <<>>
          /\ fetching = {}

Finished == AtRest /\ UNCHANGED vars

Next ==
  \/ \E p \in Processes : Begin(p) \/ Find(p) \/ Read(p) \/ Write(p)
  \/ \E t \in Threads : Told(t) \/ \E l \in Processes : sendTriggerNotification(t, l)
  \/ \E p \in Processes, c \in Chunks : GetChunk(p, c)
  \/ \E p \in Processes : JoinFetch(p) \/ JoinNotify(p) \/ LeavePush(p) \/ LeaveReplace(p)
  \/ Finished

Spec == Init /\ [][Next]_vars

--------------------------------------------------------------------------------
(* Properties.                                                             *)

SpaceTypes ==
  /\ members \subseteq Processes
  /\ data \in [Processes -> [Cells -> Entries]]
  /\ telling \in [Threads -> [for : Processes \cup {NoProcess}, to : SUBSET Processes,
                              new : SUBSET Chunks]]
  /\ fetching \subseteq Processes \X Chunks
  /\ active \in [Processes -> SUBSET Chunks]
  /\ left \subseteq Processes

\* The CHECKs of the accessors (spatial-index.cc:201-206) never fail: for
\* whatever box, and while peers join, an entry is where the ring says it is,
\* at the first attempt.  And the lists of waiting threads fit together.
SpaceChecks ==
  /\ SpaceTypes
  /\ aborted = {}
  /\ \A c \in Cells : data[findSuccessor(HashOf[c])][c] # Absent
  /\ \A t \in Threads : telling[t] # Silent => call[telling[t].for].pc = "told"

\* A seek (spatial-index.cc:114) finds every chunk whose announcement, at a box
\* that overlaps the one it is about, had returned when it began: whichever
\* peer the entries have gone to in between.
SeeksFind == \A f \in found : f.sure \subseteq f.got

\* Who has listened to a box (spatial-index.cc:125) gets every chunk that is
\* announced later in a box that overlaps it (667-715, net-table.cc:700),
\* unless it leaves.
ListenersHear ==
  AtRest => \A o \in owed : o[1] \in left \/ o[2] \in active[o[1]]
================================================================================
