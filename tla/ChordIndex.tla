------------------------------- MODULE ChordIndex ------------------------------
(***************************************************************************)
(* The distributed index of a table (map-api/src/chord-index.cc) and what  *)
(* the table keeps in it, the holders of each chunk                        *)
(* (map-api/src/net-table-index.cc).                                       *)
(*                                                                         *)
(* The peers form a ring in the order of the hashes of their ids.  Every   *)
(* peer knows its two neighbours; the entry of a key is at the first peer  *)
(* whose hash is larger than the key's.  A peer that joins or leaves locks *)
(* the neighbours concerned, takes over or hands over entries, and tells   *)
(* them.  This is the mode FLAGS_join_mode = kCleanJoin; the other one     *)
(* stabilises the ring in the background and cannot be left.               *)
(*                                                                         *)
(* A peer is the number its id hashes to.  A request and its reply are one *)
(* step, at the peer asked: the requester waits for the reply, and the     *)
(* peer serves one request at a time.                                      *)
(***************************************************************************)
EXTENDS Integers, FiniteSets, Sequences, FiniteSetsExt

CONSTANTS Peers,    \* the processes, by the hash of their ids
          Founder,  \* the one that creates the index
          Leavers,  \* those that may leave
          Chunks,   \* ids of chunks
          HashOf,   \* the hash of a chunk's id
          Calls,    \* what the table of each peer asks of the index
          Apart,    \* what is taken not to overlap, see below
          Absent,   \* the entry of a chunk nothing is stored for
          NoPeer

ASSUME ChordIndexAssumption ==
  /\ Peers \subseteq Int /\ Founder \in Peers /\ Leavers \subseteq Peers
  /\ HashOf \in [Chunks -> Int]
  /\ Calls \in [Peers -> SUBSET ({"seek", "announce", "renounce"} \X Chunks)]
  /\ Apart \subseteq {"joins", "resets", "writes"}
  /\ NoPeer \notin Peers /\ \A entry \in SUBSET Peers : entry # Absent

VARIABLES
  succ, pred,  \* successor_ and predecessor_
  state,       \* see States
  lockedBy,    \* node_lock_holder_, NoPeer unless node_locked_
  data,        \* data_: chunk -> the holders stored for it, or Absent
  op,          \* the thread that joins or leaves, and where it is
  call,        \* a thread that uses the index, and where it is
  todo,        \* the calls it still has to make
  holds,       \* history: who has announced what, and not begun to renounce it
  found,       \* history: for each seek that has returned, what it was told
  aborted      \* the processes that a CHECK or a LOG(FATAL) has ended

ringVars == <<succ, pred, lockedBy>>
callVars == <<call, todo, holds, found>>
vars == <<succ, pred, state, lockedBy, data, op, call, todo, holds, found, aborted>>

Entries == {Absent} \cup SUBSET Peers

\* "out": the table has no index here; "joining": index_lock_ of the table is
\* held and the index is not initialized_, so no request is answered; "left":
\* terminate_ is set and all locks are back, but the index still answers;
\* "inactive": initialized_ is false again; "gone": the table has dropped it.
States == {"out", "joining", "in", "left", "inactive", "gone"}

Idle == [kind |-> "none", pc |-> "idle", p |-> NoPeer, s |-> NoPeer, ok |-> TRUE, undo |-> <<>>, then |-> "idle"]
NoCall == [pc |-> "idle", kind |-> "none", chunk |-> CHOOSE c \in Chunks : TRUE,
           adds |-> FALSE, at |-> NoPeer, entry |-> {}, sure |-> {}]

--------------------------------------------------------------------------------
(* Keys on the ring. *)

\* Whether key is from, or clockwise between from and to, without to.
isIn(key, from, to) ==
  \/ key = from
  \/ to = from
  \/ from < to /\ from < key /\ key < to
  \/ to < from /\ (from < key \/ key < to)

\* The nearest peer before key that q knows of: the fingers are not used.
closestPrecedingFinger(q, key) == IF isIn(key, q, succ[q]) THEN q ELSE succ[q]

--------------------------------------------------------------------------------
(* Requests.  The handlers of an index that is not initialized_ block; a   *)
(* table without index declines.                                           *)

Answers(q) == state[q] # "joining" /\ q \notin aborted
Declines(q) == state[q] \in {"out", "gone"}

\* A thread of p cannot go on.
Abort(p) == aborted' = aborted \cup {p}

\* mutant: a peer is locked over and over.
handleLock_Always(q) == state[q] \in {"in", "left"}

\* Whether q can be locked: an index that is not active any more cannot.
handleLock(q) == state[q] \in {"in", "left"} /\ lockedBy[q] = NoPeer

handleUnlock(q, requester) == ~Declines(q) /\ lockedBy[q] = requester

\* handleAddData and handleRetrieveData, handleNotify and so on: LOG(FATAL)
\* at the peer asked if it is inactive, a failed CHECK at the one that asks if
\* the index is gone.
Fatal(q, requester) ==
  IF state[q] = "inactive" THEN {q} ELSE IF Declines(q) THEN {requester} ELSE {}

\* The entries q gives to the peer that joins before it.  It keeps them, too.
handleFetchResponsibilities(q, requester) ==
  [c \in Chunks |-> IF isIn(HashOf[c], requester, q) THEN Absent ELSE data[q][c]]

\* mutant: what the peer has is kept.
handlePushResponsibilities_Keep(q, entries) ==
  [c \in Chunks |-> IF data[q][c] = Absent THEN entries[c] ELSE data[q][c]]

\* The entries of a peer that leaves overwrite those of its successor.
handlePushResponsibilities(q, entries) ==
  [c \in Chunks |-> IF entries[c] = Absent THEN data[q][c] ELSE entries[c]]

\* handleReplace at q, which old has locked: the neighbour that leaves is
\* replaced by its other neighbour, on both sides if need be.
handleReplace(q, old, new) ==
  /\ succ' = [succ EXCEPT ![q] = IF @ = old THEN new ELSE @]
  /\ pred' = [pred EXCEPT ![q] = IF @ = old THEN new ELSE @]

ReplaceRejected(q, old) == old \notin {succ[q], pred[q]} \/ lockedBy[q] # old

\* handleNotifyClean: the new peer becomes the neighbour it is nearer than.
handleNotify(q, new) ==
  /\ succ' = [succ EXCEPT ![q] = IF isIn(new, q, @) THEN new ELSE @]
  /\ pred' = [pred EXCEPT ![q] = IF isIn(new, @, q) THEN new ELSE @]

--------------------------------------------------------------------------------
(* What is taken not to overlap.  The code does not see to any of it: what *)
(* goes wrong when it happens is said where the run leaves it out.         *)

Joining == {p \in Peers : state[p] = "joining"}
Leaving == {p \in Peers : op[p].kind = "leave"}
HandingOver == {p \in Peers : op[p].pc \in {"notifyP", "notifyS", "replaceS", "replaceP"}}
Writing == {p \in Peers : call[p].kind \in {"announce", "renounce"}}

\* "joins": no peer joins while one leaves.
JoinsApart == "joins" \in Apart => Leaving = {}
LeavesApart == "joins" \in Apart => Joining = {}

\* "resets": a peer that has left stays as long as somebody may ask it.
Refers(q, p) ==
  \/ op[q].pc # "idle" /\ p \in {op[q].p, op[q].s}
  \/ call[q].pc # "idle" /\ call[q].at = p
ResetsApart(p) == "resets" \in Apart => \A q \in Peers \ {p} : ~Refers(q, p)

\* "writes": entries are changed one at a time, and not during a handover.
HandoversApart == "writes" \in Apart => Writing = {}
WritesApart == "writes" \in Apart => Writing = {} /\ HandingOver = {}

--------------------------------------------------------------------------------
(* Joining and leaving: locks. *)

Subjects(p) == IF op[p].kind = "join" THEN {op[p].p, op[p].s} ELSE {op[p].p, p, op[p].s}
Held(p) == {q \in Subjects(p) : lockedBy[q] = p}

\* mutant: the thread goes by the order in which the ring names the peers.
NextToLock_RingOrder(p) ==
  IF op[p].p \notin Held(p) THEN op[p].p
  ELSE IF op[p].kind = "leave" /\ p \notin Held(p) THEN p ELSE op[p].s

\* Some peers in the order of tryLockInOrder, that of their hashes.
InOrder(peers) ==
  CHOOSE s \in [1 .. Cardinality(peers) -> peers] : \A i, j \in DOMAIN s : i < j => s[i] < s[j]

\* tryLockInOrder: the next lock to try.
NextToLock(p) == Min(Subjects(p) \ Held(p))

\* Where a thread begins anew that could not get all its locks.
FirstStep(p) == IF op[p].kind = "join" THEN "find" ELSE "read"

\* p begins to give back locks, and goes on at next when it has.
GivesBack(p, locks, next) == op' = [op EXCEPT ![p].pc = "undo", ![p].undo = locks, ![p].then = next]

StartJoin(p, other) ==
  /\ p # Founder /\ state[p] = "out" /\ op[p] = Idle /\ p \notin aborted
  /\ state[other] = "in" /\ JoinsApart
  /\ state' = [state EXCEPT ![p] = "joining"]
  /\ op' = [op EXCEPT ![p].kind = "join", ![p].pc = "find", ![p].p = other]
  /\ UNCHANGED <<ringVars, data, callVars, aborted>>

\* cleanJoin: the predecessor, as far as the peer asked knows ...
JoinPredecessor(p) ==
  LET q == op[p].p IN
  /\ op[p].pc = "find" /\ Answers(q)
  /\ IF Declines(q) THEN Abort(p) /\ UNCHANGED op
     ELSE /\ op' = [op EXCEPT ![p].pc = "ask", ![p].p = closestPrecedingFinger(q, p)]
          /\ UNCHANGED aborted
  /\ UNCHANGED <<ringVars, state, data, callVars>>

\* ... and its successor: the place is right if the new peer is between them.
JoinSuccessor(p) ==
  LET q == op[p].p IN
  /\ op[p].pc = "ask" /\ Answers(q)
  /\ IF Declines(q) THEN Abort(p) /\ UNCHANGED op
     ELSE /\ op' = [op EXCEPT ![p].pc = IF isIn(p, q, succ[q]) THEN "lock" ELSE "find",
                              ![p].s = succ[q]]
          /\ UNCHANGED aborted
  /\ UNCHANGED <<ringVars, state, data, callVars>>

StartLeave(p) ==
  /\ p \in Leavers /\ state[p] = "in" /\ op[p] = Idle /\ p \notin aborted /\ LeavesApart
  /\ call[p] = NoCall /\ ~\E c \in Chunks : <<p, c>> \in holds  \* leaveAllChunks() is over
  /\ todo' = [todo EXCEPT ![p] = {}]
  /\ op' = [op EXCEPT ![p].kind = "leave", ![p].pc = "read"]
  /\ UNCHANGED <<ringVars, state, data, call, holds, found, aborted>>

\* leaveClean: the neighbours now.
LeaveNeighbours(p) ==
  /\ op[p].pc = "read"
  /\ op' = [op EXCEPT ![p].pc = "lock", ![p].p = pred[p], ![p].s = succ[p]]
  /\ UNCHANGED <<ringVars, state, data, callVars, aborted>>

\* tryLockInOrder: it waits for its own lock, tries those of the others, and
\* gives all of them back when it does not get one.
TryLock(p) ==
  /\ op[p].pc = "lock" /\ Held(p) # Subjects(p)
  /\ LET q == NextToLock(p) IN
     /\ Answers(q) /\ (q = p => handleLock(q))
     /\ IF handleLock(q)
        THEN lockedBy' = [lockedBy EXCEPT ![q] = p] /\ UNCHANGED op
        ELSE /\ GivesBack(p, InOrder(Held(p)), FirstStep(p))
             /\ UNCHANGED lockedBy
  /\ UNCHANGED <<succ, pred, state, data, callVars, aborted>>

\* unlock: the next lock is given back.  That its peer refuses is a failed CHECK.
Unlock(p) ==
  /\ op[p].pc = "undo"
  /\ IF op[p].undo = <<>>
     THEN op' = [op EXCEPT ![p].pc = op[p].then] /\ UNCHANGED <<lockedBy, aborted>>
     ELSE LET q == Head(op[p].undo) IN
          /\ Answers(q)
          /\ IF handleUnlock(q, p)
             THEN /\ lockedBy' = [lockedBy EXCEPT ![q] = NoPeer]
                  /\ op' = [op EXCEPT ![p].undo = Tail(@)]
                  /\ UNCHANGED aborted
             ELSE Abort(p) /\ UNCHANGED <<lockedBy, op>>
  /\ UNCHANGED <<succ, pred, state, data, callVars>>

--------------------------------------------------------------------------------
(* Joining and leaving: the neighbours are locked. *)

\* What is left to do is only to give the locks back, without those of a peer
\* named twice.
Unlocks(p, first, second) == IF first = second THEN <<first>> ELSE <<first, second>>

\* mutant: the joining peer takes the lookup for granted.
JoinVerify_Not(p, sure) == op' = [op EXCEPT ![p].pc = "fetch"]

\* p has asked both neighbours: it goes on if they are still neighbours.
JoinVerify(p, sure) ==
  IF sure THEN op' = [op EXCEPT ![p].pc = "fetch"]
  ELSE GivesBack(p, Unlocks(p, op[p].p, op[p].s), "find")

\* cleanJoin asks S for its predecessor ...
JoinVerifyS(p) ==
  LET q == op[p].s IN
  /\ op[p].kind = "join" /\ op[p].pc = "lock" /\ Held(p) = Subjects(p) /\ Answers(q)
  /\ IF Declines(q) THEN Abort(p) /\ UNCHANGED op
     ELSE op' = [op EXCEPT ![p].pc = "verify", ![p].ok = pred[q] = op[p].p] /\ UNCHANGED aborted
  /\ UNCHANGED <<ringVars, state, data, callVars>>

\* ... and P for its successor.
JoinVerifyP(p) ==
  LET q == op[p].p IN
  /\ op[p].kind = "join" /\ op[p].pc = "verify" /\ Answers(q)
  /\ IF Declines(q) THEN Abort(p) /\ UNCHANGED op
     ELSE JoinVerify(p, op[p].ok /\ succ[q] = op[p].s) /\ UNCHANGED aborted
  /\ UNCHANGED <<ringVars, state, data, callVars>>

\* leaveClean asks P for its successor, and looks at its own neighbours ...
LeaveVerifyP(p) ==
  LET q == op[p].p IN
  /\ op[p].kind = "leave" /\ op[p].pc = "lock" /\ Held(p) = Subjects(p) /\ Answers(q)
  /\ \/ /\ q = p
        /\ IF op[p].s = p THEN op' = [op EXCEPT ![p].pc = "push"] /\ UNCHANGED aborted
           ELSE Abort(p) /\ UNCHANGED op
     \/ /\ q # p
        /\ IF Declines(q) THEN Abort(p) /\ UNCHANGED op
           ELSE /\ op' = [op EXCEPT ![p].pc = "verify",
                            ![p].ok = succ[q] = p /\ pred[p] = q /\ succ[p] = op[p].s]
                /\ UNCHANGED aborted
  /\ UNCHANGED <<ringVars, state, data, callVars>>

\* ... and S for its predecessor.
LeaveVerifyS(p) ==
  LET q == op[p].s IN
  /\ op[p].kind = "leave" /\ op[p].pc = "verify" /\ Answers(q)
  /\ IF Declines(q) THEN Abort(p) /\ UNCHANGED op
     ELSE /\ IF op[p].ok /\ pred[q] = p THEN op' = [op EXCEPT ![p].pc = "push"]
             ELSE GivesBack(p, <<op[p].p, p>> \o IF q = op[p].p THEN <<>> ELSE <<q>>, "read")
          /\ UNCHANGED aborted
  /\ UNCHANGED <<ringVars, state, data, callVars>>

\* The new peer gets its entries and registers its neighbours.  Nobody sees
\* them yet.
JoinFetch(p) ==
  LET q == op[p].s IN
  /\ op[p].pc = "fetch" /\ Answers(q) /\ HandoversApart
  /\ IF Fatal(q, p) # {} THEN aborted' = aborted \cup Fatal(q, p) /\ UNCHANGED <<succ, pred, data, op>>
     ELSE /\ data' = [data EXCEPT ![p] = handleFetchResponsibilities(q, p)]
          /\ pred' = [pred EXCEPT ![p] = op[p].p]
          /\ succ' = [succ EXCEPT ![p] = q]
          /\ op' = [op EXCEPT ![p].pc = "notifyP"]
          /\ UNCHANGED aborted
  /\ UNCHANGED <<lockedBy, state, callVars>>

\* handleNotifyClean checks that the peer it serves holds its lock.
Notify(p, q, next) ==
  /\ Answers(q)
  /\ IF Fatal(q, p) # {} \/ lockedBy[q] # p
     THEN aborted' = aborted \cup (IF Fatal(q, p) # {} THEN Fatal(q, p) ELSE {q}) /\ UNCHANGED <<succ, pred, op>>
     ELSE handleNotify(q, p) /\ next /\ UNCHANGED aborted
  /\ UNCHANGED <<lockedBy, state, data, callVars>>

JoinNotifyP(p) ==
  /\ op[p].pc = "notifyP"
  /\ Notify(p, op[p].p,
            IF op[p].p = op[p].s THEN GivesBack(p, <<op[p].p>>, "init")
            ELSE op' = [op EXCEPT ![p].pc = "notifyS"])

JoinNotifyS(p) ==
  /\ op[p].pc = "notifyS"
  /\ Notify(p, op[p].s, GivesBack(p, <<op[p].s, op[p].p>>, "init"))

\* The index of the new peer is initialized_.
JoinDone(p) ==
  /\ op[p].pc = "init"
  /\ state' = [state EXCEPT ![p] = "in"] /\ op' = [op EXCEPT ![p] = Idle]
  /\ UNCHANGED <<ringVars, data, callVars, aborted>>

\* The peer that leaves pushes all the entries it has, unless it is the last.
LeavePush(p) ==
  LET q == op[p].s IN
  /\ op[p].pc = "push" /\ Answers(q) /\ HandoversApart
  /\ IF q = p THEN op' = [op EXCEPT ![p].pc = "term"] /\ UNCHANGED <<data, aborted>>
     ELSE IF state[q] = "inactive" THEN Abort(q) /\ UNCHANGED <<data, op>>
     ELSE /\ data' = IF Declines(q) THEN data
                     ELSE [data EXCEPT ![q] = handlePushResponsibilities(q, data[p])]
          /\ op' = [op EXCEPT ![p].pc = "replaceS"] /\ UNCHANGED aborted
  /\ UNCHANGED <<ringVars, state, callVars>>

Replace(p, q, new, next) ==
  /\ Answers(q)
  /\ IF Fatal(q, p) # {} \/ ReplaceRejected(q, p)
     THEN aborted' = aborted \cup (IF state[q] = "inactive" THEN {q} ELSE {p}) /\ UNCHANGED <<succ, pred, op>>
     ELSE handleReplace(q, p, new) /\ next /\ UNCHANGED aborted
  /\ UNCHANGED <<lockedBy, state, data, callVars>>

LeaveReplaceS(p) ==
  /\ op[p].pc = "replaceS"
  /\ Replace(p, op[p].s, op[p].p,
             IF op[p].p = op[p].s THEN GivesBack(p, <<op[p].s>>, "term")
             ELSE op' = [op EXCEPT ![p].pc = "replaceP"])

LeaveReplaceP(p) ==
  /\ op[p].pc = "replaceP"
  /\ Replace(p, op[p].p, op[p].s, GivesBack(p, <<op[p].p, op[p].s>>, "term"))

\* terminate_ is set and the peer gives back its own lock.
LeaveTerminate(p) ==
  /\ op[p].pc = "term"
  /\ IF lockedBy[p] = p
     THEN /\ state' = [state EXCEPT ![p] = "left"]
          /\ lockedBy' = [lockedBy EXCEPT ![p] = NoPeer]
          /\ op' = [op EXCEPT ![p] = [Idle EXCEPT !.kind = "leave", !.pc = "reset"]]
          /\ UNCHANGED aborted
     ELSE Abort(p) /\ UNCHANGED <<state, lockedBy, op>>
  /\ UNCHANGED <<succ, pred, data, callVars>>

\* leave() returns with initialized_ reset ...
LeaveReset(p) ==
  /\ op[p].pc = "reset" /\ ResetsApart(p)
  /\ state' = [state EXCEPT ![p] = "inactive"]
  /\ op' = [op EXCEPT ![p].pc = "drop"]
  /\ UNCHANGED <<ringVars, data, callVars, aborted>>

\* ... and leaveIndices() drops the index.
LeaveDone(p) ==
  /\ op[p].pc = "drop" /\ ResetsApart(p)
  /\ state' = [state EXCEPT ![p] = "gone"] /\ op' = [op EXCEPT ![p] = Idle]
  /\ data' = [data EXCEPT ![p] = [c \in Chunks |-> Absent]]
  /\ UNCHANGED <<ringVars, callVars, aborted>>

--------------------------------------------------------------------------------
(* Using the index: a lookup (findSuccessor), then a request to the peer   *)
(* found.  To announce or renounce a chunk takes two of each.              *)

Key(p) == HashOf[call[p].chunk]

StartCall(p, kind, c) ==
  /\ state[p] = "in" /\ op[p] = Idle /\ call[p] = NoCall /\ p \notin aborted
  /\ <<kind, c>> \in todo[p]
  /\ kind = "seek" => \E q \in Peers : <<q, c>> \in holds /\ <<"renounce", c>> \notin Calls[q]
  /\ kind = "renounce" => <<p, c>> \in holds
  /\ kind # "seek" => WritesApart
  /\ call' = [call EXCEPT ![p] =
       [NoCall EXCEPT !.pc = "own", !.kind = kind, !.chunk = c,
                      !.sure = {q \in Peers : <<q, c>> \in holds}]]
  /\ todo' = [todo EXCEPT ![p] = @ \ {<<kind, c>>}]
  /\ holds' = IF kind = "renounce" THEN holds \ {<<p, c>>} ELSE holds
  /\ UNCHANGED <<ringVars, state, data, op, found, aborted>>

\* findSuccessor looks at its own successor first: it has the key, or it is
\* the first peer to ask.
FindOwn(p) ==
  /\ call[p].pc = "own"
  /\ call' = [call EXCEPT ![p].pc = IF isIn(Key(p), p, succ[p]) THEN "access" ELSE "ask",
                          ![p].at = succ[p]]
  /\ UNCHANGED <<ringVars, state, data, op, todo, holds, found, aborted>>

\* findPredecessor: is the key between the peer asked and its successor?
\* A peer that declines makes it start again.
FindSuccessorOf(p) ==
  LET q == call[p].at IN
  /\ call[p].pc = "ask" /\ Answers(q)
  /\ call' = [call EXCEPT ![p].pc = IF Declines(q) THEN "own"
                                    ELSE IF isIn(Key(p), q, succ[q]) THEN "last" ELSE "step"]
  /\ UNCHANGED <<ringVars, state, data, op, todo, holds, found, aborted>>

\* It is not: findPredecessor asks for one that is nearer.
FindCloser(p) ==
  LET q == call[p].at IN
  /\ call[p].pc = "step" /\ Answers(q)
  /\ call' = [call EXCEPT ![p].pc = IF Declines(q) THEN "own" ELSE "ask",
                          ![p].at = IF Declines(q) THEN @ ELSE closestPrecedingFinger(q, Key(p))]
  /\ UNCHANGED <<ringVars, state, data, op, todo, holds, found, aborted>>

\* It is: findSuccessor asks it for its successor, once more.
FindLast(p) ==
  LET q == call[p].at IN
  /\ call[p].pc = "last" /\ Answers(q)
  /\ call' = [call EXCEPT ![p].pc = IF q = p \/ Declines(q) THEN "own" ELSE "access",
                          ![p].at = IF q = p \/ Declines(q) THEN @ ELSE succ[q]]
  /\ UNCHANGED <<ringVars, state, data, op, todo, holds, found, aborted>>

Returns(p) == call' = [call EXCEPT ![p] = NoCall]

\* mutant: the peer takes the place of the other holders.
announcePosession_Alone(p, entry) == {p}

\* What is stored for a chunk that p has now, too ...
announcePosession(p, entry) == (IF entry = Absent THEN {} ELSE entry) \cup {p}

\* ... and what is stored when p has it no longer.
renouncePosession(p, entry) == entry \ {p}

\* retrieveData: what the peer found has for the chunk.  Peers that seek or
\* renounce try again until there is something (1000 and 10000 times); one
\* that announces takes nothing for an answer.
Retrieve(p) ==
  LET q == call[p].at
      entry == IF Declines(q) THEN Absent ELSE data[q][call[p].chunk]
  IN
  /\ call[p].pc = "access" /\ ~call[p].adds /\ Answers(q)
  /\ IF state[q] = "inactive"
     THEN Abort(q) /\ UNCHANGED <<call, found>>
     ELSE IF call[p].kind = "announce"
     THEN /\ call' = [call EXCEPT ![p].pc = "own", ![p].adds = TRUE,
                                  ![p].entry = announcePosession(p, entry)]
          /\ UNCHANGED <<found, aborted>>
     ELSE IF entry = Absent
     THEN call' = [call EXCEPT ![p].pc = "own"] /\ UNCHANGED <<found, aborted>>
     ELSE IF call[p].kind = "renounce"
     THEN /\ call' = [call EXCEPT ![p].pc = "own", ![p].adds = TRUE,
                                  ![p].entry = renouncePosession(p, entry)]
          /\ UNCHANGED <<found, aborted>>
     ELSE IF entry = {}  \* seekPeers: CHECK_GT
     THEN Abort(p) /\ UNCHANGED <<call, found>>
     ELSE /\ found' = found \cup {[missed |-> {h \in call[p].sure : <<h, call[p].chunk>> \in holds} \ entry]}
          /\ Returns(p) /\ UNCHANGED aborted
  /\ UNCHANGED <<ringVars, state, data, op, todo, holds>>

\* addData: overwrites what the peer found has.
Add(p) ==
  LET q == call[p].at
      c == call[p].chunk
  IN
  /\ call[p].pc = "access" /\ call[p].adds /\ Answers(q)
  /\ IF Fatal(q, p) # {} THEN aborted' = aborted \cup Fatal(q, p) /\ UNCHANGED <<data, call, holds>>
     ELSE /\ data' = [data EXCEPT ![q][c] = call[p].entry]
          /\ holds' = IF call[p].kind = "announce" THEN holds \cup {<<p, c>>} ELSE holds
          /\ Returns(p) /\ UNCHANGED aborted
  /\ UNCHANGED <<ringVars, state, op, todo, found>>

--------------------------------------------------------------------------------
(* create(): the founder is alone. *)

Init ==
  /\ succ = [p \in Peers |-> p] /\ pred = [p \in Peers |-> p]
  /\ state = [p \in Peers |-> IF p = Founder THEN "in" ELSE "out"]
  /\ lockedBy = [p \in Peers |-> NoPeer]
  /\ data = [p \in Peers |-> [c \in Chunks |-> Absent]]
  /\ op = [p \in Peers |-> Idle] /\ call = [p \in Peers |-> NoCall]
  /\ todo = Calls /\ holds = {} /\ found = {} /\ aborted = {}

JoinStep(p) ==
  \/ JoinPredecessor(p) \/ JoinSuccessor(p) \/ JoinVerifyS(p) \/ JoinVerifyP(p)
  \/ JoinFetch(p) \/ JoinNotifyP(p) \/ JoinNotifyS(p) \/ JoinDone(p)

LeaveStep(p) ==
  \/ LeaveNeighbours(p) \/ LeaveVerifyP(p) \/ LeaveVerifyS(p) \/ LeavePush(p)
  \/ LeaveReplaceS(p) \/ LeaveReplaceP(p) \/ LeaveTerminate(p) \/ LeaveReset(p) \/ LeaveDone(p)

\* The thread that joins or leaves.
TopologyStep(p) == p \notin aborted /\ (TryLock(p) \/ Unlock(p) \/ JoinStep(p) \/ LeaveStep(p))

\* A thread that uses the index.
CallStep(p) ==
  /\ p \notin aborted
  /\ FindOwn(p) \/ FindSuccessorOf(p) \/ FindCloser(p) \/ FindLast(p) \/ Retrieve(p) \/ Add(p)

Start(p) ==
  \/ \E other \in Peers : StartJoin(p, other)
  \/ StartLeave(p)
  \/ \E kind \in {"seek", "announce", "renounce"}, c \in Chunks : StartCall(p, kind, c)

Next == \E p \in Peers : Start(p) \/ TopologyStep(p) \/ CallStep(p)

\* Threads that have started go on: the loops sleep between two attempts, so
\* a request is served, and a lock that is given back is taken at last.
Fairness == \A p \in Peers : WF_vars(TopologyStep(p)) /\ WF_vars(CallStep(p))

Spec == Init /\ [][Next]_vars /\ Fairness

--------------------------------------------------------------------------------
(* Properties. *)

RingTypes ==
  /\ succ \in [Peers -> Peers] /\ pred \in [Peers -> Peers]
  /\ state \in [Peers -> States] /\ lockedBy \in [Peers -> Peers \cup {NoPeer}]
  /\ data \in [Peers -> [Chunks -> Entries]]
  /\ holds \subseteq Peers \X Chunks /\ aborted \subseteq Peers

\* The peers that are part of the ring: they have told both neighbours that
\* they join, and neither that they leave.
Members == {p \in Peers :
  \/ state[p] = "in" /\ op[p].pc \notin {"replaceP", "term"} /\ op[p].then # "term"
  \/ state[p] = "joining" /\ (op[p].pc = "init" \/ op[p].then = "init")}

Between(a, b) == {p \in Members \ {a, b} : isIn(p, a, b)}

\* However joins and leaves interleave, the ring is one cycle in the order of
\* the hashes: while none of its peers is being joined or left at, the
\* successor of every peer is the next one, and that one's predecessor is the
\* peer.  (Two joins between the same two peers, or two neighbours that leave,
\* would break it: chord-index.cc locks both neighbours and asks them again.)
RingIsOneCycle ==
  HandingOver = {} =>
    \A p \in Members : /\ succ[p] \in Members /\ pred[p] \in Members
                       /\ Between(p, succ[p]) = {} /\ pred[succ[p]] = p

\* None of the CHECKs and LOG(FATAL)s of the index is reached: who notifies or
\* replaces holds the lock of the peer asked (handleNotifyClean,
\* handleReplace), who unlocks has locked (unlock), nobody is asked who is
\* gone (CHECK(...Rpc)).
RingChecks == RingTypes /\ aborted = {}

\* net-table-index.h: "if at least one peer holds a chunk, at least one peer
\* will be registered in the index", at the peer the lookups lead to.
Owner(c) == {p \in Members : isIn(HashOf[c], pred[p], p)}
HeldIsRegistered ==
  HandingOver = {} /\ Writing = {} =>
    \A c \in Chunks : (\E p \in Peers : <<p, c>> \in holds) =>
      \E p \in Owner(c) : data[p][c] \notin {Absent, {}}

\* A seek is told of every peer that has held the chunk all the time, even if
\* the ring changes between its lookup and its request, and the entry moves.
SeeksFindHolders == \A f \in found : f.missed = {}

\* Every join, leave and use of the index that is started comes to an end, and
\* as there are finitely many, the ring comes to rest: no set of peers waits
\* for each other's locks, or has each other start anew over and over
\* (tryLockInOrder, findPredecessor, seekPeers).
RingComesToRest == <>[](\A p \in Peers : op[p] = Idle /\ call[p] = NoCall)
================================================================================
