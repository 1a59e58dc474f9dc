---------------------------- MODULE ChordIndexProofs ---------------------------
(***************************************************************************)
(* The index of a table stays one ring, for any peers, whoever of them     *)
(* joins or leaves, and however they interleave.                           *)
(*                                                                         *)
(* A peer that joins tells its predecessor first, one that leaves its      *)
(* successor.  What a peer of the ring takes for its predecessor is        *)
(* therefore right all the time, and what it takes for its successor is    *)
(* right but for the time between the two, when it is a peer that is not   *)
(* in the ring: not yet, or no longer.                                     *)
(*                                                                         *)
(* The last part is about the entries: a peer that holds a chunk stays     *)
(* registered with the peer in charge, whoever joins and leaves.           *)
(***************************************************************************)
EXTENDS ChordIndex, FiniteSetTheorems, TLAPS

\* The threads that join or leave.
Kinds == {"none", "join", "leave"}
JoinSteps == {"find", "ask", "lock", "verify", "fetch", "notifyP", "notifyS", "undo", "init"}
LeaveSteps == {"read", "lock", "verify", "push", "replaceS", "replaceP", "undo", "term", "reset", "drop"}
Steps == {"idle"} \cup JoinSteps \cup LeaveSteps
Afterwards == {"idle", "find", "read", "init", "term"}
PeersOrNone == Peers \cup {NoPeer}
Answered == BOOLEAN
Ops == [kind : Kinds, pc : Steps, p : PeersOrNone, s : PeersOrNone, ok : Answered,
        undo : Seq(Peers), then : Afterwards]

TopologyTypes ==
  /\ succ \in [Peers -> Peers] /\ pred \in [Peers -> Peers]
  /\ state \in [Peers -> States] /\ lockedBy \in [Peers -> PeersOrNone]
  /\ op \in [Peers -> Ops]

\* A peer that joins or leaves, and one that does neither.
JoinState(x) ==
  /\ state[x] = "joining" /\ op[x].pc \in JoinSteps /\ op[x].then \in {"idle", "find", "init"}
  /\ op[x].then = "init" => op[x].pc \in {"undo", "init"}
  /\ op[x].pc = "init" => op[x].then = "init"
  /\ op[x].pc = "undo" => op[x].then # "idle"
  /\ op[x].p \in Peers /\ (op[x].pc \notin {"find", "ask"} => op[x].s \in Peers)

LeaveState(x) ==
  /\ x \in Leavers /\ op[x].pc \in LeaveSteps /\ op[x].then \in {"idle", "read", "term"}
  /\ state[x] = IF op[x].pc = "reset" THEN "left" ELSE IF op[x].pc = "drop" THEN "inactive" ELSE "in"
  /\ op[x].then = "term" => op[x].pc \in {"undo", "term"}
  /\ op[x].pc = "undo" => op[x].then # "idle"
  /\ op[x].pc \notin {"read", "reset", "drop"} => op[x].p \in Peers /\ op[x].s \in Peers

OpFits(x) ==
  /\ op[x].kind = "none" => op[x] = Idle /\ state[x] \in {"out", "in", "gone"}
  /\ op[x].kind = "join" => JoinState(x)
  /\ op[x].kind = "leave" => LeaveState(x)

\* Who is about to change the neighbours of a peer holds its lock.  A peer that
\* leaves keeps its own to the end.
LockFits(x) ==
  /\ lockedBy[x] # NoPeer => state[x] \notin {"out", "joining"}
  /\ op[x].pc \in {"verify", "fetch", "push", "notifyP", "notifyS", "replaceS", "replaceP"} =>
       \A q \in Subjects(x) : lockedBy[q] = x
  /\ op[x].pc = "term" \/ op[x].then = "term" => lockedBy[x] = x
  /\ op[x].pc = "undo" /\ op[x].then = "term" => \A i \in DOMAIN op[x].undo : op[x].undo[i] # x

\* Half way: op[x].p has x for its successor, and op[x].s is the next one.
HalfWay(x) == op[x].pc \in {"notifyS", "replaceP"}
NextOf(a) == IF HalfWay(succ[a]) THEN op[succ[a]].s ELSE succ[a]

\* The ring proper.
Linked(a) ==
  /\ pred[a] \in Members /\ NextOf(a) \in Members
  /\ pred[NextOf(a)] = a /\ NextOf(pred[a]) = a
  /\ \A b \in Members \ {a, NextOf(a)} : ~isIn(b, a, NextOf(a))
  /\ HalfWay(succ[a]) => op[succ[a]].p = a

\* What a peer that joins has found out about its place ...
JoinPlace(x) ==
  LET P == op[x].p  S == op[x].s  pc == op[x].pc IN
  /\ pc \in {"lock", "verify", "fetch", "notifyP", "notifyS"} => isIn(x, P, S)
  /\ pc = "verify" /\ op[x].ok => pred[S] = P
  /\ pc \in {"fetch", "notifyP", "notifyS"} => P \in Members /\ S \in Members /\ pred[S] = P
  /\ pc \in {"fetch", "notifyP"} => succ[P] = S
  /\ pc \in {"notifyP", "notifyS"} => succ[x] = S /\ pred[x] = P
  /\ pc = "notifyS" => P # S /\ succ[P] = x

\* ... and one that leaves.  It is its own neighbour only if it is the last.
LeavePlace(x) ==
  LET P == op[x].p  S == op[x].s  pc == op[x].pc IN
  /\ pc = "verify" => P # x
  /\ (pc = "verify" /\ op[x].ok) \/ pc \in {"push", "replaceS"} => succ[P] = x /\ pred[x] = P /\ succ[x] = S
  /\ pc \in {"push", "replaceS"} => pred[S] = x
  /\ pc = "replaceS" => P # x
  /\ pc = "replaceP" => P \in Members /\ S \in Members /\ P # S /\ succ[P] = x /\ pred[S] = P
  /\ pc \in {"lock", "push"} /\ P = x => "joins" \in Apart /\ S = x /\ succ[x] = x /\ pred[x] = x

PlaceFits(x) ==
  /\ op[x].kind = "join" => JoinPlace(x)
  /\ op[x].kind = "leave" => LeavePlace(x)

\* Peers that have left the ring are in nobody's way: no peer can find its place
\* between two of them, nor at a last one.
Departed == {q \in Peers \ Members : state[q] \notin {"out", "joining"}}
DepartedFit ==
  /\ \A a, b \in Departed : a # b => ~(succ[a] = b /\ pred[b] = a)
  /\ \A a \in Departed : succ[a] = a =>
       /\ "joins" \in Apart
       /\ \A r \in Peers : state[r] # "joining" /\ (state[r] = "in" => op[r].kind = "leave")

ApartFits ==
  /\ "joins" \in Apart => Leaving = {} \/ Joining = {}
  /\ Founder \notin Leavers => state[Founder] = "in" /\ op[Founder] = Idle

OpsFit == \A x \in Peers : OpFits(x)
LocksFit == \A x \in Peers : LockFits(x)
PlacesFit == \A x \in Peers : PlaceFits(x)
RingLinked == \A a \in Members : Linked(a)

RingInv ==
  TopologyTypes /\ OpsFit /\ LocksFit /\ PlacesFit /\ RingLinked /\ DepartedFit /\ ApartFits

--------------------------------------------------------------------------------
(* Sets of up to three peers. *)

\* A non-empty set of up to three hashes has a smallest one.
LEMMA SmallestOfThree ==
  ASSUME NEW a \in Int, NEW b \in Int, NEW c \in Int, NEW T \in SUBSET {a, b, c}, T # {}
  PROVE  Min(T) \in T
<1>1. \E x \in T : \A y \in T : x =< y
  <2>1. PICK x \in T : TRUE
    OBVIOUS
  <2> QED
    BY SMT
<1> QED
  BY <1>1 DEF Min

\* How many two are.
LEMMA SizeOfPair ==
  ASSUME NEW a, NEW b
  PROVE  IsFiniteSet({a, b}) /\ (a # b => Cardinality({a, b}) = 2)
<1>1. IsFiniteSet({a}) /\ Cardinality({a}) = 1
  BY FS_Singleton
<1>2. IsFiniteSet({a} \cup {b}) /\ Cardinality({a} \cup {b}) = IF b \in {a} THEN 1 ELSE 1 + 1
  BY <1>1, FS_AddElement
<1>3. {a} \cup {b} = {a, b}
  OBVIOUS
<1> QED
  BY <1>2, <1>3

\* Up to three hashes have an order.
Orderable(T) == \E s \in [1 .. Cardinality(T) -> T] : \A i, j \in DOMAIN s : i < j => s[i] < s[j]

\* A set of up to three hashes can be put in order.
LEMMA OrderableThree ==
  ASSUME NEW a \in Int, NEW b \in Int, NEW c \in Int, NEW T \in SUBSET {a, b, c}
  PROVE  Orderable(T)
<1>1. ASSUME NEW U, U = {} PROVE Orderable(U)
  <2> DEFINE f == [i \in 1 .. 0 |-> i]
  <2>1. Cardinality(U) = 0
    BY <1>1, FS_EmptySet
  <2>2. f \in [1 .. Cardinality(U) -> U]
    BY <2>1
  <2>3. \A i, j \in DOMAIN f : i < j => f[i] < f[j]
    OBVIOUS
  <2> HIDE DEF f
  <2> QED
    BY <2>2, <2>3 DEF Orderable
<1>2. ASSUME NEW x \in Int PROVE Orderable({x})
  <2> DEFINE f == [i \in 1 .. 1 |-> x]
  <2>1. Cardinality({x}) = 1
    BY FS_Singleton
  <2>2. f \in [1 .. Cardinality({x}) -> {x}]
    BY <2>1
  <2>3. \A i, j \in DOMAIN f : i < j => f[i] < f[j]
    OBVIOUS
  <2> HIDE DEF f
  <2> QED
    BY <2>2, <2>3 DEF Orderable
<1>3. ASSUME NEW x \in Int, NEW y \in Int, x < y PROVE Orderable({x, y})
  <2> DEFINE f == [i \in 1 .. 2 |-> IF i = 1 THEN x ELSE y]
  <2>1. Cardinality({x, y}) = 2
    BY <1>3, SizeOfPair
  <2>2. f \in [1 .. Cardinality({x, y}) -> {x, y}]
    BY <2>1
  <2>3. \A i, j \in DOMAIN f : i < j => f[i] < f[j]
    BY <1>3
  <2> HIDE DEF f
  <2> QED
    BY <2>2, <2>3 DEF Orderable
<1>4. ASSUME NEW x \in Int, NEW y \in Int, NEW z \in Int, x < y, y < z PROVE Orderable({x, y, z})
  <2> DEFINE f == [i \in 1 .. 3 |-> IF i = 1 THEN x ELSE IF i = 2 THEN y ELSE z]
  <2>1. IsFiniteSet({x, y}) /\ Cardinality({x, y}) = 2
    BY <1>4, SizeOfPair
  <2>2. Cardinality({x, y} \cup {z}) = 3
    BY <2>1, <1>4, FS_AddElement
  <2>3. {x, y, z} = {x, y} \cup {z}
    OBVIOUS
  <2>4. f \in [1 .. Cardinality({x, y, z}) -> {x, y, z}]
    BY <2>2, <2>3
  <2>5. \A i, j \in DOMAIN f : i < j => f[i] < f[j]
    BY <1>4
  <2> HIDE DEF f
  <2> QED
    BY <2>4, <2>5 DEF Orderable
<1>5. ASSUME NEW x \in Int, NEW y \in Int PROVE Orderable({x, y})
  <2>1. CASE x < y
    BY <2>1, <1>3
  <2>2. CASE y < x
    <3>1. {x, y} = {y, x}
      OBVIOUS
    <3> QED
      BY <3>1, <2>2, <1>3
  <2>3. CASE x = y
    <3>1. {x, y} = {x}
      BY <2>3
    <3> QED
      BY <3>1, <1>2
  <2> QED
    BY <2>1, <2>2, <2>3
<1>6. ASSUME NEW x \in Int, NEW y \in Int, NEW z \in Int, x < y PROVE Orderable({x, y, z})
  <2>1. CASE y < z
    BY <2>1, <1>4, <1>6
  <2>2. CASE x < z /\ z < y
    <3>1. {x, y, z} = {x, z, y}
      OBVIOUS
    <3> QED
      BY <3>1, <2>2, <1>4
  <2>3. CASE z < x
    <3>1. {x, y, z} = {z, x, y}
      OBVIOUS
    <3> QED
      BY <3>1, <2>3, <1>4, <1>6
  <2>4. CASE z = x \/ z = y
    <3>1. {x, y, z} = {x, y}
      BY <2>4
    <3> QED
      BY <3>1, <1>5
  <2> QED
    BY <1>6, <2>1, <2>2, <2>3, <2>4
<1>7. Orderable({a, b, c})
  <2>1. CASE a < b
    BY <2>1, <1>6
  <2>2. CASE b < a
    <3>1. {a, b, c} = {b, a, c}
      OBVIOUS
    <3> QED
      BY <3>1, <2>2, <1>6
  <2>3. CASE a = b
    <3>1. {a, b, c} = {a, c}
      BY <2>3
    <3> QED
      BY <3>1, <1>5
  <2> QED
    BY <2>1, <2>2, <2>3
<1>8. T \in {{}, {a}, {b}, {c}, {a, b}, {a, c}, {b, c}, {a, b, c}}
  <2>1. CASE a \in T
    BY <2>1
  <2>2. CASE a \notin T
    BY <2>2
  <2> QED
    BY <2>1, <2>2
<1> QED
  BY <1>1, <1>2, <1>5, <1>7, <1>8

\* So the peers that a thread has locked are given back each once.
LEMMA InOrderOfThree ==
  ASSUME NEW a \in Int, NEW b \in Int, NEW c \in Int, NEW T \in SUBSET {a, b, c}
  PROVE  /\ InOrder(T) \in Seq(T)
         /\ \A i, j \in DOMAIN InOrder(T) : i < j => InOrder(T)[i] < InOrder(T)[j]
<1>1. Cardinality(T) \in Nat
  <2>1. IsFiniteSet({a, b})
    BY SizeOfPair
  <2>2. IsFiniteSet({a, b} \cup {c})
    BY <2>1, FS_AddElement
  <2>3. T \in SUBSET ({a, b} \cup {c})
    OBVIOUS
  <2> QED
    BY <2>2, <2>3, FS_Subset, FS_CardinalityType
<1>2. InOrder(T) \in [1 .. Cardinality(T) -> T]
  BY OrderableThree DEF InOrder, Orderable
<1>3. \A i, j \in DOMAIN InOrder(T) : i < j => InOrder(T)[i] < InOrder(T)[j]
  BY OrderableThree DEF InOrder, Orderable
<1>4. [1 .. Cardinality(T) -> T] \subseteq Seq(T)
  BY <1>1
<1> QED
  BY <1>2, <1>3, <1>4

--------------------------------------------------------------------------------
(* Each thread stays where it can be. *)

\* A thread at "lock" knows the peers it is to lock.
LEMMA LocksPeers ==
  ASSUME RingInv, NEW p \in Peers, op[p].pc = "lock"
  PROVE  /\ op[p].kind \in {"join", "leave"} /\ op[p].p \in Peers /\ op[p].s \in Peers
         /\ Subjects(p) \subseteq Peers /\ Held(p) \subseteq Subjects(p)
         /\ InOrder(Held(p)) \in Seq(Peers)
         /\ Held(p) # Subjects(p) => NextToLock(p) \in Subjects(p) \ Held(p)
<1> OpFits(p) /\ op[p].kind \in {"none", "join", "leave"}
  BY DEF RingInv, OpsFit, TopologyTypes, Ops, Kinds
<1>1. op[p].kind \in {"join", "leave"} /\ op[p].p \in Peers /\ op[p].s \in Peers
  BY DEF OpFits, JoinState, LeaveState, Idle
<1>2. /\ Subjects(p) \in SUBSET {op[p].p, p, op[p].s} /\ Subjects(p) \subseteq Peers
      /\ Held(p) \in SUBSET {op[p].p, p, op[p].s} /\ Held(p) \subseteq Subjects(p)
  BY <1>1 DEF Subjects, Held
<1>3. op[p].p \in Int /\ p \in Int /\ op[p].s \in Int
  BY <1>1, ChordIndexAssumption
<1>4. InOrder(Held(p)) \in Seq(Held(p))
  BY <1>2, <1>3, InOrderOfThree
<1>5. Seq(Held(p)) \subseteq Seq(Peers)
  BY <1>2
<1>6. ASSUME Held(p) # Subjects(p) PROVE NextToLock(p) \in Subjects(p) \ Held(p)
  <2>1. Subjects(p) \ Held(p) \in SUBSET {op[p].p, p, op[p].s} /\ Subjects(p) \ Held(p) # {}
    BY <1>2, <1>6
  <2> QED
    BY <2>1, <1>3, SmallestOfThree DEF NextToLock
<1> QED
  BY <1>1, <1>2, <1>4, <1>5, <1>6

\* The values that the steps assign.
LEMMA StepNames ==
  /\ {"find", "ask", "lock", "verify", "fetch", "notifyP", "notifyS", "undo", "init", "read", "push",
      "replaceS", "replaceP", "term", "reset", "drop"} \subseteq Steps
  /\ Afterwards \subseteq Steps
  BY DEF JoinSteps, LeaveSteps, Steps, Afterwards

\* A peer is a peer or none.
LEMMA SomePeer == Peers \subseteq PeersOrNone
  BY DEF PeersOrNone

\* What a thread does says what it is for, and a thread that waits for an answer,
\* or acts on one, knows whom it asked.
LEMMA JoinerKnows ==
  ASSUME RingInv, NEW p \in Peers, JoinStep(p)
  PROVE  /\ op[p].kind = "join" /\ state[p] = "joining" /\ op[p].p \in Peers
         /\ op[p].pc \notin {"find", "ask"} => op[p].s \in Peers
<1>1. \/ op[p].pc \in {"find", "ask", "fetch", "notifyP", "notifyS", "init"}
      \/ op[p].kind = "join"
  BY DEF JoinStep, JoinPredecessor, JoinSuccessor, JoinVerifyS, JoinVerifyP, JoinFetch, JoinNotifyP,
     JoinNotifyS, JoinDone
<1>2. OpFits(p) /\ op[p].kind \in {"none", "join", "leave"}
  BY DEF RingInv, OpsFit, TopologyTypes, Ops, Kinds
<1> QED
  BY <1>1, <1>2 DEF OpFits, JoinState, LeaveState, LeaveSteps, Idle

\* The same of a thread that leaves.
LEMMA LeaverKnows ==
  ASSUME RingInv, NEW p \in Peers, LeaveStep(p)
  PROVE  /\ op[p].kind = "leave" /\ LeaveState(p)
         /\ op[p].pc \notin {"read", "reset", "drop"} => op[p].p \in Peers /\ op[p].s \in Peers
<1>1. \/ op[p].pc \in {"read", "push", "replaceS", "replaceP", "term", "reset", "drop"}
      \/ op[p].kind = "leave"
  BY DEF LeaveStep, LeaveNeighbours, LeaveVerifyP, LeaveVerifyS, LeavePush, LeaveReplaceS,
     LeaveReplaceP, LeaveTerminate, LeaveReset, LeaveDone
<1>2. OpFits(p) /\ op[p].kind \in {"none", "join", "leave"}
  BY DEF RingInv, OpsFit, TopologyTypes, Ops, Kinds
<1> QED
  BY <1>1, <1>2 DEF OpFits, JoinState, LeaveState, JoinSteps, Idle

\* A thread that is idle is one.
LEMMA IdleTypes == Idle \in Ops
  BY DEF Idle, Ops, Kinds, Steps, Afterwards, PeersOrNone, Answered

\* A thread goes on, or begins to give back locks.
LEMMA GoesOn ==
  ASSUME op \in [Peers -> Ops], NEW p \in Peers, NEW pc \in Steps, op' = [op EXCEPT ![p].pc = pc]
  PROVE  op' \in [Peers -> Ops]
  BY DEF Ops

\* A thread that goes on with a neighbour it was told stays a thread.
LEMMA Finds ==
  ASSUME op \in [Peers -> Ops], NEW p \in Peers, NEW pc \in Steps, NEW q \in PeersOrNone,
         op' = [op EXCEPT ![p].pc = pc, ![p].p = q] \/ op' = [op EXCEPT ![p].pc = pc, ![p].s = q]
  PROVE  op' \in [Peers -> Ops]
<1>1. CASE op' = [op EXCEPT ![p].pc = pc, ![p].p = q]
  BY ZenonT(40), <1>1 DEF Ops
<1>2. CASE op' = [op EXCEPT ![p].pc = pc, ![p].s = q]
  BY ZenonT(40), <1>2 DEF Ops
<1> QED
  BY <1>1, <1>2

\* So does one that was told whether its neighbours still are.
LEMMA Verifies ==
  ASSUME op \in [Peers -> Ops], NEW p \in Peers, NEW pc \in Steps, NEW ok \in Answered,
         op' = [op EXCEPT ![p].pc = pc, ![p].ok = ok]
  PROVE  op' \in [Peers -> Ops]
  BY DEF Ops

\* So does one that begins to give back its locks.
LEMMA GivesBackTypes ==
  ASSUME op \in [Peers -> Ops], NEW p \in Peers, NEW l \in Seq(Peers), NEW n \in {"find", "read", "init", "term"},
         GivesBack(p, l, n)
  PROVE  op' \in [Peers -> Ops]
<1>1. n \in Afterwards /\ "undo" \in Steps
  BY StepNames DEF Afterwards
<1> QED
  BY <1>1 DEF Ops, GivesBack

\* Every step keeps the types of the ring.
LEMMA OpTypesStep ==
  ASSUME RingInv, [Next]_vars
  PROVE  (op \in [Peers -> Ops])'
<1>1. op \in [Peers -> Ops] /\ succ \in [Peers -> Peers] /\ pred \in [Peers -> Peers]
  BY DEF RingInv, TopologyTypes
<1>2. ASSUME NEW p \in Peers, Start(p) \/ CallStep(p) PROVE op' \in [Peers -> Ops]
  <2>1. ASSUME NEW other \in Peers, StartJoin(p, other) PROVE op' \in [Peers -> Ops]
    <3>1. op' = [op EXCEPT ![p].kind = "join", ![p].pc = "find", ![p].p = other]
      BY <2>1 DEF StartJoin
    <3>2. "join" \in Kinds /\ "find" \in Steps /\ other \in PeersOrNone
      BY StepNames, SomePeer DEF Kinds
    <3> QED
      BY ZenonT(40), <1>1, <3>1, <3>2 DEF Ops
  <2>2. ASSUME StartLeave(p) PROVE op' \in [Peers -> Ops]
    <3>1. op' = [op EXCEPT ![p].kind = "leave", ![p].pc = "read"]
      BY <2>2 DEF StartLeave
    <3>2. "leave" \in Kinds /\ "read" \in Steps
      BY StepNames DEF Kinds
    <3> QED
      BY ZenonT(40), <1>1, <3>1, <3>2 DEF Ops
  <2> QED
    BY <1>1, <1>2, <2>1, <2>2 DEF Start, StartCall, CallStep, FindOwn, FindSuccessorOf, FindCloser,
       FindLast, Retrieve, Add
<1>3. ASSUME NEW p \in Peers, TryLock(p) PROVE op' \in [Peers -> Ops]
  <2>1. InOrder(Held(p)) \in Seq(Peers) /\ FirstStep(p) \in {"find", "read", "init", "term"}
    BY <1>3, LocksPeers DEF TryLock, FirstStep
  <2>2. UNCHANGED op \/ GivesBack(p, InOrder(Held(p)), FirstStep(p))
    BY <1>3 DEF TryLock
  <2> QED
    BY <1>1, <2>1, <2>2, GivesBackTypes
<1>4. ASSUME NEW p \in Peers, Unlock(p) PROVE op' \in [Peers -> Ops]
  <2>1. op[p].undo \in Seq(Peers) /\ op[p].then \in Steps
    BY <1>1, StepNames DEF Ops
  <2>2. \/ UNCHANGED op \/ op' = [op EXCEPT ![p].pc = op[p].then]
        \/ op[p].undo # <<>> /\ op' = [op EXCEPT ![p].undo = Tail(op[p].undo)]
    BY <1>1, <1>4 DEF Unlock, Ops
  <2>3. op[p].undo # <<>> => Tail(op[p].undo) \in Seq(Peers)
    BY <2>1
  <2>4. ASSUME op[p].undo # <<>>, op' = [op EXCEPT ![p].undo = Tail(op[p].undo)]
        PROVE  op' \in [Peers -> Ops]
    <3> DEFINE rest == Tail(op[p].undo)
    <3>1. rest \in Seq(Peers) /\ op' = [op EXCEPT ![p].undo = rest]
      BY <2>3, <2>4
    <3> HIDE DEF rest
    <3> QED
      BY <1>1, <3>1 DEF Ops
  <2> QED
    BY <1>1, <2>1, <2>2, <2>4, GoesOn
<1>5. ASSUME NEW p \in Peers, JoinStep(p) PROVE op' \in [Peers -> Ops]
  <2>1. op[p].p \in Peers /\ (op[p].pc \notin {"find", "ask"} => op[p].s \in Peers)
    BY <1>5, JoinerKnows
  <2>2. ASSUME JoinPredecessor(p) PROVE op' \in [Peers -> Ops]
    <3>1. UNCHANGED op \/ op' = [op EXCEPT ![p].pc = "ask", ![p].p = closestPrecedingFinger(op[p].p, p)]
      BY <2>2 DEF JoinPredecessor
    <3>2. closestPrecedingFinger(op[p].p, p) \in PeersOrNone /\ "ask" \in Steps
      BY <1>1, <2>1, StepNames, SomePeer DEF closestPrecedingFinger
    <3> QED
      BY <1>1, <3>1, <3>2, Finds
  <2>3. ASSUME JoinSuccessor(p) PROVE op' \in [Peers -> Ops]
    <3>1. UNCHANGED op \/ \E pc \in {"lock", "find"} : op' = [op EXCEPT ![p].pc = pc, ![p].s = succ[op[p].p]]
      BY <2>3 DEF JoinSuccessor
    <3>2. succ[op[p].p] \in PeersOrNone /\ "lock" \in Steps /\ "find" \in Steps
      BY <1>1, <2>1, StepNames, SomePeer
    <3> QED
      BY <1>1, <3>1, <3>2, Finds
  <2>4. ASSUME JoinVerifyS(p) PROVE op' \in [Peers -> Ops]
    <3> DEFINE ok == pred[op[p].s] = op[p].p
    <3>1. UNCHANGED op \/ op' = [op EXCEPT ![p].pc = "verify", ![p].ok = ok]
      BY <2>4 DEF JoinVerifyS
    <3>2. ok \in Answered /\ "verify" \in Steps
      BY StepNames DEF Answered
    <3> HIDE DEF ok
    <3> QED
      BY <1>1, <3>1, <3>2, Verifies
  <2>5. ASSUME JoinVerifyP(p) PROVE op' \in [Peers -> Ops]
    <3>1. Unlocks(p, op[p].p, op[p].s) \in Seq(Peers)
      BY <2>1, <2>5 DEF JoinVerifyP, Unlocks
    <3>2. \/ UNCHANGED op \/ op' = [op EXCEPT ![p].pc = "fetch"]
          \/ GivesBack(p, Unlocks(p, op[p].p, op[p].s), "find")
      BY <2>5 DEF JoinVerifyP, JoinVerify
    <3> QED
      BY <1>1, <3>1, <3>2, GivesBackTypes, GoesOn, StepNames
  <2>6. ASSUME JoinFetch(p) PROVE op' \in [Peers -> Ops]
    <3>1. UNCHANGED op \/ op' = [op EXCEPT ![p].pc = "notifyP"]
      BY <2>6 DEF JoinFetch
    <3> QED
      BY <1>1, <3>1, GoesOn, StepNames
  <2>7. ASSUME JoinNotifyP(p) \/ JoinNotifyS(p) PROVE op' \in [Peers -> Ops]
    <3>1. <<op[p].p>> \in Seq(Peers) /\ <<op[p].s, op[p].p>> \in Seq(Peers)
      BY <2>1, <2>7 DEF JoinNotifyP, JoinNotifyS
    <3>2. \/ UNCHANGED op \/ op' = [op EXCEPT ![p].pc = "notifyS"]
          \/ GivesBack(p, <<op[p].p>>, "init") \/ GivesBack(p, <<op[p].s, op[p].p>>, "init")
      BY <2>7 DEF JoinNotifyP, JoinNotifyS, Notify
    <3> QED
      BY <1>1, <3>1, <3>2, GivesBackTypes, GoesOn, StepNames
  <2>8. ASSUME JoinDone(p) PROVE op' \in [Peers -> Ops]
    BY <1>1, <2>8, IdleTypes DEF JoinDone
  <2> QED
    BY <1>5, <2>2, <2>3, <2>4, <2>5, <2>6, <2>7, <2>8 DEF JoinStep
<1>6. ASSUME NEW p \in Peers, LeaveStep(p) PROVE op' \in [Peers -> Ops]
  <2>1. op[p].pc \notin {"read", "reset", "drop"} => op[p].p \in Peers /\ op[p].s \in Peers
    BY <1>6, LeaverKnows
  <2>2. ASSUME LeaveNeighbours(p) PROVE op' \in [Peers -> Ops]
    <3>1. op' = [op EXCEPT ![p].pc = "lock", ![p].p = pred[p], ![p].s = succ[p]]
      BY <2>2 DEF LeaveNeighbours
    <3>2. "lock" \in Steps /\ pred[p] \in PeersOrNone /\ succ[p] \in PeersOrNone
      BY <1>1, StepNames, SomePeer
    <3> QED
      BY ZenonT(40), <1>1, <3>1, <3>2 DEF Ops
  <2>3. ASSUME LeaveVerifyP(p) PROVE op' \in [Peers -> Ops]
    <3> DEFINE ok == succ[op[p].p] = p /\ pred[p] = op[p].p /\ succ[p] = op[p].s
    <3>1. UNCHANGED op \/ op' = [op EXCEPT ![p].pc = "push"] \/ op' = [op EXCEPT ![p].pc = "verify", ![p].ok = ok]
      BY <2>3 DEF LeaveVerifyP
    <3>2. ok \in Answered /\ "verify" \in Steps
      BY StepNames DEF Answered
    <3> HIDE DEF ok
    <3> QED
      BY <1>1, <3>1, <3>2, GoesOn, Verifies, StepNames
  <2>4. ASSUME LeaveVerifyS(p) PROVE op' \in [Peers -> Ops]
    <3> DEFINE locks == <<op[p].p, p>> \o (IF op[p].s = op[p].p THEN <<>> ELSE <<op[p].s>>)
    <3>1. locks \in Seq(Peers)
      BY <2>1, <2>4 DEF LeaveVerifyS
    <3>2. \/ UNCHANGED op \/ op' = [op EXCEPT ![p].pc = "push"]
          \/ GivesBack(p, locks, "read")
      BY <2>4 DEF LeaveVerifyS
    <3> HIDE DEF locks
    <3> QED
      BY <1>1, <3>1, <3>2, GivesBackTypes, GoesOn, StepNames
  <2>5. ASSUME LeavePush(p) \/ LeaveReset(p) PROVE op' \in [Peers -> Ops]
    <3>1. UNCHANGED op \/ \E pc \in {"term", "replaceS", "drop"} : op' = [op EXCEPT ![p].pc = pc]
      BY <2>5 DEF LeavePush, LeaveReset
    <3> QED
      BY <1>1, <3>1, GoesOn, StepNames
  <2>6. ASSUME LeaveReplaceS(p) \/ LeaveReplaceP(p) PROVE op' \in [Peers -> Ops]
    <3>1. <<op[p].s>> \in Seq(Peers) /\ <<op[p].p, op[p].s>> \in Seq(Peers)
      BY <2>1, <2>6 DEF LeaveReplaceS, LeaveReplaceP
    <3>2. \/ UNCHANGED op \/ op' = [op EXCEPT ![p].pc = "replaceP"]
          \/ GivesBack(p, <<op[p].s>>, "term") \/ GivesBack(p, <<op[p].p, op[p].s>>, "term")
      BY <2>6 DEF LeaveReplaceS, LeaveReplaceP, Replace
    <3> QED
      BY <1>1, <3>1, <3>2, GivesBackTypes, GoesOn, StepNames
  <2>7. ASSUME LeaveTerminate(p) PROVE op' \in [Peers -> Ops]
    <3>1. "leave" \in Kinds /\ "reset" \in Steps
      BY StepNames DEF Kinds
    <3>2. [Idle EXCEPT !.kind = "leave", !.pc = "reset"] \in Ops
      BY <3>1, IdleTypes DEF Ops
    <3> QED
      BY <1>1, <2>7, <3>2 DEF LeaveTerminate
  <2>8. ASSUME LeaveDone(p) PROVE op' \in [Peers -> Ops]
    BY <1>1, <2>8, IdleTypes DEF LeaveDone
  <2> QED
    BY <1>6, <2>2, <2>3, <2>4, <2>5, <2>6, <2>7, <2>8 DEF LeaveStep
<1>7. CASE UNCHANGED vars
  BY <1>1, <1>7 DEF vars
<1> QED
  BY <1>2, <1>3, <1>4, <1>5, <1>6, <1>7 DEF Next, TopologyStep

\* All variables keep their types in every step.
LEMMA TypesStep ==
  ASSUME RingInv, [Next]_vars
  PROVE  TopologyTypes'
<1> USE DEF RingInv, TopologyTypes, PeersOrNone
<1>1. ASSUME NEW p \in Peers, Start(p) \/ CallStep(p) PROVE TopologyTypes'
  <2>1. UNCHANGED ringVars /\ (UNCHANGED state \/ state' = [state EXCEPT ![p] = "joining"])
    BY <1>1 DEF Start, StartJoin, StartLeave, StartCall, CallStep, FindOwn, FindSuccessorOf, FindCloser,
       FindLast, Retrieve, Add
  <2> QED
    BY <2>1, OpTypesStep DEF ringVars, States
<1>2. ASSUME NEW p \in Peers, TryLock(p) \/ Unlock(p) PROVE TopologyTypes'
  <2>1. /\ UNCHANGED <<succ, pred, state>>
        /\ lockedBy' = lockedBy \/ \E q \in Peers, l \in {p, NoPeer} : lockedBy' = [lockedBy EXCEPT ![q] = l]
    <3>1. CASE TryLock(p)
      BY <3>1, LocksPeers DEF TryLock
    <3>2. CASE Unlock(p)
      <4>1. op[p].undo \in Seq(Peers)
        BY DEF Ops
      <4>2. op[p].undo # <<>> => Head(op[p].undo) \in Peers
        BY <4>1
      <4> QED
        BY <3>2, <4>2 DEF Unlock
    <3> QED
      BY <1>2, <3>1, <3>2
  <2> QED
    BY <2>1, OpTypesStep
<1>3. ASSUME NEW p \in Peers, JoinStep(p) PROVE TopologyTypes'
  <2>1. op[p].p \in Peers /\ (op[p].pc \notin {"find", "ask"} => op[p].s \in Peers)
    BY <1>3, JoinerKnows
  <2>2. ASSUME \/ JoinPredecessor(p) \/ JoinSuccessor(p) \/ JoinVerifyS(p) \/ JoinVerifyP(p) \/ JoinDone(p)
        PROVE  TopologyTypes'
    BY <1>3, <2>2, OpTypesStep DEF JoinPredecessor, JoinSuccessor, JoinVerifyS, JoinVerifyP, JoinDone, ringVars, States
  <2>3. ASSUME JoinFetch(p) PROVE TopologyTypes'
    BY <2>1, <2>3, OpTypesStep DEF JoinFetch
  <2>4. ASSUME JoinNotifyP(p) \/ JoinNotifyS(p) PROVE TopologyTypes'
    BY <2>1, <2>4, OpTypesStep DEF JoinNotifyP, JoinNotifyS, Notify, handleNotify
  <2> QED
    BY <1>3, <2>2, <2>3, <2>4 DEF JoinStep
<1>4. ASSUME NEW p \in Peers, LeaveStep(p) PROVE TopologyTypes'
  <2>1. ASSUME LeaveReplaceS(p) \/ LeaveReplaceP(p) PROVE TopologyTypes'
    <3>1. op[p].p \in Peers /\ op[p].s \in Peers
      BY <1>4, <2>1, LeaverKnows DEF LeaveReplaceS, LeaveReplaceP
    <3> QED
      BY <2>1, <3>1, OpTypesStep DEF LeaveReplaceS, LeaveReplaceP, Replace, handleReplace
  <2> QED
    BY <1>4, <2>1, OpTypesStep DEF LeaveStep, LeaveNeighbours, LeaveVerifyP, LeaveVerifyS, LeavePush,
       LeaveTerminate, LeaveReset, LeaveDone, ringVars, States
<1>5. CASE UNCHANGED vars
  BY <1>5 DEF vars
<1> QED
  BY <1>1, <1>2, <1>3, <1>4, <1>5 DEF Next, TopologyStep

--------------------------------------------------------------------------------
(* What a thread is for fits what it does. *)

\* Uses of the index, and steps that a CHECK ends, leave the ring alone.
Rests == UNCHANGED <<succ, pred, state, lockedBy, op>>

\* All other steps are those of one thread that joins or leaves.
Moves(p) == \A x \in Peers \ {p} : op'[x] = op[x] /\ state'[x] = state[x]

\* Announcing, renouncing and seeking leave the ring alone.
LEMMA CallsRest ==
  ASSUME NEW p \in Peers, CallStep(p) \/ \E kind, c : StartCall(p, kind, c)
  PROVE  Rests
  BY DEF CallStep, StartCall, FindOwn, FindSuccessorOf, FindCloser, FindLast, Retrieve, Add, Rests, ringVars

\* A step of a join or a leave is that of one thread.
LEMMA OneMoves ==
  ASSUME RingInv, NEW p \in Peers,
         StartLeave(p) \/ (\E other \in Peers : StartJoin(p, other)) \/ TopologyStep(p)
  PROVE  Moves(p)
<1> op \in [Peers -> Ops] /\ state \in [Peers -> States]
  BY DEF RingInv, TopologyTypes
<1>1. CASE StartLeave(p) \/ \E other \in Peers : StartJoin(p, other)
  BY <1>1 DEF StartLeave, StartJoin, Moves
<1>2. CASE TryLock(p) \/ Unlock(p)
  BY <1>2 DEF TryLock, Unlock, GivesBack, Moves
<1>3. CASE JoinStep(p)
  BY <1>3 DEF JoinStep, JoinPredecessor, JoinSuccessor, JoinVerifyS, JoinVerifyP, JoinVerify, JoinFetch, JoinNotifyP,
     JoinNotifyS, Notify, JoinDone, GivesBack, Moves
<1>4. CASE LeaveStep(p)
  BY <1>4 DEF LeaveStep, LeaveNeighbours, LeaveVerifyP, LeaveVerifyS, LeavePush, LeaveReplaceS, LeaveReplaceP,
     Replace, LeaveTerminate, LeaveReset, LeaveDone, GivesBack, Moves
<1> QED
  BY <1>1, <1>2, <1>3, <1>4 DEF TopologyStep

--------------------------------------------------------------------------------
(* What the steps do to the thread that makes them.  A step that a CHECK   *)
(* ends rests.                                                             *)

\* The thread goes on at pc, with P and S for its neighbours; it gives back locks.
Goes(p, pc, P, S) ==
  /\ op'[p].kind = op[p].kind /\ op'[p].then = op[p].then
  /\ op'[p].pc = pc /\ op'[p].p = P /\ op'[p].s = S
GoesBack(p, locks, next) ==
  /\ op'[p].kind = op[p].kind /\ op'[p].p = op[p].p /\ op'[p].s = op[p].s
  /\ op'[p].pc = "undo" /\ op'[p].undo = locks /\ op'[p].then = next
SameRing == UNCHANGED <<succ, pred, lockedBy, state>>

\* What the first step of a join or a leave does.
LEMMA Begins ==
  ASSUME RingInv, NEW p \in Peers
  PROVE  /\ \A other \in Peers : StartJoin(p, other) =>
              /\ op'[p].kind = "join" /\ op'[p].pc = "find" /\ op'[p].p = other /\ op'[p].then = "idle"
              /\ state' = [state EXCEPT ![p] = "joining"] /\ UNCHANGED ringVars
         /\ StartLeave(p) => op'[p].kind = "leave" /\ op'[p].pc = "read" /\ op'[p].then = "idle" /\ SameRing
<1> op \in [Peers -> Ops]
  BY DEF RingInv, TopologyTypes
<1>1. ASSUME NEW other \in Peers, StartJoin(p, other)
      PROVE  /\ op'[p].kind = "join" /\ op'[p].pc = "find" /\ op'[p].p = other /\ op'[p].then = "idle"
             /\ state' = [state EXCEPT ![p] = "joining"] /\ UNCHANGED ringVars
  <2>1. /\ op'[p].kind = "join" /\ op'[p].pc = "find" /\ op'[p].p = other /\ op'[p].then = op[p].then
        /\ state' = [state EXCEPT ![p] = "joining"] /\ UNCHANGED ringVars
    BY <1>1 DEF StartJoin, Ops
  <2>2. op[p].then = "idle"
    BY <1>1 DEF StartJoin, Idle
  <2> QED
    BY <2>1, <2>2
<1>2. ASSUME StartLeave(p)
      PROVE  op'[p].kind = "leave" /\ op'[p].pc = "read" /\ op'[p].then = "idle" /\ SameRing
  <2>1. op'[p].kind = "leave" /\ op'[p].pc = "read" /\ op'[p].then = op[p].then
    BY <1>2 DEF StartLeave, Ops
  <2>2. op[p].then = "idle" /\ SameRing
    BY <1>2 DEF StartLeave, Idle, SameRing, ringVars
  <2> QED
    BY <2>1, <2>2
<1> QED
  BY <1>1, <1>2

\* What it means to begin to give back locks.
LEMMA GivingBack ==
  ASSUME RingInv, NEW p \in Peers, NEW locks, NEW next, GivesBack(p, locks, next)
  PROVE  GoesBack(p, locks, next)
  BY DEF RingInv, TopologyTypes, Ops, GivesBack, GoesBack

\* tryLockInOrder gets one more lock of its peers, or gives all back.
LEMMA TryLockDoes ==
  ASSUME RingInv, NEW p \in Peers, TryLock(p)
  PROVE  /\ op[p].pc = "lock" /\ UNCHANGED <<succ, pred, state>>
         /\ \/ UNCHANGED lockedBy /\ GoesBack(p, InOrder(Held(p)), FirstStep(p))
            \/ UNCHANGED op /\ \E q \in Subjects(p) :
                 handleLock(q) /\ lockedBy' = [lockedBy EXCEPT ![q] = p]
<1>1. op[p].pc = "lock" /\ UNCHANGED <<succ, pred, state>> /\ NextToLock(p) \in Subjects(p)
  BY LocksPeers DEF TryLock
<1>2. CASE handleLock(NextToLock(p))
  BY <1>1, <1>2 DEF TryLock
<1>3. CASE ~handleLock(NextToLock(p))
  BY <1>1, <1>3, GivingBack DEF TryLock
<1> QED
  BY <1>2, <1>3

\* unlock() frees one peer, which the thread had locked; after the last it goes on.
LEMMA UnlockDoes ==
  ASSUME RingInv, NEW p \in Peers, Unlock(p)
  PROVE  \/ Rests
         \/ /\ op[p].pc = "undo" /\ op[p].undo = <<>> /\ SameRing
            /\ Goes(p, op[p].then, op[p].p, op[p].s) /\ op'[p].undo = op[p].undo
         \/ /\ op[p].pc = "undo" /\ op[p].undo # <<>> /\ UNCHANGED <<succ, pred, state>>
            /\ Head(op[p].undo) \in Peers /\ lockedBy[Head(op[p].undo)] = p
            /\ lockedBy' = [lockedBy EXCEPT ![Head(op[p].undo)] = NoPeer]
            /\ Goes(p, "undo", op[p].p, op[p].s) /\ op'[p].undo = Tail(op[p].undo)
<1> op \in [Peers -> Ops]
  BY DEF RingInv, TopologyTypes
<1>1. CASE op[p].undo = <<>>
  BY <1>1 DEF Unlock, Goes, SameRing, Ops
<1>2. CASE op[p].undo # <<>>
  <2>1. op[p].undo \in Seq(Peers)
    BY DEF Ops
  <2>2. Head(op[p].undo) \in Peers
    BY <1>2, <2>1
  <2>3. CASE handleUnlock(Head(op[p].undo), p)
    <3>1. op' = [op EXCEPT ![p].undo = Tail(op[p].undo)]
      BY <1>2, <2>3 DEF Unlock, Ops
    <3>2. Goes(p, op[p].pc, op[p].p, op[p].s) /\ op'[p].undo = Tail(op[p].undo)
      BY <3>1 DEF Goes, Ops
    <3> QED
      BY <1>2, <2>2, <2>3, <3>2 DEF Unlock, handleUnlock
  <2>4. CASE ~handleUnlock(Head(op[p].undo), p)
    BY <1>2, <2>4 DEF Unlock, Rests
  <2> QED
    BY <2>3, <2>4
<1> QED
  BY <1>1, <1>2

\* What cleanJoin does while it looks for its neighbours, or ends.
LEMMA JoinLooksDo ==
  ASSUME RingInv, NEW p \in Peers
  PROVE  /\ JoinPredecessor(p) => \/ Rests
              \/ /\ op[p].pc = "find" /\ SameRing
                 /\ Goes(p, "ask", closestPrecedingFinger(op[p].p, p), op[p].s)
         /\ JoinSuccessor(p) => \/ Rests
              \/ /\ op[p].pc = "ask" /\ SameRing /\ state[op[p].p] # "joining"
                 /\ \/ Goes(p, "lock", op[p].p, succ[op[p].p]) /\ isIn(p, op[p].p, succ[op[p].p])
                    \/ Goes(p, "find", op[p].p, succ[op[p].p])
         /\ JoinDone(p) =>
              /\ op[p].pc = "init" /\ UNCHANGED ringVars
              /\ op'[p] = Idle /\ state' = [state EXCEPT ![p] = "in"]
<1> op \in [Peers -> Ops]
  BY DEF RingInv, TopologyTypes
<1>1. ASSUME JoinPredecessor(p)
      PROVE  \/ Rests
             \/ /\ op[p].pc = "find" /\ SameRing
                /\ Goes(p, "ask", closestPrecedingFinger(op[p].p, p), op[p].s)
  <2>1. CASE Declines(op[p].p)
    BY <1>1, <2>1 DEF JoinPredecessor, Rests, ringVars
  <2>2. CASE ~Declines(op[p].p)
    BY <1>1, <2>2 DEF JoinPredecessor, SameRing, ringVars, Goes, Ops
  <2> QED
    BY <2>1, <2>2
<1>2. ASSUME JoinSuccessor(p)
      PROVE  \/ Rests
             \/ /\ op[p].pc = "ask" /\ SameRing /\ state[op[p].p] # "joining"
                /\ \/ Goes(p, "lock", op[p].p, succ[op[p].p]) /\ isIn(p, op[p].p, succ[op[p].p])
                   \/ Goes(p, "find", op[p].p, succ[op[p].p])
  <2>1. CASE Declines(op[p].p)
    BY <1>2, <2>1 DEF JoinSuccessor, Rests, ringVars
  <2>2. CASE ~Declines(op[p].p)
    <3>1. op[p].pc = "ask" /\ SameRing /\ state[op[p].p] # "joining"
      BY <1>2, <2>2 DEF JoinSuccessor, SameRing, ringVars, Answers
    <3>2. CASE isIn(p, op[p].p, succ[op[p].p])
      BY <1>2, <2>2, <3>1, <3>2 DEF JoinSuccessor, Goes, Ops
    <3>3. CASE ~isIn(p, op[p].p, succ[op[p].p])
      BY <1>2, <2>2, <3>1, <3>3 DEF JoinSuccessor, Goes, Ops
    <3> QED
      BY <3>2, <3>3
  <2> QED
    BY <2>1, <2>2
<1>3. ASSUME JoinDone(p)
      PROVE  op[p].pc = "init" /\ UNCHANGED ringVars /\ op'[p] = Idle /\ state' = [state EXCEPT ![p] = "in"]
  BY <1>3 DEF JoinDone
<1> QED
  BY <1>1, <1>2, <1>3

\* What cleanJoin does when it asks again whether its neighbours still are.
LEMMA JoinVerifiesDo ==
  ASSUME RingInv, NEW p \in Peers
  PROVE  /\ JoinVerifyS(p) => \/ Rests
              \/ /\ op[p].pc = "lock" /\ SameRing /\ Held(p) = Subjects(p) /\ Goes(p, "verify", op[p].p, op[p].s)
                 /\ op'[p].ok => pred[op[p].s] = op[p].p
         /\ JoinVerifyP(p) => \/ Rests
              \/ /\ op[p].pc = "verify" /\ SameRing
                 /\ \/ Goes(p, "fetch", op[p].p, op[p].s) /\ op[p].ok /\ succ[op[p].p] = op[p].s
                    \/ GoesBack(p, Unlocks(p, op[p].p, op[p].s), "find")
<1> op \in [Peers -> Ops]
  BY DEF RingInv, TopologyTypes
<1>1. ASSUME JoinVerifyS(p)
      PROVE  \/ Rests
             \/ /\ op[p].pc = "lock" /\ SameRing /\ Held(p) = Subjects(p) /\ Goes(p, "verify", op[p].p, op[p].s)
                /\ op'[p].ok => pred[op[p].s] = op[p].p
  <2>1. CASE Declines(op[p].s)
    BY <1>1, <2>1 DEF JoinVerifyS, Rests, ringVars
  <2>2. CASE ~Declines(op[p].s)
    <3>1. op' = [op EXCEPT ![p].pc = "verify", ![p].ok = (pred[op[p].s] = op[p].p)]
      BY <1>1, <2>2 DEF JoinVerifyS
    <3>2. Goes(p, "verify", op[p].p, op[p].s) /\ (op'[p].ok => pred[op[p].s] = op[p].p)
      BY <3>1 DEF Goes, Ops
    <3> QED
      BY <1>1, <2>2, <3>2 DEF JoinVerifyS, SameRing, ringVars
  <2> QED
    BY <2>1, <2>2
<1>2. ASSUME JoinVerifyP(p)
      PROVE  \/ Rests
             \/ /\ op[p].pc = "verify" /\ SameRing
                /\ \/ Goes(p, "fetch", op[p].p, op[p].s) /\ op[p].ok /\ succ[op[p].p] = op[p].s
                   \/ GoesBack(p, Unlocks(p, op[p].p, op[p].s), "find")
  <2>1. CASE Declines(op[p].p)
    BY <1>2, <2>1 DEF JoinVerifyP, Rests, ringVars
  <2>2. CASE ~Declines(op[p].p)
    <3>1. op[p].pc = "verify" /\ SameRing
      BY <1>2 DEF JoinVerifyP, SameRing, ringVars
    <3>2. CASE op[p].ok /\ succ[op[p].p] = op[p].s
      <4>1. op' = [op EXCEPT ![p].pc = "fetch"]
        BY <1>2, <2>2, <3>2 DEF JoinVerifyP, JoinVerify
      <4> QED
        BY <3>1, <3>2, <4>1 DEF Goes, Ops
    <3>3. CASE ~(op[p].ok /\ succ[op[p].p] = op[p].s)
      BY <1>2, <2>2, <3>1, <3>3, GivingBack DEF JoinVerifyP, JoinVerify
    <3> QED
      BY <3>2, <3>3
  <2> QED
    BY <2>1, <2>2
<1> QED
  BY <1>1, <1>2

\* What cleanJoin does to the ring: only now do neighbours change.
LEMMA JoinChangesDo ==
  ASSUME RingInv, NEW p \in Peers
  PROVE  /\ JoinFetch(p) => \/ Rests
              \/ /\ op[p].pc = "fetch" /\ UNCHANGED <<lockedBy, state>> /\ Goes(p, "notifyP", op[p].p, op[p].s)
                 /\ pred' = [pred EXCEPT ![p] = op[p].p] /\ succ' = [succ EXCEPT ![p] = op[p].s]
         /\ JoinNotifyP(p) => \/ Rests
              \/ /\ op[p].pc = "notifyP" /\ UNCHANGED <<lockedBy, state>> /\ handleNotify(op[p].p, p)
                 /\ lockedBy[op[p].p] = p
                 /\ \/ op[p].p = op[p].s /\ GoesBack(p, <<op[p].p>>, "init")
                    \/ op[p].p # op[p].s /\ Goes(p, "notifyS", op[p].p, op[p].s)
         /\ JoinNotifyS(p) => \/ Rests
              \/ /\ op[p].pc = "notifyS" /\ UNCHANGED <<lockedBy, state>> /\ handleNotify(op[p].s, p)
                 /\ lockedBy[op[p].s] = p
                 /\ GoesBack(p, <<op[p].s, op[p].p>>, "init")
<1> op \in [Peers -> Ops]
  BY DEF RingInv, TopologyTypes
<1>1. ASSUME JoinFetch(p)
      PROVE  \/ Rests
             \/ /\ op[p].pc = "fetch" /\ UNCHANGED <<lockedBy, state>> /\ Goes(p, "notifyP", op[p].p, op[p].s)
                /\ pred' = [pred EXCEPT ![p] = op[p].p] /\ succ' = [succ EXCEPT ![p] = op[p].s]
  <2>1. CASE Fatal(op[p].s, p) # {}
    BY <1>1, <2>1 DEF JoinFetch, Rests
  <2>2. CASE Fatal(op[p].s, p) = {}
    BY <1>1, <2>2 DEF JoinFetch, Goes, Ops
  <2> QED
    BY <2>1, <2>2
<1>2. ASSUME JoinNotifyP(p)
      PROVE  \/ Rests
             \/ /\ op[p].pc = "notifyP" /\ UNCHANGED <<lockedBy, state>> /\ handleNotify(op[p].p, p)
                /\ lockedBy[op[p].p] = p
                /\ \/ op[p].p = op[p].s /\ GoesBack(p, <<op[p].p>>, "init")
                   \/ op[p].p # op[p].s /\ Goes(p, "notifyS", op[p].p, op[p].s)
  <2>1. CASE Fatal(op[p].p, p) # {} \/ lockedBy[op[p].p] # p
    BY <1>2, <2>1 DEF JoinNotifyP, Notify, Rests
  <2>2. CASE ~(Fatal(op[p].p, p) # {} \/ lockedBy[op[p].p] # p)
    <3>1. CASE op[p].p = op[p].s
      BY <1>2, <2>2, <3>1, GivingBack DEF JoinNotifyP, Notify
    <3>2. CASE op[p].p # op[p].s
      BY <1>2, <2>2, <3>2 DEF JoinNotifyP, Notify, Goes, Ops
    <3> QED
      BY <3>1, <3>2
  <2> QED
    BY <2>1, <2>2
<1>3. ASSUME JoinNotifyS(p)
      PROVE  \/ Rests
             \/ /\ op[p].pc = "notifyS" /\ UNCHANGED <<lockedBy, state>> /\ handleNotify(op[p].s, p)
                /\ lockedBy[op[p].s] = p
                /\ GoesBack(p, <<op[p].s, op[p].p>>, "init")
  <2>1. CASE Fatal(op[p].s, p) # {} \/ lockedBy[op[p].s] # p
    BY <1>3, <2>1 DEF JoinNotifyS, Notify, Rests
  <2>2. CASE ~(Fatal(op[p].s, p) # {} \/ lockedBy[op[p].s] # p)
    BY <1>3, <2>2, GivingBack DEF JoinNotifyS, Notify
  <2> QED
    BY <2>1, <2>2
<1> QED
  BY <1>1, <1>2, <1>3

\* What leaveClean does up to the last look at its neighbours.
LEMMA LeaveLooksDo ==
  ASSUME RingInv, NEW p \in Peers
  PROVE  /\ LeaveNeighbours(p) => op[p].pc = "read" /\ SameRing /\ Goes(p, "lock", pred[p], succ[p])
         /\ LeaveVerifyP(p) => \/ Rests
              \/ /\ op[p].pc = "lock" /\ SameRing /\ Held(p) = Subjects(p)
                 /\ \/ op[p].p = p /\ op[p].s = p /\ Goes(p, "push", op[p].p, op[p].s)
                    \/ /\ op[p].p # p /\ Goes(p, "verify", op[p].p, op[p].s)
                       /\ op'[p].ok => succ[op[p].p] = p /\ pred[p] = op[p].p /\ succ[p] = op[p].s
         /\ LeaveVerifyS(p) => \/ Rests
              \/ /\ op[p].pc = "verify" /\ SameRing
                 /\ \/ Goes(p, "push", op[p].p, op[p].s) /\ op[p].ok /\ pred[op[p].s] = p
                    \/ \E locks : GoesBack(p, locks, "read")
         /\ LeavePush(p) => \/ Rests
              \/ /\ op[p].pc = "push" /\ SameRing
                 /\ \/ op[p].s = p /\ Goes(p, "term", op[p].p, op[p].s)
                    \/ op[p].s # p /\ Goes(p, "replaceS", op[p].p, op[p].s)
<1> op \in [Peers -> Ops]
  BY DEF RingInv, TopologyTypes
<1>1. ASSUME LeaveNeighbours(p)
      PROVE  op[p].pc = "read" /\ SameRing /\ Goes(p, "lock", pred[p], succ[p])
  BY <1>1 DEF LeaveNeighbours, SameRing, ringVars, Goes, Ops
<1>2. ASSUME LeaveVerifyP(p)
      PROVE  \/ Rests
             \/ /\ op[p].pc = "lock" /\ SameRing /\ Held(p) = Subjects(p)
                /\ \/ op[p].p = p /\ op[p].s = p /\ Goes(p, "push", op[p].p, op[p].s)
                   \/ /\ op[p].p # p /\ Goes(p, "verify", op[p].p, op[p].s)
                      /\ op'[p].ok => succ[op[p].p] = p /\ pred[p] = op[p].p /\ succ[p] = op[p].s
  <2>1. op[p].pc = "lock" /\ SameRing /\ Held(p) = Subjects(p)
    BY <1>2 DEF LeaveVerifyP, SameRing, ringVars
  <2>2. CASE UNCHANGED op
    BY <1>2, <2>2 DEF LeaveVerifyP, Rests, ringVars
  <2>3. CASE op[p].p = p /\ op[p].s = p /\ op' = [op EXCEPT ![p].pc = "push"]
    BY <2>1, <2>3 DEF Goes, Ops
  <2>4. CASE /\ op[p].p # p
             /\ op' = [op EXCEPT ![p].pc = "verify",
                         ![p].ok = (succ[op[p].p] = p /\ pred[p] = op[p].p /\ succ[p] = op[p].s)]
    <3>1. /\ Goes(p, "verify", op[p].p, op[p].s)
          /\ op'[p].ok => succ[op[p].p] = p /\ pred[p] = op[p].p /\ succ[p] = op[p].s
      BY <2>4 DEF Goes, Ops
    <3> QED
      BY <2>1, <2>4, <3>1
  <2> QED
    BY <1>2, <2>2, <2>3, <2>4 DEF LeaveVerifyP
<1>3. ASSUME LeaveVerifyS(p)
      PROVE  \/ Rests
             \/ /\ op[p].pc = "verify" /\ SameRing
                /\ \/ Goes(p, "push", op[p].p, op[p].s) /\ op[p].ok /\ pred[op[p].s] = p
                   \/ \E locks : GoesBack(p, locks, "read")
  <2>1. op[p].pc = "verify" /\ SameRing
    BY <1>3 DEF LeaveVerifyS, SameRing, ringVars
  <2>2. CASE UNCHANGED op
    BY <1>3, <2>2 DEF LeaveVerifyS, Rests, ringVars
  <2>3. CASE op[p].ok /\ pred[op[p].s] = p /\ op' = [op EXCEPT ![p].pc = "push"]
    BY <2>1, <2>3 DEF Goes, Ops
  <2>4. ASSUME NEW locks, GivesBack(p, locks, "read") PROVE GoesBack(p, locks, "read")
    BY <2>4, GivingBack
  <2> QED
    BY <1>3, <2>1, <2>2, <2>3, <2>4 DEF LeaveVerifyS
<1>4. ASSUME LeavePush(p)
      PROVE  \/ Rests
             \/ /\ op[p].pc = "push" /\ SameRing
                /\ \/ op[p].s = p /\ Goes(p, "term", op[p].p, op[p].s)
                   \/ op[p].s # p /\ Goes(p, "replaceS", op[p].p, op[p].s)
  <2>1. op[p].pc = "push" /\ SameRing
    BY <1>4 DEF LeavePush, SameRing, ringVars
  <2>2. CASE UNCHANGED op
    BY <1>4, <2>2 DEF LeavePush, Rests, ringVars
  <2>3. CASE op[p].s = p /\ op' = [op EXCEPT ![p].pc = "term"]
    BY <2>1, <2>3 DEF Goes, Ops
  <2>4. CASE op[p].s # p /\ op' = [op EXCEPT ![p].pc = "replaceS"]
    BY <2>1, <2>4 DEF Goes, Ops
  <2> QED
    BY <1>4, <2>2, <2>3, <2>4 DEF LeavePush
<1> QED
  BY <1>1, <1>2, <1>3, <1>4

\* What leaveClean does to the ring, and what leave() does after it.
LEMMA LeaveChangesDo ==
  ASSUME RingInv, NEW p \in Peers
  PROVE  /\ LeaveReplaceS(p) => \/ Rests
              \/ /\ op[p].pc = "replaceS" /\ UNCHANGED <<lockedBy, state>>
                 /\ handleReplace(op[p].s, p, op[p].p) /\ lockedBy[op[p].s] = p
                 /\ \/ op[p].p = op[p].s /\ GoesBack(p, <<op[p].s>>, "term")
                    \/ op[p].p # op[p].s /\ Goes(p, "replaceP", op[p].p, op[p].s)
         /\ LeaveReplaceP(p) => \/ Rests
              \/ /\ op[p].pc = "replaceP" /\ UNCHANGED <<lockedBy, state>>
                 /\ handleReplace(op[p].p, p, op[p].s) /\ lockedBy[op[p].p] = p
                 /\ GoesBack(p, <<op[p].p, op[p].s>>, "term")
         /\ LeaveTerminate(p) => \/ Rests
              \/ /\ op[p].pc = "term" /\ lockedBy[p] = p /\ UNCHANGED <<succ, pred>>
                 /\ state' = [state EXCEPT ![p] = "left"] /\ lockedBy' = [lockedBy EXCEPT ![p] = NoPeer]
                 /\ op'[p].kind = "leave" /\ op'[p].pc = "reset" /\ op'[p].then = "idle"
         /\ LeaveReset(p) =>
              /\ op[p].pc = "reset" /\ UNCHANGED ringVars /\ state' = [state EXCEPT ![p] = "inactive"]
              /\ Goes(p, "drop", op[p].p, op[p].s)
         /\ LeaveDone(p) =>
              /\ op[p].pc = "drop" /\ UNCHANGED ringVars
              /\ op'[p] = Idle /\ state' = [state EXCEPT ![p] = "gone"]
<1> op \in [Peers -> Ops]
  BY DEF RingInv, TopologyTypes
<1>1. ASSUME LeaveReplaceS(p)
      PROVE  \/ Rests
             \/ /\ op[p].pc = "replaceS" /\ UNCHANGED <<lockedBy, state>>
                /\ handleReplace(op[p].s, p, op[p].p) /\ lockedBy[op[p].s] = p
                /\ \/ op[p].p = op[p].s /\ GoesBack(p, <<op[p].s>>, "term")
                   \/ op[p].p # op[p].s /\ Goes(p, "replaceP", op[p].p, op[p].s)
  <2>1. CASE Fatal(op[p].s, p) # {} \/ ReplaceRejected(op[p].s, p)
    BY <1>1, <2>1 DEF LeaveReplaceS, Replace, Rests
  <2>2. CASE ~(Fatal(op[p].s, p) # {} \/ ReplaceRejected(op[p].s, p))
    <3>1. CASE op[p].p = op[p].s
      BY <1>1, <2>2, <3>1, GivingBack DEF LeaveReplaceS, Replace, ReplaceRejected
    <3>2. CASE op[p].p # op[p].s
      BY <1>1, <2>2, <3>2 DEF LeaveReplaceS, Replace, ReplaceRejected, Goes, Ops
    <3> QED
      BY <3>1, <3>2
  <2> QED
    BY <2>1, <2>2
<1>2. ASSUME LeaveReplaceP(p)
      PROVE  \/ Rests
             \/ /\ op[p].pc = "replaceP" /\ UNCHANGED <<lockedBy, state>>
                /\ handleReplace(op[p].p, p, op[p].s) /\ lockedBy[op[p].p] = p
                /\ GoesBack(p, <<op[p].p, op[p].s>>, "term")
  <2>1. CASE Fatal(op[p].p, p) # {} \/ ReplaceRejected(op[p].p, p)
    BY <1>2, <2>1 DEF LeaveReplaceP, Replace, Rests
  <2>2. CASE ~(Fatal(op[p].p, p) # {} \/ ReplaceRejected(op[p].p, p))
    BY <1>2, <2>2, GivingBack DEF LeaveReplaceP, Replace, ReplaceRejected
  <2> QED
    BY <2>1, <2>2
<1>3. ASSUME LeaveTerminate(p)
      PROVE  \/ Rests
             \/ /\ op[p].pc = "term" /\ lockedBy[p] = p /\ UNCHANGED <<succ, pred>>
                /\ state' = [state EXCEPT ![p] = "left"] /\ lockedBy' = [lockedBy EXCEPT ![p] = NoPeer]
                /\ op'[p].kind = "leave" /\ op'[p].pc = "reset" /\ op'[p].then = "idle"
  <2>1. CASE lockedBy[p] # p
    BY <1>3, <2>1 DEF LeaveTerminate, Rests
  <2>2. CASE lockedBy[p] = p
    <3>1. op'[p] = [Idle EXCEPT !.kind = "leave", !.pc = "reset"]
      BY <1>3, <2>2 DEF LeaveTerminate
    <3>2. op'[p].kind = "leave" /\ op'[p].pc = "reset" /\ op'[p].then = "idle"
      BY <3>1 DEF Idle
    <3> QED
      BY <1>3, <2>2, <3>2 DEF LeaveTerminate
  <2> QED
    BY <2>1, <2>2
<1>4. ASSUME LeaveReset(p)
      PROVE  /\ op[p].pc = "reset" /\ UNCHANGED ringVars /\ state' = [state EXCEPT ![p] = "inactive"]
             /\ Goes(p, "drop", op[p].p, op[p].s)
  BY <1>4 DEF LeaveReset, Goes, Ops
<1>5. ASSUME LeaveDone(p)
      PROVE  /\ op[p].pc = "drop" /\ UNCHANGED ringVars
             /\ op'[p] = Idle /\ state' = [state EXCEPT ![p] = "gone"]
  BY <1>5 DEF LeaveDone
<1> QED
  BY <1>1, <1>2, <1>3, <1>4, <1>5

--------------------------------------------------------------------------------
(* What a thread is for fits what it does, after every step. *)

\* After the first step of a join or a leave.
LEMMA BeginFits ==
  ASSUME RingInv, NEW p \in Peers, StartLeave(p) \/ \E other \in Peers : StartJoin(p, other)
  PROVE  OpFits(p)'
<1>1. CASE StartLeave(p)
  <2>1. /\ op'[p].kind = "leave" /\ op'[p].pc = "read" /\ op'[p].then = "idle"
        /\ state'[p] = "in" /\ p \in Leavers
    BY <1>1, Begins DEF SameRing, StartLeave
  <2> QED
    BY <2>1 DEF OpFits, LeaveState, LeaveSteps
<1>2. ASSUME NEW other \in Peers, StartJoin(p, other) PROVE OpFits(p)'
  <2>1. /\ op'[p].kind = "join" /\ op'[p].pc = "find" /\ op'[p].p = other /\ op'[p].then = "idle"
        /\ state'[p] = "joining"
    BY <1>2, Begins DEF RingInv, TopologyTypes
  <2> QED
    BY <2>1 DEF OpFits, JoinState, JoinSteps
<1> QED
  BY <1>1, <1>2

\* The threads that do not step are what they were.
LEMMA RestFits ==
  ASSUME OpsFit, Rests, NEW x \in Peers
  PROVE  OpFits(x)'
  BY DEF OpsFit, OpFits, JoinState, LeaveState, Rests, Idle

\* After a step of tryLockInOrder or unlock().
LEMMA LockStepFits ==
  ASSUME RingInv, NEW p \in Peers, TryLock(p) \/ Unlock(p)
  PROVE  OpFits(p)'
<1>1. OpFits(p) /\ op[p].kind \in {"none", "join", "leave"} /\ OpsFit
  BY DEF RingInv, TopologyTypes, OpsFit, Ops, Kinds
<1>2. op[p].kind # "none" => op[p].pc # "idle"
  BY <1>1 DEF OpFits, JoinState, LeaveState, JoinSteps, LeaveSteps
<1>3. CASE TryLock(p)
  <2>1. state' = state /\ op[p].pc = "lock" /\ (UNCHANGED op \/ GoesBack(p, InOrder(Held(p)), FirstStep(p)))
    BY <1>3, TryLockDoes
  <2>2. CASE UNCHANGED op
    BY <1>1, <2>1, <2>2 DEF OpFits, JoinState, LeaveState, Idle
  <2>3. CASE GoesBack(p, InOrder(Held(p)), FirstStep(p))
    BY <1>1, <2>1, <2>3 DEF GoesBack, FirstStep, OpFits, JoinState, LeaveState, JoinSteps, LeaveSteps, Idle
  <2> QED
    BY <2>1, <2>2, <2>3
<1>4. CASE Unlock(p)
  <2>1. \/ Rests
        \/ /\ state' = state /\ op[p].pc = "undo"
           /\ \E pc \in {"undo", op[p].then} : Goes(p, pc, op[p].p, op[p].s)
    BY <1>4, UnlockDoes DEF SameRing
  <2>2. CASE Rests
    BY <1>1, <2>2, RestFits
  <2>3. CASE ~Rests
    BY <1>1, <2>1, <2>3 DEF Goes, OpFits, JoinState, LeaveState, JoinSteps, LeaveSteps, Idle
  <2> QED
    BY <2>2, <2>3
<1> QED
  BY <1>3, <1>4

\* After a step of cleanJoin.
LEMMA JoinStepFits ==
  ASSUME RingInv, NEW p \in Peers, JoinStep(p)
  PROVE  OpFits(p)'
<1>1. op[p].kind = "join" /\ JoinState(p) /\ OpsFit
  BY JoinerKnows DEF RingInv, OpsFit, OpFits
<1>2. succ \in [Peers -> Peers]
  BY DEF RingInv, TopologyTypes
<1> USE DEF OpFits, JoinState, JoinSteps, Goes, GoesBack, SameRing
<1>3. CASE Rests
  BY <1>1, <1>3, RestFits
<1>4. CASE JoinPredecessor(p) \/ JoinSuccessor(p)
  <2>1. closestPrecedingFinger(op[p].p, p) \in Peers /\ succ[op[p].p] \in Peers
    BY <1>1, <1>2 DEF closestPrecedingFinger
  <2> QED
    BY <1>1, <1>3, <1>4, <2>1, JoinLooksDo
<1>5. CASE JoinDone(p)
  <2>1. op'[p] = Idle /\ state'[p] = "in"
    BY <1>5, JoinLooksDo DEF RingInv, TopologyTypes
  <2> QED
    BY <2>1 DEF Idle
<1>6. CASE JoinVerifyS(p) \/ JoinVerifyP(p)
  BY <1>1, <1>3, <1>6, JoinVerifiesDo
<1>7. CASE JoinFetch(p) \/ JoinNotifyP(p) \/ JoinNotifyS(p)
  BY <1>1, <1>3, <1>7, JoinChangesDo
<1> QED
  BY <1>4, <1>5, <1>6, <1>7 DEF JoinStep

\* After a step of leaveClean or leave().
LEMMA LeaveStepFits ==
  ASSUME RingInv, NEW p \in Peers, LeaveStep(p)
  PROVE  OpFits(p)'
<1>1. op[p].kind = "leave" /\ LeaveState(p) /\ OpsFit
  BY LeaverKnows DEF RingInv
<1>2. succ \in [Peers -> Peers] /\ pred \in [Peers -> Peers] /\ state \in [Peers -> States]
  BY DEF RingInv, TopologyTypes
<1> USE DEF OpFits, LeaveState, LeaveSteps, Goes, GoesBack, SameRing
<1>3. CASE Rests
  BY <1>1, <1>3, RestFits
<1>4. CASE LeaveNeighbours(p)
  BY <1>1, <1>2, <1>4, LeaveLooksDo
<1>5. CASE LeaveVerifyP(p) \/ LeaveVerifyS(p) \/ LeavePush(p)
  BY <1>1, <1>3, <1>5, LeaveLooksDo
<1>6. CASE LeaveReplaceS(p) \/ LeaveReplaceP(p)
  BY <1>1, <1>3, <1>6, LeaveChangesDo
<1>7. CASE LeaveTerminate(p) \/ LeaveReset(p)
  BY <1>1, <1>2, <1>3, <1>7, LeaveChangesDo
<1>8. CASE LeaveDone(p)
  <2>1. op'[p] = Idle /\ state'[p] = "gone"
    BY <1>2, <1>8, LeaveChangesDo
  <2> QED
    BY <2>1 DEF Idle
<1> QED
  BY <1>4, <1>5, <1>6, <1>7, <1>8 DEF LeaveStep

\* After every step.
LEMMA OpsFitStep ==
  ASSUME RingInv, [Next]_vars
  PROVE  OpsFit'
<1>1. ASSUME Rests PROVE OpsFit'
  BY <1>1, RestFits DEF RingInv, OpsFit
<1>2. ASSUME NEW p \in Peers, OpFits(p)', Moves(p) PROVE OpsFit'
  <2>1. ASSUME NEW x \in Peers, x # p PROVE OpFits(x)'
    <3>1. op'[x] = op[x] /\ state'[x] = state[x] /\ OpFits(x)
      BY <1>2, <2>1 DEF Moves, RingInv, OpsFit
    <3> QED
      BY <3>1 DEF OpFits, JoinState, LeaveState, Idle
  <2> QED
    BY <1>2, <2>1 DEF OpsFit
<1>3. ASSUME NEW p \in Peers, Start(p) PROVE OpsFit'
  BY <1>1, <1>2, <1>3, OneMoves, CallsRest, BeginFits DEF Start
<1>4. ASSUME NEW p \in Peers, TopologyStep(p) PROVE OpsFit'
  BY <1>2, <1>4, OneMoves, LockStepFits, JoinStepFits, LeaveStepFits DEF TopologyStep
<1>5. CASE UNCHANGED vars
  BY <1>1, <1>5 DEF vars, Rests
<1> QED
  BY <1>1, <1>3, <1>4, <1>5, CallsRest DEF Next

--------------------------------------------------------------------------------
(* Locks: nobody loses one that it does not give back itself. *)

Topology(p) == StartLeave(p) \/ (\E other \in Peers : StartJoin(p, other)) \/ TopologyStep(p)

\* A lock is taken when it is free, given back by its owner, and neither is done at
\* a peer that is not in the ring yet.
LEMMA LocksMove ==
  ASSUME RingInv, NEW p \in Peers, Topology(p), NEW q \in Peers
  PROVE  /\ lockedBy'[q] = lockedBy[q] \/ lockedBy[q] \in {p, NoPeer}
         /\ lockedBy'[q] \notin {lockedBy[q], NoPeer} => state[q] \in {"in", "left"} /\ state' = state
         /\ state'[q] \in {"out", "joining"} => state[q] \in {"out", state'[q]}
<1> lockedBy \in [Peers -> PeersOrNone] /\ state \in [Peers -> States]
  BY DEF RingInv, TopologyTypes
<1>1. CASE StartLeave(p) \/ \E other \in Peers : StartJoin(p, other)
  <2>1. ASSUME NEW other \in Peers, StartJoin(p, other)
        PROVE  state[p] = "out" /\ state' = [state EXCEPT ![p] = "joining"] /\ lockedBy' = lockedBy
    BY <2>1 DEF StartJoin, ringVars
  <2>2. StartLeave(p) => lockedBy' = lockedBy /\ state' = state
    BY DEF StartLeave, ringVars
  <2> QED
    BY <1>1, <2>1, <2>2
<1>2. CASE TryLock(p)
  <2>1. /\ state' = state
        /\ \/ lockedBy' = lockedBy
           \/ \E r \in Subjects(p) : handleLock(r) /\ lockedBy' = [lockedBy EXCEPT ![r] = p]
    BY <1>2, TryLockDoes
  <2> QED
    BY <2>1 DEF handleLock
<1>3. CASE Unlock(p)
  <2>1. /\ state' = state
        /\ \/ lockedBy' = lockedBy
           \/ \E r \in Peers : lockedBy[r] = p /\ lockedBy' = [lockedBy EXCEPT ![r] = NoPeer]
    BY <1>3, UnlockDoes DEF Rests, SameRing
  <2> QED
    BY <2>1
<1>4. CASE JoinStep(p)
  <2>1. lockedBy' = lockedBy /\ (state' = state \/ state' = [state EXCEPT ![p] = "in"])
    BY <1>4, JoinLooksDo, JoinVerifiesDo, JoinChangesDo DEF JoinStep, Rests, SameRing, ringVars
  <2> QED
    BY <2>1
<1>5. CASE LeaveStep(p)
  <2>1. \/ lockedBy' = lockedBy /\ state' = state
        \/ /\ lockedBy' = lockedBy \/ (lockedBy[p] = p /\ lockedBy' = [lockedBy EXCEPT ![p] = NoPeer])
           /\ \E s \in {"left", "inactive", "gone"} : state' = [state EXCEPT ![p] = s]
    <3>1. CASE LeaveNeighbours(p) \/ LeaveVerifyP(p) \/ LeaveVerifyS(p) \/ LeavePush(p)
      BY <3>1, LeaveLooksDo DEF Rests, SameRing
    <3>2. CASE LeaveReplaceS(p) \/ LeaveReplaceP(p)
      BY <3>2, LeaveChangesDo DEF Rests
    <3>3. CASE LeaveTerminate(p)
      BY <3>3, LeaveChangesDo DEF Rests
    <3>4. CASE LeaveReset(p) \/ LeaveDone(p)
      BY <3>4, LeaveChangesDo DEF ringVars
    <3> QED
      BY <1>5, <3>1, <3>2, <3>3, <3>4 DEF LeaveStep
  <2> QED
    BY <2>1
<1> QED
  BY <1>1, <1>2, <1>3, <1>4, <1>5 DEF Topology, TopologyStep

\* The neighbours of a peer that is about to leave are others, unless it is the last.
LEMMA NeighboursApart ==
  ASSUME RingInv, NEW p \in Peers, op[p].pc \in {"replaceS", "replaceP"}
  PROVE  op[p].kind = "leave" /\ op[p].p # p /\ op[p].s # p
<1>1. OpFits(p) /\ op[p].kind \in {"none", "join", "leave"} /\ PlaceFits(p)
  BY DEF RingInv, OpsFit, PlacesFit, TopologyTypes, Ops, Kinds
<1>2. op[p].kind = "leave" /\ LeavePlace(p)
  BY <1>1 DEF OpFits, JoinState, JoinSteps, Idle, PlaceFits
<1>3. CASE op[p].pc = "replaceS"
  BY <1>2, <1>3 DEF LeavePlace
<1>4. CASE op[p].pc = "replaceP"
  <2>1. op[p].p \in Members /\ op[p].s \in Members
    BY <1>2, <1>4 DEF LeavePlace
  <2>2. p \notin Members
    BY <1>2, <1>1, <1>4 DEF Members, OpFits, LeaveState
  <2> QED
    BY <1>2, <2>1, <2>2
<1> QED
  BY <1>3, <1>4

\* Who has locked its neighbours goes on with their locks.
OwnLocks(p) ==
  /\ op[p].pc \in {"verify", "fetch", "push", "notifyP", "notifyS", "replaceS", "replaceP"} =>
       \A q \in Subjects(p) : lockedBy[q] = p
  /\ op[p].pc = "term" \/ op[p].then = "term" => lockedBy[p] = p
  /\ op[p].pc = "undo" /\ op[p].then = "term" => \A i \in DOMAIN op[p].undo : op[p].undo[i] # p

\* It knows them, and whether it joins or leaves.
LEMMA HoldersKnow ==
  ASSUME RingInv, NEW x \in Peers,
         op[x].pc \in {"lock", "verify", "fetch", "push", "notifyP", "notifyS", "replaceS", "replaceP"}
  PROVE  /\ op[x].kind \in {"join", "leave"} /\ op[x].p \in Peers /\ op[x].s \in Peers
         /\ op[x].pc \in {"fetch", "notifyP", "notifyS"} => op[x].kind = "join"
         /\ op[x].pc \in {"push", "replaceS", "replaceP"} => op[x].kind = "leave"
         /\ op[x].kind = "join" => JoinState(x) /\ JoinPlace(x)
         /\ op[x].kind = "leave" => LeaveState(x) /\ LeavePlace(x)
<1>1. OpFits(x) /\ op[x].kind \in {"none", "join", "leave"} /\ PlaceFits(x)
  BY DEF RingInv, OpsFit, PlacesFit, TopologyTypes, Ops, Kinds
<1>2. op[x].kind # "none"
  BY <1>1 DEF OpFits, Idle
<1>3. op[x].kind = "join" => JoinState(x) /\ JoinPlace(x)
  BY <1>1 DEF OpFits, PlaceFits
<1>4. op[x].kind = "leave" => LeaveState(x) /\ LeavePlace(x)
  BY <1>1 DEF OpFits, PlaceFits
<1> QED
  BY <1>1, <1>2, <1>3, <1>4 DEF JoinState, LeaveState, JoinSteps, LeaveSteps

\* The thread that steps has the locks that it needs next.
LEMMA OwnLocksStep ==
  ASSUME RingInv, NEW p \in Peers, Topology(p)
  PROVE  OwnLocks(p)'
<1>1. OwnLocks(p) /\ OpFits(p) /\ op[p].kind \in {"none", "join", "leave"}
  BY DEF RingInv, LocksFit, LockFits, OwnLocks, OpsFit, TopologyTypes, Ops, Kinds
<1>2. /\ lockedBy \in [Peers -> PeersOrNone] /\ op[p].undo \in Seq(Peers)
  BY DEF RingInv, TopologyTypes, Ops
<1>3. CASE StartLeave(p) \/ \E other \in Peers : StartJoin(p, other)
  BY <1>3, Begins DEF OwnLocks
<1>4. CASE TryLock(p)
  <2>1. \/ UNCHANGED op
        \/ GoesBack(p, InOrder(Held(p)), FirstStep(p))
    BY <1>4, TryLockDoes
  <2>2. op[p].pc = "lock"
    BY <1>4 DEF TryLock
  <2>3. op[p].then # "term"
    BY <1>1, <2>2 DEF OpFits, JoinState, LeaveState, Idle
  <2> QED
    BY <2>1, <2>2, <2>3 DEF OwnLocks, GoesBack, FirstStep
<1>5. CASE Unlock(p)
  <2>1. CASE Rests
    BY <1>1, <2>1 DEF Rests, OwnLocks, Subjects
  <2>2. CASE op[p].undo = <<>> /\ ~Rests
    <3>1. /\ op[p].pc = "undo" /\ Goes(p, op[p].then, op[p].p, op[p].s) /\ lockedBy' = lockedBy
          /\ op'[p].undo = op[p].undo
      BY <1>5, <2>2, UnlockDoes DEF SameRing
    <3>2. op[p].then \in {"idle", "find", "read", "init", "term"}
      BY <1>1 DEF OpFits, JoinState, LeaveState, Idle
    <3> QED
      BY <1>1, <3>1, <3>2 DEF Goes, OwnLocks
  <2>3. CASE op[p].undo # <<>> /\ ~Rests
    <3>1. /\ op[p].pc = "undo" /\ Goes(p, "undo", op[p].p, op[p].s)
          /\ lockedBy' = [lockedBy EXCEPT ![Head(op[p].undo)] = NoPeer]
          /\ op'[p].undo = Tail(op[p].undo)
      BY <1>5, <2>3, UnlockDoes
    <3>2. ASSUME op[p].then = "term"
          PROVE  Head(op[p].undo) # p /\ \A i \in DOMAIN Tail(op[p].undo) : Tail(op[p].undo)[i] # p
      <4>1. \A i \in DOMAIN op[p].undo : op[p].undo[i] # p
        BY <1>1, <3>1, <3>2 DEF OwnLocks
      <4> QED
        BY <1>2, <2>3, <4>1
    <3> QED
      BY <1>1, <1>2, <3>1, <3>2 DEF Goes, OwnLocks
  <2> QED
    BY <2>1, <2>2, <2>3
<1>6. CASE JoinStep(p)
  <2>1. op[p].kind = "join" /\ op[p].then # "term" /\ op[p].pc # "term"
    BY <1>1, <1>6, JoinerKnows DEF OpFits, JoinState, JoinSteps
  <2>2. CASE Rests
    BY <1>1, <2>2 DEF Rests, OwnLocks, Subjects
  <2>3. CASE JoinPredecessor(p) \/ JoinSuccessor(p) \/ JoinDone(p)
    BY <2>1, <2>2, <2>3, JoinLooksDo DEF OwnLocks, Goes, Idle
  <2>4. CASE JoinVerifyS(p) /\ ~Rests
    <3>1. lockedBy' = lockedBy /\ Held(p) = Subjects(p) /\ Goes(p, "verify", op[p].p, op[p].s)
      BY <2>4, JoinVerifiesDo DEF SameRing
    <3> QED
      BY <2>1, <3>1 DEF OwnLocks, Goes, Subjects, Held
  <2>5. CASE JoinVerifyP(p) /\ ~Rests
    <3>1. /\ lockedBy' = lockedBy /\ op[p].pc = "verify"
          /\ Goes(p, "fetch", op[p].p, op[p].s) \/ GoesBack(p, Unlocks(p, op[p].p, op[p].s), "find")
      BY <2>5, JoinVerifiesDo DEF SameRing
    <3> QED
      BY <1>1, <2>1, <3>1 DEF OwnLocks, Goes, GoesBack, Subjects
  <2>6. CASE (JoinFetch(p) \/ JoinNotifyP(p) \/ JoinNotifyS(p)) /\ ~Rests
    <3>1. /\ lockedBy' = lockedBy /\ op[p].pc \in {"fetch", "notifyP", "notifyS"}
          /\ \/ \E pc \in {"notifyP", "notifyS"} : Goes(p, pc, op[p].p, op[p].s)
             \/ \E locks : GoesBack(p, locks, "init")
      BY <2>6, JoinChangesDo
    <3> QED
      BY <1>1, <2>1, <3>1 DEF OwnLocks, Goes, GoesBack, Subjects
  <2> QED
    BY <1>6, <2>2, <2>3, <2>4, <2>5, <2>6 DEF JoinStep
<1>7. CASE LeaveStep(p)
  <2>1. op[p].kind = "leave" /\ LeaveState(p)
    BY <1>7, LeaverKnows
  <2>2. CASE Rests
    BY <1>1, <2>2 DEF Rests, OwnLocks, Subjects
  <2>3. CASE LeaveNeighbours(p)
    BY <2>1, <2>3, LeaveLooksDo DEF OwnLocks, Goes, LeaveState
  <2>4. CASE LeaveVerifyP(p) /\ ~Rests
    <3>1. /\ lockedBy' = lockedBy /\ Held(p) = Subjects(p) /\ op[p].pc = "lock"
          /\ Goes(p, "push", op[p].p, op[p].s) \/ Goes(p, "verify", op[p].p, op[p].s)
      BY <2>4, LeaveLooksDo DEF SameRing
    <3> QED
      BY <2>1, <3>1 DEF OwnLocks, Goes, Subjects, Held, LeaveState
  <2>5. CASE (LeaveVerifyS(p) \/ LeavePush(p)) /\ ~Rests
    <3>1. /\ lockedBy' = lockedBy /\ op[p].pc \in {"verify", "push"}
          /\ \/ \E pc \in {"push", "replaceS", "term"} : Goes(p, pc, op[p].p, op[p].s)
             \/ \E locks : GoesBack(p, locks, "read")
      BY <2>5, LeaveLooksDo DEF SameRing
    <3> QED
      BY <1>1, <2>1, <3>1 DEF OwnLocks, Goes, GoesBack, Subjects, LeaveState
  <2>6. CASE (LeaveReplaceS(p) \/ LeaveReplaceP(p)) /\ ~Rests
    <3>1. /\ lockedBy' = lockedBy /\ op[p].pc \in {"replaceS", "replaceP"}
          /\ \/ Goes(p, "replaceP", op[p].p, op[p].s)
             \/ GoesBack(p, <<op[p].s>>, "term") \/ GoesBack(p, <<op[p].p, op[p].s>>, "term")
      BY <2>6, LeaveChangesDo
    <3>2. op[p].p # p /\ op[p].s # p
      BY <3>1, NeighboursApart
    <3>3. \A q \in Subjects(p) : lockedBy[q] = p
      BY <1>1, <3>1 DEF OwnLocks
    <3> QED
      BY <2>1, <3>1, <3>2, <3>3 DEF OwnLocks, Goes, GoesBack, Subjects, LeaveState
  <2>7. CASE LeaveTerminate(p) \/ LeaveReset(p) \/ LeaveDone(p)
    <3>1. CASE LeaveTerminate(p) /\ ~Rests
      <4>1. op'[p].pc = "reset" /\ op'[p].then = "idle"
        BY <3>1, LeaveChangesDo
      <4> QED
        BY <4>1 DEF OwnLocks
    <3>2. CASE LeaveReset(p)
      <4>1. op[p].pc = "reset" /\ op'[p].pc = "drop" /\ op'[p].then = op[p].then
        BY <3>2, LeaveChangesDo DEF Goes
      <4> QED
        BY <2>1, <4>1 DEF OwnLocks, LeaveState
    <3>3. CASE LeaveDone(p)
      <4>1. op'[p] = Idle
        BY <3>3, LeaveChangesDo
      <4>2. op'[p].pc = "idle" /\ op'[p].then = "idle"
        BY <4>1 DEF Idle
      <4> QED
        BY <4>2 DEF OwnLocks
    <3> QED
      BY <2>2, <2>7, <3>1, <3>2, <3>3
  <2> QED
    BY <1>7, <2>2, <2>3, <2>4, <2>5, <2>6, <2>7 DEF LeaveStep
<1> QED
  BY <1>3, <1>4, <1>5, <1>6, <1>7 DEF Topology, TopologyStep

\* All threads keep the locks that they need.
LEMMA LocksFitStep ==
  ASSUME RingInv, NEW p \in Peers, Topology(p)
  PROVE  LocksFit'
<1>1. LocksFit /\ OpsFit /\ lockedBy \in [Peers -> PeersOrNone] /\ state \in [Peers -> States]
  BY DEF RingInv, TopologyTypes
<1>2. ASSUME NEW x \in Peers PROVE lockedBy'[x] # NoPeer => state'[x] \notin {"out", "joining"}
  BY <1>1, LocksMove DEF LocksFit, LockFits
<1>3. ASSUME NEW x \in Peers PROVE OwnLocks(x)'
  <2>1. CASE x = p
    BY <2>1, OwnLocksStep
  <2>2. CASE x # p
    <3>1. op'[x] = op[x]
      BY <2>2, OneMoves DEF Topology, Moves
    <3>2. OwnLocks(x)
      BY <1>1 DEF LocksFit, LockFits, OwnLocks
    <3>3. \A q \in Peers : lockedBy[q] = x => lockedBy'[q] = x
      BY <2>2, LocksMove, ChordIndexAssumption
    <3>4. op[x].pc \in {"verify", "fetch", "push", "notifyP", "notifyS", "replaceS", "replaceP"} =>
            Subjects(x) \subseteq Peers
      BY HoldersKnow DEF Subjects
    <3>5. Subjects(x)' = Subjects(x)
      BY <3>1 DEF Subjects
    <3>6. lockedBy[x] = x => lockedBy'[x] = x
      BY <3>3
    <3>7. op[x].pc \in {"verify", "fetch", "push", "notifyP", "notifyS", "replaceS", "replaceP"} =>
            \A q \in Subjects(x) : lockedBy'[q] = x
      BY <3>2, <3>3, <3>4 DEF OwnLocks
    <3> QED
      BY <3>1, <3>2, <3>5, <3>6, <3>7 DEF OwnLocks
  <2> QED
    BY <2>1, <2>2
<1> QED
  BY <1>2, <1>3 DEF LocksFit, LockFits, OwnLocks

--------------------------------------------------------------------------------
(* A ring that is one cycle in the order of the hashes, and what a peer    *)
(* more or less makes of it.                                               *)

Cycle(M, N, R) ==
  \A a \in M : /\ R[a] \in M /\ N[a] \in M /\ R[N[a]] = a /\ N[R[a]] = a
               /\ \A b \in M \ {a, N[a]} : ~isIn(b, a, N[a])

\* A peer between two neighbours is between no other ones.
LEMMA OnePlace ==
  ASSUME NEW M \in SUBSET Int, NEW N, NEW R, Cycle(M, N, R),
         NEW P \in M, NEW S \in M, R[S] = P, NEW x \in Int \ M, isIn(x, P, S), NEW a \in M, a # P
  PROVE  ~isIn(x, a, N[a])
<1> DEFINE n == N[a]
<1>1. n \in M /\ R[n] = a /\ N[P] = S /\ n # S
  BY DEF Cycle
<1>2. /\ a # S => ~isIn(a, P, S)
      /\ n # P /\ n # S => ~isIn(n, P, S)
      /\ P # n => ~isIn(P, a, n)
      /\ S # a => ~isIn(S, a, n)
  BY ZenonT(40), <1>1 DEF Cycle
<1>3. a \in Int /\ n \in Int /\ P \in Int /\ S \in Int /\ x \in Int /\ x # a /\ x # n /\ x # P /\ x # S
  BY <1>1
<1> HIDE DEF n
<1>4. ~isIn(x, a, n)
  BY <1>1, <1>2, <1>3, SMT DEF isIn
<1> QED
  BY <1>4 DEF n

\* A new peer at its place makes a ring with the others.
LEMMA InsertPeer ==
  ASSUME NEW M \in SUBSET Int, NEW N, NEW R, Cycle(M, N, R), NEW N2, NEW R2,
         NEW P \in M, NEW S \in M, R[S] = P, NEW x \in Int \ M, isIn(x, P, S),
         N2[P] = x, N2[x] = S, R2[S] = x, R2[x] = P,
         \A a \in M \ {P} : N2[a] = N[a], \A a \in M \ {S} : R2[a] = R[a]
  PROVE  Cycle(M \cup {x}, N2, R2)
<1>1. N[P] = S
  BY DEF Cycle
<1>2. ASSUME NEW a \in M, a # P
      PROVE  /\ R2[a] \in M \cup {x} /\ N2[a] \in M \cup {x} /\ R2[N2[a]] = a /\ N2[R2[a]] = a
             /\ \A b \in (M \cup {x}) \ {a, N2[a]} : ~isIn(b, a, N2[a])
  <2>1. N2[a] = N[a] /\ N[a] \in M /\ N[a] # S
    BY <1>2 DEF Cycle
  <2>2. R2[N2[a]] = a
    BY <2>1 DEF Cycle
  <2>3. R2[a] \in M \cup {x} /\ N2[R2[a]] = a
    <3>1. CASE a = S
      BY <3>1
    <3>2. CASE a # S
      <4>1. R2[a] = R[a] /\ R[a] \in M /\ N[R[a]] = a
        BY <3>2 DEF Cycle
      <4>2. R[a] # P
        BY <1>1, <3>2, <4>1
      <4>3. N2[R[a]] = N[R[a]]
        BY <4>1, <4>2
      <4> QED
        BY <4>1, <4>3
    <3> QED
      BY <3>1, <3>2
  <2>4. \A b \in (M \cup {x}) \ {a, N2[a]} : ~isIn(b, a, N2[a])
    BY <1>2, <2>1, OnePlace DEF Cycle
  <2> QED
    BY <2>1, <2>2, <2>3, <2>4
<1>3. /\ R2[P] \in M \cup {x} /\ N2[P] \in M \cup {x} /\ R2[N2[P]] = P /\ N2[R2[P]] = P
      /\ \A b \in (M \cup {x}) \ {P, N2[P]} : ~isIn(b, P, N2[P])
  <2>1. R2[P] \in M \cup {x} /\ N2[R2[P]] = P
    <3>1. CASE P = S
      BY <3>1
    <3>2. CASE P # S
      <4>1. R2[P] = R[P] /\ R[P] \in M /\ N[R[P]] = P
        BY <3>2 DEF Cycle
      <4>2. R[P] # P
        BY <1>1, <3>2, <4>1
      <4>3. N2[R[P]] = N[R[P]]
        BY <4>1, <4>2
      <4> QED
        BY <4>1, <4>3
    <3> QED
      BY <3>1, <3>2
  <2>2. ASSUME NEW b \in M, b # P PROVE ~isIn(b, P, x)
    <3>1. b # S => ~isIn(b, P, S)
      BY <1>1, <2>2 DEF Cycle
    <3>2. b \in Int /\ P \in Int /\ S \in Int /\ x \in Int /\ x # P /\ x # S /\ x # b
      OBVIOUS
    <3> QED
      BY <2>2, <3>1, <3>2, SMT DEF isIn
  <2> QED
    BY <2>1, <2>2
<1>4. /\ R2[x] \in M \cup {x} /\ N2[x] \in M \cup {x} /\ R2[N2[x]] = x /\ N2[R2[x]] = x
      /\ \A b \in (M \cup {x}) \ {x, N2[x]} : ~isIn(b, x, N2[x])
  <2>1. ASSUME NEW b \in M, b # S PROVE ~isIn(b, x, S)
    <3>1. b # P => ~isIn(b, P, S)
      BY <1>1, <2>1 DEF Cycle
    <3>2. b \in Int /\ P \in Int /\ S \in Int /\ x \in Int /\ x # P /\ x # S /\ x # b
      OBVIOUS
    <3> QED
      BY <2>1, <3>1, <3>2, SMT DEF isIn
  <2> QED
    BY <2>1
<1> QED
  BY <1>2, <1>3, <1>4 DEF Cycle

\* Without one of its peers the others make a ring.
LEMMA RemovePeer ==
  ASSUME NEW M \in SUBSET Int, NEW N, NEW R, Cycle(M, N, R), NEW N2, NEW R2,
         NEW x \in M, NEW P, NEW S, R[x] = P, N[x] = S, P # x,
         N2[P] = S, R2[S] = P,
         \A a \in M \ {x, P} : N2[a] = N[a], \A a \in M \ {x, S} : R2[a] = R[a]
  PROVE  Cycle(M \ {x}, N2, R2)
<1>1. P \in M /\ S \in M /\ N[P] = x /\ R[S] = x /\ S # x
  BY DEF Cycle
<1>2. ASSUME NEW a \in M, a # x, a # P
      PROVE  /\ N2[a] \in M \ {x} /\ R2[N2[a]] = a
             /\ \A b \in (M \ {x}) \ {a, N2[a]} : ~isIn(b, a, N2[a])
  <2>1. N2[a] = N[a] /\ N[a] \in M /\ R[N[a]] = a
    BY <1>2 DEF Cycle
  <2>2. N[a] # x /\ N[a] # S
    BY <1>1, <1>2, <2>1
  <2> QED
    BY ZenonT(40), <1>2, <2>1, <2>2 DEF Cycle
<1>3. ASSUME NEW a \in M, a # x PROVE R2[a] \in M \ {x} /\ N2[R2[a]] = a
  <2>1. CASE a = S
    BY <1>1, <2>1
  <2>2. CASE a # S
    <3>1. R2[a] = R[a] /\ R[a] \in M /\ N[R[a]] = a
      BY <1>3, <2>2 DEF Cycle
    <3>2. R[a] # x /\ R[a] # P
      BY <1>1, <1>3, <2>2, <3>1
    <3> QED
      BY <3>1, <3>2
  <2> QED
    BY <2>1, <2>2
<1>4. ASSUME NEW b \in M, b # x, b # P, b # S PROVE ~isIn(b, P, S)
  <2>1. ~isIn(b, P, x) /\ ~isIn(b, x, S)
    BY <1>1, <1>4 DEF Cycle
  <2>2. b \in Int /\ P \in Int /\ S \in Int /\ x \in Int
    BY <1>1
  <2>3. P # S => ~isIn(S, P, x)
    BY <1>1 DEF Cycle
  <2> QED
    BY <1>1, <1>4, <2>1, <2>2, <2>3, SMT DEF isIn
<1> QED
  BY <1>1, <1>2, <1>3, <1>4 DEF Cycle

--------------------------------------------------------------------------------
(* Who is in the ring, and who is half way. *)

\* Membership follows from what the thread of a peer does.
Role(x) ==
  /\ op[x].kind \in {"none", "join", "leave"}
  /\ op[x].kind = "none" => (x \in Members <=> state[x] = "in")
  /\ op[x].kind = "join" => (x \in Members <=> op[x].then = "init")
  /\ op[x].kind = "leave" =>
       (x \in Members <=> op[x].pc \notin {"replaceP", "term", "reset", "drop"} /\ op[x].then # "term")

\* Whether a peer is in the ring is told by what its thread is doing.
LEMMA Roles ==
  ASSUME RingInv, NEW x \in Peers
  PROVE  Role(x)
<1>1. OpFits(x) /\ op[x].kind \in {"none", "join", "leave"}
  BY DEF RingInv, OpsFit, TopologyTypes, Ops, Kinds
<1>2. CASE op[x].kind = "none"
  <2>1. op[x].pc = "idle" /\ op[x].then = "idle" /\ state[x] \in {"out", "in", "gone"}
    BY <1>1, <1>2 DEF OpFits, Idle
  <2> QED
    BY <1>2, <2>1 DEF Members, Role
<1>3. CASE op[x].kind = "join"
  BY <1>1, <1>3 DEF OpFits, JoinState, Members, Role
<1>4. CASE op[x].kind = "leave"
  BY <1>1, <1>4 DEF OpFits, LeaveState, Members, Role
<1> QED
  BY <1>1, <1>2, <1>3, <1>4

\* It does so after a step, too.
LEMMA RolesAfter ==
  ASSUME RingInv, [Next]_vars, NEW x \in Peers
  PROVE  Role(x)'
<1>1. OpFits(x)' /\ op'[x].kind \in {"none", "join", "leave"}
  BY OpsFitStep, TypesStep DEF OpsFit, TopologyTypes, Ops, Kinds
<1>2. CASE op'[x].kind = "none"
  <2>1. op'[x].pc = "idle" /\ op'[x].then = "idle" /\ state'[x] \in {"out", "in", "gone"}
    BY <1>1, <1>2 DEF OpFits, Idle
  <2> QED
    BY <1>2, <2>1 DEF Members, Role
<1>3. CASE op'[x].kind = "join"
  BY <1>1, <1>3 DEF OpFits, JoinState, Members, Role
<1>4. CASE op'[x].kind = "leave"
  BY <1>1, <1>4 DEF OpFits, LeaveState, Members, Role
<1> QED
  BY <1>1, <1>2, <1>3, <1>4

\* A peer that is half way is not in the ring, and has locked two peers that are.
LEMMA HalfOnes ==
  ASSUME RingInv, NEW x \in Peers, HalfWay(x)
  PROVE  /\ x \notin Members
         /\ op[x].p \in Members /\ op[x].s \in Members /\ op[x].p # op[x].s
         /\ succ[op[x].p] = x /\ pred[op[x].s] = op[x].p
         /\ lockedBy[op[x].p] = x /\ lockedBy[op[x].s] = x
         /\ op[x].pc = "notifyS" => op[x].kind = "join" /\ state[x] = "joining"
         /\ op[x].pc = "replaceP" => lockedBy[x] = x /\ op[x].kind = "leave" /\ state[x] = "in"
<1>1. LockFits(x) /\ Role(x) /\ op[x].p \in Peers /\ op[x].s \in Peers
  BY Roles, HoldersKnow DEF HalfWay, RingInv, LocksFit
<1>2. CASE op[x].pc = "notifyS"
  <2>1. op[x].kind = "join" /\ JoinState(x) /\ JoinPlace(x)
    BY <1>2, HoldersKnow
  <2>2. lockedBy[op[x].p] = x /\ lockedBy[op[x].s] = x
    BY <1>1, <1>2, <2>1 DEF LockFits, Subjects
  <2> QED
    BY <1>1, <1>2, <2>1, <2>2 DEF JoinPlace, JoinState, Role
<1>3. CASE op[x].pc = "replaceP"
  <2>1. op[x].kind = "leave" /\ LeaveState(x) /\ LeavePlace(x)
    BY <1>3, HoldersKnow
  <2>2. lockedBy[op[x].p] = x /\ lockedBy[op[x].s] = x /\ lockedBy[x] = x
    BY <1>1, <1>3, <2>1 DEF LockFits, Subjects
  <2> QED
    BY <1>1, <1>3, <2>1, <2>2 DEF LeavePlace, LeaveState, Role
<1> QED
  BY <1>2, <1>3 DEF HalfWay

\* Who has been locked by another one is not half way, and in the ring or departed.
LEMMA LockedOnes ==
  ASSUME RingInv, NEW p \in Peers, NEW q \in Peers, lockedBy[q] = p
  PROVE  /\ q # p => ~HalfWay(q)
         /\ state[q] \notin {"out", "joining"} /\ q \in Members \cup Departed
<1>1. state[q] \notin {"out", "joining"} /\ lockedBy[q] # NoPeer
  BY ChordIndexAssumption DEF RingInv, LocksFit, LockFits
<1> QED
  BY <1>1, HalfOnes DEF HalfWay, Departed

\* What the ring says of a peer, and of its two neighbours.
LEMMA RingOf ==
  ASSUME RingInv, NEW a \in Members
  PROVE  /\ a \in Peers /\ pred[a] \in Members /\ NextOf(a) \in Members /\ succ[a] \in Peers
         /\ pred[NextOf(a)] = a /\ NextOf(pred[a]) = a
         /\ \A b \in Members \ {a, NextOf(a)} : ~isIn(b, a, NextOf(a))
         /\ HalfWay(succ[a]) => op[succ[a]].p = a /\ NextOf(a) = op[succ[a]].s /\ succ[a] \notin Members
         /\ ~HalfWay(succ[a]) => NextOf(a) = succ[a]
<1>1. a \in Peers /\ succ[a] \in Peers
  BY DEF Members, RingInv, TopologyTypes
<1>2. Linked(a)
  BY DEF RingInv, RingLinked
<1> QED
  BY <1>1, <1>2, HalfOnes DEF Linked, NextOf

\* A peer that another one has locked has a successor that is in the ring.
LEMMA LockedNext ==
  ASSUME RingInv, NEW p \in Peers, NEW a \in Members, lockedBy[a] = p, ~HalfWay(p) \/ op[p].p # a
  PROVE  NextOf(a) = succ[a]
<1>1. HalfWay(succ[a]) => lockedBy[a] = succ[a]
  BY RingOf, HalfOnes
<1> QED
  BY <1>1, RingOf

Nexts == [a \in Peers |-> NextOf(a)]

\* The ring of the invariant is a cycle in the sense of the lemmas above.
LEMMA RingIsCycle ==
  ASSUME RingInv
  PROVE  Cycle(Members, Nexts, pred) /\ Members \in SUBSET Int
<1>1. Members \in SUBSET Peers /\ Members \in SUBSET Int
  BY ChordIndexAssumption DEF Members
<1>2. \A a \in Members : Nexts[a] = NextOf(a)
  BY <1>1 DEF Nexts
<1>3. ASSUME NEW a \in Members
      PROVE  /\ pred[a] \in Members /\ Nexts[a] \in Members /\ pred[Nexts[a]] = a /\ Nexts[pred[a]] = a
             /\ \A b \in Members \ {a, Nexts[a]} : ~isIn(b, a, Nexts[a])
  <2>1. /\ pred[a] \in Members /\ NextOf(a) \in Members /\ pred[NextOf(a)] = a /\ NextOf(pred[a]) = a
        /\ \A b \in Members \ {a, NextOf(a)} : ~isIn(b, a, NextOf(a))
    BY RingOf
  <2>2. Nexts[a] = NextOf(a) /\ Nexts[pred[a]] = NextOf(pred[a])
    BY <1>2, <2>1
  <2> QED
    BY <2>1, <2>2
<1> QED
  BY <1>1, <1>3 DEF Cycle

\* What is one cycle after a step is linked then.
Halves == \A a \in Members : HalfWay(succ[a]) => op[succ[a]].p = a

\* And the reverse, for the next state.
LEMMA CycleIsRing ==
  ASSUME Cycle(Members', Nexts', pred'), Halves'
  PROVE  RingLinked'
<1>1. ASSUME NEW a \in Members' PROVE Nexts'[a] = NextOf(a)'
  BY <1>1 DEF Nexts, Members
<1>2. \A a \in Members' : pred'[a] \in Members'
  BY DEF Cycle
<1> QED
  BY <1>1, <1>2 DEF Cycle, Halves, RingLinked, Linked

--------------------------------------------------------------------------------
(* What a step leaves alone. *)

\* A step of p adds or removes p only.
LEMMA MembersMove ==
  ASSUME NEW p \in Peers, Moves(p)
  PROVE  /\ \A x \in Peers \ {p} : (x \in Members' <=> x \in Members) /\ (HalfWay(x)' <=> HalfWay(x))
         /\ p \in Members' <=> p \in Members => Members' = Members
<1>1. \A x \in Peers \ {p} : x \in Members' <=> x \in Members
  BY DEF Members, Moves
<1>2. \A x \in Peers \ {p} : HalfWay(x)' <=> HalfWay(x)
  BY DEF HalfWay, Moves
<1>3. Members \subseteq Peers /\ Members' \subseteq Peers
  BY DEF Members
<1> QED
  BY <1>1, <1>2, <1>3

\* The peers that another thread has locked, or whose place it has found out,
\* are as that thread takes them to be.
Keeps(p, x) ==
  /\ \A q \in Peers : lockedBy[q] = x =>
       succ'[q] = succ[q] /\ pred'[q] = pred[q] /\ (q \in Members => q \in Members')
  /\ state[x] = "joining" => succ'[x] = succ[x] /\ pred'[x] = pred[x]
  /\ op[x].kind = "leave" /\ "joins" \in Apart /\ succ[x] = x /\ pred[x] = x => succ'[x] = x /\ pred'[x] = x

\* What another thread found out about its place stays true.
LEMMA OthersKeepPlace ==
  ASSUME RingInv, NEW p \in Peers, Moves(p), NEW x \in Peers, x # p, Keeps(p, x)
  PROVE  PlaceFits(x)'
<1>1. op'[x] = op[x]
  BY DEF Moves
<1>2. PlaceFits(x) /\ LockFits(x) /\ OpFits(x)
  BY DEF RingInv, PlacesFit, LocksFit, OpsFit
<1>3. ASSUME op[x].pc \in {"verify", "fetch", "push", "notifyP", "notifyS", "replaceS", "replaceP"}
      PROVE  /\ op[x].p \in Peers /\ op[x].s \in Peers
             /\ lockedBy[op[x].p] = x /\ lockedBy[op[x].s] = x
             /\ op[x].kind = "leave" => lockedBy[x] = x
  BY <1>2, <1>3, HoldersKnow DEF LockFits, Subjects
<1>4. ASSUME op[x].kind = "join" PROVE JoinPlace(x)'
  <2>1. state[x] = "joining" /\ JoinPlace(x)
    BY <1>2, <1>4 DEF OpFits, JoinState, PlaceFits
  <2>2. succ'[x] = succ[x] /\ pred'[x] = pred[x]
    BY <2>1 DEF Keeps
  <2>3. op[x].pc \in {"verify", "fetch", "notifyP", "notifyS"} =>
          /\ succ'[op[x].p] = succ[op[x].p] /\ pred'[op[x].s] = pred[op[x].s]
          /\ op[x].p \in Members => op[x].p \in Members'
          /\ op[x].s \in Members => op[x].s \in Members'
    BY <1>3 DEF Keeps
  <2> QED
    BY <1>1, <2>1, <2>2, <2>3 DEF JoinPlace
<1>5. ASSUME op[x].kind = "leave" PROVE LeavePlace(x)'
  <2>1. LeavePlace(x)
    BY <1>2, <1>5 DEF PlaceFits
  <2>2. op[x].pc \in {"verify", "push", "replaceS", "replaceP"} =>
          /\ succ'[x] = succ[x] /\ pred'[x] = pred[x]
          /\ succ'[op[x].p] = succ[op[x].p] /\ pred'[op[x].s] = pred[op[x].s]
          /\ op[x].p \in Members => op[x].p \in Members'
          /\ op[x].s \in Members => op[x].s \in Members'
    BY <1>3, <1>5 DEF Keeps
  <2>3. op[x].pc \in {"lock", "push"} /\ op[x].p = x =>
          "joins" \in Apart /\ op[x].s = x /\ succ'[x] = x /\ pred'[x] = x
    BY <1>5, <2>1 DEF Keeps, LeavePlace
  <2> QED
    BY <1>1, <2>1, <2>2, <2>3 DEF LeavePlace
<1> QED
  BY <1>1, <1>4, <1>5 DEF PlaceFits

\* When the last peer has left, nobody joins any more.
NobodyJoins ==
  /\ "joins" \in Apart
  /\ \A r \in Peers : state[r] # "joining" /\ (state[r] = "in" => op[r].kind = "leave")

\* When all peers of the ring are leaving, no peer joins any more.
LEMMA NobodyJoinsStep ==
  ASSUME RingInv, NEW p \in Peers, Topology(p), NobodyJoins
  PROVE  NobodyJoins'
<1>1. state \in [Peers -> States] /\ op \in [Peers -> Ops]
  BY DEF RingInv, TopologyTypes
<1>2. ASSUME NEW other \in Peers, StartJoin(p, other) PROVE FALSE
  <2>1. state[other] = "in" /\ Leaving = {}
    BY <1>2 DEF StartJoin, JoinsApart, NobodyJoins
  <2> QED
    BY <2>1 DEF NobodyJoins, Leaving
<1>3. ~JoinStep(p)
  BY JoinerKnows DEF NobodyJoins
<1>4. state'[p] # "joining" /\ (state'[p] = "in" => op'[p].kind = "leave")
  <2>1. CASE StartLeave(p)
    BY <2>1, Begins DEF SameRing, NobodyJoins
  <2>2. CASE TryLock(p)
    BY <2>2, TryLockDoes DEF GoesBack, NobodyJoins
  <2>3. CASE Unlock(p)
    <3>1. state' = state /\ op'[p].kind = op[p].kind
      BY <2>3, UnlockDoes DEF Goes, Rests, SameRing
    <3> QED
      BY <3>1 DEF NobodyJoins
  <2>4. CASE LeaveStep(p)
    <3>1. CASE LeaveNeighbours(p) \/ LeaveVerifyP(p) \/ LeaveVerifyS(p) \/ LeavePush(p)
      <4>1. state' = state /\ op'[p].kind = op[p].kind
        BY <3>1, LeaveLooksDo DEF Goes, GoesBack, Rests, SameRing
      <4> QED
        BY <4>1 DEF NobodyJoins
    <3>2. CASE LeaveReplaceS(p) \/ LeaveReplaceP(p)
      <4>1. state' = state /\ op'[p].kind = op[p].kind
        BY <3>2, LeaveChangesDo DEF Goes, GoesBack, Rests
      <4> QED
        BY <4>1 DEF NobodyJoins
    <3>3. CASE LeaveTerminate(p)
      <4>1. Rests \/ state' = [state EXCEPT ![p] = "left"]
        BY <3>3, LeaveChangesDo
      <4> QED
        BY <1>1, <4>1 DEF Rests, NobodyJoins
    <3>4. CASE LeaveReset(p)
      BY <1>1, <3>4, LeaveChangesDo
    <3>5. CASE LeaveDone(p)
      BY <1>1, <3>5, LeaveChangesDo
    <3> QED
      BY <2>4, <3>1, <3>2, <3>3, <3>4, <3>5 DEF LeaveStep
  <2> QED
    BY <1>2, <1>3, <2>1, <2>2, <2>3, <2>4 DEF Topology, TopologyStep
<1>5. \A r \in Peers \ {p} : state'[r] = state[r] /\ op'[r] = op[r]
  BY OneMoves DEF Moves, Topology
<1> QED
  BY <1>4, <1>5 DEF NobodyJoins

\* Nothing changes for the peers that have left the ring.
LEMMA DepartedStay ==
  ASSUME RingInv, NEW p \in Peers, Topology(p), Departed' = Departed,
         \A a \in Departed : succ'[a] = succ[a] /\ pred'[a] = pred[a]
  PROVE  DepartedFit'
<1>1. DepartedFit
  BY DEF RingInv
<1>2. \A a, b \in Departed' : a # b => ~(succ'[a] = b /\ pred'[b] = a)
  BY <1>1 DEF DepartedFit
<1>3. ASSUME NEW a \in Departed', succ'[a] = a PROVE NobodyJoins'
  <2>1. NobodyJoins
    BY <1>1, <1>3 DEF DepartedFit, NobodyJoins
  <2> QED
    BY <2>1, NobodyJoinsStep
<1> QED
  BY <1>2, <1>3 DEF DepartedFit, NobodyJoins

\* The ring is linked as before if everybody has the same neighbours.
LEMMA SameNeighbours ==
  ASSUME RingInv, Members' = Members, Halves',
         \A a \in Members : pred'[a] = pred[a] /\ Nexts'[a] = Nexts[a]
  PROVE  RingLinked'
<1>1. Cycle(Members, Nexts, pred)
  BY RingIsCycle
<1>2. Cycle(Members', Nexts', pred')
  BY <1>1 DEF Cycle
<1> QED
  BY <1>2, CycleIsRing

\* A step that tells no neighbour leaves the ring as it is.
Quiet(p) ==
  /\ p \in Members' <=> p \in Members
  /\ ~HalfWay(p) /\ ~HalfWay(p)'
  /\ p \in Members \/ (state'[p] \in {"out", "joining"} <=> state[p] \in {"out", "joining"})
  /\ \A a \in Peers \ {p} : succ'[a] = succ[a] /\ pred'[a] = pred[a]
  /\ p \in Members \cup Departed => succ'[p] = succ[p] /\ pred'[p] = pred[p]

\* A step that is quiet leaves the ring, and everybody else, as they were.
LEMMA QuietStep ==
  ASSUME RingInv, NEW p \in Peers, Topology(p), Quiet(p)
  PROVE  RingLinked' /\ DepartedFit' /\ \A x \in Peers \ {p} : Keeps(p, x)
<1>1. Moves(p)
  BY OneMoves DEF Topology
<1>2. Members' = Members /\ \A x \in Peers : HalfWay(x)' <=> HalfWay(x)
  BY <1>1, MembersMove DEF Quiet
<1>3. Members \subseteq Peers /\ Departed \subseteq Peers
  BY DEF Members, Departed
<1>4. \A a \in Members \cup Departed : succ'[a] = succ[a] /\ pred'[a] = pred[a]
  BY <1>3 DEF Quiet
<1>5. RingLinked'
  <2>1. ASSUME NEW a \in Members
        PROVE  Nexts'[a] = Nexts[a] /\ (HalfWay(succ[a])' => op'[succ'[a]].p = a)
    <3>1. succ'[a] = succ[a] /\ succ[a] \in Peers /\ a \in Peers
      BY <1>4, RingOf
    <3>2. CASE HalfWay(succ[a])
      <4>1. succ[a] # p
        BY <3>2 DEF Quiet
      <4>2. op'[succ[a]] = op[succ[a]] /\ HalfWay(succ[a])'
        BY <1>1, <1>2, <3>1, <3>2, <4>1 DEF Moves, HalfWay
      <4> QED
        BY <3>1, <3>2, <4>2, RingOf DEF Nexts, NextOf
    <3>3. CASE ~HalfWay(succ[a])
      <4>1. op'[succ[a]].pc \notin {"notifyS", "replaceP"}
        BY <1>2, <3>1, <3>3 DEF HalfWay
      <4> QED
        BY <3>1, <3>3, <4>1 DEF Nexts, NextOf, HalfWay
    <3> QED
      BY <3>2, <3>3
  <2>2. Halves'
    BY <1>2, <2>1 DEF Halves
  <2> QED
    BY <1>2, <1>4, <2>1, <2>2, SameNeighbours
<1>6. Departed' = Departed
  BY <1>1, <1>2 DEF Departed, Moves, Quiet
<1>7. ASSUME NEW x \in Peers, x # p PROVE Keeps(p, x)
  <2>1. ASSUME NEW q \in Peers, lockedBy[q] = x PROVE succ'[q] = succ[q] /\ pred'[q] = pred[q]
    BY <1>4, <1>7, <2>1, LockedOnes
  <2> QED
    BY <1>2, <1>7, <2>1 DEF Keeps, Quiet
<1> QED
  BY <1>4, <1>5, <1>6, <1>7, DepartedStay

\* A step of a join or a leave is a step of the specification.
LEMMA TopologyIsNext ==
  ASSUME NEW p \in Peers, Topology(p)
  PROVE  [Next]_vars
  BY DEF Topology, Next, Start

--------------------------------------------------------------------------------
(* Steps that tell no neighbour, and what the thread knows of its place    *)
(* after them.                                                             *)

\* What it knows matters only while it has locks, or is about to take them.
LEMMA NoPlace ==
  ASSUME NEW p \in Peers, op'[p].pc \in {"idle", "find", "ask", "read", "undo", "init", "term", "reset", "drop"}
  PROVE  PlaceFits(p)'
  BY DEF PlaceFits, JoinPlace, LeavePlace

\* The thread stays in the ring, or out of it.
SameRole(p) ==
  /\ op'[p].kind = op[p].kind /\ state'[p] = state[p]
  /\ op[p].pc \notin {"notifyS", "replaceP"} /\ op'[p].pc \notin {"notifyS", "replaceP"}
  /\ op'[p].then = "init" <=> op[p].then = "init"
  /\ op[p].kind = "leave" =>
       (op'[p].pc \in {"term", "reset", "drop"} \/ op'[p].then = "term" <=>
        op[p].pc \in {"term", "reset", "drop"} \/ op[p].then = "term")

\* A thread that keeps its role and writes no neighbours is quiet.
LEMMA SameRoleQuiet ==
  ASSUME RingInv, NEW p \in Peers, Topology(p), SameRole(p), UNCHANGED <<succ, pred>>
  PROVE  Quiet(p)
<1>1. Role(p) /\ Role(p)'
  BY TopologyIsNext, Roles, RolesAfter
<1>2. p \in Members' <=> p \in Members
  BY <1>1 DEF Role, SameRole
<1> QED
  BY <1>2 DEF Quiet, SameRole, HalfWay

\* A step that rests changes nothing that the thread knows.
LEMMA RestsPlace ==
  ASSUME RingInv, NEW p \in Peers, UNCHANGED <<succ, pred, state, op>>
  PROVE  PlaceFits(p)'
<1>1. PlaceFits(p) /\ Members' = Members
  BY DEF RingInv, PlacesFit, Members
<1> QED
  BY <1>1 DEF PlaceFits, JoinPlace, LeavePlace

\* A step that leaves the threads and the ring alone keeps all that is said of them.
LEMMA RestsRing ==
  ASSUME RingInv, Rests
  PROVE  PlacesFit' /\ RingLinked' /\ DepartedFit' /\ ApartFits'
<1>1. Members' = Members /\ Departed' = Departed /\ Joining' = Joining /\ Leaving' = Leaving
  BY DEF Rests, Members, Departed, Joining, Leaving
<1>2. PlacesFit'
  BY RestsPlace DEF Rests, PlacesFit
<1>3. RingLinked'
  BY <1>1 DEF RingInv, RingLinked, Linked, NextOf, HalfWay, Rests
<1>4. DepartedFit'
  BY <1>1 DEF RingInv, DepartedFit, Rests
<1>5. ApartFits'
  BY <1>1 DEF RingInv, ApartFits, Rests
<1> QED
  BY <1>2, <1>3, <1>4, <1>5

\* The first step of a join or a leave is quiet.
LEMMA BeginQuiet ==
  ASSUME RingInv, NEW p \in Peers, StartLeave(p) \/ \E other \in Peers : StartJoin(p, other)
  PROVE  Quiet(p) /\ PlaceFits(p)'
<1>1. Role(p) /\ Role(p)' /\ state \in [Peers -> States]
  BY TopologyIsNext, Roles, RolesAfter DEF Topology, RingInv, TopologyTypes
<1>2. op[p] = Idle
  BY DEF StartLeave, StartJoin
<1>3. op[p].kind = "none" /\ op[p].pc = "idle"
  BY <1>2 DEF Idle
<1>4. CASE StartLeave(p)
  <2>1. /\ op'[p].kind = "leave" /\ op'[p].pc = "read" /\ op'[p].then = "idle"
        /\ UNCHANGED <<succ, pred, state>> /\ state[p] = "in"
    BY <1>4, Begins DEF SameRing, StartLeave
  <2> QED
    BY <1>1, <1>3, <2>1, NoPlace DEF Role, Quiet, HalfWay
<1>5. ASSUME NEW other \in Peers, StartJoin(p, other) PROVE Quiet(p) /\ PlaceFits(p)'
  <2>1. /\ op'[p].kind = "join" /\ op'[p].pc = "find" /\ op'[p].then = "idle"
        /\ UNCHANGED <<succ, pred>> /\ state[p] = "out" /\ state'[p] = "joining"
    BY <1>1, <1>5, Begins DEF StartJoin, ringVars
  <2> QED
    BY <1>1, <1>3, <2>1, NoPlace DEF Role, Quiet, HalfWay
<1> QED
  BY <1>4, <1>5

\* So are tryLockInOrder and unlock().
LEMMA LocksQuiet ==
  ASSUME RingInv, NEW p \in Peers, p \notin aborted, TryLock(p) \/ Unlock(p)
  PROVE  Quiet(p) /\ PlaceFits(p)'
<1>1. Topology(p) /\ OpFits(p) /\ op[p].kind \in {"none", "join", "leave"}
  BY Roles DEF Topology, TopologyStep, RingInv, OpsFit, Role
<1>2. CASE TryLock(p)
  <2>1. UNCHANGED <<succ, pred, state>> /\ op[p].pc = "lock"
    BY <1>2, TryLockDoes
  <2>2. op[p].kind \in {"join", "leave"} /\ op[p].then \notin {"init", "term"}
    BY <1>1, <2>1, LocksPeers DEF OpFits, JoinState, LeaveState
  <2>3. CASE UNCHANGED op
    <3>1. SameRole(p)
      BY <2>1, <2>2, <2>3 DEF SameRole
    <3> QED
      BY <1>1, <2>1, <2>3, <3>1, SameRoleQuiet, RestsPlace
  <2>4. CASE GoesBack(p, InOrder(Held(p)), FirstStep(p))
    <3>1. SameRole(p) /\ op'[p].pc = "undo"
      BY <2>1, <2>2, <2>4 DEF SameRole, GoesBack, FirstStep
    <3> QED
      BY <1>1, <2>1, <3>1, SameRoleQuiet, NoPlace
  <2> QED
    BY <1>2, <2>3, <2>4, TryLockDoes
<1>3. CASE Unlock(p)
  <2>1. UNCHANGED <<succ, pred, state>> /\ op[p].pc = "undo"
    BY <1>3, UnlockDoes DEF Unlock, Rests, SameRing
  <2>2. CASE Rests
    <3>1. SameRole(p)
      BY <2>1, <2>2 DEF SameRole, Rests
    <3> QED
      BY <1>1, <2>1, <2>2, <3>1, SameRoleQuiet, RestsPlace DEF Rests
  <2>3. CASE ~Rests
    <3>1. /\ op'[p].kind = op[p].kind /\ op'[p].then = op[p].then
          /\ op'[p].pc \in {"undo", op[p].then}
      BY <1>3, <2>3, UnlockDoes DEF Goes
    <3>2. op[p].then \in {"idle", "find", "read", "init", "term"}
      BY <1>1 DEF OpFits, JoinState, LeaveState, Idle
    <3>3. SameRole(p)
      BY <2>1, <3>1, <3>2 DEF SameRole
    <3> QED
      BY <1>1, <2>1, <3>1, <3>2, <3>3, SameRoleQuiet, NoPlace
  <2> QED
    BY <2>2, <2>3
<1> QED
  BY <1>2, <1>3

\* Two peers that a joining peer has locked, and found to be neighbours, are in
\* the ring: two that have left it are not neighbours of each other.
LEMMA NeighboursAreMembers ==
  ASSUME RingInv, NEW p \in Peers, op[p].kind = "join", op[p].pc = "verify", op[p].ok, succ[op[p].p] = op[p].s
  PROVE  op[p].p \in Members /\ op[p].s \in Members /\ pred[op[p].s] = op[p].p
<1> DEFINE P == op[p].p
           S == op[p].s
<1>1. P \in Peers /\ S \in Peers /\ JoinState(p) /\ JoinPlace(p)
  BY HoldersKnow
<1>2. lockedBy[P] = p /\ lockedBy[S] = p
  BY DEF RingInv, LocksFit, LockFits, Subjects
<1>3. pred[S] = P
  BY <1>1 DEF JoinPlace
<1>4. P \in Members \cup Departed /\ S \in Members \cup Departed /\ state[p] = "joining"
  BY <1>1, <1>2, LockedOnes DEF JoinState
<1>5. P \in Members => S \in Members
  <2>1. P \in Members => NextOf(P) = S
    BY <1>2, LockedNext DEF HalfWay
  <2> QED
    BY <2>1, RingOf
<1>6. S \in Members => P \in Members
  BY <1>3, RingOf
<1>7. P \in Departed /\ S \in Departed => FALSE
  <2>1. DepartedFit
    BY DEF RingInv
  <2>2. P \in Departed => succ[P] # P
    BY <1>4, <2>1 DEF DepartedFit
  <2> QED
    BY <1>3, <2>1, <2>2 DEF DepartedFit
<1> QED
  BY <1>3, <1>4, <1>5, <1>6, <1>7

\* So is cleanJoin, but for the two notifications.
LEMMA JoinQuiet ==
  ASSUME RingInv, NEW p \in Peers, p \notin aborted,
         JoinPredecessor(p) \/ JoinSuccessor(p) \/ JoinVerifyS(p) \/ JoinVerifyP(p) \/ JoinFetch(p) \/ JoinDone(p)
  PROVE  Quiet(p) /\ PlaceFits(p)'
<1>1. Topology(p) /\ Moves(p) /\ op[p].kind = "join" /\ JoinState(p) /\ JoinPlace(p)
  <2>1. JoinStep(p) /\ Topology(p)
    BY DEF JoinStep, Topology, TopologyStep
  <2> QED
    BY <2>1, OneMoves, JoinerKnows DEF RingInv, OpsFit, OpFits, PlacesFit, PlaceFits, Topology
<1>2. Role(p) /\ Role(p)'
  BY <1>1, TopologyIsNext, Roles, RolesAfter
<1>3. op[p].pc # "notifyS"
  BY DEF JoinPredecessor, JoinSuccessor, JoinVerifyS, JoinVerifyP, JoinFetch, JoinDone
<1>4. op[p].pc # "replaceP" /\ op[p].then # "term"
  BY <1>1 DEF JoinState, JoinSteps
<1>5. CASE Rests
  <2>1. SameRole(p) /\ UNCHANGED <<succ, pred, state, op>>
    BY <1>1, <1>3, <1>4, <1>5 DEF SameRole, Rests
  <2> QED
    BY <1>1, <2>1, SameRoleQuiet, RestsPlace
<1>6. ASSUME NEW pc \in {"ask", "lock", "find", "verify", "fetch"}, NEW P, NEW S, SameRing, Goes(p, pc, P, S)
      PROVE  Quiet(p)
  <2>1. SameRole(p) /\ UNCHANGED <<succ, pred>>
    BY <1>1, <1>3, <1>4, <1>6 DEF SameRole, Goes, SameRing
  <2> QED
    BY <1>1, <2>1, SameRoleQuiet
<1>7. CASE JoinPredecessor(p) /\ ~Rests
  <2>1. SameRing /\ Goes(p, "ask", closestPrecedingFinger(op[p].p, p), op[p].s)
    BY <1>7, JoinLooksDo
  <2> QED
    BY <1>6, <2>1, NoPlace DEF Goes
<1>8. CASE JoinSuccessor(p) /\ ~Rests
  <2>1. /\ SameRing
        /\ \/ Goes(p, "lock", op[p].p, succ[op[p].p]) /\ isIn(p, op[p].p, succ[op[p].p])
           \/ Goes(p, "find", op[p].p, succ[op[p].p])
    BY <1>8, JoinLooksDo
  <2>2. Quiet(p)
    BY <1>6, <2>1
  <2>3. PlaceFits(p)'
    BY <1>1, <2>1, NoPlace DEF Goes, PlaceFits, JoinPlace
  <2> QED
    BY <2>2, <2>3
<1>9. CASE JoinVerifyS(p) /\ ~Rests
  <2>1. /\ SameRing /\ op[p].pc = "lock" /\ Goes(p, "verify", op[p].p, op[p].s)
        /\ op'[p].ok => pred[op[p].s] = op[p].p
    BY <1>9, JoinVerifiesDo
  <2>2. PlaceFits(p)'
    BY <1>1, <2>1 DEF Goes, PlaceFits, JoinPlace, SameRing
  <2> QED
    BY <1>6, <2>1, <2>2
<1>10. CASE JoinVerifyP(p) /\ ~Rests
  <2>1. /\ SameRing /\ op[p].pc = "verify"
        /\ \/ Goes(p, "fetch", op[p].p, op[p].s) /\ op[p].ok /\ succ[op[p].p] = op[p].s
           \/ GoesBack(p, Unlocks(p, op[p].p, op[p].s), "find")
    BY <1>10, JoinVerifiesDo
  <2>2. CASE Goes(p, "fetch", op[p].p, op[p].s) /\ op[p].ok /\ succ[op[p].p] = op[p].s
    <3>1. Quiet(p)
      BY <1>6, <2>1, <2>2
    <3>2. Members' = Members
      BY <1>1, <3>1, MembersMove DEF Quiet
    <3>3. op[p].p \in Members /\ op[p].s \in Members /\ pred[op[p].s] = op[p].p /\ isIn(p, op[p].p, op[p].s)
      BY <1>1, <2>1, <2>2, NeighboursAreMembers DEF JoinPlace
    <3>4. PlaceFits(p)'
      BY <1>1, <2>1, <2>2, <3>2, <3>3 DEF Goes, PlaceFits, JoinPlace, SameRing
    <3> QED
      BY <3>1, <3>4
  <2>3. CASE GoesBack(p, Unlocks(p, op[p].p, op[p].s), "find")
    <3>1. op[p].then # "init"
      BY <1>1, <2>1 DEF JoinState
    <3>2. SameRole(p) /\ UNCHANGED <<succ, pred>>
      BY <1>1, <1>4, <2>1, <2>3, <3>1 DEF SameRole, GoesBack, SameRing
    <3> QED
      BY <1>1, <2>3, <3>2, SameRoleQuiet, NoPlace DEF GoesBack
  <2> QED
    BY <2>1, <2>2, <2>3
<1>11. CASE JoinFetch(p) /\ ~Rests
  <2>1. /\ op[p].pc = "fetch" /\ UNCHANGED <<lockedBy, state>> /\ Goes(p, "notifyP", op[p].p, op[p].s)
        /\ pred' = [pred EXCEPT ![p] = op[p].p] /\ succ' = [succ EXCEPT ![p] = op[p].s]
    BY <1>11, JoinChangesDo
  <2>2. p \notin Members /\ p \notin Members' /\ p \notin Departed
    BY <1>1, <1>2, <2>1 DEF Role, JoinState, Goes, Departed
  <2>3. Quiet(p)
    BY <1>3, <1>4, <2>1, <2>2 DEF Quiet, HalfWay, Goes, RingInv, TopologyTypes
  <2>4. Members' = Members
    BY <1>1, <2>3, MembersMove DEF Quiet
  <2>5. /\ op[p].p \in Members /\ op[p].s \in Members /\ pred[op[p].s] = op[p].p
        /\ succ[op[p].p] = op[p].s /\ isIn(p, op[p].p, op[p].s)
    BY <1>1, <2>1 DEF JoinPlace
  <2>6. /\ pred'[op[p].s] = op[p].p /\ succ'[op[p].p] = op[p].s
        /\ pred'[p] = op[p].p /\ succ'[p] = op[p].s
    BY <2>1, <2>2, <2>5 DEF RingInv, TopologyTypes
  <2>7. PlaceFits(p)'
    BY <1>1, <2>1, <2>4, <2>5, <2>6 DEF Goes, PlaceFits, JoinPlace
  <2> QED
    BY <2>3, <2>7
<1>12. CASE JoinDone(p)
  <2>1. op[p].pc = "init" /\ UNCHANGED <<succ, pred>> /\ op'[p] = Idle /\ state'[p] = "in"
    BY <1>12, JoinLooksDo DEF ringVars, RingInv, TopologyTypes
  <2>2. op'[p].kind = "none" /\ op'[p].pc = "idle"
    BY <2>1 DEF Idle
  <2>3. p \in Members /\ p \in Members'
    BY <1>1, <1>2, <2>1, <2>2 DEF Role, JoinState
  <2> QED
    BY <2>1, <2>2, <2>3, NoPlace DEF Quiet, HalfWay
<1> QED
  BY <1>5, <1>7, <1>8, <1>9, <1>10, <1>11, <1>12

\* What has to be taken for granted: that no peer joins while one leaves, or
\* that the founder stays.
SomebodyStays == "joins" \in Apart \/ Founder \notin Leavers

\* A peer that is its own neighbour is the only one in the ring.
LEMMA LoneOne ==
  ASSUME RingInv, NEW p \in Members, pred[p] = p
  PROVE  succ[p] = p /\ Members = {p}
<1>1. NextOf(p) = p
  BY RingOf
<1>2. p \in Peers /\ succ[p] \in Peers
  BY RingOf
<1>3. ~HalfWay(succ[p])
  BY <1>1, <1>2, RingOf, HalfOnes
<1>4. succ[p] = p
  BY <1>1, <1>3, RingOf
<1>5. ASSUME NEW b \in Members, b # p PROVE FALSE
  BY <1>1, <1>5, RingOf DEF isIn
<1> QED
  BY <1>4, <1>5

\* So is leaveClean, but for the two replacements and the leave of a lone peer.
LEMMA LeaveQuiet ==
  ASSUME RingInv, SomebodyStays, NEW p \in Peers, p \notin aborted,
         \/ LeaveNeighbours(p) \/ LeaveVerifyP(p) \/ LeaveVerifyS(p) \/ (LeavePush(p) /\ op[p].s # p)
         \/ LeaveTerminate(p) \/ LeaveReset(p) \/ LeaveDone(p)
  PROVE  Quiet(p) /\ PlaceFits(p)'
<1>1. /\ Topology(p) /\ Moves(p) /\ op[p].kind = "leave" /\ LeaveState(p) /\ LeavePlace(p)
      /\ state \in [Peers -> States]
  <2>1. LeaveStep(p) /\ Topology(p)
    BY DEF LeaveStep, Topology, TopologyStep
  <2> QED
    BY <2>1, OneMoves, LeaverKnows DEF RingInv, PlacesFit, PlaceFits, Topology, TopologyTypes
<1>2. Role(p) /\ Role(p)'
  BY <1>1, TopologyIsNext, Roles, RolesAfter
<1>3. op[p].pc \notin {"notifyS", "replaceP"}
  BY <1>1 DEF LeaveNeighbours, LeaveVerifyP, LeaveVerifyS, LeavePush, LeaveTerminate, LeaveReset, LeaveDone,
     LeaveState, LeaveSteps
<1>4. op[p].then # "init"
  BY <1>1 DEF LeaveState
<1>5. CASE Rests
  <2>1. SameRole(p) /\ UNCHANGED <<succ, pred, state, op>>
    BY <1>1, <1>3, <1>5 DEF SameRole, Rests
  <2> QED
    BY <1>1, <2>1, SameRoleQuiet, RestsPlace
<1>6. ASSUME NEW pc \in {"lock", "verify", "push", "replaceS"}, NEW P, NEW S, SameRing, Goes(p, pc, P, S),
             op[p].pc \in {"read", "lock", "verify", "push"}
      PROVE  Quiet(p)
  <2>1. SameRole(p) /\ UNCHANGED <<succ, pred>>
    BY <1>1, <1>3, <1>4, <1>6 DEF SameRole, Goes, SameRing
  <2> QED
    BY <1>1, <2>1, SameRoleQuiet
<1>7. CASE LeaveNeighbours(p)
  <2>1. op[p].pc = "read" /\ SameRing /\ Goes(p, "lock", pred[p], succ[p])
    BY <1>7, LeaveLooksDo
  <2>2. p \in Members
    BY <1>1, <1>2, <2>1 DEF Role, LeaveState
  <2>3. ASSUME pred[p] = p PROVE "joins" \in Apart /\ succ[p] = p
    <3>1. succ[p] = p /\ Members = {p}
      BY <2>2, <2>3, LoneOne
    <3>2. Founder \notin Leavers => Founder \in Members /\ Founder # p
      <4>1. Founder \notin Leavers => state[Founder] = "in" /\ op[Founder] = Idle /\ Founder # p
        BY <1>1 DEF RingInv, ApartFits, LeaveState
      <4> QED
        BY <4>1, ChordIndexAssumption DEF Members, Idle
    <3> QED
      BY <3>1, <3>2 DEF SomebodyStays
  <2>4. PlaceFits(p)'
    BY <1>1, <2>1, <2>3 DEF PlaceFits, LeavePlace, Goes, SameRing
  <2> QED
    BY <1>6, <2>1, <2>4
<1>8. CASE LeaveVerifyP(p) /\ ~Rests
  <2>1. /\ op[p].pc = "lock" /\ SameRing
        /\ \/ op[p].p = p /\ op[p].s = p /\ Goes(p, "push", op[p].p, op[p].s)
           \/ /\ op[p].p # p /\ Goes(p, "verify", op[p].p, op[p].s)
              /\ op'[p].ok => succ[op[p].p] = p /\ pred[p] = op[p].p /\ succ[p] = op[p].s
    BY <1>8, LeaveLooksDo
  <2>2. PlaceFits(p)'
    <3>1. CASE op[p].p = p /\ op[p].s = p /\ Goes(p, "push", op[p].p, op[p].s)
      <4>1. "joins" \in Apart /\ succ[p] = p /\ pred[p] = p
        BY <1>1, <2>1, <3>1 DEF LeavePlace
      <4> QED
        BY <1>1, <2>1, <3>1, <4>1 DEF PlaceFits, LeavePlace, Goes, SameRing
    <3>2. CASE /\ op[p].p # p /\ Goes(p, "verify", op[p].p, op[p].s)
               /\ op'[p].ok => succ[op[p].p] = p /\ pred[p] = op[p].p /\ succ[p] = op[p].s
      BY <1>1, <2>1, <3>2 DEF PlaceFits, LeavePlace, Goes, SameRing
    <3> QED
      BY <2>1, <3>1, <3>2
  <2> QED
    BY <1>6, <2>1, <2>2
<1>9. CASE LeaveVerifyS(p) /\ ~Rests
  <2>1. /\ op[p].pc = "verify" /\ SameRing
        /\ \/ Goes(p, "push", op[p].p, op[p].s) /\ op[p].ok /\ pred[op[p].s] = p
           \/ \E locks : GoesBack(p, locks, "read")
    BY <1>9, LeaveLooksDo
  <2>2. CASE Goes(p, "push", op[p].p, op[p].s) /\ op[p].ok /\ pred[op[p].s] = p
    <3>1. op[p].p # p /\ succ[op[p].p] = p /\ pred[p] = op[p].p /\ succ[p] = op[p].s
      BY <1>1, <2>1, <2>2 DEF LeavePlace
    <3>2. PlaceFits(p)'
      BY <1>1, <2>1, <2>2, <3>1 DEF PlaceFits, LeavePlace, Goes, SameRing
    <3> QED
      BY <1>6, <2>1, <2>2, <3>2
  <2>3. ASSUME NEW locks, GoesBack(p, locks, "read") PROVE Quiet(p) /\ PlaceFits(p)'
    <3>1. op[p].then # "term"
      BY <1>1, <2>1 DEF LeaveState
    <3>2. SameRole(p) /\ UNCHANGED <<succ, pred>>
      BY <1>1, <1>3, <1>4, <2>1, <2>3, <3>1 DEF SameRole, GoesBack, SameRing
    <3> QED
      BY <1>1, <2>3, <3>2, SameRoleQuiet, NoPlace DEF GoesBack
  <2> QED
    BY <2>1, <2>2, <2>3
<1>10. CASE LeavePush(p) /\ op[p].s # p /\ ~Rests
  <2>1. op[p].pc = "push" /\ SameRing /\ Goes(p, "replaceS", op[p].p, op[p].s)
    BY <1>10, LeaveLooksDo
  <2>2. /\ succ[op[p].p] = p /\ pred[p] = op[p].p /\ succ[p] = op[p].s /\ pred[op[p].s] = p
        /\ op[p].p # p
    BY <1>1, <1>10, <2>1 DEF LeavePlace
  <2>3. PlaceFits(p)'
    BY <1>1, <2>1, <2>2 DEF PlaceFits, LeavePlace, Goes, SameRing
  <2> QED
    BY <1>6, <2>1, <2>3
<1>11. ASSUME NEW s \in {"left", "inactive", "gone"}, state' = [state EXCEPT ![p] = s], UNCHANGED <<succ, pred>>,
              op[p].pc \in {"term", "reset", "drop"},
              (op'[p].kind = "leave" /\ op'[p].pc \in {"reset", "drop"}) \/ op'[p] = Idle
       PROVE  Quiet(p) /\ PlaceFits(p)'
  <2>1. p \notin Members
    BY <1>1, <1>2, <1>11 DEF Role
  <2>2. op'[p].pc \in {"reset", "drop", "idle"} /\ p \notin Members'
    BY <1>1, <1>2, <1>11 DEF Role, Idle
  <2>3. state[p] \notin {"out", "joining"} /\ state'[p] \notin {"out", "joining"}
    BY <1>1, <1>11 DEF LeaveState
  <2> QED
    BY <1>3, <1>11, <2>1, <2>2, <2>3, NoPlace DEF Quiet, HalfWay
<1>12. CASE LeaveTerminate(p) /\ ~Rests
  <2>1. /\ op[p].pc = "term" /\ UNCHANGED <<succ, pred>> /\ state' = [state EXCEPT ![p] = "left"]
        /\ op'[p].kind = "leave" /\ op'[p].pc = "reset"
    BY <1>12, LeaveChangesDo
  <2> QED
    BY <1>11, <2>1
<1>13. CASE LeaveReset(p)
  <2>1. /\ op[p].pc = "reset" /\ UNCHANGED <<succ, pred>> /\ state' = [state EXCEPT ![p] = "inactive"]
        /\ op'[p].kind = "leave" /\ op'[p].pc = "drop"
    BY <1>1, <1>13, LeaveChangesDo DEF ringVars, Goes
  <2> QED
    BY <1>11, <2>1
<1>14. CASE LeaveDone(p)
  <2>1. /\ op[p].pc = "drop" /\ UNCHANGED <<succ, pred>> /\ state' = [state EXCEPT ![p] = "gone"]
        /\ op'[p] = Idle
    BY <1>14, LeaveChangesDo DEF ringVars
  <2> QED
    BY <1>11, <2>1
<1> QED
  BY <1>5, <1>7, <1>8, <1>9, <1>10, <1>12, <1>13, <1>14

--------------------------------------------------------------------------------
(* Steps that tell a neighbour. *)

\* Such a step changes the neighbours of peers that its thread has locked ...
LEMMA JoinKeeps ==
  ASSUME RingInv, NEW p \in Peers, state[p] = "joining", Members \subseteq Members',
         \A q \in Peers : lockedBy[q] # p => succ'[q] = succ[q] /\ pred'[q] = pred[q],
         NEW x \in Peers, x # p
  PROVE  Keeps(p, x)
<1>1. \A q \in Peers : lockedBy[q] = x =>
        succ'[q] = succ[q] /\ pred'[q] = pred[q] /\ (q \in Members => q \in Members')
  OBVIOUS
<1>2. state[x] = "joining" => succ'[x] = succ[x] /\ pred'[x] = pred[x]
  BY LockedOnes
<1>3. ~(op[x].kind = "leave" /\ "joins" \in Apart)
  BY DEF RingInv, ApartFits, Leaving, Joining
<1> QED
  BY <1>1, <1>2, <1>3 DEF Keeps

\* ... and one of a peer that leaves only where the neighbour is that peer.
LEMMA LeaveKeeps ==
  ASSUME RingInv, NEW p \in Peers, lockedBy[p] = p, Members \ {p} \subseteq Members',
         \A q \in Peers : /\ succ'[q] = succ[q] \/ (lockedBy[q] = p /\ succ[q] = p)
                          /\ pred'[q] = pred[q] \/ (lockedBy[q] = p /\ pred[q] = p),
         NEW x \in Peers, x # p
  PROVE  Keeps(p, x)
<1>1. \A q \in Peers : lockedBy[q] = x =>
        succ'[q] = succ[q] /\ pred'[q] = pred[q] /\ (q \in Members => q \in Members')
  OBVIOUS
<1>2. state[x] = "joining" => succ'[x] = succ[x] /\ pred'[x] = pred[x]
  BY LockedOnes
<1> QED
  BY <1>1, <1>2 DEF Keeps

\* A peer that is alone leaves the ring with its last entry in it.
LEMMA LoneLeaves ==
  ASSUME RingInv, NEW p \in Peers, p \notin aborted, LeavePush(p), op[p].s = p, ~Rests
  PROVE  /\ PlaceFits(p)' /\ RingLinked' /\ DepartedFit'
         /\ \A x \in Peers \ {p} : Keeps(p, x)
<1>1. /\ Topology(p) /\ Moves(p) /\ op[p].kind = "leave" /\ LeaveState(p) /\ LeavePlace(p)
  <2>1. LeaveStep(p) /\ Topology(p)
    BY DEF LeaveStep, Topology, TopologyStep
  <2> QED
    BY <2>1, OneMoves, LeaverKnows DEF RingInv, PlacesFit, PlaceFits, Topology
<1>2. op[p].pc = "push" /\ SameRing /\ Goes(p, "term", op[p].p, op[p].s)
  BY LeaveLooksDo
<1>3. Role(p) /\ Role(p)'
  BY <1>1, TopologyIsNext, Roles, RolesAfter
<1>4. p \in Members /\ p \notin Members'
  BY <1>1, <1>2, <1>3 DEF Role, LeaveState, Goes
<1>5. succ[p] = p /\ pred[p] = p /\ "joins" \in Apart
  BY <1>1, <1>2 DEF LeavePlace
<1>6. Members = {p} /\ Members' = {}
  <2>1. Members = {p} /\ Members' \subseteq Peers
    BY <1>4, <1>5, LoneOne DEF Members
  <2> QED
    BY <1>1, <1>4, <2>1, MembersMove
<1>7. RingLinked' /\ PlaceFits(p)'
  BY <1>2, <1>6, NoPlace DEF RingLinked, Goes
<1>8. UNCHANGED <<succ, pred, state>> /\ Departed' = Departed \cup {p} /\ p \notin Departed
  BY <1>1, <1>2, <1>4, <1>6 DEF Departed, SameRing, LeaveState
<1>9. NobodyJoins
  <2>1. ASSUME NEW r \in Peers, state[r] = "joining" PROVE FALSE
    BY <1>1, <1>5, <2>1 DEF RingInv, ApartFits, Leaving, Joining
  <2>2. ASSUME NEW r \in Peers, state[r] = "in", r # p PROVE op[r].kind = "leave"
    <3>1. Role(r) /\ OpFits(r) /\ r \notin Members
      BY <1>6, <2>2, Roles DEF RingInv, OpsFit
    <3> QED
      BY <2>2, <3>1 DEF Role, OpFits, JoinState
  <2> QED
    BY <1>1, <1>5, <2>1, <2>2 DEF NobodyJoins
<1>10. NobodyJoins'
  BY <1>1, <1>9, NobodyJoinsStep
<1>11. DepartedFit'
  <2>1. \A a, b \in Departed' : a # b => ~(succ'[a] = b /\ pred'[b] = a)
    BY <1>5, <1>8 DEF RingInv, DepartedFit
  <2> QED
    BY <1>10, <2>1 DEF DepartedFit, NobodyJoins
<1>12. lockedBy[p] = p
  BY <1>1, <1>2 DEF RingInv, LocksFit, LockFits, Subjects
<1>13. \A x \in Peers \ {p} : Keeps(p, x)
  BY <1>6, <1>8, <1>12, LeaveKeeps
<1> QED
  BY <1>7, <1>11, <1>13

\* Who has a peer for its successor.
LEMMA WhoPointsTo ==
  ASSUME RingInv, NEW p \in Peers, NEW a \in Members, succ[a] = p
  PROVE  \/ p \in Members /\ a = pred[p]
         \/ HalfWay(p) /\ a = op[p].p
  BY RingOf

\* A peer whose successor does not change, and does nothing, has the same next one.
LEMMA SameSuccessor ==
  ASSUME RingInv, NEW p \in Peers, Moves(p), NEW a \in Members, succ'[a] = succ[a], succ[a] # p
  PROVE  Nexts'[a] = Nexts[a] /\ (HalfWay(succ[a])' => op'[succ'[a]].p = a)
<1>1. succ[a] \in Peers /\ a \in Peers /\ op'[succ[a]] = op[succ[a]]
  BY RingOf DEF Moves
<1>2. Nexts'[a] = Nexts[a]
  BY <1>1 DEF Nexts, NextOf, HalfWay
<1>3. HalfWay(succ[a])' => op[succ[a]].p = a
  BY <1>1, RingOf DEF HalfWay
<1> QED
  BY <1>1, <1>2, <1>3

\* What a peer that tells its neighbours that it joins knows of them.
LEMMA Joiner ==
  ASSUME RingInv, NEW p \in Peers, op[p].pc \in {"notifyP", "notifyS"}
  PROVE  /\ op[p].kind = "join" /\ state[p] = "joining" /\ p \notin Members
         /\ op[p].p \in Members /\ op[p].s \in Members /\ pred[op[p].s] = op[p].p
         /\ Nexts[op[p].p] = op[p].s /\ isIn(p, op[p].p, op[p].s)
         /\ succ[p] = op[p].s /\ pred[p] = op[p].p
         /\ lockedBy[op[p].p] = p /\ lockedBy[op[p].s] = p
         /\ op[p].pc = "notifyP" => succ[op[p].p] = op[p].s
         /\ op[p].pc = "notifyS" => op[p].p # op[p].s /\ succ[op[p].p] = p
         /\ \A a \in Members : a # op[p].p => succ[a] # p
<1>1. op[p].kind = "join" /\ JoinState(p) /\ JoinPlace(p) /\ LockFits(p) /\ Role(p)
  BY HoldersKnow, Roles DEF RingInv, LocksFit
<1>2. p \notin Members /\ state[p] = "joining"
  BY <1>1 DEF Role, JoinState
<1>3. lockedBy[op[p].p] = p /\ lockedBy[op[p].s] = p
  BY <1>1 DEF LockFits, Subjects
<1>4. op[p].p \in Members /\ op[p].s \in Members /\ pred[op[p].s] = op[p].p
  BY <1>1 DEF JoinPlace
<1>5. Nexts[op[p].p] = op[p].s
  BY <1>4, RingOf DEF Nexts
<1>6. \A a \in Members : a # op[p].p => succ[a] # p
  BY <1>2, WhoPointsTo
<1> QED
  BY <1>1, <1>2, <1>3, <1>4, <1>5, <1>6 DEF JoinPlace

\* The first neighbour is told, the one before: for the ring nothing changes.
LEMMA JoinHalf ==
  ASSUME RingInv, NEW p \in Peers, p \notin aborted, JoinNotifyP(p), op[p].p # op[p].s, ~Rests
  PROVE  /\ PlaceFits(p)' /\ RingLinked' /\ DepartedFit'
         /\ \A x \in Peers \ {p} : Keeps(p, x)
<1> DEFINE P == op[p].p
           S == op[p].s
<1>1. Topology(p) /\ Moves(p) /\ succ \in [Peers -> Peers] /\ pred \in [Peers -> Peers]
  <2>1. Topology(p)
    BY DEF JoinStep, Topology, TopologyStep
  <2> QED
    BY <2>1, OneMoves DEF RingInv, Topology, TopologyTypes
<1>2. /\ op[p].pc = "notifyP" /\ state' = state /\ handleNotify(P, p)
      /\ Goes(p, "notifyS", P, S)
  BY JoinChangesDo DEF GoesBack
<1>3. /\ op[p].kind = "join" /\ state[p] = "joining" /\ p \notin Members
      /\ P \in Members /\ S \in Members /\ pred[S] = P /\ Nexts[P] = S /\ isIn(p, P, S)
      /\ succ[p] = S /\ pred[p] = P /\ lockedBy[P] = p /\ succ[P] = S
      /\ \A a \in Members : a # P => succ[a] # p
  BY <1>2, Joiner
<1>4. Members \in SUBSET Int /\ Members \subseteq Peers /\ p \in Int /\ Cycle(Members, Nexts, pred)
  BY RingIsCycle, ChordIndexAssumption DEF Members
<1>5. ~isIn(p, pred[P], P)
  <2>1. pred[P] \in Members /\ Nexts[pred[P]] = P
    BY <1>3, <1>4 DEF Cycle
  <2>2. pred[P] # P
    BY <1>3, <2>1
  <2>3. p \in Int \ Members
    BY <1>3, <1>4
  <2> QED
    BY ZenonT(40), <1>3, <1>4, <2>1, <2>2, <2>3, OnePlace
<1>6. succ' = [succ EXCEPT ![P] = p] /\ pred' = pred
  BY <1>1, <1>2, <1>3, <1>4, <1>5 DEF handleNotify
<1>7. Members' = Members
  <2>1. Role(p)'
    BY <1>1, TopologyIsNext, RolesAfter
  <2>2. op[p].then # "init"
    BY <1>2, <1>3, Roles DEF Role
  <2> QED
    BY <1>1, <1>2, <1>3, <2>1, <2>2, MembersMove DEF Role, Goes
<1>8. ASSUME NEW a \in Members
      PROVE  Nexts'[a] = Nexts[a] /\ (HalfWay(succ[a])' => op'[succ'[a]].p = a)
  <2>1. CASE a = P
    <3>1. succ'[a] = p /\ op'[p].pc = "notifyS" /\ op'[p].s = S /\ op'[p].p = P
      BY <1>1, <1>2, <1>4, <1>6, <2>1 DEF Goes
    <3> QED
      BY <1>3, <1>4, <2>1, <3>1 DEF Nexts, NextOf, HalfWay
  <2>2. CASE a # P
    <3>1. succ'[a] = succ[a] /\ succ[a] # p
      BY <1>1, <1>3, <1>6, <2>2
    <3> QED
      BY <1>1, <3>1, SameSuccessor
  <2> QED
    BY <2>1, <2>2
<1>9. RingLinked'
  <2>1. Halves'
    BY <1>7, <1>8 DEF Halves
  <2> QED
    BY <1>6, <1>7, <1>8, <2>1, SameNeighbours
<1>10. DepartedFit'
  <2>1. Departed' = Departed
    BY <1>2, <1>7 DEF Departed
  <2>2. \A a \in Departed : succ'[a] = succ[a] /\ pred'[a] = pred[a]
    BY <1>1, <1>3, <1>6 DEF Departed
  <2> QED
    BY <1>1, <2>1, <2>2, DepartedStay
<1>11. PlaceFits(p)'
  <2>1. succ'[P] = p /\ pred'[S] = P /\ succ'[p] = S /\ pred'[p] = P
    BY <1>1, <1>3, <1>4, <1>6
  <2> QED
    BY <1>2, <1>3, <1>7, <2>1 DEF PlaceFits, JoinPlace, Goes
<1>12. \A x \in Peers \ {p} : Keeps(p, x)
  BY <1>1, <1>3, <1>6, <1>7, JoinKeeps
<1> QED
  BY <1>9, <1>10, <1>11, <1>12

\* Both neighbours are told: the new peer is in the ring between them.
LEMMA JoinInserts ==
  ASSUME RingInv, NEW p \in Peers, p \notin aborted, ~Rests,
         JoinNotifyS(p) \/ (JoinNotifyP(p) /\ op[p].p = op[p].s)
  PROVE  /\ PlaceFits(p)' /\ RingLinked' /\ DepartedFit'
         /\ \A x \in Peers \ {p} : Keeps(p, x)
<1> DEFINE P == op[p].p
           S == op[p].s
<1>1. Topology(p) /\ Moves(p) /\ succ \in [Peers -> Peers] /\ pred \in [Peers -> Peers]
  <2>1. Topology(p)
    BY DEF JoinStep, Topology, TopologyStep
  <2> QED
    BY <2>1, OneMoves DEF RingInv, Topology, TopologyTypes
<1>2. /\ op[p].pc \in {"notifyP", "notifyS"} /\ state' = state
      /\ op[p].pc = "notifyP" => P = S
      /\ handleNotify(S, p)
      /\ op'[p].kind = op[p].kind /\ op'[p].pc = "undo" /\ op'[p].then = "init"
  <2>1. CASE JoinNotifyS(p)
    BY <2>1, JoinChangesDo DEF GoesBack
  <2>2. CASE JoinNotifyP(p) /\ P = S
    BY <2>2, JoinChangesDo DEF GoesBack
  <2> QED
    BY <2>1, <2>2
<1>3. /\ op[p].kind = "join" /\ state[p] = "joining" /\ p \notin Members
      /\ P \in Members /\ S \in Members /\ pred[S] = P /\ Nexts[P] = S /\ isIn(p, P, S)
      /\ succ[p] = S /\ pred[p] = P /\ lockedBy[P] = p /\ lockedBy[S] = p
      /\ op[p].pc = "notifyP" => succ[P] = S
      /\ op[p].pc = "notifyS" => P # S /\ succ[P] = p
      /\ \A a \in Members : a # P => succ[a] # p
  BY <1>2, Joiner
<1>4. Members \in SUBSET Int /\ Members \subseteq Peers /\ p \in Int \ Members /\ Cycle(Members, Nexts, pred)
  BY <1>3, RingIsCycle, ChordIndexAssumption DEF Members
<1>5. pred' = [pred EXCEPT ![S] = p]
  BY <1>1, <1>2, <1>3, <1>4 DEF handleNotify
<1>6. succ' = [succ EXCEPT ![P] = p]
  <2>1. CASE op[p].pc = "notifyP"
    <3>1. P = S /\ isIn(p, S, succ[S])
      BY <1>2, <1>3, <2>1
    <3>2. succ' = [succ EXCEPT ![S] = p]
      BY <1>1, <1>2, <3>1 DEF handleNotify
    <3> QED
      BY <3>1, <3>2
  <2>2. CASE op[p].pc = "notifyS"
    <3>1. P # S /\ succ[P] = p
      BY <1>3, <2>2
    <3>2. succ[S] = Nexts[S]
      BY <1>3, <1>4, <3>1, LockedNext DEF Nexts
    <3>3. ~isIn(p, S, succ[S])
      <4>1. P \in Members /\ S \in Members /\ pred[S] = P /\ isIn(p, P, S)
        BY <1>3
      <4> HIDE DEF P, S
      <4>2. ~isIn(p, S, Nexts[S])
        BY <1>4, <3>1, <4>1, OnePlace
      <4> QED
        BY <3>2, <4>2
    <3>4. succ' = succ
      BY <1>1, <1>2, <3>3 DEF handleNotify
    <3> QED
      BY <1>1, <1>4, <3>1, <3>4
  <2> QED
    BY <1>2, <2>1, <2>2
<1>7. Members' = Members \cup {p}
  <2>1. Role(p)' /\ Members' \subseteq Peers
    BY <1>1, TopologyIsNext, RolesAfter DEF Members
  <2>2. p \in Members'
    BY <1>2, <1>3, <2>1 DEF Role
  <2> QED
    BY <1>1, <1>4, <2>1, <2>2, MembersMove
<1>8. S # p /\ P # p /\ ~HalfWay(S) /\ S \in Peers /\ P \in Peers
  BY <1>3, <1>4, LockedOnes
<1>9. succ'[P] = p /\ succ'[p] = S /\ pred'[S] = p /\ pred'[p] = P
  BY <1>1, <1>3, <1>4, <1>5, <1>6, <1>8
<1>10. Nexts'[P] = p /\ (\A a \in {P} : ~HalfWay(succ[a])')
  BY <1>2, <1>8, <1>9 DEF Nexts, NextOf, HalfWay
<1>11. Nexts'[p] = S /\ ~HalfWay(succ[p])'
  <2>1. op'[S].pc \notin {"notifyS", "replaceP"}
    BY <1>1, <1>8 DEF Moves, HalfWay
  <2> QED
    BY <1>8, <1>9, <2>1 DEF Nexts, NextOf, HalfWay
<1>12. ASSUME NEW a \in Members, a # P
       PROVE  Nexts'[a] = Nexts[a] /\ (HalfWay(succ[a])' => op'[succ'[a]].p = a)
  <2>1. succ'[a] = succ[a] /\ succ[a] # p
    BY <1>1, <1>3, <1>6, <1>12
  <2> QED
    BY <1>1, <2>1, SameSuccessor
<1>13. RingLinked'
  <2>1. Halves'
    <3>1. ASSUME NEW a \in Members' PROVE HalfWay(succ[a])' => op'[succ'[a]].p = a
      BY <1>7, <1>10, <1>11, <1>12, <3>1
    <3> QED
      BY <3>1 DEF Halves
  <2>2. \A a \in Members \ {S} : pred'[a] = pred[a]
    BY <1>5
  <2>3. \A a \in Members \ {P} : Nexts'[a] = Nexts[a]
    BY <1>12
  <2>4. P \in Members /\ S \in Members /\ pred[S] = P /\ isIn(p, P, S) /\ pred'[S] = p /\ pred'[p] = P
    BY <1>3, <1>9
  <2>5. Nexts'[P] = p /\ Nexts'[p] = S
    BY <1>10, <1>11
  <2> HIDE DEF P, S
  <2>6. Cycle(Members \cup {p}, Nexts', pred')
    BY <1>4, <2>2, <2>3, <2>4, <2>5, InsertPeer
  <2> QED
    BY <1>7, <2>1, <2>6, CycleIsRing
<1>14. DepartedFit'
  <2>1. Departed' = Departed
    BY <1>2, <1>3, <1>7 DEF Departed
  <2>2. \A a \in Departed : succ'[a] = succ[a] /\ pred'[a] = pred[a]
    BY <1>1, <1>3, <1>5, <1>6 DEF Departed
  <2> QED
    BY <1>1, <2>1, <2>2, DepartedStay
<1>15. \A x \in Peers \ {p} : Keeps(p, x)
  BY <1>1, <1>3, <1>5, <1>6, <1>7, JoinKeeps
<1> QED
  BY <1>2, <1>13, <1>14, <1>15, NoPlace

\* What a peer that tells its successor that it leaves knows of its neighbours.
LEMMA Leaver ==
  ASSUME RingInv, NEW p \in Peers, op[p].pc = "replaceS"
  PROVE  /\ op[p].kind = "leave" /\ state[p] = "in" /\ p \in Members
         /\ op[p].p # p /\ op[p].s # p /\ op[p].p \in Members /\ op[p].s \in Members
         /\ pred[p] = op[p].p /\ succ[p] = op[p].s /\ Nexts[p] = op[p].s
         /\ succ[op[p].p] = p /\ pred[op[p].s] = p
         /\ lockedBy[op[p].p] = p /\ lockedBy[op[p].s] = p /\ lockedBy[p] = p
         /\ \A a \in Members : a # op[p].p => succ[a] # p
<1>1. op[p].kind = "leave" /\ LeaveState(p) /\ LeavePlace(p) /\ LockFits(p) /\ Role(p)
  BY HoldersKnow, Roles DEF RingInv, LocksFit
<1>2. p \in Members /\ state[p] = "in" /\ ~HalfWay(p)
  BY <1>1 DEF Role, LeaveState, HalfWay
<1>3. lockedBy[op[p].p] = p /\ lockedBy[op[p].s] = p /\ lockedBy[p] = p
  BY <1>1 DEF LockFits, Subjects
<1>4. /\ op[p].p # p /\ pred[p] = op[p].p /\ succ[p] = op[p].s
      /\ succ[op[p].p] = p /\ pred[op[p].s] = p
  BY <1>1 DEF LeavePlace
<1>5. op[p].s # p
  BY <1>4
<1>6. NextOf(p) = succ[p]
  BY <1>2, <1>3, LockedNext
<1>7. Nexts[p] = op[p].s
  BY <1>4, <1>6 DEF Nexts
<1>8. op[p].p \in Members /\ op[p].s \in Members
  BY <1>2, <1>4, <1>6, RingOf
<1>9. \A a \in Members : a # op[p].p => succ[a] # p
  BY <1>2, <1>4, WhoPointsTo
<1> QED
  BY <1>1, <1>2, <1>3, <1>4, <1>5, <1>7, <1>8, <1>9

\* The first neighbour is told, the one after: the peer is no longer in the ring.
LEMMA LeaveRemoves ==
  ASSUME RingInv, NEW p \in Peers, p \notin aborted, LeaveReplaceS(p), ~Rests
  PROVE  /\ PlaceFits(p)' /\ RingLinked' /\ DepartedFit'
         /\ \A x \in Peers \ {p} : Keeps(p, x)
<1> DEFINE P == op[p].p
           S == op[p].s
<1>1. Topology(p) /\ Moves(p) /\ succ \in [Peers -> Peers] /\ pred \in [Peers -> Peers]
  <2>1. Topology(p)
    BY DEF LeaveStep, Topology, TopologyStep
  <2> QED
    BY <2>1, OneMoves DEF RingInv, Topology, TopologyTypes
<1>2. /\ op[p].pc = "replaceS" /\ state' = state /\ handleReplace(S, p, P)
      /\ op'[p].kind = op[p].kind /\ op'[p].p = P /\ op'[p].s = S
      /\ IF P = S THEN op'[p].pc = "undo" /\ op'[p].then = "term" ELSE op'[p].pc = "replaceP"
  BY LeaveChangesDo DEF Goes, GoesBack
<1>3. /\ op[p].kind = "leave" /\ state[p] = "in" /\ p \in Members
      /\ P # p /\ S # p /\ P \in Members /\ S \in Members
      /\ pred[p] = P /\ succ[p] = S /\ Nexts[p] = S /\ succ[P] = p /\ pred[S] = p
      /\ lockedBy[P] = p /\ lockedBy[S] = p /\ lockedBy[p] = p
  BY <1>2, Leaver
<1>4. \A a \in Members : a # P => succ[a] # p
  BY <1>2, Leaver
<1>5. Members \in SUBSET Int /\ Members \subseteq Peers /\ Cycle(Members, Nexts, pred)
  BY RingIsCycle DEF Members
<1>6. P \in Peers /\ S \in Peers /\ ~HalfWay(P)
  BY <1>3, <1>5, LockedOnes
<1>7. pred' = [pred EXCEPT ![S] = P]
  BY <1>1, <1>2, <1>3, <1>6 DEF handleReplace
<1>8. succ' = IF P = S THEN [succ EXCEPT ![P] = S] ELSE succ
  <2>1. CASE P = S
    <3>1. succ[S] = p
      BY <1>3, <2>1
    <3>2. succ' = [succ EXCEPT ![S] = P]
      BY <1>1, <1>2, <3>1 DEF handleReplace
    <3> QED
      BY <2>1, <3>2
  <2>2. CASE P # S
    <3>1. succ[S] # p
      BY <1>3, <1>4, <2>2
    <3>2. succ' = succ
      BY <1>1, <1>2, <3>1 DEF handleReplace
    <3> QED
      BY <2>2, <3>2
  <2> QED
    BY <2>1, <2>2
<1>9. Members' = Members \ {p}
  <2>1. Role(p)' /\ Members' \subseteq Peers
    BY <1>1, TopologyIsNext, RolesAfter DEF Members
  <2>2. p \notin Members'
    BY <1>2, <1>3, <2>1 DEF Role
  <2> QED
    BY <1>1, <1>5, <2>1, <2>2, MembersMove
<1>10. Nexts'[P] = S /\ (\A a \in {P} : HalfWay(succ[a])' => op'[succ'[a]].p = a)
  <2>1. CASE P = S
    <3>1. succ'[P] = P /\ op'[P].pc \notin {"notifyS", "replaceP"}
      BY <1>1, <1>3, <1>6, <1>8, <2>1 DEF Moves, HalfWay
    <3> QED
      BY <1>6, <2>1, <3>1 DEF Nexts, NextOf, HalfWay
  <2>2. CASE P # S
    <3>1. succ'[P] = p /\ op'[p].pc = "replaceP" /\ op'[p].p = P /\ op'[p].s = S
      BY <1>2, <1>3, <1>8, <2>2
    <3> QED
      BY <1>6, <3>1 DEF Nexts, NextOf, HalfWay
  <2> QED
    BY <2>1, <2>2
<1>11. ASSUME NEW a \in Members, a # p, a # P
       PROVE  Nexts'[a] = Nexts[a] /\ (HalfWay(succ[a])' => op'[succ'[a]].p = a)
  <2>1. succ'[a] = succ[a] /\ succ[a] # p
    BY <1>1, <1>4, <1>8, <1>11
  <2> QED
    BY <1>1, <2>1, SameSuccessor
<1>12. RingLinked'
  <2>1. Halves'
    <3>1. ASSUME NEW a \in Members' PROVE HalfWay(succ[a])' => op'[succ'[a]].p = a
      BY <1>9, <1>10, <1>11, <3>1
    <3> QED
      BY <3>1 DEF Halves
  <2>2. \A a \in Members \ {p, S} : pred'[a] = pred[a]
    BY <1>7
  <2>3. \A a \in Members \ {p, P} : Nexts'[a] = Nexts[a]
    BY <1>11
  <2>4. pred[p] = P /\ Nexts[p] = S /\ P # p /\ Nexts'[P] = S /\ pred'[S] = P
    BY <1>1, <1>3, <1>6, <1>7, <1>10
  <2> HIDE DEF P, S
  <2>5. Cycle(Members \ {p}, Nexts', pred')
    BY <1>3, <1>5, <2>2, <2>3, <2>4, RemovePeer
  <2> QED
    BY <1>9, <2>1, <2>5, CycleIsRing
<1>13. Departed' = Departed \cup {p} /\ P \notin Departed' /\ S \notin Departed'
  <2>1. P \in Members' /\ S \in Members'
    BY <1>3, <1>9
  <2>2. Departed' = Departed \cup {p}
    BY <1>2, <1>3, <1>9 DEF Departed
  <2> HIDE DEF P, S
  <2> QED
    BY <2>1, <2>2 DEF Departed
<1>14. \A a \in Departed : succ'[a] = succ[a] /\ pred'[a] = pred[a]
  BY <1>3, <1>7, <1>8 DEF Departed
<1>15. succ'[p] = S /\ pred'[p] = P
  BY <1>3, <1>7, <1>8
<1>16. DepartedFit'
  <2>1. \A a, b \in Departed' : a # b => ~(succ'[a] = b /\ pred'[b] = a)
    <3>1. \A a, b \in Departed : a # b => ~(succ'[a] = b /\ pred'[b] = a)
      BY <1>14 DEF RingInv, DepartedFit
    <3> QED
      BY <1>13, <1>15, <3>1
  <2>2. ASSUME NEW a \in Departed', succ'[a] = a PROVE NobodyJoins'
    <3>1. a \in Departed /\ succ[a] = a
      BY <1>3, <1>13, <1>14, <1>15, <2>2
    <3>2. NobodyJoins
      BY <3>1 DEF RingInv, DepartedFit, NobodyJoins
    <3> QED
      BY <1>1, <3>2, NobodyJoinsStep
  <2> QED
    BY <2>1, <2>2 DEF DepartedFit, NobodyJoins
<1>17. PlaceFits(p)'
  <2>1. CASE P = S
    BY <1>2, <2>1, NoPlace
  <2>2. CASE P # S
    <3>1. P \in Members' /\ S \in Members' /\ succ'[P] = p /\ pred'[S] = P
      BY <1>1, <1>3, <1>6, <1>7, <1>8, <1>9, <2>2
    <3> QED
      BY <1>2, <1>3, <2>2, <3>1 DEF PlaceFits, LeavePlace
  <2> QED
    BY <2>1, <2>2
<1>18. \A x \in Peers \ {p} : Keeps(p, x)
  <2>1. \A q \in Peers : /\ succ'[q] = succ[q] \/ (lockedBy[q] = p /\ succ[q] = p)
                         /\ pred'[q] = pred[q] \/ (lockedBy[q] = p /\ pred[q] = p)
    BY <1>1, <1>3, <1>7, <1>8
  <2> QED
    BY <1>3, <1>9, <2>1, LeaveKeeps
<1> QED
  BY <1>12, <1>16, <1>17, <1>18

\* The other neighbour is told: its successor is the next one again.
LEMMA LeaveCloses ==
  ASSUME RingInv, NEW p \in Peers, p \notin aborted, LeaveReplaceP(p), ~Rests
  PROVE  /\ PlaceFits(p)' /\ RingLinked' /\ DepartedFit'
         /\ \A x \in Peers \ {p} : Keeps(p, x)
<1> DEFINE P == op[p].p
           S == op[p].s
<1>1. Topology(p) /\ Moves(p) /\ succ \in [Peers -> Peers] /\ pred \in [Peers -> Peers]
  <2>1. Topology(p)
    BY DEF LeaveStep, Topology, TopologyStep
  <2> QED
    BY <2>1, OneMoves DEF RingInv, Topology, TopologyTypes
<1>2. /\ op[p].pc = "replaceP" /\ state' = state /\ handleReplace(P, p, S)
      /\ op'[p].kind = op[p].kind /\ op'[p].pc = "undo" /\ op'[p].then = "term"
  BY LeaveChangesDo DEF GoesBack
<1>3. /\ op[p].kind = "leave" /\ p \notin Members /\ P \in Members /\ S \in Members /\ P # S
      /\ succ[P] = p /\ pred[S] = P /\ lockedBy[P] = p /\ lockedBy[S] = p /\ lockedBy[p] = p
  BY <1>2, HalfOnes DEF HalfWay
<1>4. Members \subseteq Peers
  BY DEF Members
<1>5. pred' = pred /\ succ' = [succ EXCEPT ![P] = S]
  <2>1. pred[P] # p
    BY <1>3, RingOf
  <2> QED
    BY <1>1, <1>2, <1>3, <1>4, <2>1 DEF handleReplace
<1>6. Members' = Members
  <2>1. Role(p)'
    BY <1>1, TopologyIsNext, RolesAfter
  <2> QED
    BY <1>1, <1>2, <1>3, <2>1, MembersMove DEF Role
<1>7. S # p /\ op'[S].pc \notin {"notifyS", "replaceP"}
  BY <1>1, <1>3, <1>4, LockedOnes DEF Moves, HalfWay
<1>8. ASSUME NEW a \in Members
      PROVE  Nexts'[a] = Nexts[a] /\ (HalfWay(succ[a])' => op'[succ'[a]].p = a)
  <2>1. CASE a = P
    <3>1. Nexts[a] = S
      BY <1>3, <1>4, <2>1, RingOf DEF Nexts
    <3>2. succ'[a] = S
      BY <1>1, <1>4, <1>5, <2>1
    <3> QED
      BY <1>4, <1>7, <3>1, <3>2 DEF Nexts, NextOf, HalfWay
  <2>2. CASE a # P
    <3>1. succ'[a] = succ[a] /\ succ[a] # p
      BY <1>1, <1>3, <1>5, <2>2, WhoPointsTo
    <3> QED
      BY <1>1, <3>1, SameSuccessor
  <2> QED
    BY <2>1, <2>2
<1>9. RingLinked'
  <2>1. Halves'
    BY <1>6, <1>8 DEF Halves
  <2> QED
    BY <1>5, <1>6, <1>8, <2>1, SameNeighbours
<1>10. DepartedFit'
  <2>1. Departed' = Departed
    BY <1>2, <1>6 DEF Departed
  <2>2. \A a \in Departed : succ'[a] = succ[a] /\ pred'[a] = pred[a]
    BY <1>1, <1>3, <1>5 DEF Departed
  <2> QED
    BY <1>1, <2>1, <2>2, DepartedStay
<1>11. \A x \in Peers \ {p} : Keeps(p, x)
  <2>1. \A q \in Peers : /\ succ'[q] = succ[q] \/ (lockedBy[q] = p /\ succ[q] = p)
                         /\ pred'[q] = pred[q] \/ (lockedBy[q] = p /\ pred[q] = p)
    BY <1>1, <1>3, <1>5
  <2> QED
    BY <1>3, <1>6, <2>1, LeaveKeeps
<1> QED
  BY <1>2, <1>9, <1>10, <1>11, NoPlace

--------------------------------------------------------------------------------
(* The ring after every step. *)

\* The ring stays one, whatever thread steps.
LEMMA RingStep ==
  ASSUME RingInv, SomebodyStays, NEW p \in Peers, Topology(p), ~Rests
  PROVE  PlacesFit' /\ RingLinked' /\ DepartedFit'
<1>1. Moves(p)
  BY OneMoves DEF Topology
<1>2. ASSUME PlaceFits(p)', RingLinked', DepartedFit', \A x \in Peers \ {p} : Keeps(p, x)
      PROVE  PlacesFit' /\ RingLinked' /\ DepartedFit'
  <2>1. ASSUME NEW x \in Peers, x # p PROVE PlaceFits(x)'
    BY <1>1, <1>2, <2>1, OthersKeepPlace
  <2> QED
    BY <1>2, <2>1 DEF PlacesFit
<1>3. ASSUME Quiet(p), PlaceFits(p)' PROVE PlacesFit' /\ RingLinked' /\ DepartedFit'
  BY <1>2, <1>3, QuietStep
<1>4. CASE StartLeave(p) \/ \E other \in Peers : StartJoin(p, other)
  BY <1>3, <1>4, BeginQuiet
<1>5. CASE TopologyStep(p)
  <2>1. p \notin aborted
    BY <1>5 DEF TopologyStep
  <2>2. CASE TryLock(p) \/ Unlock(p)
    BY <1>3, <2>1, <2>2, LocksQuiet
  <2>3. CASE JoinStep(p)
    <3>1. CASE \/ JoinPredecessor(p) \/ JoinSuccessor(p) \/ JoinVerifyS(p) \/ JoinVerifyP(p)
               \/ JoinFetch(p) \/ JoinDone(p)
      BY <1>3, <2>1, <3>1, JoinQuiet
    <3>2. CASE JoinNotifyP(p) /\ op[p].p # op[p].s
      BY <1>2, <2>1, <3>2, JoinHalf
    <3>3. CASE JoinNotifyS(p) \/ (JoinNotifyP(p) /\ op[p].p = op[p].s)
      BY <1>2, <2>1, <3>3, JoinInserts
    <3> QED
      BY <2>3, <3>1, <3>2, <3>3 DEF JoinStep
  <2>4. CASE LeaveStep(p)
    <3>1. CASE \/ LeaveNeighbours(p) \/ LeaveVerifyP(p) \/ LeaveVerifyS(p) \/ (LeavePush(p) /\ op[p].s # p)
               \/ LeaveTerminate(p) \/ LeaveReset(p) \/ LeaveDone(p)
      BY <1>3, <2>1, <3>1, LeaveQuiet
    <3>2. CASE LeavePush(p) /\ op[p].s = p
      BY <1>2, <2>1, <3>2, LoneLeaves
    <3>3. CASE LeaveReplaceS(p)
      BY <1>2, <2>1, <3>3, LeaveRemoves
    <3>4. CASE LeaveReplaceP(p)
      BY <1>2, <2>1, <3>4, LeaveCloses
    <3> QED
      BY <2>4, <3>1, <3>2, <3>3, <3>4 DEF LeaveStep
  <2> QED
    BY <1>5, <2>2, <2>3, <2>4 DEF TopologyStep
<1> QED
  BY <1>4, <1>5 DEF Topology

\* A thread that joins or leaves goes on doing so until it has ended.
LEMMA KindStays ==
  ASSUME RingInv, NEW p \in Peers, TopologyStep(p)
  PROVE  /\ op[p].kind # "none"
         /\ op'[p].kind = "leave" => op[p].kind = "leave"
         /\ state'[p] = "joining" => state[p] = "joining"
<1>1. OpFits(p)' /\ OpFits(p) /\ op[p].kind \in {"none", "join", "leave"}
  BY OpsFitStep, TopologyIsNext, Roles DEF Topology, RingInv, OpsFit, Role
<1>2. op[p].kind # "none"
  <2>1. CASE TryLock(p) \/ Unlock(p)
    <3>1. op[p].pc # "idle"
      BY <2>1 DEF TryLock, Unlock
    <3> QED
      BY <1>1, <3>1 DEF OpFits, Idle
  <2> QED
    BY <2>1, JoinerKnows, LeaverKnows DEF TopologyStep
<1>3. CASE TryLock(p)
  BY <1>2, <1>3, TryLockDoes DEF GoesBack
<1>4. CASE Unlock(p)
  <2>1. state' = state /\ op'[p].kind = op[p].kind
    BY <1>4, UnlockDoes DEF Goes, Rests, SameRing
  <2> QED
    BY <1>2, <2>1
<1>5. CASE JoinStep(p)
  <2>1. op'[p].kind # "leave"
    <3>1. op[p].kind = "join" /\ op[p].kind # "leave"
      BY <1>5, JoinerKnows
    <3>2. CASE JoinDone(p)
      <4>1. op'[p] = Idle
        BY <3>2, JoinLooksDo
      <4> QED
        BY <4>1 DEF Idle
    <3>3. CASE JoinPredecessor(p) \/ JoinSuccessor(p)
      BY <3>1, <3>3, JoinLooksDo DEF Goes, Rests
    <3>4. CASE JoinVerifyS(p) \/ JoinVerifyP(p)
      BY <3>1, <3>4, JoinVerifiesDo DEF Goes, GoesBack, Rests
    <3>5. CASE JoinFetch(p) \/ JoinNotifyP(p) \/ JoinNotifyS(p)
      BY <3>1, <3>5, JoinChangesDo DEF Goes, GoesBack, Rests
    <3> QED
      BY <1>5, <3>2, <3>3, <3>4, <3>5 DEF JoinStep
  <2> QED
    BY <1>2, <1>5, <2>1, JoinerKnows
<1>6. CASE LeaveStep(p)
  <2>1. op[p].kind = "leave" /\ state[p] \notin {"out", "joining"}
    BY <1>6, LeaverKnows DEF LeaveState
  <2>2. state'[p] # "joining"
    BY <1>6, <2>1, LocksMove DEF Topology, TopologyStep
  <2> QED
    BY <1>2, <2>1, <2>2
<1> QED
  BY <1>3, <1>4, <1>5, <1>6 DEF TopologyStep

\* What is taken not to overlap does not.
LEMMA ApartFitsStep ==
  ASSUME RingInv, NEW p \in Peers, Topology(p)
  PROVE  ApartFits'
<1>1. Moves(p) /\ ApartFits
  BY OneMoves DEF Topology, RingInv
<1>2. CASE StartLeave(p)
  <2>1. p \in Leavers /\ state' = state /\ ("joins" \in Apart => Joining = {})
    BY <1>2, Begins DEF StartLeave, LeavesApart, SameRing
  <2>2. Joining' = Joining
    BY <2>1 DEF Joining
  <2> QED
    BY <1>1, <2>1, <2>2, ChordIndexAssumption DEF ApartFits, Moves
<1>3. ASSUME NEW other \in Peers, StartJoin(p, other) PROVE ApartFits'
  <2>1. p # Founder /\ ("joins" \in Apart => Leaving = {}) /\ op'[p].kind = "join"
    BY <1>3, Begins DEF StartJoin, JoinsApart
  <2>2. Leaving = {} => Leaving' = {}
    BY <1>1, <2>1 DEF Leaving, Moves
  <2> QED
    BY <1>1, <2>1, <2>2, ChordIndexAssumption DEF ApartFits, Moves
<1>4. CASE TopologyStep(p)
  <2>1. /\ op[p].kind # "none"
        /\ op'[p].kind = "leave" => op[p].kind = "leave"
        /\ state'[p] = "joining" => state[p] = "joining"
    BY <1>4, KindStays
  <2>2. Leaving' \subseteq Leaving /\ Joining' \subseteq Joining
    BY <1>1, <2>1 DEF Leaving, Joining, Moves
  <2>3. Founder \notin Leavers => p # Founder
    BY <1>1, <2>1 DEF ApartFits, Idle
  <2> QED
    BY <1>1, <2>2, <2>3, ChordIndexAssumption DEF ApartFits, Moves
<1> QED
  BY <1>2, <1>3, <1>4 DEF Topology

\* The founder alone is a ring.
LEMMA RingInvInit ==
  ASSUME Init
  PROVE  RingInv
<1>1. \A x \in Peers : /\ op[x] = Idle /\ succ[x] = x /\ pred[x] = x /\ lockedBy[x] = NoPeer
                       /\ state[x] = IF x = Founder THEN "in" ELSE "out"
  BY DEF Init
<1>2. /\ Idle.kind = "none" /\ Idle.pc = "idle" /\ Idle.then = "idle"
  BY DEF Idle
<1>3. TopologyTypes
  BY IdleTypes DEF Init, TopologyTypes, States, PeersOrNone
<1>4. OpsFit /\ LocksFit /\ PlacesFit
  <2>1. ASSUME NEW x \in Peers PROVE op[x].kind = "none" /\ op[x].pc = "idle" /\ op[x].then = "idle"
    BY <1>1, <1>2
  <2>2. OpsFit
    BY <1>1, <2>1 DEF OpsFit, OpFits
  <2>3. LocksFit
    BY <1>1, <2>1 DEF LocksFit, LockFits
  <2>4. PlacesFit
    BY <2>1 DEF PlacesFit, PlaceFits
  <2> QED
    BY <2>2, <2>3, <2>4
<1>5. Members = {Founder}
  <2>1. ASSUME NEW x \in Peers PROVE x \in Members <=> x = Founder
    <3>1. op[x].pc = "idle" /\ op[x].then = "idle" /\ state[x] = IF x = Founder THEN "in" ELSE "out"
      BY <1>1, <1>2
    <3> QED
      BY <3>1 DEF Members
  <2>2. Founder \in Peers /\ Members \subseteq Peers
    BY ChordIndexAssumption DEF Members
  <2> QED
    BY <2>1, <2>2
<1>6. RingLinked
  <2>1. NextOf(Founder) = Founder /\ ~HalfWay(succ[Founder]) /\ pred[Founder] = Founder
    BY <1>1, <1>2, ChordIndexAssumption DEF NextOf, HalfWay
  <2> QED
    BY <1>5, <2>1 DEF RingLinked, Linked
<1>7. Departed = {}
  BY <1>1, <1>5 DEF Departed
<1>8. Leaving = {} /\ Joining = {}
  BY <1>1, <1>2 DEF Leaving, Joining
<1> QED
  BY <1>1, <1>3, <1>4, <1>6, <1>7, <1>8, ChordIndexAssumption DEF RingInv, DepartedFit, ApartFits

\* The invariant is inductive.
LEMMA RingInvStep ==
  ASSUME RingInv, SomebodyStays, [Next]_vars
  PROVE  RingInv'
<1>1. TopologyTypes' /\ OpsFit'
  BY TypesStep, OpsFitStep
<1>2. CASE Rests
  <2>1. LocksFit'
    BY <1>2 DEF Rests, RingInv, LocksFit, LockFits, Subjects
  <2> QED
    BY <1>1, <1>2, <2>1, RestsRing DEF RingInv
<1>3. ASSUME NEW p \in Peers, Topology(p), ~Rests PROVE RingInv'
  BY <1>1, <1>3, LocksFitStep, RingStep, ApartFitsStep DEF RingInv
<1>4. Rests \/ \E p \in Peers : Topology(p)
  <2>1. CASE UNCHANGED vars
    BY <2>1 DEF vars, Rests
  <2>2. ASSUME NEW p \in Peers, Start(p) \/ TopologyStep(p) \/ CallStep(p) PROVE Rests \/ Topology(p)
    BY <2>2, CallsRest DEF Start, Topology
  <2> QED
    BY <2>1, <2>2 DEF Next
<1> QED
  BY <1>2, <1>3, <1>4

\* The invariant of the ring: what every peer takes for its predecessor is
\* right, what it takes for its successor is right or half way, and whoever
\* joins or leaves has locked the neighbours that it found.
THEOREM RingInvariant ==
  ASSUME SomebodyStays
  PROVE  Spec => []RingInv
<1>1. Init => RingInv
  BY RingInvInit
<1>2. RingInv /\ [Next]_vars => RingInv'
  BY RingInvStep
<1> QED
  BY <1>1, <1>2, PTL DEF Spec

\* However joins and leaves interleave, the ring is one cycle in the order of
\* the hashes (cleanJoin, leaveClean, chord-index.cc), for any peers: if no
\* peer joins while one leaves, or the founder of the index does not leave.
THEOREM RingStaysOneCycle ==
  ASSUME SomebodyStays
  PROVE  Spec => []RingIsOneCycle
<1>1. RingInv => RingIsOneCycle
  <2> SUFFICES ASSUME RingInv, HandingOver = {}, NEW p \in Members
               PROVE  /\ succ[p] \in Members /\ pred[p] \in Members
                      /\ Between(p, succ[p]) = {} /\ pred[succ[p]] = p
    BY DEF RingIsOneCycle
  <2>1. succ[p] \in Peers
    BY RingOf
  <2>2. ~HalfWay(succ[p])
    BY <2>1 DEF HandingOver, HalfWay
  <2>3. NextOf(p) = succ[p]
    BY <2>2, RingOf
  <2> QED
    BY <2>3, RingOf DEF Between
<1> QED
  BY <1>1, RingInvariant, PTL

\* Who is asked for entries or told of a change is in the ring, and locked by the
\* peer that tells it, so that the CHECKs and LOG(FATAL)s of
\* handleFetchResponsibilities, handleNotifyClean and handleReplace are out of
\* reach.
NeighboursReady ==
  \A p \in Peers :
    /\ op[p].pc \in {"fetch", "notifyP", "notifyS"} =>
         \A q \in {op[p].p, op[p].s} : lockedBy[q] = p /\ Fatal(q, p) = {}
    /\ op[p].pc = "replaceS" => ~ReplaceRejected(op[p].s, p) /\ Fatal(op[p].s, p) = {}
    /\ op[p].pc = "replaceP" => ~ReplaceRejected(op[p].p, p) /\ Fatal(op[p].p, p) = {}

\* A peer of the ring that is locked answers every request.
LEMMA LockedMembersAnswer ==
  ASSUME RingInv, NEW p \in Peers, NEW q \in Members, lockedBy[q] = p
  PROVE  Fatal(q, p) = {}
<1>1. q \in Peers /\ state[q] \in {"in", "joining"}
  BY DEF Members
<1>2. state[q] = "in"
  BY <1>1, LockedOnes
<1> QED
  BY <1>2 DEF Fatal, Declines

\* No join or leave is ended by a neighbour that is not ready for it
\* (chord-index.cc, handleNotifyClean and handleReplace check the lock).
THEOREM NeighboursAreReady ==
  ASSUME SomebodyStays
  PROVE  Spec => []NeighboursReady
<1>1. RingInv => NeighboursReady
  <2> SUFFICES ASSUME RingInv, NEW p \in Peers
               PROVE  /\ op[p].pc \in {"fetch", "notifyP", "notifyS"} =>
                           \A q \in {op[p].p, op[p].s} : lockedBy[q] = p /\ Fatal(q, p) = {}
                      /\ op[p].pc = "replaceS" => ~ReplaceRejected(op[p].s, p) /\ Fatal(op[p].s, p) = {}
                      /\ op[p].pc = "replaceP" => ~ReplaceRejected(op[p].p, p) /\ Fatal(op[p].p, p) = {}
    BY DEF NeighboursReady
  <2>1. ASSUME op[p].pc \in {"fetch", "notifyP", "notifyS"}
        PROVE  \A q \in {op[p].p, op[p].s} : lockedBy[q] = p /\ q \in Members
    <3>1. op[p].kind = "join" /\ JoinPlace(p) /\ LockFits(p)
      BY <2>1, HoldersKnow DEF RingInv, LocksFit
    <3> QED
      BY <2>1, <3>1 DEF JoinPlace, LockFits, Subjects
  <2>2. ASSUME op[p].pc = "replaceS"
        PROVE  lockedBy[op[p].s] = p /\ op[p].s \in Members /\ pred[op[p].s] = p
    BY <2>2, Leaver
  <2>3. ASSUME op[p].pc = "replaceP"
        PROVE  lockedBy[op[p].p] = p /\ op[p].p \in Members /\ succ[op[p].p] = p
    BY <2>3, HalfOnes DEF HalfWay
  <2> QED
    BY <2>1, <2>2, <2>3, LockedMembersAnswer DEF ReplaceRejected
<1> QED
  BY <1>1, RingInvariant, PTL

--------------------------------------------------------------------------------
(* What is stored.  A peer keeps what it has handed over, and overwrites   *)
(* what its successor has with all of it when it leaves.  That none of it  *)
(* is older than what it overwrites is due to the founder, if it stays: a  *)
(* peer between the founder and another one has had nothing of what is     *)
(* between itself and the other one.                                       *)

Writes == {"announce", "renounce"}
AtPeer == {"ask", "step", "last", "access"}

\* A use of the index, and what it takes along.
AnyChunk == Chunks \cup {NoCall.chunk}
Requests == [pc : {"idle", "own"} \cup AtPeer, kind : {"none", "seek"} \cup Writes, chunk : AnyChunk,
             adds : Answered, at : PeersOrNone, entry : SUBSET Peers, sure : SUBSET Peers]

Holders(c) == {p \in Peers : <<p, c>> \in holds}
Known(entry) == IF entry = Absent THEN {} ELSE entry

StoreTypes ==
  /\ data \in [Peers -> [Chunks -> Entries]] /\ call \in [Peers -> Requests]
  /\ holds \subseteq Peers \X Chunks
  /\ \A p \in Peers : /\ call[p].pc \in AtPeer => call[p].at \in Peers
                      /\ call[p].kind # "none" => call[p].chunk \in Chunks
                      /\ call[p].adds => call[p].kind \in Writes

\* A peer that changes an entry stays, gets to the peer in charge of it, and
\* brings along all holders but itself.
WriterFits(p) ==
  call[p].kind \in Writes =>
    /\ op[p] = Idle /\ state[p] = "in"
    /\ call[p].pc \in AtPeer => call[p].at \in Members
    /\ call[p].pc = "last" => isIn(Key(p), call[p].at, succ[call[p].at])
    /\ call[p].pc = "access" => isIn(Key(p), pred[call[p].at], call[p].at)
    /\ call[p].kind = "renounce" => <<p, call[p].chunk>> \notin holds
    /\ call[p].adds => /\ Holders(call[p].chunk) \subseteq call[p].entry
                       /\ call[p].kind = "announce" => p \in call[p].entry

\* A peer has entries only from the founder on, and only up to itself ...
EntriesFit(p) == p # Founder => \A c \in Chunks : data[p][c] # Absent => isIn(HashOf[c], Founder, p)

\* ... and the one in charge has all holders of each chunk.
Stored(c) == \E o \in Members : isIn(HashOf[c], pred[o], o) /\ Holders(c) \subseteq Known(data[o][c])

\* What has been handed over is the same on both sides, until the ring has changed.
Handed(p) ==
  /\ op[p].pc \in {"notifyP", "notifyS"} =>
       \A c \in Chunks : ~isIn(HashOf[c], p, op[p].s) => data[p][c] = data[op[p].s][c]
  /\ op[p].pc = "replaceS" =>
       \A c \in Chunks : data[p][c] # Absent => data[op[p].s][c] = data[p][c]

WritersFit == \A p \in Peers : WriterFits(p)
AllEntriesFit == \A p \in Peers : EntriesFit(p)
AllStored == \A c \in Chunks : Stored(c)
AllHanded == \A p \in Peers : Handed(p)
WritesFit ==
  /\ \A p, q \in Writing : p = q
  /\ Writing # {} => HandingOver = {}

StoreInv == StoreTypes /\ WritersFit /\ AllEntriesFit /\ AllStored /\ AllHanded /\ WritesFit

\* The founder stays, and entries are not changed while others are handed over.
StoreApart == Founder \notin Leavers /\ "writes" \in Apart

--------------------------------------------------------------------------------
(* Arcs of the ring. *)

\* No peer of the ring is between one and its predecessor.
LEMMA NobodyBetween ==
  ASSUME RingInv, NEW o \in Members
  PROVE  /\ o \in Int /\ o \in Peers /\ pred[o] \in Members /\ pred[o] \in Int
         /\ \A b \in Members \ {pred[o], o} : ~isIn(b, pred[o], o)
<1>1. pred[o] \in Members /\ NextOf(pred[o]) = o
  BY RingOf
<1>2. \A b \in Members \ {pred[o], o} : ~isIn(b, pred[o], o)
  BY <1>1, RingOf
<1> QED
  BY <1>1, <1>2, ChordIndexAssumption DEF Members

\* A key has one peer in charge.
LEMMA OneOwner ==
  ASSUME RingInv, NEW o \in Members, NEW r \in Members, NEW key \in Int,
         isIn(key, pred[o], o), isIn(key, pred[r], r)
  PROVE  o = r
<1> SUFFICES ASSUME o # r PROVE FALSE
  OBVIOUS
<1> DEFINE P == pred[o]
           R == pred[r]
<1>1. /\ o \in Int /\ P \in Int /\ r \in Int /\ R \in Int
      /\ r # P => ~isIn(r, P, o)
      /\ o # R => ~isIn(o, R, r)
      /\ P # R /\ P # r => ~isIn(P, R, r)
      /\ R # P /\ R # o => ~isIn(R, P, o)
  BY NobodyBetween
<1>2. P # R
  <2>1. NextOf(P) = o /\ NextOf(R) = r
    BY RingOf
  <2> QED
    BY <2>1
<1>3. isIn(key, P, o) /\ isIn(key, R, r)
  OBVIOUS
<1> HIDE DEF P, R
<1> QED
  BY <1>1, <1>2, <1>3 DEF isIn

\* What a peer is in charge of is between the founder and that peer.
LEMMA FounderBefore ==
  ASSUME RingInv, Founder \in Members, NEW o \in Members, o # Founder, NEW key \in Int, isIn(key, pred[o], o)
  PROVE  isIn(key, Founder, o)
<1> DEFINE P == pred[o]
<1>1. /\ o \in Int /\ P \in Int /\ Founder \in Int
      /\ Founder # P => ~isIn(Founder, P, o)
      /\ isIn(key, P, o)
  BY NobodyBetween
<1> HIDE DEF P
<1> QED
  BY <1>1 DEF isIn

\* A peer that joins gets what is between the founder and itself.
LEMMA FounderBeforeJoiner ==
  ASSUME RingInv, Founder \in Members, NEW S \in Members, NEW x \in Int, x # Founder, x # S,
         isIn(x, pred[S], S), NEW key \in Int, ~isIn(key, x, S), S = Founder \/ isIn(key, Founder, S)
  PROVE  isIn(key, Founder, x)
<1> DEFINE P == pred[S]
<1>1. /\ S \in Int /\ P \in Int /\ Founder \in Int
      /\ Founder # P /\ Founder # S => ~isIn(Founder, P, S)
      /\ isIn(x, P, S)
  BY NobodyBetween
<1> HIDE DEF P
<1>2. CASE S = Founder
  BY <1>1, <1>2 DEF isIn
<1>3. CASE S # Founder
  BY <1>1, <1>3 DEF isIn
<1> QED
  BY <1>2, <1>3

\* One that leaves has nothing of what its successor is in charge of.
LEMMA FounderBeforeLeaver ==
  ASSUME RingInv, Founder \in Members, NEW S \in Members, NEW x \in Int, x # Founder, x # S,
         pred[S] = x, NEW key \in Int, isIn(key, Founder, x)
  PROVE  /\ ~isIn(key, x, S)
         /\ S # Founder => isIn(key, Founder, S)
<1>1. /\ S \in Int /\ Founder \in Int
      /\ Founder # S => ~isIn(Founder, x, S)
  BY NobodyBetween
<1> QED
  BY <1>1 DEF isIn

\* Between P and S is between P and x or between x and S.
LEMMA ArcSplits ==
  ASSUME NEW P \in Int, NEW S \in Int, NEW x \in Int, x # P, x # S, P # S => isIn(x, P, S), NEW key \in Int
  PROVE  isIn(key, P, S) <=> isIn(key, P, x) \/ isIn(key, x, S)
  BY DEF isIn

--------------------------------------------------------------------------------
(* Joins and leaves: what they do to the entries. *)

\* They leave the uses of the index alone, and write entries in three steps.
LEMMA DataMoves ==
  ASSUME NEW p \in Peers, Topology(p)
  PROVE  /\ call' = call /\ holds' = holds
         /\ \/ data' = data
            \/ JoinFetch(p) /\ data' = [data EXCEPT ![p] = handleFetchResponsibilities(op[p].s, p)]
            \/ /\ LeavePush(p) /\ op[p].s # p
               /\ data' = [data EXCEPT ![op[p].s] = handlePushResponsibilities(op[p].s, data[p])]
            \/ LeaveDone(p) /\ data' = [data EXCEPT ![p] = [c \in Chunks |-> Absent]]
<1>1. CASE StartLeave(p) \/ \E other \in Peers : StartJoin(p, other)
  BY <1>1 DEF StartLeave, StartJoin, callVars
<1>2. CASE TryLock(p) \/ Unlock(p)
  BY <1>2 DEF TryLock, Unlock, callVars
<1>3. CASE JoinStep(p)
  BY <1>3 DEF JoinStep, JoinPredecessor, JoinSuccessor, JoinVerifyS, JoinVerifyP, JoinFetch, JoinNotifyP,
     JoinNotifyS, Notify, JoinDone, callVars
<1>4. CASE LeaveStep(p)
  <2>1. CASE LeavePush(p)
    BY <2>1 DEF LeavePush, callVars
  <2>2. CASE \/ LeaveNeighbours(p) \/ LeaveVerifyP(p) \/ LeaveVerifyS(p) \/ LeaveReplaceS(p) \/ LeaveReplaceP(p)
             \/ LeaveTerminate(p) \/ LeaveReset(p) \/ LeaveDone(p)
    BY <2>2 DEF LeaveNeighbours, LeaveVerifyP, LeaveVerifyS, LeaveReplaceS, LeaveReplaceP,
       Replace, LeaveTerminate, LeaveReset, LeaveDone, callVars
  <2> QED
    BY <1>4, <2>1, <2>2 DEF LeaveStep
<1> QED
  BY <1>1, <1>2, <1>3, <1>4 DEF Topology, TopologyStep

\* Entries are handed over from the steps on that write them.
LEMMA HandoverBegins ==
  ASSUME RingInv, NEW p \in Peers, Topology(p), op'[p].pc \in {"notifyP", "notifyS", "replaceS", "replaceP"}
  PROVE  /\ op'[p].s = op[p].s
         /\ op'[p].pc = "notifyP" => op[p].pc = "notifyP" \/ (op[p].pc = "fetch" /\ JoinFetch(p))
         /\ op'[p].pc = "notifyS" => op[p].pc \in {"notifyP", "notifyS"}
         /\ op'[p].pc = "replaceS" => op[p].pc = "replaceS" \/ (op[p].pc = "push" /\ LeavePush(p) /\ op[p].s # p)
         /\ op'[p].pc = "replaceP" => op[p].pc \in {"replaceS", "replaceP"}
<1>1. CASE Rests
  BY <1>1 DEF Rests
<1>2. CASE (StartLeave(p) \/ \E other \in Peers : StartJoin(p, other)) /\ ~Rests
  BY <1>2, Begins
<1>3. CASE TryLock(p) /\ ~Rests
  BY <1>3, TryLockDoes DEF GoesBack
<1>4. CASE Unlock(p) /\ ~Rests
  <2>1. op[p].then \in {"idle", "find", "read", "init", "term"}
    BY DEF RingInv, TopologyTypes, Ops, Afterwards
  <2> QED
    BY <1>4, <2>1, UnlockDoes DEF Goes
<1>5. CASE JoinStep(p) /\ ~Rests
  <2>1. CASE JoinDone(p)
    <3>1. op'[p] = Idle
      BY <2>1, JoinLooksDo
    <3> QED
      BY <3>1 DEF Idle
  <2>2. CASE JoinPredecessor(p) \/ JoinSuccessor(p)
    BY <1>5, <2>2, JoinLooksDo DEF Goes
  <2>3. CASE JoinVerifyS(p) \/ JoinVerifyP(p)
    BY <1>5, <2>3, JoinVerifiesDo DEF Goes, GoesBack
  <2>4. CASE JoinFetch(p) \/ JoinNotifyP(p) \/ JoinNotifyS(p)
    BY <1>5, <2>4, JoinChangesDo DEF Goes, GoesBack
  <2> QED
    BY <1>5, <2>1, <2>2, <2>3, <2>4 DEF JoinStep
<1>6. CASE LeaveStep(p) /\ ~Rests
  <2>1. CASE LeaveDone(p)
    <3>1. op'[p] = Idle
      BY <2>1, LeaveChangesDo
    <3> QED
      BY <3>1 DEF Idle
  <2>2. CASE LeaveNeighbours(p) \/ LeaveVerifyP(p) \/ LeaveVerifyS(p) \/ LeavePush(p)
    BY <1>6, <2>2, LeaveLooksDo DEF Goes, GoesBack
  <2>3. CASE LeaveReplaceS(p) \/ LeaveReplaceP(p) \/ LeaveTerminate(p) \/ LeaveReset(p)
    BY <1>6, <2>3, LeaveChangesDo DEF Goes, GoesBack
  <2> QED
    BY <1>6, <2>1, <2>2, <2>3 DEF LeaveStep
<1> QED
  BY <1>1, <1>2, <1>3, <1>4, <1>5, <1>6 DEF Topology, TopologyStep

\* Nobody begins to hand over entries while they are changed, nor the reverse.
LEMMA WritesFitTopology ==
  ASSUME RingInv, StoreInv, StoreApart, NEW p \in Peers, Topology(p)
  PROVE  WritesFit'
<1>1. Writing' = Writing /\ Moves(p)
  BY DataMoves, OneMoves DEF Writing, Topology
<1>2. ASSUME Writing # {}, NEW x \in Peers, op'[x].pc \in {"notifyP", "notifyS", "replaceS", "replaceP"} PROVE FALSE
  <2>1. HandingOver = {}
    BY <1>2 DEF StoreInv, WritesFit
  <2>2. op[x].pc \notin {"notifyP", "notifyS", "replaceS", "replaceP"}
    BY <2>1 DEF HandingOver
  <2>3. x = p
    BY <1>1, <1>2, <2>2 DEF Moves
  <2>4. JoinFetch(p) \/ LeavePush(p)
    BY <1>2, <2>2, <2>3, HandoverBegins
  <2> QED
    BY <1>2, <2>4 DEF JoinFetch, LeavePush, HandoversApart, StoreApart
<1>3. Writing' # {} => HandingOver' = {}
  BY <1>1, <1>2 DEF HandingOver
<1> QED
  BY <1>1, <1>3 DEF StoreInv, WritesFit

\* The successor of a peer that asks it for entries is in the ring.
LEMMA Fetcher ==
  ASSUME RingInv, NEW p \in Peers, op[p].pc = "fetch"
  PROVE  /\ state[p] = "joining" /\ p \notin Members /\ op[p].s \in Members /\ pred[op[p].s] = op[p].p
         /\ op[p].s # p /\ isIn(p, pred[op[p].s], op[p].s)
<1>1. op[p].kind = "join" /\ JoinState(p) /\ JoinPlace(p) /\ Role(p)
  BY HoldersKnow, Roles
<1> QED
  BY <1>1 DEF JoinState, JoinPlace, Role

\* So is that of a peer that pushes entries to it, and it takes them.
LEMMA Pusher ==
  ASSUME RingInv, NEW p \in Peers, op[p].pc = "push", op[p].s # p
  PROVE  /\ p \in Leavers /\ state[p] = "in" /\ p \in Members /\ op[p].s \in Members /\ pred[op[p].s] = p
         /\ lockedBy[op[p].s] = p /\ Fatal(op[p].s, p) = {}
<1>1. /\ op[p].kind = "leave" /\ LeaveState(p) /\ LeavePlace(p) /\ LockFits(p) /\ Role(p)
      /\ op[p].s \in Peers
  BY HoldersKnow, Roles DEF RingInv, LocksFit
<1>2. p \in Members /\ state[p] = "in" /\ p \in Leavers /\ ~HalfWay(p)
  BY <1>1 DEF Role, LeaveState, HalfWay
<1>3. lockedBy[op[p].s] = p /\ succ[p] = op[p].s /\ pred[op[p].s] = p
  BY <1>1 DEF LockFits, Subjects, LeavePlace
<1>4. ~HalfWay(succ[p])
  BY <1>1, <1>3, LockedOnes
<1>5. op[p].s \in Members
  BY <1>2, <1>3, <1>4, RingOf
<1> QED
  BY <1>2, <1>3, <1>5, LockedMembersAnswer

\* The founder stays in the ring.
LEMMA FounderStays ==
  ASSUME RingInv, StoreApart
  PROVE  Founder \in Members /\ Founder \in Int /\ state[Founder] = "in" /\ Founder \notin Leavers
<1>1. state[Founder] = "in" /\ op[Founder] = Idle /\ Founder \notin Leavers
  BY DEF RingInv, ApartFits, StoreApart
<1> QED
  BY <1>1, ChordIndexAssumption DEF Members, Idle

\* The entries that a peer is handed are those that it may have.
LEMMA AllEntriesFitTopology ==
  ASSUME RingInv, StoreInv, StoreApart, NEW p \in Peers, Topology(p)
  PROVE  AllEntriesFit'
<1>1. Founder \in Members /\ Founder \in Int /\ state[Founder] = "in" /\ Founder \notin Leavers
  BY FounderStays
<1>2. /\ data \in [Peers -> [Chunks -> Entries]] /\ HashOf \in [Chunks -> Int]
      /\ \A x \in Peers : x # Founder => \A c \in Chunks : data[x][c] # Absent => isIn(HashOf[c], Founder, x)
  BY ChordIndexAssumption DEF StoreInv, StoreTypes, AllEntriesFit, EntriesFit
<1>3. CASE data' = data
  BY <1>2, <1>3 DEF AllEntriesFit, EntriesFit
<1>4. CASE JoinFetch(p) /\ data' = [data EXCEPT ![p] = handleFetchResponsibilities(op[p].s, p)]
  <2>1. /\ state[p] = "joining" /\ op[p].s \in Members /\ op[p].s # p /\ isIn(p, pred[op[p].s], op[p].s)
        /\ op[p].s \in Peers /\ p \in Int
    BY <1>4, Fetcher, ChordIndexAssumption DEF JoinFetch, Members
  <2>2. ASSUME NEW c \in Chunks, data'[p][c] # Absent PROVE isIn(HashOf[c], Founder, p)
    <3>1. ~isIn(HashOf[c], p, op[p].s) /\ data[op[p].s][c] # Absent
      BY <1>2, <1>4, <2>2 DEF handleFetchResponsibilities
    <3>2. op[p].s = Founder \/ isIn(HashOf[c], Founder, op[p].s)
      BY <1>2, <2>1, <3>1
    <3> QED
      BY <1>1, <1>2, <2>1, <3>1, <3>2, FounderBeforeJoiner
  <2> QED
    BY <1>2, <1>4, <2>2 DEF AllEntriesFit, EntriesFit
<1>5. CASE /\ LeavePush(p) /\ op[p].s # p
           /\ data' = [data EXCEPT ![op[p].s] = handlePushResponsibilities(op[p].s, data[p])]
  <2>1. p \in Members /\ op[p].s \in Members /\ pred[op[p].s] = p /\ p # Founder /\ p \in Int /\ op[p].s \in Peers
    BY <1>1, <1>5, Pusher, ChordIndexAssumption DEF LeavePush, Members
  <2>2. ASSUME NEW c \in Chunks, data'[op[p].s][c] # Absent, op[p].s # Founder
        PROVE  isIn(HashOf[c], Founder, op[p].s)
    <3>1. CASE data[p][c] = Absent
      BY <1>2, <1>5, <2>1, <2>2, <3>1 DEF handlePushResponsibilities
    <3>2. CASE data[p][c] # Absent
      BY <1>1, <1>2, <1>5, <2>1, <2>2, <3>2, FounderBeforeLeaver
    <3> QED
      BY <3>1, <3>2
  <2> QED
    BY <1>2, <1>5, <2>1, <2>2 DEF AllEntriesFit, EntriesFit
<1>6. CASE LeaveDone(p) /\ data' = [data EXCEPT ![p] = [c \in Chunks |-> Absent]]
  BY <1>2, <1>6 DEF AllEntriesFit, EntriesFit
<1> QED
  BY <1>3, <1>4, <1>5, <1>6, DataMoves

\* What is handed over stays the same: nobody else writes at peers that are locked
\* or on their way into the ring.
LEMMA HandedStays ==
  ASSUME RingInv, NEW p \in Peers, Topology(p), NEW x \in Peers, x # p,
         op[x].pc \in {"notifyP", "notifyS", "replaceS"}, data \in [Peers -> [Chunks -> Entries]]
  PROVE  data'[x] = data[x] /\ data'[op[x].s] = data[op[x].s]
<1> DEFINE S == op[x].s
<1>1. S \in Members /\ S \in Peers /\ lockedBy[S] = x /\ (state[x] = "joining" \/ lockedBy[x] = x)
  <2>1. CASE op[x].pc \in {"notifyP", "notifyS"}
    BY <2>1, Joiner DEF Members
  <2>2. CASE op[x].pc = "replaceS"
    BY <2>2, Leaver DEF Members
  <2> QED
    BY <2>1, <2>2
<1> HIDE DEF S
<1>2. CASE JoinFetch(p) /\ data' = [data EXCEPT ![p] = handleFetchResponsibilities(op[p].s, p)]
  <2>1. p \notin Members
    BY <1>2, Fetcher DEF JoinFetch
  <2> QED
    BY <1>1, <1>2, <2>1 DEF S
<1>3. CASE /\ LeavePush(p) /\ op[p].s # p
           /\ data' = [data EXCEPT ![op[p].s] = handlePushResponsibilities(op[p].s, data[p])]
  <2>1. lockedBy[op[p].s] = p /\ op[p].s \in Peers
    BY <1>3, Pusher DEF LeavePush, Members
  <2>2. op[p].s # S
    BY <1>1, <2>1
  <2>3. op[p].s # x
    BY <1>1, <2>1, LockedOnes
  <2> QED
    BY <1>1, <1>3, <2>2, <2>3 DEF S
<1>4. CASE LeaveDone(p) /\ data' = [data EXCEPT ![p] = [c \in Chunks |-> Absent]]
  <2>1. op[p].kind = "leave" /\ op[p].pc = "drop" /\ Role(p)
    BY <1>4, LeaverKnows, Roles DEF LeaveStep, LeaveDone
  <2>2. p \notin Members
    BY <2>1 DEF Role
  <2> QED
    BY <1>1, <1>4, <2>2 DEF S
<1> QED
  BY <1>2, <1>3, <1>4, DataMoves DEF S

\* What has been handed over is the same on both sides.
LEMMA AllHandedTopology ==
  ASSUME RingInv, StoreInv, StoreApart, NEW p \in Peers, Topology(p)
  PROVE  AllHanded'
<1>1. data \in [Peers -> [Chunks -> Entries]] /\ Moves(p) /\ Handed(p)
  BY OneMoves DEF StoreInv, StoreTypes, AllHanded, Topology
<1>2. ASSUME NEW x \in Peers, x # p PROVE Handed(x)'
  <2>1. op'[x] = op[x] /\ Handed(x)
    BY <1>1, <1>2 DEF Moves, StoreInv, AllHanded
  <2>2. CASE op[x].pc \in {"notifyP", "notifyS", "replaceS"}
    <3>1. data'[x] = data[x] /\ data'[op[x].s] = data[op[x].s]
      BY <1>1, <1>2, <2>2, HandedStays
    <3> QED
      BY <2>1, <3>1 DEF Handed
  <2>3. CASE op[x].pc \notin {"notifyP", "notifyS", "replaceS"}
    BY <2>1, <2>3 DEF Handed
  <2> QED
    BY <2>2, <2>3
<1>3. Handed(p)'
  <2>1. CASE op'[p].pc \in {"notifyP", "notifyS"} /\ op[p].pc \in {"notifyP", "notifyS"}
    <3>1. data' = data /\ op'[p].s = op[p].s
      BY <2>1, DataMoves, HandoverBegins DEF JoinFetch, LeavePush, LeaveDone
    <3> QED
      BY <1>1, <2>1, <3>1 DEF Handed
  <2>2. CASE op'[p].pc = "notifyP" /\ op[p].pc = "fetch" /\ JoinFetch(p)
    <3>1. op[p].s \in Members /\ op[p].s # p /\ op'[p].s = op[p].s
      BY <2>2, Fetcher, HandoverBegins
    <3>2. data' = [data EXCEPT ![p] = handleFetchResponsibilities(op[p].s, p)]
      BY <2>2 DEF JoinFetch
    <3>3. \A c \in Chunks : ~isIn(HashOf[c], p, op[p].s) => data'[p][c] = data'[op[p].s][c]
      BY <1>1, <3>1, <3>2 DEF handleFetchResponsibilities, Members
    <3> QED
      BY <2>2, <3>1, <3>3 DEF Handed
  <2>3. CASE op'[p].pc = "replaceS" /\ op[p].pc = "replaceS"
    <3>1. data' = data /\ op'[p].s = op[p].s
      BY <2>3, DataMoves, HandoverBegins DEF JoinFetch, LeavePush, LeaveDone
    <3> QED
      BY <1>1, <2>3, <3>1 DEF Handed
  <2>4. CASE op'[p].pc = "replaceS" /\ op[p].pc = "push" /\ LeavePush(p) /\ op[p].s # p
    <3>1. op[p].s \in Members /\ Fatal(op[p].s, p) = {} /\ op'[p].s = op[p].s
      BY <2>4, Pusher, HandoverBegins
    <3>2. ~Declines(op[p].s)
      BY <3>1 DEF Fatal, Declines
    <3>3. data' = [data EXCEPT ![op[p].s] = handlePushResponsibilities(op[p].s, data[p])]
      BY <2>4, <3>2 DEF LeavePush
    <3>4. \A c \in Chunks : data'[p][c] # Absent => data'[op[p].s][c] = data'[p][c]
      BY <1>1, <2>4, <3>1, <3>3 DEF handlePushResponsibilities, Members
    <3> QED
      BY <2>4, <3>1, <3>4 DEF Handed
  <2>5. CASE op'[p].pc \notin {"notifyP", "notifyS", "replaceS"}
    BY <2>5 DEF Handed
  <2> QED
    BY <2>1, <2>2, <2>3, <2>4, <2>5, HandoverBegins
<1> QED
  BY <1>2, <1>3 DEF AllHanded

\* A peer that leaves has another one to push its entries to: the founder, at least.
LEMMA PushesOn ==
  ASSUME RingInv, StoreApart, NEW p \in Peers, op[p].pc = "push"
  PROVE  op[p].s # p
<1> SUFFICES ASSUME op[p].s = p PROVE FALSE
  OBVIOUS
<1>1. op[p].kind = "leave" /\ LeaveState(p) /\ LeavePlace(p) /\ Role(p)
  BY HoldersKnow, Roles
<1>2. p \in Members /\ p \in Leavers /\ pred[p] = p
  BY <1>1 DEF Role, LeaveState, LeavePlace
<1> QED
  BY <1>2, LoneOne, FounderStays

--------------------------------------------------------------------------------
(* Joins and leaves: who is in charge of what. *)

SamePred == Members' = Members /\ \A a \in Members : pred'[a] = pred[a]
SameSucc == \A a \in Members : succ'[a] = succ[a]
Inserts(p) == Members' = Members \cup {p} /\ pred' = [pred EXCEPT ![op[p].s] = p]
Removes(p) == Members' = Members \ {p} /\ pred' = [pred EXCEPT ![op[p].s] = op[p].p]

\* The ring changes at one place, when a peer that joins or leaves tells its
\* successor.
LEMMA RingMoves ==
  ASSUME RingInv, StoreApart, NEW p \in Peers, Topology(p)
  PROVE  \/ SamePred /\ SameSucc
         \/ SamePred /\ op[p].pc \in {"notifyP", "replaceP"}
         \/ op[p].pc \in {"notifyP", "notifyS"} /\ Inserts(p)
         \/ op[p].pc = "replaceS" /\ Removes(p)
<1> SomebodyStays /\ succ \in [Peers -> Peers] /\ pred \in [Peers -> Peers] /\ Members \subseteq Peers
  BY DEF SomebodyStays, StoreApart, RingInv, TopologyTypes, Members
<1>1. Moves(p) /\ Role(p) /\ Role(p)'
  BY OneMoves, TopologyIsNext, Roles, RolesAfter DEF Topology
<1>2. CASE Rests
  BY <1>2 DEF Rests, SamePred, SameSucc, Members
<1>3. CASE Quiet(p)
  <2>1. Members' = Members
    BY <1>1, <1>3, MembersMove DEF Quiet
  <2> QED
    BY <1>3, <2>1 DEF Quiet, SamePred, SameSucc
<1>4. ASSUME op[p].pc \in {"notifyP", "notifyS"}, ~Rests, handleNotify(op[p].s, p), op'[p].then = "init",
             op'[p].kind = op[p].kind, op[p].pc = "notifyP" => op[p].p = op[p].s
      PROVE  Inserts(p)
  <2>1. /\ op[p].kind = "join" /\ p \notin Members /\ op[p].s \in Members /\ pred[op[p].s] = op[p].p
        /\ isIn(p, op[p].p, op[p].s)
    BY <1>4, Joiner
  <2>2. pred' = [pred EXCEPT ![op[p].s] = p]
    BY <1>4, <2>1 DEF handleNotify
  <2>3. Members' = Members \cup {p}
    <3>1. p \in Members'
      BY <1>1, <1>4, <2>1 DEF Role
    <3> QED
      BY <1>1, <2>1, <3>1, MembersMove DEF Members
  <2> QED
    BY <2>2, <2>3 DEF Inserts
<1>5. CASE JoinNotifyP(p) /\ ~Rests
  <2>1. /\ op[p].pc = "notifyP" /\ handleNotify(op[p].p, p)
        /\ \/ op[p].p = op[p].s /\ GoesBack(p, <<op[p].p>>, "init")
           \/ op[p].p # op[p].s /\ Goes(p, "notifyS", op[p].p, op[p].s)
    BY <1>5, JoinChangesDo
  <2>2. CASE op[p].p = op[p].s
    BY <1>4, <1>5, <2>1, <2>2 DEF GoesBack
  <2>3. CASE op[p].p # op[p].s
    <3>1. /\ op[p].kind = "join" /\ p \notin Members /\ op[p].p \in Members /\ op[p].s \in Members
          /\ pred[op[p].s] = op[p].p /\ isIn(p, op[p].p, op[p].s) /\ op[p].then # "init"
      BY <1>1, <2>1, Joiner DEF Role
    <3>2. Members' = Members
      BY <1>1, <2>1, <2>3, <3>1, MembersMove DEF Role, Goes
    <3>3. ~isIn(p, pred[op[p].p], op[p].p)
      <4> DEFINE P == op[p].p
                 S == op[p].s
                 R == pred[P]
      <4>1. R \in Members /\ Nexts[R] = P /\ R # P
        <5>1. R \in Members /\ NextOf(R) = P
          BY <3>1, RingOf
        <5>2. R # P
          BY <2>3, <3>1, LoneOne
        <5> QED
          BY <5>1, <5>2 DEF Nexts
      <4>2. Cycle(Members, Nexts, pred) /\ Members \in SUBSET Int /\ p \in Int \ Members
        BY <3>1, RingIsCycle, ChordIndexAssumption
      <4>3. P \in Members /\ S \in Members /\ pred[S] = P /\ isIn(p, P, S)
        BY <3>1
      <4> HIDE DEF P, S, R
      <4>4. ~isIn(p, R, Nexts[R])
        BY <4>1, <4>2, <4>3, OnePlace
      <4> QED
        BY <4>1, <4>4 DEF P, R
    <3>4. pred' = pred
      BY <2>1, <3>1, <3>3 DEF handleNotify
    <3> QED
      BY <2>1, <3>2, <3>4 DEF SamePred
  <2> QED
    BY <2>2, <2>3
<1>6. CASE JoinNotifyS(p) /\ ~Rests
  <2>1. /\ op[p].pc = "notifyS" /\ handleNotify(op[p].s, p) /\ GoesBack(p, <<op[p].s, op[p].p>>, "init")
    BY <1>6, JoinChangesDo
  <2> QED
    BY <1>4, <1>6, <2>1 DEF GoesBack
<1>7. CASE LeaveReplaceS(p) /\ ~Rests
  <2>1. /\ op[p].pc = "replaceS" /\ handleReplace(op[p].s, p, op[p].p)
        /\ \/ op[p].p = op[p].s /\ GoesBack(p, <<op[p].s>>, "term")
           \/ op[p].p # op[p].s /\ Goes(p, "replaceP", op[p].p, op[p].s)
    BY <1>7, LeaveChangesDo
  <2>2. op[p].kind = "leave" /\ p \in Members /\ op[p].s \in Members /\ pred[op[p].s] = p
    BY <2>1, Leaver
  <2>3. pred' = [pred EXCEPT ![op[p].s] = op[p].p]
    BY <2>1, <2>2 DEF handleReplace
  <2>4. p \notin Members'
    BY <1>1, <2>1, <2>2 DEF Role, Goes, GoesBack
  <2>5. Members' = Members \ {p}
    BY <1>1, <2>4, MembersMove DEF Members
  <2> QED
    BY <2>1, <2>3, <2>5 DEF Removes
<1>8. CASE LeaveReplaceP(p) /\ ~Rests
  <2>1. /\ op[p].pc = "replaceP" /\ handleReplace(op[p].p, p, op[p].s) /\ GoesBack(p, <<op[p].p, op[p].s>>, "term")
    BY <1>8, LeaveChangesDo
  <2>2. op[p].kind = "leave" /\ p \notin Members /\ op[p].p \in Members
    BY <2>1, HalfOnes DEF HalfWay
  <2>3. pred[op[p].p] # p
    BY <2>2, RingOf
  <2>4. pred' = pred
    BY <2>1, <2>2, <2>3 DEF handleReplace
  <2>5. Members' = Members
    BY <1>1, <2>1, <2>2, MembersMove DEF Role, GoesBack
  <2> QED
    BY <2>1, <2>4, <2>5 DEF SamePred
<1>9. CASE StartLeave(p) \/ \E other \in Peers : StartJoin(p, other)
  BY <1>3, <1>9, BeginQuiet
<1>10. CASE p \notin aborted /\ (TryLock(p) \/ Unlock(p))
  BY <1>3, <1>10, LocksQuiet
<1>11. CASE p \notin aborted /\ JoinStep(p)
  <2>1. CASE \/ JoinPredecessor(p) \/ JoinSuccessor(p) \/ JoinVerifyS(p) \/ JoinVerifyP(p)
             \/ JoinFetch(p) \/ JoinDone(p)
    BY <1>3, <1>11, <2>1, JoinQuiet
  <2> QED
    BY <1>2, <1>5, <1>6, <1>11, <2>1 DEF JoinStep
<1>12. CASE p \notin aborted /\ LeaveStep(p)
  <2>1. CASE \/ LeaveNeighbours(p) \/ LeaveVerifyP(p) \/ LeaveVerifyS(p) \/ LeavePush(p)
             \/ LeaveTerminate(p) \/ LeaveReset(p) \/ LeaveDone(p)
    <3>1. LeavePush(p) => op[p].s # p
      BY PushesOn DEF LeavePush
    <3> QED
      BY <1>3, <1>12, <2>1, <3>1, LeaveQuiet
  <2> QED
    BY <1>2, <1>7, <1>8, <1>12, <2>1 DEF LeaveStep
<1> QED
  BY <1>9, <1>10, <1>11, <1>12 DEF Topology, TopologyStep

\* Who changes an entry gets to the peer in charge: the ring rests meanwhile.
LEMMA WritersFitTopology ==
  ASSUME RingInv, StoreInv, StoreApart, NEW p \in Peers, Topology(p)
  PROVE  WritersFit'
<1> SUFFICES ASSUME NEW w \in Peers, call[w].kind \in Writes PROVE WriterFits(w)'
  BY DataMoves DEF WritersFit, WriterFits
<1>1. WriterFits(w) /\ op[w] = Idle /\ state[w] = "in" /\ HandingOver = {} /\ call' = call /\ holds' = holds
  <2>1. w \in Writing /\ WriterFits(w)
    BY DEF Writing, Writes, StoreInv, WritersFit
  <2> QED
    BY <2>1, DataMoves DEF StoreInv, WriterFits, WritesFit
<1>2. op'[w] = Idle /\ state'[w] = "in"
  <2>1. w # p
    <3>1. CASE StartLeave(p)
      <4>1. call[p] = NoCall
        BY <3>1 DEF StartLeave
      <4> QED
        BY <4>1 DEF NoCall, Writes
    <3>2. CASE \E other \in Peers : StartJoin(p, other)
      BY <1>1, <3>2 DEF StartJoin
    <3>3. CASE TopologyStep(p)
      BY <1>1, <3>3, KindStays DEF Idle
    <3> QED
      BY <3>1, <3>2, <3>3 DEF Topology
  <2>2. Moves(p)
    BY OneMoves DEF Topology
  <2> QED
    BY <1>1, <2>1, <2>2 DEF Moves
<1>3. SamePred /\ SameSucc
  BY <1>1, RingMoves DEF HandingOver
<1>4. Holders(call[w].chunk)' = Holders(call[w].chunk) /\ Key(w)' = Key(w)
  BY <1>1 DEF Holders, Key
<1>5. call[w].pc \in AtPeer => /\ call[w].at \in Members /\ call[w].at \in Members'
                               /\ succ'[call[w].at] = succ[call[w].at] /\ pred'[call[w].at] = pred[call[w].at]
  BY <1>1, <1>3 DEF WriterFits, SamePred, SameSucc
<1> QED
  BY <1>1, <1>2, <1>4, <1>5 DEF WriterFits, AtPeer

\* No step of a join or a leave writes an entry where its holders are asked for.
LEMMA OwnerKeeps ==
  ASSUME RingInv, StoreInv, StoreApart, NEW p \in Peers, Topology(p),
         NEW o \in Members, NEW c \in Chunks, isIn(HashOf[c], pred[o], o)
  PROVE  data'[o][c] = data[o][c]
<1>1. data \in [Peers -> [Chunks -> Entries]] /\ o \in Peers /\ HashOf[c] \in Int
  BY ChordIndexAssumption DEF StoreInv, StoreTypes, Members
<1>2. CASE JoinFetch(p) /\ data' = [data EXCEPT ![p] = handleFetchResponsibilities(op[p].s, p)]
  <2>1. p \notin Members
    BY <1>2, Fetcher DEF JoinFetch
  <2> QED
    BY <1>1, <1>2, <2>1
<1>3. CASE /\ LeavePush(p) /\ op[p].s # p
           /\ data' = [data EXCEPT ![op[p].s] = handlePushResponsibilities(op[p].s, data[p])]
  <2>1. CASE o # op[p].s
    BY <1>1, <1>3, <2>1
  <2>2. CASE o = op[p].s
    <3>1. p \in Leavers /\ pred[o] = p
      BY <1>3, <2>2, Pusher DEF LeavePush
    <3>2. Founder \in Members /\ p # Founder /\ p \in Int /\ p # o
      BY <1>3, <2>2, <3>1, FounderStays, ChordIndexAssumption
    <3>3. ~isIn(HashOf[c], Founder, p)
      BY <1>1, <3>1, <3>2, FounderBeforeLeaver
    <3>4. data[p][c] = Absent
      BY <3>2, <3>3 DEF StoreInv, AllEntriesFit, EntriesFit
    <3> QED
      BY <1>1, <1>3, <2>2, <3>4 DEF handlePushResponsibilities
  <2> QED
    BY <2>1, <2>2
<1>4. CASE LeaveDone(p) /\ data' = [data EXCEPT ![p] = [c1 \in Chunks |-> Absent]]
  <2>1. op[p].kind = "leave" /\ op[p].pc = "drop" /\ Role(p)
    BY <1>4, LeaverKnows, Roles DEF LeaveStep, LeaveDone
  <2>2. p \notin Members
    BY <2>1 DEF Role
  <2> QED
    BY <1>1, <1>4, <2>2
<1> QED
  BY <1>2, <1>3, <1>4, DataMoves

\* Whoever gets in charge of a chunk has its entry.
LEMMA AllStoredTopology ==
  ASSUME RingInv, StoreInv, StoreApart, NEW p \in Peers, Topology(p)
  PROVE  AllStored'
<1> SUFFICES ASSUME NEW c \in Chunks PROVE Stored(c)'
  BY DEF AllStored
<1> DEFINE key == HashOf[c]
           S == op[p].s
           P == op[p].p
<1>1. PICK o \in Members : isIn(key, pred[o], o) /\ Holders(c) \subseteq Known(data[o][c])
  BY DEF StoreInv, AllStored, Stored
<1>2. Holders(c)' = Holders(c) /\ key \in Int /\ data'[o][c] = data[o][c]
  BY <1>1, DataMoves, OwnerKeeps, ChordIndexAssumption DEF Holders
<1>3. ASSUME NEW r \in Members', isIn(key, pred'[r], r), Known(data[o][c]) \subseteq Known(data'[r][c])
      PROVE  Stored(c)'
  BY <1>1, <1>2, <1>3 DEF Stored, Known
<1>4. CASE SamePred
  BY <1>1, <1>2, <1>3, <1>4 DEF SamePred, Known
<1>5. CASE op[p].pc \in {"notifyP", "notifyS"} /\ Inserts(p)
  <2>1. /\ p \notin Members /\ S \in Members /\ pred[S] = P /\ P \in Members /\ isIn(p, P, S) /\ pred[p] = P
        /\ S \in Int /\ P \in Int /\ p \in Int /\ pred \in [Peers -> Peers] /\ S \in Peers
    BY <1>5, Joiner, ChordIndexAssumption DEF Members, RingInv, TopologyTypes
  <2>2. data' = data
    BY <1>5, DataMoves DEF JoinFetch, LeavePush, LeaveDone
  <2>3. ~isIn(key, p, S) => data[p][c] = data[S][c]
    BY <1>5 DEF StoreInv, AllHanded, Handed
  <2>4. /\ p \in Members' /\ S \in Members' /\ pred'[S] = p /\ pred'[p] = P /\ o \in Members'
        /\ o # S => pred'[o] = pred[o]
    BY <1>5, <2>1 DEF Inserts, Members
  <2> HIDE DEF key, S, P
  <2>5. CASE o # S
    BY <1>1, <1>3, <2>2, <2>4, <2>5
  <2>6. CASE o = S /\ isIn(key, p, S)
    BY <1>3, <2>2, <2>4, <2>6
  <2>7. CASE o = S /\ ~isIn(key, p, S)
    <3>1. p # P /\ p # S
      BY <2>1
    <3>2. isIn(key, P, p)
      BY <1>1, <1>2, <2>1, <2>7, <3>1, ArcSplits
    <3> QED
      BY <1>3, <2>2, <2>3, <2>4, <2>7, <3>2
  <2> QED
    BY <2>5, <2>6, <2>7
<1>6. CASE op[p].pc = "replaceS" /\ Removes(p)
  <2>1. /\ p \in Members /\ S \in Members /\ pred[S] = p /\ P \in Members /\ P # p /\ S # p /\ pred[p] = P
        /\ S \in Int /\ P \in Int /\ p \in Int /\ pred \in [Peers -> Peers] /\ S \in Peers
    BY <1>6, Leaver, ChordIndexAssumption DEF Members, RingInv, TopologyTypes
  <2>2. data' = data
    BY <1>6, DataMoves DEF JoinFetch, LeavePush, LeaveDone
  <2>3. data[p][c] # Absent => data[S][c] = data[p][c]
    BY <1>6 DEF StoreInv, AllHanded, Handed
  <2>4. /\ S \in Members' /\ pred'[S] = P
        /\ o # p => o \in Members'
        /\ o # S => pred'[o] = pred[o]
    BY <1>6, <2>1 DEF Removes, Members
  <2>5. S # P => ~isIn(S, P, p)
    BY <2>1, NobodyBetween
  <2> HIDE DEF key, S, P
  <2>6. isIn(key, P, S) <=> isIn(key, P, p) \/ isIn(key, p, S)
    <3>1. P # S => isIn(p, P, S)
      BY <2>1, <2>5 DEF isIn
    <3> QED
      BY <1>2, <2>1, <3>1, ArcSplits
  <2>7. CASE o # S /\ o # p
    BY <1>1, <1>3, <2>2, <2>4, <2>7
  <2>8. CASE o = S
    BY <1>1, <1>3, <2>1, <2>2, <2>4, <2>6, <2>8
  <2>9. CASE o = p
    <3>1. Known(data[p][c]) \subseteq Known(data[S][c])
      BY <2>3 DEF Known
    <3> QED
      BY <1>1, <1>3, <2>1, <2>2, <2>4, <2>6, <2>9, <3>1
  <2> QED
    BY <2>7, <2>8, <2>9
<1> QED
  BY <1>4, <1>5, <1>6, RingMoves

\* Entries stay sets of peers.
LEMMA StoreTypesTopology ==
  ASSUME RingInv, StoreInv, NEW p \in Peers, Topology(p)
  PROVE  StoreTypes'
<1>1. StoreTypes /\ data \in [Peers -> [Chunks -> Entries]] /\ Absent \in Entries
  BY DEF StoreInv, StoreTypes, Entries
<1>2. data' \in [Peers -> [Chunks -> Entries]]
  <2>1. CASE JoinFetch(p) /\ data' = [data EXCEPT ![p] = handleFetchResponsibilities(op[p].s, p)]
    <3>1. op[p].s \in Peers
      BY <2>1, Fetcher DEF JoinFetch, Members
    <3>2. handleFetchResponsibilities(op[p].s, p) \in [Chunks -> Entries]
      BY <1>1, <3>1 DEF handleFetchResponsibilities
    <3> QED
      BY <1>1, <2>1, <3>2
  <2>2. CASE /\ LeavePush(p) /\ op[p].s # p
             /\ data' = [data EXCEPT ![op[p].s] = handlePushResponsibilities(op[p].s, data[p])]
    <3>1. op[p].s \in Peers
      BY <2>2, Pusher DEF LeavePush, Members
    <3>2. handlePushResponsibilities(op[p].s, data[p]) \in [Chunks -> Entries]
      BY <1>1, <3>1 DEF handlePushResponsibilities
    <3> QED
      BY <1>1, <2>2, <3>2
  <2>3. CASE LeaveDone(p) /\ data' = [data EXCEPT ![p] = [c \in Chunks |-> Absent]]
    BY <1>1, <2>3
  <2> QED
    BY <1>1, <2>1, <2>2, <2>3, DataMoves
<1> QED
  BY <1>1, <1>2, DataMoves DEF StoreTypes

--------------------------------------------------------------------------------
(* Uses of the index. *)

Uses(p) == CallStep(p) \/ \E kind \in {"seek", "announce", "renounce"}, c \in Chunks : StartCall(p, kind, c)

\* The thread goes on at pc, with the peer at found last.
CallGoes(p, pc, at) ==
  /\ call'[p].kind = call[p].kind /\ call'[p].chunk = call[p].chunk
  /\ call'[p].adds = call[p].adds /\ call'[p].entry = call[p].entry
  /\ call'[p].pc = pc /\ call'[p].at = at
Alone(p) == call' \in [Peers -> Requests] /\ \A x \in Peers \ {p} : call'[x] = call[x]

\* The values that the steps assign.
LEMMA CallNames ==
  /\ {"idle", "own", "ask", "step", "last", "access"} = {"idle", "own"} \cup AtPeer
  /\ NoCall \in Requests /\ NoCall.kind = "none" /\ NoCall.pc = "idle" /\ NoCall.adds = FALSE
  BY DEF AtPeer, NoCall, Requests, AnyChunk, PeersOrNone, Answered

\* The thread of a call goes on, and the other ones stay where they are.
LEMMA LooksFurther ==
  ASSUME call \in [Peers -> Requests], NEW p \in Peers,
         NEW pc \in {"idle", "own", "ask", "step", "last", "access"}, NEW at \in PeersOrNone,
         call' = [call EXCEPT ![p].pc = pc, ![p].at = at]
  PROVE  Alone(p) /\ CallGoes(p, pc, at)
  BY CallNames DEF Requests, Alone, CallGoes

\* The thread goes on with the peer it has found last.
LEMMA LooksAgain ==
  ASSUME call \in [Peers -> Requests], NEW p \in Peers,
         NEW pc \in {"idle", "own", "ask", "step", "last", "access"},
         call' = [call EXCEPT ![p].pc = pc]
  PROVE  Alone(p) /\ CallGoes(p, pc, call[p].at)
  BY CallNames DEF Requests, Alone, CallGoes

\* The thread has an entry, and goes on to write it back.
LEMMA TakesAlong ==
  ASSUME call \in [Peers -> Requests], NEW p \in Peers, NEW entry \in SUBSET Peers,
         call' = [call EXCEPT ![p].pc = "own", ![p].adds = TRUE, ![p].entry = entry]
  PROVE  /\ Alone(p) /\ call'[p].kind = call[p].kind /\ call'[p].chunk = call[p].chunk
         /\ call'[p].adds /\ call'[p].entry = entry /\ call'[p].pc = "own"
<1>1. TRUE \in Answered
  BY DEF Answered
<1>2. call'[p] = [call[p] EXCEPT !.pc = "own", !.adds = TRUE, !.entry = entry] /\ call[p] \in Requests
  OBVIOUS
<1>3. call'[p] \in Requests
  BY <1>1, <1>2 DEF Requests
<1>4. \A x \in Peers \ {p} : call'[x] = call[x]
  OBVIOUS
<1>5. call' \in [Peers -> Requests]
  BY <1>3, <1>4
<1> QED
  BY <1>2, <1>4, <1>5 DEF Requests, Alone

\* The thread has done what it was called for.
LEMMA CallEnds ==
  ASSUME call \in [Peers -> Requests], NEW p \in Peers, call' = [call EXCEPT ![p] = NoCall]
  PROVE  Alone(p) /\ call'[p].kind = "none" /\ call'[p].pc = "idle" /\ ~call'[p].adds
  BY CallNames DEF Alone

\* What a step of a lookup comes to.
LEMMA LookupsDo ==
  ASSUME StoreTypes, RingInv, NEW p \in Peers
  PROVE  /\ FindOwn(p) => /\ UNCHANGED <<data, holds>> /\ Alone(p)
                          /\ CallGoes(p, IF isIn(Key(p), p, succ[p]) THEN "access" ELSE "ask", succ[p])
         /\ FindSuccessorOf(p) =>
              /\ UNCHANGED <<data, holds>> /\ Alone(p) /\ call[p].pc = "ask"
              /\ \/ CallGoes(p, "own", call[p].at)
                 \/ CallGoes(p, "last", call[p].at) /\ isIn(Key(p), call[p].at, succ[call[p].at])
                 \/ CallGoes(p, "step", call[p].at)
         /\ FindCloser(p) =>
              /\ UNCHANGED <<data, holds>> /\ Alone(p) /\ call[p].pc = "step"
              /\ \/ CallGoes(p, "own", call[p].at)
                 \/ CallGoes(p, "ask", call[p].at)
                 \/ CallGoes(p, "ask", succ[call[p].at])
         /\ FindLast(p) =>
              /\ UNCHANGED <<data, holds>> /\ Alone(p) /\ call[p].pc = "last"
              /\ \/ CallGoes(p, "own", call[p].at)
                 \/ CallGoes(p, "access", succ[call[p].at])
<1> /\ call \in [Peers -> Requests] /\ succ \in [Peers -> Peers]
    /\ call[p].pc \in AtPeer => call[p].at \in Peers
  BY DEF StoreTypes, RingInv, TopologyTypes
<1> DEFINE q == call[p].at
<1>1. call[p].at \in PeersOrNone /\ Peers \subseteq PeersOrNone
  BY SomePeer DEF Requests
<1>2. ASSUME FindOwn(p)
      PROVE  /\ UNCHANGED <<data, holds>> /\ Alone(p)
             /\ CallGoes(p, IF isIn(Key(p), p, succ[p]) THEN "access" ELSE "ask", succ[p])
  <2> DEFINE pc == IF isIn(Key(p), p, succ[p]) THEN "access" ELSE "ask"
  <2>1. call' = [call EXCEPT ![p].pc = pc, ![p].at = succ[p]] /\ UNCHANGED <<data, holds>>
    BY <1>2 DEF FindOwn
  <2>2. pc \in {"idle", "own", "ask", "step", "last", "access"} /\ succ[p] \in PeersOrNone
    BY <1>1
  <2> HIDE DEF pc
  <2>3. Alone(p) /\ CallGoes(p, pc, succ[p])
    BY <2>1, <2>2, LooksFurther
  <2> QED
    BY <2>1, <2>3 DEF pc
<1>3. ASSUME FindSuccessorOf(p)
      PROVE  /\ UNCHANGED <<data, holds>> /\ Alone(p) /\ call[p].pc = "ask"
             /\ \/ CallGoes(p, "own", call[p].at)
                \/ CallGoes(p, "last", call[p].at) /\ isIn(Key(p), call[p].at, succ[call[p].at])
                \/ CallGoes(p, "step", call[p].at)
  <2>1. /\ UNCHANGED <<data, holds>> /\ call[p].pc = "ask"
        /\ \/ call' = [call EXCEPT ![p].pc = "own"]
           \/ call' = [call EXCEPT ![p].pc = "last"] /\ isIn(Key(p), call[p].at, succ[call[p].at])
           \/ call' = [call EXCEPT ![p].pc = "step"]
    BY <1>3 DEF FindSuccessorOf
  <2> QED
    BY <2>1, LooksAgain
<1>4. ASSUME FindCloser(p)
      PROVE  /\ UNCHANGED <<data, holds>> /\ Alone(p) /\ call[p].pc = "step"
             /\ \/ CallGoes(p, "own", call[p].at)
                \/ CallGoes(p, "ask", call[p].at)
                \/ CallGoes(p, "ask", succ[call[p].at])
  <2>1. /\ UNCHANGED <<data, holds>> /\ call[p].pc = "step"
        /\ \/ call' = [call EXCEPT ![p].pc = "own", ![p].at = q]
           \/ call' = [call EXCEPT ![p].pc = "ask", ![p].at = q]
           \/ call' = [call EXCEPT ![p].pc = "ask", ![p].at = succ[q]]
    BY <1>4 DEF FindCloser, closestPrecedingFinger
  <2>2. q \in PeersOrNone /\ succ[q] \in PeersOrNone
    BY <1>1, <2>1 DEF AtPeer
  <2> QED
    BY <2>1, <2>2, LooksFurther
<1>5. ASSUME FindLast(p)
      PROVE  /\ UNCHANGED <<data, holds>> /\ Alone(p) /\ call[p].pc = "last"
             /\ \/ CallGoes(p, "own", call[p].at)
                \/ CallGoes(p, "access", succ[call[p].at])
  <2>1. /\ UNCHANGED <<data, holds>> /\ call[p].pc = "last"
        /\ \/ call' = [call EXCEPT ![p].pc = "own", ![p].at = q]
           \/ call' = [call EXCEPT ![p].pc = "access", ![p].at = succ[q]]
    BY <1>5 DEF FindLast
  <2>2. q \in PeersOrNone /\ succ[q] \in PeersOrNone
    BY <1>1, <2>1 DEF AtPeer
  <2> QED
    BY <2>1, <2>2, LooksFurther
<1> QED
  BY <1>2, <1>3, <1>4, <1>5

\* The peers of a ring that rests are next to each other.
LEMMA RingSettled ==
  ASSUME RingInv, HandingOver = {}, NEW a \in Members
  PROVE  a \in Peers /\ succ[a] \in Members /\ succ[a] \in Peers /\ pred[succ[a]] = a
<1>1. succ[a] \in Peers
  BY RingOf
<1>2. ~HalfWay(succ[a])
  BY <1>1 DEF HandingOver, HalfWay
<1>3. NextOf(a) = succ[a]
  BY <1>2, RingOf
<1> QED
  BY <1>1, <1>3, RingOf

\* Who changes an entry is in the ring, which rests.
LEMMA Writer ==
  ASSUME RingInv, StoreInv, NEW p \in Peers, call[p].kind \in Writes
  PROVE  /\ WriterFits(p) /\ HandingOver = {} /\ p \in Members /\ call[p].chunk \in Chunks
         /\ \A w \in Peers : call[w].kind \in Writes => w = p
         /\ call[p].pc \in AtPeer =>
              /\ call[p].at \in Peers /\ succ[call[p].at] \in Members /\ pred[succ[call[p].at]] = call[p].at
              /\ state[call[p].at] # "inactive" /\ ~Declines(call[p].at)
<1>1. WriterFits(p) /\ op[p] = Idle /\ state[p] = "in" /\ (call[p].pc \in AtPeer => call[p].at \in Members)
  BY DEF StoreInv, WritersFit, WriterFits
<1>2. \A w \in Peers : call[w].kind \in Writes => w \in Writing
  BY DEF Writing, Writes
<1>3. HandingOver = {} /\ \A w \in Peers : call[w].kind \in Writes => w = p
  BY <1>2 DEF StoreInv, WritesFit
<1>4. call[p].chunk \in Chunks
  BY DEF StoreInv, StoreTypes, Writes
<1>5. p \in Members
  BY <1>1 DEF Members, Idle
<1>6. \A q \in Members : state[q] # "inactive" /\ ~Declines(q)
  BY DEF Members, Declines
<1> QED
  BY <1>1, <1>3, <1>4, <1>5, <1>6, RingSettled

\* A use that changes nothing leaves what is stored as it is.
LEMMA NothingWritten ==
  ASSUME RingInv, StoreInv, NEW p \in Peers, Rests, data' = data, holds' = holds, Alone(p), WriterFits(p)',
         call'[p].kind \in {call[p].kind, "none"},
         call'[p].pc \in AtPeer => call'[p].at \in Peers,
         call'[p].kind # "none" => call'[p].chunk \in Chunks,
         call'[p].adds => call'[p].kind \in Writes
  PROVE  StoreInv'
<1>1. Members' = Members /\ HandingOver' = HandingOver
  BY DEF Members, HandingOver, Rests
<1>2. StoreTypes'
  BY DEF StoreInv, StoreTypes, Alone
<1>3. WritersFit'
  <2>1. ASSUME NEW w \in Peers, w # p PROVE WriterFits(w)'
    <3>1. WriterFits(w) /\ call'[w] = call[w] /\ op' = op /\ state' = state /\ succ' = succ /\ pred' = pred
      BY <2>1 DEF StoreInv, WritersFit, Alone, Rests
    <3> QED
      BY <1>1, <3>1 DEF WriterFits, Key, Holders
  <2> QED
    BY <2>1 DEF WritersFit
<1>4. AllEntriesFit' /\ AllHanded' /\ AllStored'
  BY <1>1 DEF StoreInv, AllEntriesFit, EntriesFit, AllHanded, Handed, AllStored, Stored, Holders, Rests
<1>5. WritesFit'
  <2>1. Writing' \subseteq Writing
    BY DEF Writing, Alone
  <2> QED
    BY <1>1, <2>1 DEF StoreInv, WritesFit
<1> QED
  BY <1>2, <1>3, <1>4, <1>5 DEF StoreInv

\* Lookups get to the peer in charge.
LEMMA LookupsKeep ==
  ASSUME RingInv, StoreInv, NEW p \in Peers, FindOwn(p) \/ FindSuccessorOf(p) \/ FindCloser(p) \/ FindLast(p)
  PROVE  StoreInv'
<1> DEFINE q == call[p].at
<1>1. Rests /\ op' = op /\ state' = state /\ succ' = succ /\ pred' = pred
  BY DEF Rests, FindOwn, FindSuccessorOf, FindCloser, FindLast, ringVars
<1>2. Members' = Members
  BY <1>1 DEF Members
<1>3. /\ StoreTypes
      /\ call[p].pc \in AtPeer => q \in Peers
      /\ call[p].kind # "none" => call[p].chunk \in Chunks
      /\ call[p].adds => call[p].kind \in Writes
      /\ succ \in [Peers -> Peers]
  BY DEF StoreInv, StoreTypes, RingInv, TopologyTypes
<1>4. /\ UNCHANGED <<data, holds>> /\ Alone(p)
      /\ \E pc \in {"own", "ask", "step", "last", "access"} : \E at : CallGoes(p, pc, at)
  BY <1>3, LookupsDo
<1>5. call'[p].pc \in AtPeer => call'[p].at \in Peers
  BY <1>3, LookupsDo DEF CallGoes, AtPeer
<1>6. ASSUME call[p].kind \in Writes
      PROVE  /\ call'[p].pc \in AtPeer => call'[p].at \in Members
             /\ call'[p].pc = "last" => isIn(Key(p), call'[p].at, succ[call'[p].at])
             /\ call'[p].pc = "access" => isIn(Key(p), pred[call'[p].at], call'[p].at)
  <2>1. /\ WriterFits(p) /\ p \in Members /\ HandingOver = {} /\ succ[p] \in Members /\ pred[succ[p]] = p
        /\ call[p].pc \in AtPeer => q \in Members /\ succ[q] \in Members /\ pred[succ[q]] = q
        /\ call[p].pc = "last" => isIn(Key(p), q, succ[q])
    BY <1>6, Writer, RingSettled DEF WriterFits
  <2>2. CASE FindOwn(p)
    BY <1>3, <2>1, <2>2, LookupsDo DEF CallGoes, AtPeer
  <2>3. CASE FindSuccessorOf(p)
    BY <1>3, <2>1, <2>3, LookupsDo DEF CallGoes, AtPeer
  <2>4. CASE FindCloser(p)
    BY <1>3, <2>1, <2>4, LookupsDo DEF CallGoes, AtPeer
  <2>5. CASE FindLast(p)
    BY <1>3, <2>1, <2>5, LookupsDo DEF CallGoes, AtPeer
  <2> QED
    BY <2>2, <2>3, <2>4, <2>5
<1>7. /\ call'[p].kind = call[p].kind /\ call'[p].chunk = call[p].chunk
      /\ call'[p].adds = call[p].adds /\ call'[p].entry = call[p].entry
  BY <1>4 DEF CallGoes
<1>8. WriterFits(p)'
  <2>1. CASE call[p].kind \in Writes
    <3>1. WriterFits(p) /\ Key(p)' = Key(p) /\ Holders(call[p].chunk)' = Holders(call[p].chunk)
      BY <1>4, <1>7, <2>1, Writer DEF Key, Holders
    <3> QED
      BY <1>1, <1>2, <1>4, <1>6, <1>7, <2>1, <3>1 DEF WriterFits
  <2>2. CASE call[p].kind \notin Writes
    BY <1>7, <2>2 DEF WriterFits
  <2> QED
    BY <2>1, <2>2
<1> QED
  BY <1>1, <1>3, <1>4, <1>5, <1>7, <1>8, NothingWritten

\* What is retrieved for a chunk to be announced or renounced has all its holders.
LEMMA RetrieveKeeps ==
  ASSUME RingInv, StoreInv, NEW p \in Peers, Retrieve(p)
  PROVE  StoreInv'
<1> DEFINE q == call[p].at
           c == call[p].chunk
           entry == IF Declines(q) THEN Absent ELSE data[q][c]
<1>1. Rests /\ op' = op /\ state' = state /\ succ' = succ /\ pred' = pred /\ data' = data /\ holds' = holds
  BY DEF Rests, Retrieve, ringVars
<1>2. Members' = Members
  BY <1>1 DEF Members
<1>3. /\ StoreTypes
      /\ call \in [Peers -> Requests] /\ call[p].pc = "access" /\ q \in Peers /\ ~call[p].adds
      /\ call[p].kind # "none" => c \in Chunks
  BY DEF StoreInv, StoreTypes, Retrieve, AtPeer
<1>4. \/ call' = call
      \/ call' = [call EXCEPT ![p].pc = "own"]
      \/ call' = [call EXCEPT ![p] = NoCall]
      \/ /\ call[p].kind = "announce"
         /\ call' = [call EXCEPT ![p].pc = "own", ![p].adds = TRUE, ![p].entry = announcePosession(p, entry)]
      \/ /\ call[p].kind = "renounce" /\ entry # Absent
         /\ call' = [call EXCEPT ![p].pc = "own", ![p].adds = TRUE, ![p].entry = renouncePosession(p, entry)]
  BY DEF Retrieve, Returns
<1>5. CASE call' = call
  <2>1. WriterFits(p)'
    BY <1>1, <1>2, <1>5 DEF StoreInv, WritersFit, WriterFits, Key, Holders
  <2>2. Alone(p)
    BY <1>3, <1>5 DEF Alone
  <2> QED
    BY <1>1, <1>3, <1>5, <2>1, <2>2, NothingWritten
<1>6. CASE call' = [call EXCEPT ![p].pc = "own"]
  <2>1. Alone(p) /\ CallGoes(p, "own", q)
    BY <1>3, <1>6, LooksAgain
  <2>2. WriterFits(p)'
    BY <1>1, <1>2, <1>3, <2>1 DEF StoreInv, WritersFit, WriterFits, CallGoes, AtPeer
  <2> QED
    BY <1>1, <1>3, <2>1, <2>2, NothingWritten DEF CallGoes, AtPeer
<1>7. CASE call' = [call EXCEPT ![p] = NoCall]
  <2>1. Alone(p) /\ call'[p].kind = "none" /\ call'[p].pc = "idle" /\ ~call'[p].adds
    BY <1>3, <1>7, CallEnds
  <2>2. WriterFits(p)'
    BY <2>1 DEF WriterFits, Writes
  <2> QED
    BY <1>1, <2>1, <2>2, NothingWritten DEF AtPeer
<1>8. ASSUME call[p].kind \in Writes, NEW e \in SUBSET Peers, Holders(c) \subseteq e, call[p].kind = "announce" => p \in e,
             call' = [call EXCEPT ![p].pc = "own", ![p].adds = TRUE, ![p].entry = e]
      PROVE  StoreInv'
  <2>1. /\ Alone(p) /\ call'[p].kind = call[p].kind /\ call'[p].chunk = call[p].chunk
        /\ call'[p].adds /\ call'[p].entry = e /\ call'[p].pc = "own"
    BY <1>3, <1>8, TakesAlong
  <2>2. Holders(c)' = Holders(c)
    BY <1>1, <2>1 DEF Holders
  <2>3. WriterFits(p)
    BY <1>8, Writer
  <2>4. WriterFits(p)'
    BY <1>1, <1>8, <2>1, <2>2, <2>3 DEF WriterFits, AtPeer, Holders
  <2> QED
    BY <1>1, <1>3, <1>8, <2>1, <2>4, NothingWritten DEF AtPeer
<1>9. ASSUME call[p].kind \in Writes PROVE entry = data[q][c] /\ entry \in Entries /\ Holders(c) \subseteq Known(entry)
  <2>1. WriterFits(p) /\ ~Declines(q) /\ c \in Chunks
    BY <1>3, <1>9, Writer DEF AtPeer
  <2>2. q \in Members /\ isIn(HashOf[c], pred[q], q)
    BY <1>3, <1>9, <2>1 DEF WriterFits, AtPeer, Key
  <2>3. PICK o \in Members : isIn(HashOf[c], pred[o], o) /\ Holders(c) \subseteq Known(data[o][c])
    BY <2>1 DEF StoreInv, AllStored, Stored
  <2>4. HashOf[c] \in Int
    BY <2>1, ChordIndexAssumption
  <2> HIDE DEF q, c
  <2>5. o = q
    BY <2>2, <2>3, <2>4, OneOwner
  <2>6. data[q][c] \in Entries
    BY <1>3, <2>1 DEF StoreTypes
  <2> QED
    BY <2>1, <2>3, <2>5, <2>6 DEF entry
<1> HIDE DEF entry, q, c
<1>10. CASE /\ call[p].kind = "announce"
            /\ call' = [call EXCEPT ![p].pc = "own", ![p].adds = TRUE, ![p].entry = announcePosession(p, entry)]
  <2>1. call[p].kind \in Writes
    BY <1>10 DEF Writes
  <2>2. entry \in Entries /\ Holders(c) \subseteq Known(entry)
    BY <1>9, <2>1
  <2>3. /\ announcePosession(p, entry) \in SUBSET Peers
        /\ Holders(c) \subseteq announcePosession(p, entry) /\ p \in announcePosession(p, entry)
    BY <2>2 DEF announcePosession, Entries, Known
  <2> QED
    BY <1>8, <1>10, <2>1, <2>3
<1>11. CASE /\ call[p].kind = "renounce" /\ entry # Absent
            /\ call' = [call EXCEPT ![p].pc = "own", ![p].adds = TRUE, ![p].entry = renouncePosession(p, entry)]
  <2>1. call[p].kind \in Writes
    BY <1>11 DEF Writes
  <2>2. entry \in Entries /\ Holders(c) \subseteq Known(entry)
    BY <1>9, <2>1
  <2>3. p \notin Holders(c)
    BY <1>11, <2>1, Writer DEF WriterFits, Holders, c
  <2>4. /\ renouncePosession(p, entry) \in SUBSET Peers /\ Holders(c) \subseteq renouncePosession(p, entry)
    BY <1>11, <2>2, <2>3 DEF renouncePosession, Entries, Known
  <2> QED
    BY <1>8, <1>11, <2>1, <2>4
<1> QED
  BY <1>4, <1>5, <1>6, <1>7, <1>10, <1>11

\* What is written replaces the entry of the peer in charge, by one with all holders.
LEMMA AddKeeps ==
  ASSUME RingInv, StoreInv, StoreApart, NEW p \in Peers, Add(p)
  PROVE  StoreInv'
<1> DEFINE q == call[p].at
           c == call[p].chunk
<1>1. Rests /\ op' = op /\ state' = state /\ succ' = succ /\ pred' = pred
  BY DEF Rests, Add, ringVars
<1>2. Members' = Members /\ HandingOver' = HandingOver
  BY <1>1 DEF Members, HandingOver
<1>3. /\ call[p].pc = "access" /\ call[p].adds /\ call[p].kind \in Writes
      /\ call \in [Peers -> Requests] /\ data \in [Peers -> [Chunks -> Entries]] /\ holds \subseteq Peers \X Chunks
  BY DEF StoreInv, StoreTypes, Add
<1>4. /\ WriterFits(p) /\ HandingOver = {} /\ c \in Chunks /\ q \in Peers
      /\ \A w \in Peers : call[w].kind \in Writes => w = p
      /\ state[q] # "inactive" /\ ~Declines(q)
  BY <1>3, Writer DEF AtPeer
<1>5. /\ q \in Members /\ isIn(HashOf[c], pred[q], q) /\ HashOf[c] \in Int
      /\ Holders(c) \subseteq call[p].entry
      /\ call[p].kind = "announce" => p \in call[p].entry
      /\ call[p].kind = "renounce" => <<p, c>> \notin holds
  BY <1>3, <1>4, ChordIndexAssumption DEF WriterFits, AtPeer, Key
<1>6. /\ data' = [data EXCEPT ![q][c] = call[p].entry]
      /\ holds' = IF call[p].kind = "announce" THEN holds \cup {<<p, c>>} ELSE holds
      /\ call' = [call EXCEPT ![p] = NoCall]
  BY <1>4 DEF Add, Fatal, Returns
<1>7. Alone(p) /\ call'[p].kind = "none" /\ call'[p].pc = "idle" /\ ~call'[p].adds
  BY <1>3, <1>6, CallEnds
<1>8. call[p].entry \in Entries /\ call[p].entry \in SUBSET Peers
  BY <1>3 DEF Requests, Entries
<1>9. StoreTypes'
  <2>1. data' \in [Peers -> [Chunks -> Entries]] /\ holds' \subseteq Peers \X Chunks
    BY <1>3, <1>4, <1>6, <1>8
  <2> QED
    BY <1>7, <2>1 DEF StoreInv, StoreTypes, Alone, AtPeer
<1>10. WritersFit' /\ WritesFit'
  <2>1. \A w \in Peers : call'[w].kind \notin Writes
    BY <1>4, <1>7 DEF Alone, Writes
  <2> QED
    BY <2>1 DEF WritersFit, WriterFits, WritesFit, Writing, Writes
<1>11. AllHanded'
  BY <1>1, <1>4 DEF AllHanded, Handed, HandingOver
<1> HIDE DEF q, c
<1>12. AllEntriesFit'
  <2>1. \A x \in Peers : EntriesFit(x)
    BY DEF StoreInv, AllEntriesFit
  <2>2. q # Founder => isIn(HashOf[c], Founder, q)
    BY <1>5, FounderStays, FounderBefore
  <2> QED
    BY <1>3, <1>4, <1>6, <2>1, <2>2 DEF AllEntriesFit, EntriesFit
<1>13. AllStored'
  <2> SUFFICES ASSUME NEW d \in Chunks PROVE Stored(d)'
    BY DEF AllStored
  <2>1. CASE d = c
    <3>1. Holders(d)' \subseteq call[p].entry
      BY <1>5, <1>6, <2>1 DEF Holders
    <3>2. data'[q][d] = call[p].entry /\ call[p].entry # Absent
      BY <1>3, <1>4, <1>6, <1>8, <2>1, ChordIndexAssumption
    <3>3. q \in Members /\ isIn(HashOf[d], pred[q], q)
      BY <1>5, <2>1
    <3> QED
      BY <1>1, <1>2, <3>1, <3>2, <3>3 DEF Stored, Known
  <2>2. CASE d # c
    <3>1. PICK o \in Members : isIn(HashOf[d], pred[o], o) /\ Holders(d) \subseteq Known(data[o][d])
      BY DEF StoreInv, AllStored, Stored
    <3>2. data'[o][d] = data[o][d] /\ Holders(d)' = Holders(d)
      BY <1>3, <1>4, <1>6, <2>2, <3>1 DEF Holders, Members
    <3> QED
      BY <1>1, <1>2, <3>1, <3>2 DEF Stored, Known
  <2> QED
    BY <2>1, <2>2
<1> QED
  BY <1>9, <1>10, <1>11, <1>12, <1>13 DEF StoreInv

\* A peer begins to change an entry when nobody else does and none is handed over.
LEMMA StartCallKeeps ==
  ASSUME RingInv, StoreInv, StoreApart, NEW p \in Peers,
         NEW kind \in {"seek", "announce", "renounce"}, NEW c \in Chunks, StartCall(p, kind, c)
  PROVE  StoreInv'
<1>1. Rests /\ op' = op /\ state' = state /\ succ' = succ /\ pred' = pred /\ data' = data
  BY DEF Rests, StartCall, ringVars
<1>2. Members' = Members /\ HandingOver' = HandingOver
  BY <1>1 DEF Members, HandingOver
<1>3. /\ call \in [Peers -> Requests] /\ holds \subseteq Peers \X Chunks
      /\ state[p] = "in" /\ op[p] = Idle
      /\ kind \in Writes => Writing = {} /\ HandingOver = {}
      /\ holds' = IF kind = "renounce" THEN holds \ {<<p, c>>} ELSE holds
  BY DEF StoreInv, StoreTypes, StartCall, WritesApart, StoreApart, Writes
<1>4. /\ call'[p].pc = "own" /\ call'[p].kind = kind /\ call'[p].chunk = c /\ ~call'[p].adds /\ Alone(p)
  <2> DEFINE new == [NoCall EXCEPT !.pc = "own", !.kind = kind, !.chunk = c, !.sure = {q \in Peers : <<q, c>> \in holds}]
  <2>1. call' = [call EXCEPT ![p] = new]
    BY DEF StartCall
  <2>2. /\ new.pc = "own" /\ new.kind = kind /\ new.chunk = c /\ ~new.adds
        /\ new \in Requests
    <3>1. c \in AnyChunk /\ kind \in {"none", "seek"} \cup Writes /\ NoCall \in Requests
      BY CallNames DEF AnyChunk, Writes
    <3>2. {q \in Peers : <<q, c>> \in holds} \in SUBSET Peers
      OBVIOUS
    <3>3. NoCall.adds = FALSE
      BY CallNames
    <3> QED
      BY <3>1, <3>2, <3>3 DEF Requests
  <2> HIDE DEF new
  <2> QED
    BY <1>3, <2>1, <2>2 DEF Alone
<1>5. WriterFits(p)'
  BY <1>1, <1>3, <1>4 DEF WriterFits, AtPeer
<1>6. CASE kind \notin Writes
  <2>1. holds' = holds
    BY <1>3, <1>6 DEF Writes
  <2>2. StoreTypes'
    BY <1>1, <1>4, <2>1 DEF StoreInv, StoreTypes, Alone, AtPeer
  <2>3. WritersFit'
    <3>1. ASSUME NEW w \in Peers, w # p PROVE WriterFits(w)'
      <4>1. WriterFits(w) /\ call'[w] = call[w]
        BY <1>4, <3>1 DEF StoreInv, WritersFit, Alone
      <4> QED
        BY <1>1, <1>2, <2>1, <4>1 DEF WriterFits, Key, Holders
    <3> QED
      BY <1>5, <3>1 DEF WritersFit
  <2>4. AllEntriesFit' /\ AllHanded' /\ AllStored'
    BY <1>1, <1>2, <2>1 DEF StoreInv, AllEntriesFit, EntriesFit, AllHanded, Handed, AllStored, Stored, Holders
  <2>5. WritesFit'
    <3>1. Writing' \subseteq Writing
      BY <1>4, <1>6 DEF Writing, Alone, Writes
    <3> QED
      BY <1>2, <3>1 DEF StoreInv, WritesFit
  <2> QED
    BY <2>2, <2>3, <2>4, <2>5 DEF StoreInv
<1>7. CASE kind \in Writes
  <2>1. Writing = {} /\ HandingOver = {} /\ holds' \subseteq holds
    BY <1>3, <1>7
  <2>2. StoreTypes'
    BY <1>1, <1>3, <1>4, <2>1 DEF StoreInv, StoreTypes, Alone, AtPeer
  <2>3. \A w \in Peers \ {p} : call'[w].kind \notin Writes
    BY <1>4, <2>1 DEF Alone, Writing, Writes
  <2>4. WritersFit' /\ WritesFit'
    BY <1>2, <1>5, <2>1, <2>3 DEF WritersFit, WriterFits, WritesFit, Writing, Writes
  <2>5. AllEntriesFit' /\ AllHanded'
    BY <1>1 DEF StoreInv, AllEntriesFit, EntriesFit, AllHanded, Handed
  <2>6. AllStored'
    <3> SUFFICES ASSUME NEW d \in Chunks PROVE Stored(d)'
      BY DEF AllStored
    <3>1. Holders(d)' \subseteq Holders(d) /\ Stored(d)
      BY <2>1 DEF Holders, StoreInv, AllStored
    <3> QED
      BY <1>1, <1>2, <3>1 DEF Stored
  <2> QED
    BY <2>2, <2>4, <2>5, <2>6 DEF StoreInv
<1> QED
  BY <1>6, <1>7

--------------------------------------------------------------------------------
(* The invariant of what is stored. *)

\* Nothing is stored, and nobody has a chunk, when the founder is alone.
LEMMA StoreInvInit ==
  ASSUME Init
  PROVE  StoreInv
<1>1. /\ data = [p \in Peers |-> [c \in Chunks |-> Absent]] /\ call = [p \in Peers |-> NoCall] /\ holds = {}
      /\ \A p \in Peers : op[p] = Idle
  BY DEF Init
<1>2. \A p \in Peers : call[p].kind = "none" /\ call[p].pc = "idle" /\ call[p].adds = FALSE /\ op[p].pc = "idle"
  BY <1>1, CallNames DEF Idle
<1>3. StoreTypes
  <2>1. data \in [Peers -> [Chunks -> Entries]] /\ call \in [Peers -> Requests]
    BY <1>1, CallNames DEF Entries
  <2> QED
    BY <1>1, <1>2, <2>1 DEF StoreTypes, AtPeer
<1>4. WritersFit /\ AllHanded /\ WritesFit
  BY <1>2 DEF WritersFit, WriterFits, Writes, AllHanded, Handed, WritesFit, Writing
<1>5. AllEntriesFit
  BY <1>1 DEF AllEntriesFit, EntriesFit
<1>6. AllStored
  <2>1. Founder \in Members /\ pred[Founder] = Founder
    BY <1>2, ChordIndexAssumption DEF Init, Members, Idle
  <2>2. \A c \in Chunks : isIn(HashOf[c], pred[Founder], Founder) /\ Holders(c) = {}
    BY <1>1, <2>1 DEF isIn, Holders
  <2> QED
    BY <2>1, <2>2 DEF AllStored, Stored
<1> QED
  BY <1>3, <1>4, <1>5, <1>6 DEF StoreInv

\* It is inductive, together with that of the ring.
LEMMA StoreInvStep ==
  ASSUME RingInv, StoreInv, StoreApart, [Next]_vars
  PROVE  StoreInv'
<1>1. ASSUME NEW p \in Peers, Topology(p) PROVE StoreInv'
  BY <1>1, StoreTypesTopology, WritersFitTopology, AllEntriesFitTopology, AllStoredTopology, AllHandedTopology,
     WritesFitTopology DEF StoreInv
<1>2. ASSUME NEW p \in Peers, CallStep(p) PROVE StoreInv'
  BY <1>2, LookupsKeep, RetrieveKeeps, AddKeeps DEF CallStep
<1>3. ASSUME NEW p \in Peers, NEW kind \in {"seek", "announce", "renounce"}, NEW c \in Chunks, StartCall(p, kind, c)
      PROVE  StoreInv'
  BY <1>3, StartCallKeeps
<1>4. CASE UNCHANGED vars
  BY <1>4 DEF vars, ringVars, callVars, StoreInv, StoreTypes, WritersFit, WriterFits, AllEntriesFit, EntriesFit, AllStored, Stored,
     AllHanded, Handed, WritesFit, Writing, HandingOver, Holders, Members, Key
<1> QED
  BY <1>1, <1>2, <1>3, <1>4 DEF Next, Start, Topology

\* A chunk that is held is registered at the peer in charge of it, whoever joins
\* and leaves (NetTableIndex::announcePosession, handleFetchResponsibilities and
\* handlePushResponsibilities, chord-index.cc), if the founder of the index stays
\* and entries are changed one at a time and not during a handover.
THEOREM HeldStaysRegistered ==
  ASSUME Founder \notin Leavers, "writes" \in Apart
  PROVE  Spec => []HeldIsRegistered
<1>1. StoreApart /\ SomebodyStays
  BY DEF StoreApart, SomebodyStays
<1>2. Init => RingInv /\ StoreInv
  BY RingInvInit, StoreInvInit
<1>3. RingInv /\ StoreInv /\ [Next]_vars => (RingInv /\ StoreInv)'
  BY <1>1, RingInvStep, StoreInvStep
<1>4. RingInv /\ StoreInv => HeldIsRegistered
  <2> SUFFICES ASSUME RingInv, StoreInv, NEW c \in Chunks, NEW p \in Peers, <<p, c>> \in holds
               PROVE  \E o \in Owner(c) : data[o][c] \notin {Absent, {}}
    BY DEF HeldIsRegistered
  <2>1. PICK o \in Members : isIn(HashOf[c], pred[o], o) /\ Holders(c) \subseteq Known(data[o][c])
    BY DEF StoreInv, AllStored, Stored
  <2>2. p \in Known(data[o][c])
    BY <2>1 DEF Holders
  <2>3. data[o][c] \notin {Absent, {}}
    BY <2>2 DEF Known
  <2> QED
    BY <2>1, <2>3 DEF Owner
<1> QED
  BY <1>2, <1>3, <1>4, PTL DEF Spec
================================================================================
