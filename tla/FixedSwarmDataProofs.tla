-------------------------- MODULE FixedSwarmDataProofs --------------------------
(***************************************************************************)
(* Why the replicas of a chunk agree whenever a writer looks at them, for  *)
(* every number of peers, threads and items, as long as the swarm does not *)
(* change: each change that some peer lacks is on its way to it, and the   *)
(* lock keeps writers out until it has arrived.                            *)
(***************************************************************************)
EXTENDS FixedSwarmProofs

\* What u is broadcasting, and to whom it has yet to get.
SameChanges(u) ==
  /\ Broadcasting(u)' => /\ Broadcasting(u)
                         /\ arg'[u] = arg[u] /\ call'[u].kind = call[u].kind
  /\ \A q \in Founders : Pending(u, q)' <=> Pending(u, q)

\* A step makes no change and no change reaches a peer.
Quiet ==
  /\ data' = data
  /\ \A u \in Threads : SameChanges(u)

\* t makes a change at its own peer, and now all others lack it.
Begins(t, rev) ==
  /\ pc[t] \in {"reading", "writing"} /\ Host[t] \in Founders
  /\ data'[Host[t]] = data[Host[t]] \cup {rev}
  /\ \A p \in Peers \ {Host[t]} : data'[p] = data[p]
  /\ \A u \in Threads \ {t} : SameChanges(u)
  /\ Broadcasting(t)' => arg'[t] = rev
  /\ \A q \in Others(t) : Pending(t, q)'

\* The change of t reaches q.
Arrives(q, t) ==
  /\ Pending(t, q)
  /\ data'[q] = data[q] \cup {arg[t]}
  /\ \A p \in Peers \ {q} : data'[p] = data[p]
  /\ \A u \in Threads \ {t} : SameChanges(u)
  /\ Broadcasting(t)' /\ arg'[t] = arg[t] /\ call'[t].kind = call[t].kind
  /\ \A r \in Founders : Pending(t, r)' <=> Pending(t, r) /\ r # q

\* A thread asks for a change to be made only while it broadcasts.
LEMMA ChangesAreBroadcast ==
  ASSUME LockInv, NEW t \in Threads
  PROVE  /\ Broadcasting(t) <=> call[t].kind \in {"insert", "update"}
         /\ Broadcasting(t) => /\ Host[t] \in Founders /\ peers[Host[t]] = Others(t)
                               /\ call[t].to \in Others(t)
                               /\ call[t].reply \in {"none", "ack"}
<1> USE DEF LockInv
<1>1. Broadcasting(t) <=> call[t].kind \in {"insert", "update"}
  BY DEF TypeOK, CallTypes, CallsFit, CallFits, Broadcasting, NoCall
<1>2. ASSUME Broadcasting(t)
      PROVE  Host[t] \in Founders /\ peers[Host[t]] = Others(t) /\ call[t].to \in Others(t)
  BY <1>2, ConstantsAssumption DEF CallsFit, CallFits, Broadcasting, SwarmIsFixed, Others
<1>3. Broadcasting(t) => call[t].reply \in {"none", "ack"}
  BY <1>1 DEF TypeOK, CallTypes, CallsFit, CallFits
<1> QED
  BY <1>1, <1>2, <1>3

\* A thread that is not asked anything and does not move keeps what it broadcasts.
LEMMA SameThread ==
  ASSUME NEW u \in Threads, pc'[u] = pc[u], call'[u] = call[u], arg'[u] = arg[u]
  PROVE  SameChanges(u)
BY DEF SameChanges, Broadcasting, Pending, Others

\* Nor does one that is elsewhere.
LEMMA NotBroadcasting ==
  ASSUME NEW u \in Threads, ~Broadcasting(u), ~Broadcasting(u)'
  PROVE  SameChanges(u)
BY DEF SameChanges, Pending

\* The steps of the lock make no change.
LEMMA LockStepIsQuiet ==
  ASSUME TypeOK, NEW t \in Threads, LockStep(t)
  PROVE  Quiet /\ ~Broadcasting(t)
<1> USE DEF TypeOK, ThreadTypes
<1>1. data' = data
  BY DEF LockStep, ReadLock, Attempt, AskFirst, LockReply, Acquire, Relock, UnlockRead,
     UnlockNested, UnlockWrite, UnlockReply
<1>2. ~Broadcasting(t)
  BY DEF LockStep, ReadLock, Attempt, AskFirst, LockReply, Acquire, Relock, UnlockRead,
     UnlockNested, UnlockWrite, UnlockReply, MayUnlockWrite, Broadcasting
<1>3. ~Broadcasting(t)'
  BY DEF LockStep, ReadLock, Attempt, AskFirst, LockReply, Acquire, Relock, UnlockRead,
     UnlockNested, UnlockWrite, UnlockReply, MayUnlockWrite, Broadcasting, Goto, Base, threadVars
<1>4. ASSUME NEW u \in Threads \ {t} PROVE arg'[u] = arg[u]
  BY <1>4 DEF ArgTypes, LockStep, ReadLock, Attempt, AskFirst, LockReply, Acquire, Relock, UnlockRead,
     UnlockNested, UnlockWrite, UnlockReply, callVars, threadVars, Send, EndCall
<1>5. ASSUME NEW u \in Threads \ {t} PROVE SameChanges(u)
  BY <1>4, ThreadFrame, SameThread
<1> QED
  BY <1>1, <1>2, <1>3, <1>5, NotBroadcasting DEF Quiet

\* Between two requests of a broadcast the same peers lack the change.
LEMMA BroadcastReplyIsQuiet ==
  ASSUME LockInv, NEW t \in Threads, BroadcastReply(t)
  PROVE  Quiet
<1> USE DEF LockInv, TypeOK, ThreadTypes
<1>1. data' = data
  BY DEF BroadcastReply
<1>2. ASSUME NEW u \in Threads \ {t} PROVE arg'[u] = arg[u]
  BY <1>2 DEF ArgTypes, BroadcastReply, Send, EndCall
<1>3. ASSUME NEW u \in Threads \ {t} PROVE SameChanges(u)
  BY <1>2, ThreadFrame, SameThread DEF DataStep
<1>4. SameChanges(t)
  <2>1. /\ Broadcasting(t) /\ call[t].reply = "ack" /\ call[t].to \in Others(t)
        /\ peers[Host[t]] = Others(t) /\ Others(t) \subseteq Int
    BY ChangesAreBroadcast, ConstantsAssumption DEF BroadcastReply, Broadcasting, Others
  <2>2. CASE AtEnd(Host[t], call[t].to) /\ pc'[t] \in {"reading", "writing"}
    <3>1. \A q \in Founders : ~Pending(t, q)
      BY <2>1, <2>2 DEF AtEnd, Pending
    <3> QED
      BY <2>2, <3>1 DEF SameChanges, Broadcasting, Pending
  <2>3. CASE \E q \in Others(t) : /\ IsNext(Host[t], call[t].to, q) /\ pc'[t] = pc[t]
                                  /\ call'[t] = [kind |-> call[t].kind, to |-> q, reply |-> "none"]
                                  /\ arg'[t] = arg[t]
    <3>1. PICK q \in Others(t) : /\ IsNext(Host[t], call[t].to, q) /\ pc'[t] = pc[t]
                                 /\ call'[t] = [kind |-> call[t].kind, to |-> q, reply |-> "none"]
                                 /\ arg'[t] = arg[t]
      BY <2>3
    <3>2. ASSUME NEW r \in Others(t) PROVE call[t].to < r <=> q < r \/ q = r
      BY <2>1, <3>1 DEF IsNext
    <3>3. ASSUME NEW r \in Founders PROVE Pending(t, r)' <=> Pending(t, r)
      BY <2>1, <3>1, <3>2 DEF Pending, Broadcasting, Others
    <3> QED
      BY <3>1, <3>3 DEF SameChanges, Broadcasting
  <2>4. \/ AtEnd(Host[t], call[t].to) /\ pc'[t] \in {"reading", "writing"}
        \/ pc'[t] = pc[t] /\ \E q \in Others(t) :
             IsNext(Host[t], call[t].to, q) /\ Send(t, call[t].kind, q, arg[t])
    BY <2>1 DEF BroadcastReply, Goto, IsNext
  <2> QED
    BY <2>2, <2>3, <2>4 DEF Send, CallTypes, ArgTypes
<1> QED
  BY <1>1, <1>3, <1>4 DEF Quiet

\* A client starts a call, a trigger thread its callbacks.
LEMMA StartIsQuiet ==
  ASSUME TypeOK, NEW t \in Threads, StartCall(t) \/ RunTrigger(t) \/ TriggerDone(t)
  PROVE  Quiet /\ ~Broadcasting(t)
<1> USE DEF TypeOK, ThreadTypes
<1>1. data' = data /\ arg' = arg /\ call' = call
  BY DEF StartCall, RunTrigger, TriggerDone, callVars
<1>2. ~Broadcasting(t) /\ ~Broadcasting(t)'
  BY DEF StartCall, RunTrigger, TriggerDone, Base, Broadcasting, Goto
<1>3. ASSUME NEW u \in Threads \ {t} PROVE SameChanges(u)
  BY <1>1, ThreadFrame, SameThread DEF DataStep
<1> QED
  BY <1>1, <1>2, <1>3, NotBroadcasting DEF Quiet

\* insert, bulkInsertLocked and updateLocked make a change.
LEMMA ChangeBegins ==
  ASSUME LockInv, NEW t \in Threads, NEW rev, NEW kind \in {"insert", "update"},
         NEW label \in {"readBroadcast", "writeBroadcast"},
         pc[t] \in {"reading", "writing"}, Patch(Host[t], rev), Broadcast(t, kind, rev, label)
  PROVE  Begins(t, rev) /\ (Broadcasting(t)' => call'[t].kind = kind /\ pc'[t] = label)
<1> USE DEF LockInv, TypeOK, ThreadTypes
<1>1. Host[t] \in Founders /\ Host[t] \in Peers
  BY ConstantsAssumption DEF CallsFit, CallFits
<1>2. peers[Host[t]] = Others(t) /\ Others(t) \subseteq Int
  BY <1>1, ConstantsAssumption DEF SwarmIsFixed, Others
<1>3. /\ data'[Host[t]] = data[Host[t]] \cup {rev}
      /\ \A p \in Peers \ {Host[t]} : data'[p] = data[p]
  BY <1>1 DEF Patch, SwarmTypes
<1>4. ASSUME NEW u \in Threads \ {t} PROVE SameChanges(u)
  <2>1. pc'[u] = pc[u] /\ call'[u] = call[u] /\ arg'[u] = arg[u]
    BY DEF Broadcast, Goto, Send, callVars, CallTypes, ArgTypes
  <2> QED
    BY <2>1, SameThread
<1>5. CASE peers[Host[t]] = {} /\ UNCHANGED <<callVars, pc>>
  BY <1>1, <1>2, <1>3, <1>4, <1>5 DEF Begins, Broadcasting
<1>6. CASE \E q \in peers[Host[t]] : IsFirst(Host[t], q) /\ Send(t, kind, q, rev) /\ Goto(t, label)
  <2>1. PICK q \in Others(t) : IsFirst(Host[t], q) /\ Send(t, kind, q, rev) /\ Goto(t, label)
    BY <1>2, <1>6
  <2>2. /\ call'[t] = [kind |-> kind, to |-> q, reply |-> "none"]
        /\ arg'[t] = rev /\ pc'[t] = label
    BY <2>1 DEF Send, Goto, CallTypes, ArgTypes
  <2>3. \A r \in Others(t) : q < r \/ q = r
    BY <1>2, <2>1 DEF IsFirst
  <2>4. \A r \in Others(t) : Pending(t, r)'
    BY <2>2, <2>3 DEF Pending, Broadcasting, Others
  <2> QED
    BY <1>1, <1>3, <1>4, <2>2, <2>4 DEF Begins
<1> QED
  BY <1>5, <1>6 DEF Broadcast

\* The server thread takes a request, or executes one that changes no data.
LEMMA ServerIsQuiet ==
  ASSUME LockInv, NEW q \in Peers, NEW t \in Threads,
         \/ Receive(q, t)
         \/ HandleLockRequest(q, t) \/ HandleUnlockRequest(q, t) \/ HandleCommitEnd(q, t)
  PROVE  Quiet
<1> USE DEF LockInv
<1>1. data' = data /\ arg' = arg /\ pc' = pc
  BY DEF Receive, HandleLockRequest, HandleUnlockRequest, HandleCommitEnd, threadVars, callVars
<1>2. ASSUME NEW u \in Threads \ {t} PROVE SameChanges(u)
  <2>1. call'[u] = call[u]
    <3>1. Receive(q, t) \/ Handle(q, t)
      BY DEF Handle
    <3> QED
      BY <3>1, ServerFrame
  <2> QED
    BY <1>1, <2>1, SameThread
<1>3. CASE Receive(q, t)
  <2>1. call' = call
    BY <1>3 DEF Receive, threadVars, callVars
  <2> QED
    BY <1>1, <2>1, SameThread DEF Quiet
<1>4. CASE HandleLockRequest(q, t) \/ HandleUnlockRequest(q, t) \/ HandleCommitEnd(q, t)
  <2>1. call[t].kind \in {"lock", "unlock"}
    <3>1. CallFits(t)
      BY DEF CallsFit
    <3>2. HandleCommitEnd(q, t) => call[t].kind = "unlock"
      BY <3>1 DEF HandleCommitEnd, CallFits
    <3> QED
      BY <1>4, <3>2 DEF HandleLockRequest, HandleUnlockRequest, Handles
  <2>2. ~Broadcasting(t) /\ ~Broadcasting(t)'
    BY <1>1, <2>1, ChangesAreBroadcast DEF Broadcasting
  <2> QED
    BY <1>1, <1>2, <2>2, NotBroadcasting DEF Quiet
<1> QED
  BY <1>3, <1>4

\* handleInsertRequest and handleUpdateRequest.
LEMMA ChangeArrives ==
  ASSUME LockInv, NEW q \in Peers, NEW t \in Threads,
         HandleInsertRequest(q, t) \/ HandleUpdateRequest(q, t)
  PROVE  Arrives(q, t) /\ q \in Founders
<1> USE DEF LockInv, TypeOK
<1>1. serving[q] = t /\ call[t].kind \in {"insert", "update"} /\ call[t].reply = "none"
  BY DEF HandleInsertRequest, HandleUpdateRequest, Handles
<1>2. /\ Broadcasting(t) /\ call[t].to = q /\ q \in Others(t) /\ q \in Founders
      /\ member[q] = "active"
  BY <1>1, ServedFromElsewhere, ChangesAreBroadcast DEF Others
<1>3. /\ Patch(q, arg[t]) /\ call' = [call EXCEPT ![t].reply = "ack"]
      /\ UNCHANGED <<pc, arg>>
  BY <1>2 DEF HandleInsertRequest, HandleUpdateRequest, Reply
<1>4. /\ data'[q] = data[q] \cup {arg[t]}
      /\ \A p \in Peers \ {q} : data'[p] = data[p]
  BY <1>3 DEF Patch, SwarmTypes
<1>5. call'[t].to = q /\ call'[t].kind = call[t].kind /\ call'[t].reply = "ack"
  BY <1>2, <1>3 DEF CallTypes
<1>6. ASSUME NEW u \in Threads \ {t} PROVE SameChanges(u)
  BY <1>3, SameThread DEF CallTypes
<1>7. Pending(t, q)
  BY <1>1, <1>2 DEF Pending
<1>8. ASSUME NEW r \in Founders PROVE Pending(t, r)' <=> Pending(t, r) /\ r # q
  <2>1. q \in Int /\ r \in Int
    BY <1>2, ConstantsAssumption
  <2> QED
    BY <1>1, <1>2, <1>3, <1>5, <2>1 DEF Pending, Broadcasting, Others
<1> QED
  BY <1>2, <1>3, <1>4, <1>5, <1>6, <1>7, <1>8 DEF Arrives, Broadcasting

--------------------------------------------------------------------------------
(* What the lock keeps apart. *)

\* While a thread has the write lock nobody else broadcasts.
LEMMA WriterBroadcastsAlone ==
  ASSUME LockInv, NEW t \in Threads, WriteHeld(t), NEW u \in Threads, u # t
  PROVE  ~Broadcasting(u) /\ ~WriteHeld(u)
<1>1. ~ReadHeld(u) /\ ~WriteHeld(u)
  BY ExclusionOfLockInv DEF MutualExclusion
<1> QED
  BY <1>1 DEF Broadcasting, ReadHeld, WriteHeld

\* Nor does anybody still unlock when all peers have accepted another thread.
LEMMA OwnerIsAlone ==
  ASSUME LockInv, NEW t \in Threads, WriteHeld(t) \/ pc[t] = "accepted",
         NEW u \in Threads, Owns(u)
  PROVE  u = t
<1>1. Host[u] \in Founders /\ IsWriter(Host[u], Host[u])
  BY DEF LockInv, CallsFit, CallFits, OwnLock, OwnLockOf, Owns, WriteHeld
<1>2. Host[u] = Host[t]
  BY <1>1, WriterHoldsFounders DEF Others, IsWriter
<1> QED
  BY <1>2, OneLocker DEF Owns, Attempting

\* A thread that goes on broadcasting does so under the same lock, for the same call.
LEMMA BroadcasterStays ==
  ASSUME LockInv, [FixedSwarmNext]_vars, NEW u \in Threads, Broadcasting(u), Broadcasting(u)'
  PROVE  pc'[u] = pc[u] /\ op'[u] = op[u] /\ touched'[u] = touched[u]
<1> USE DEF LockInv, TypeOK, ThreadTypes
<1>1. ASSUME NEW t \in Threads, LockStep(t) \/ DataStep(t), t # u
      PROVE  pc'[u] = pc[u] /\ op'[u] = op[u] /\ touched'[u] = touched[u]
  <2>1. op'[u] = op[u] /\ touched'[u] = touched[u]
    BY <1>1 DEF LockStep, ReadLock, Attempt, AskFirst, LockReply, Acquire, Relock, UnlockRead,
       UnlockNested, UnlockWrite, UnlockReply, DataStep, StartCall, Insert, BulkInsertLocked,
       UpdateLocked, BroadcastReply, RunTrigger, TriggerDone, threadVars
  <2> QED
    BY <1>1, <2>1, ThreadFrame
<1>2. ASSUME BroadcastReply(u)
      PROVE  pc'[u] = pc[u] /\ op'[u] = op[u] /\ touched'[u] = touched[u]
  BY <1>2, ChangesAreBroadcast DEF BroadcastReply, Goto, Broadcasting
<1>3. ~LockStep(u)
  BY LockStepIsQuiet
<1>4. DataStep(u) => BroadcastReply(u)
  BY StartIsQuiet DEF DataStep, Insert, BulkInsertLocked, UpdateLocked, Broadcasting
<1>5. ASSUME NEW q \in Peers, NEW t \in Threads, Receive(q, t) \/ Handle(q, t)
      PROVE  pc'[u] = pc[u] /\ op'[u] = op[u] /\ touched'[u] = touched[u]
  BY <1>5 DEF Receive, Handle, HandleLockRequest, HandleUnlockRequest, HandleCommitEnd,
     HandleInsertRequest, HandleUpdateRequest, threadVars
<1>6. CASE UNCHANGED vars
  BY <1>6 DEF vars, threadVars
<1> QED
  BY <1>1, <1>2, <1>3, <1>4, <1>5, <1>6 DEF FixedSwarmNext

\* What a peer has noted for its triggers grows with the updates it executes only.
LEMMA UpdatedFrame ==
  ASSUME LockInv, [FixedSwarmNext]_vars, NEW q \in Peers
  PROVE  \/ updated'[q] = updated[q] \/ updated'[q] = {}
         \/ \E t \in Threads : /\ HandleUpdateRequest(q, t)
                               /\ updated'[q] = updated[q] \cup {arg[t][1]}
<1> USE DEF LockInv, TypeOK, TriggerTypes
<1>1. ASSUME NEW t \in Threads, LockStep(t) \/ DataStep(t) PROVE updated' = updated
  BY <1>1 DEF LockStep, ReadLock, Attempt, AskFirst, LockReply, Acquire, Relock, UnlockRead,
     UnlockNested, UnlockWrite, UnlockReply, DataStep, StartCall, Insert, BulkInsertLocked,
     UpdateLocked, BroadcastReply, RunTrigger, TriggerDone, triggerVars
<1>2. ASSUME NEW p \in Peers, NEW t \in Threads,
             \/ Receive(p, t) \/ HandleLockRequest(p, t) \/ HandleUnlockRequest(p, t)
             \/ HandleInsertRequest(p, t)
      PROVE  updated' = updated
  BY <1>2 DEF Receive, HandleLockRequest, HandleUnlockRequest, HandleInsertRequest, triggerVars
<1>3. ASSUME NEW p \in Peers, NEW t \in Threads, HandleCommitEnd(p, t)
      PROVE  updated'[q] \in {updated[q], {}}
  BY <1>3 DEF HandleCommitEnd
<1>4. ASSUME NEW p \in Peers, NEW t \in Threads, HandleUpdateRequest(p, t)
      PROVE  updated'[q] = IF p = q THEN updated[q] \cup {arg[t][1]} ELSE updated[q]
  BY <1>4 DEF HandleUpdateRequest
<1>5. CASE UNCHANGED vars
  BY <1>5 DEF vars, triggerVars
<1> QED
  BY <1>1, <1>2, <1>3, <1>4, <1>5 DEF FixedSwarmNext, Handle

\* A step makes a change, takes one to a peer, or does neither.
LEMMA StepShapes ==
  ASSUME LockInv, [FixedSwarmNext]_vars
  PROVE  \/ Quiet
         \/ \E t \in Threads : \E rev : Begins(t, rev)
         \/ \E q \in Founders, t \in Threads : Arrives(q, t)
<1>1. ASSUME NEW t \in Threads, Insert(t) \/ BulkInsertLocked(t) \/ UpdateLocked(t)
      PROVE  \E rev : Begins(t, rev)
  <2>1. PICK kind \in {"insert", "update"}, label \in {"readBroadcast", "writeBroadcast"} :
          \E rev : Patch(Host[t], rev) /\ Broadcast(t, kind, rev, label)
    BY <1>1 DEF Insert, BulkInsertLocked, UpdateLocked
  <2>2. PICK rev : Patch(Host[t], rev) /\ Broadcast(t, kind, rev, label)
    BY <2>1
  <2>3. pc[t] \in {"reading", "writing"}
    BY <1>1 DEF Insert, BulkInsertLocked, UpdateLocked
  <2>4. Begins(t, rev)
    BY <2>2, <2>3, ChangeBegins
  <2> QED
    BY <2>4
<1>2. ASSUME NEW t \in Threads, LockStep(t) \/ DataStep(t)
      PROVE  Quiet \/ \E rev : Begins(t, rev)
  BY <1>1, <1>2, LockStepIsQuiet, BroadcastReplyIsQuiet, StartIsQuiet DEF DataStep, LockInv
<1>3. ASSUME NEW q \in Peers, NEW t \in Threads, Receive(q, t) \/ Handle(q, t)
      PROVE  Quiet \/ (q \in Founders /\ Arrives(q, t))
  BY <1>3, ServerIsQuiet, ChangeArrives DEF Handle
<1>4. CASE UNCHANGED vars
  BY <1>4, SameThread DEF vars, threadVars, callVars, Quiet
<1> QED
  BY <1>1, <1>2, <1>3, <1>4 DEF FixedSwarmNext

--------------------------------------------------------------------------------
(* The invariant is inductive. *)

\* A change stays on its way to a peer, unless it is its turn.
LEMMA StaysOnItsWay ==
  ASSUME NEW u \in Threads, NEW q \in Founders, SameChanges(u), Pending(u, q),
         NEW rev, arg[u] = rev
  PROVE  OnItsWay(rev, q)'
<1>1. Pending(u, q)' /\ arg'[u] = rev
  BY DEF SameChanges, Pending
<1> QED
  BY <1>1 DEF OnItsWay

\* What one peer has and another has not stays on its way until it arrives.
LEMMA ReplicatedStep ==
  ASSUME LockInv, DataInv, [FixedSwarmNext]_vars
  PROVE  Replicated'
<1>1. SUFFICES ASSUME NEW p \in Founders, NEW q \in Founders, NEW rev \in data'[p] \ data'[q]
               PROVE  OnItsWay(rev, q)'
  BY DEF Replicated
<1>2. CASE Quiet
  <2>1. PICK u \in Threads : Pending(u, q) /\ arg[u] = rev
    BY <1>1, <1>2 DEF DataInv, Replicated, OnItsWay, Quiet
  <2> QED
    BY <1>2, <2>1, StaysOnItsWay DEF Quiet
<1>3. ASSUME NEW t \in Threads, NEW new, Begins(t, new) PROVE OnItsWay(rev, q)'
  <2>1. CASE p = Host[t] /\ rev = new
    <3>1. q \in Others(t)
      BY <1>1, <1>3, <2>1 DEF Others
    <3>2. Pending(t, q)' /\ arg'[t] = new
      BY <1>3, <3>1 DEF Begins, Pending
    <3> QED
      BY <2>1, <3>2 DEF OnItsWay
  <2>2. CASE ~(p = Host[t] /\ rev = new)
    <3>1. rev \in data[p] /\ rev \notin data[q]
      BY <1>1, <1>3, <2>2, ConstantsAssumption DEF Begins
    <3>2. PICK u \in Threads : Pending(u, q) /\ arg[u] = rev
      BY <3>1 DEF DataInv, Replicated, OnItsWay
    <3>3. u # t
      BY <1>3, <3>2 DEF Begins, Pending, Broadcasting
    <3> QED
      BY <1>3, <3>2, <3>3, StaysOnItsWay DEF Begins
  <2> QED
    BY <2>1, <2>2
<1>4. ASSUME NEW r \in Founders, NEW t \in Threads, Arrives(r, t) PROVE OnItsWay(rev, q)'
  <2>1. rev \notin data[q] /\ (r = q => rev # arg[t])
    BY <1>1, <1>4, ConstantsAssumption DEF Arrives
  <2>2. PICK s \in Founders : rev \in data[s]
    <3>1. CASE rev \in data[p]
      BY <3>1
    <3>2. CASE rev \notin data[p]
      <4>1. rev = arg[t]
        BY <1>1, <1>4, <3>2, ConstantsAssumption DEF Arrives
      <4>2. Host[t] \in Founders /\ arg[t] \in data[Host[t]]
        BY <1>4, ChangesAreBroadcast DEF Arrives, Pending, DataInv, BroadcastIsMade
      <4> QED
        BY <4>1, <4>2
    <3> QED
      BY <3>1, <3>2
  <2>3. PICK u \in Threads : Pending(u, q) /\ arg[u] = rev
    BY <2>1, <2>2 DEF DataInv, Replicated, OnItsWay
  <2>4. CASE u = t
    BY <1>4, <2>1, <2>3, <2>4 DEF Arrives, OnItsWay
  <2>5. CASE u # t
    BY <1>4, <2>3, <2>5, StaysOnItsWay DEF Arrives
  <2> QED
    BY <2>4, <2>5
<1> QED
  BY <1>2, <1>3, <1>4, StepShapes

\* Who broadcasts a change has made it at its own peer.
LEMMA BroadcastIsMadeStep ==
  ASSUME LockInv, DataInv, [FixedSwarmNext]_vars
  PROVE  BroadcastIsMade'
<1> USE DEF DataInv, BroadcastIsMade
<1>1. ASSUME NEW u \in Threads, SameChanges(u), Broadcasting(u)',
             data[Host[u]] \subseteq data'[Host[u]]
      PROVE  arg'[u] \in data'[Host[u]]
  BY <1>1 DEF SameChanges
<1>2. CASE Quiet
  BY <1>1, <1>2 DEF Quiet
<1>3. ASSUME NEW t \in Threads, NEW new, Begins(t, new) PROVE BroadcastIsMade'
  <2>1. \A p \in Peers : data[p] \subseteq data'[p]
    BY <1>3 DEF Begins
  <2>2. Broadcasting(t)' => arg'[t] \in data'[Host[t]]
    BY <1>3 DEF Begins
  <2> QED
    BY <1>1, <1>3, <2>1, <2>2, ConstantsAssumption DEF Begins
<1>4. ASSUME NEW r \in Founders, NEW t \in Threads, Arrives(r, t) PROVE BroadcastIsMade'
  <2>1. \A p \in Peers : data[p] \subseteq data'[p]
    BY <1>4 DEF Arrives
  <2>2. arg'[t] \in data'[Host[t]]
    BY <1>4, <2>1, ConstantsAssumption DEF Arrives, Pending
  <2> QED
    BY <1>1, <1>4, <2>1, <2>2, ConstantsAssumption DEF Arrives
<1> QED
  BY <1>2, <1>3, <1>4, StepShapes

\* A process that is not in the swarm has no part of the chunk.
LEMMA OutsidersStep ==
  ASSUME LockInv, DataInv, [FixedSwarmNext]_vars
  PROVE  OutsidersHaveNothing'
<1> USE DEF DataInv, OutsidersHaveNothing
<1>1. SUFFICES ASSUME NEW p \in Peers \ Founders PROVE data'[p] = {} /\ updated'[p] = {}
  OBVIOUS
<1>2. data'[p] = data[p]
  BY StepShapes, ConstantsAssumption DEF Quiet, Begins, Arrives
<1>3. \A t \in Threads : ~HandleUpdateRequest(p, t)
  BY ChangeArrives
<1> QED
  BY <1>2, <1>3, UpdatedFrame

--------------------------------------------------------------------------------
(* What is inserted. *)

\* insert and bulkInsertLocked make an item that no peer has.
LEMMA InsertBegins ==
  ASSUME LockInv, NEW t \in Threads, Insert(t) \/ BulkInsertLocked(t)
  PROVE  \E i \in Fresh[t] : /\ \A q \in Peers : Versions(q, i) = {}
                             /\ Begins(t, <<i, 1>>)
                             /\ Broadcasting(t)' => call'[t].kind = "insert"
<1>1. PICK i \in Fresh[t], label \in {"readBroadcast", "writeBroadcast"} :
        ~Known(i) /\ Patch(Host[t], <<i, 1>>) /\ Broadcast(t, "insert", <<i, 1>>, label)
  BY DEF Insert, BulkInsertLocked
<1>2. pc[t] \in {"reading", "writing"}
  BY DEF Insert, BulkInsertLocked
<1>3. Begins(t, <<i, 1>>) /\ (Broadcasting(t)' => call'[t].kind = "insert")
  BY <1>1, <1>2, ChangeBegins
<1> QED
  BY <1>1, <1>3 DEF Known

\* updateLocked makes the next version of an item.
LEMMA UpdateBegins ==
  ASSUME LockInv, NEW t \in Threads, UpdateLocked(t)
  PROVE  \E i \in Items, v \in Nat :
           /\ IsLatest(Host[t], i, v) /\ (op[t] = "commit" => i \notin touched[t])
           /\ Begins(t, <<i, v + 1>>)
           /\ Broadcasting(t)' => call'[t].kind = "update" /\ pc'[t] = "writeBroadcast"
           /\ touched'[t] = touched[t] \cup {i}
<1> USE DEF LockInv, TypeOK, SwarmTypes, ThreadTypes
<1>1. PICK i \in Items : \E v \in Versions(Host[t], i) :
        /\ IsLatest(Host[t], i, v) /\ (op[t] = "commit" => i \notin touched[t])
        /\ Patch(Host[t], <<i, v + 1>>) /\ Broadcast(t, "update", <<i, v + 1>>, "writeBroadcast")
        /\ touched'[t] = touched[t] \cup {i}
  BY DEF UpdateLocked
<1>2. PICK v \in Versions(Host[t], i) :
        /\ IsLatest(Host[t], i, v) /\ (op[t] = "commit" => i \notin touched[t])
        /\ Patch(Host[t], <<i, v + 1>>) /\ Broadcast(t, "update", <<i, v + 1>>, "writeBroadcast")
        /\ touched'[t] = touched[t] \cup {i}
  BY <1>1
<1>3. v \in Nat
  <2>1. data[Host[t]] \in SUBSET (Items \X Nat)
    BY ConstantsAssumption
  <2>2. \A rev \in Items \X Nat : rev[2] \in Nat
    OBVIOUS
  <2> QED
    BY <1>2, <2>1, <2>2 DEF Versions
<1>4. pc[t] \in {"reading", "writing"}
  BY DEF UpdateLocked
<1>5. /\ Begins(t, <<i, v + 1>>)
      /\ Broadcasting(t)' => call'[t].kind = "update" /\ pc'[t] = "writeBroadcast"
  BY <1>2, <1>4, ChangeBegins
<1> QED
  BY <1>2, <1>3, <1>5

\* Items of another id are as before.
LEMMA OtherVersions ==
  ASSUME NEW q, NEW rev, data'[q] = data[q] \cup {rev}, NEW i, rev[1] # i
  PROVE  Versions(q, i)' = Versions(q, i)
BY DEF Versions

\* A peer never forgets a version.
LEMMA DataGrows ==
  ASSUME LockInv, [FixedSwarmNext]_vars, NEW q \in Peers
  PROVE  data[q] \subseteq data'[q]
<1>1. \A t \in Threads : \A rev : Begins(t, rev) => data[q] \subseteq data'[q]
  BY DEF Begins
<1>2. \A p \in Founders, t \in Threads : Arrives(p, t) => data[q] \subseteq data'[q]
  BY DEF Arrives
<1> QED
  BY <1>1, <1>2, StepShapes DEF Quiet

\* The item of a thread that goes on is new where it was, unless it arrives.
LEMMA StaysNew ==
  ASSUME NEW u \in Threads, NewWherePending(u), SameChanges(u),
         \A q \in Founders, i \in Fresh[u] :
           Broadcasting(u) /\ call[u].kind = "insert" /\ Pending(u, q) /\ arg[u][1] = i
             => Versions(q, i)' = Versions(q, i)
  PROVE  NewWherePending(u)'
<1> SUFFICES ASSUME Broadcasting(u)', call'[u].kind = "insert"
             PROVE  /\ arg'[u][1] \in Fresh[u]
                    /\ \A q \in Founders : Pending(u, q)' => Versions(q, arg[u][1])' = {}
  BY DEF NewWherePending
<1> DEFINE i == arg[u][1]
<1>1. /\ Broadcasting(u) /\ call[u].kind = "insert" /\ arg'[u] = arg[u]
      /\ \A q \in Founders : Pending(u, q)' <=> Pending(u, q)
  BY DEF SameChanges
<1>2. i \in Fresh[u] /\ \A q \in Founders : Pending(u, q) => Versions(q, i) = {}
  BY <1>1 DEF NewWherePending
<1>3. PICK j \in Fresh[u] : j = i
  BY <1>2
<1>4. ASSUME NEW q \in Founders, Pending(u, q)' PROVE Versions(q, j)' = {}
  BY <1>1, <1>2, <1>3, <1>4
<1> QED
  BY <1>1, <1>3, <1>4 DEF Versions

\* What a thread inserts is new to every peer it has yet to reach.
LEMMA NewWherePendingStep ==
  ASSUME LockInv, DataInv, [FixedSwarmNext]_vars, NEW u \in Threads
  PROVE  NewWherePending(u)'
<1>1. NewWherePending(u)
  BY DEF DataInv, InsertsAreNew
<1>2. CASE Quiet
  <2>1. \A q, i : Versions(q, i)' = Versions(q, i)
    BY <1>2 DEF Quiet, Versions
  <2> QED
    BY <1>1, <1>2, <2>1, StaysNew DEF Quiet
<1>3. ASSUME NEW t \in Threads, Insert(t) \/ BulkInsertLocked(t) PROVE NewWherePending(u)'
  <2>1. PICK j \in Fresh[t] : /\ \A q \in Peers : Versions(q, j) = {}
                              /\ Begins(t, <<j, 1>>)
                              /\ Broadcasting(t)' => call'[t].kind = "insert"
    BY <1>3, InsertBegins
  <2>2. CASE u = t
    <3>1. ASSUME NEW q \in Founders, Pending(t, q)' PROVE Versions(q, j)' = {}
      BY <2>1, <3>1, ConstantsAssumption DEF Begins, Pending, Versions, Others
    <3>2. Broadcasting(t)' => arg'[t] = <<j, 1>>
      BY <2>1 DEF Begins
    <3>3. Broadcasting(t)' => arg'[t][1] = j
      BY <3>2
    <3> QED
      BY <2>2, <3>1, <3>3 DEF NewWherePending, Versions
  <2>3. CASE u # t
    <3>1. j \notin Fresh[u]
      BY <2>3, ConstantsAssumption
    <3>2. ASSUME NEW q \in Founders, NEW i \in Fresh[u] PROVE Versions(q, i)' = Versions(q, i)
      <4>1. CASE q = Host[t]
        <5>1. data'[q] = data[q] \cup {<<j, 1>>}
          BY <2>1, <4>1 DEF Begins
        <5>2. <<j, 1>>[1] # i
          BY <3>1
        <5> QED
          BY <5>1, <5>2, OtherVersions
      <4>2. CASE q # Host[t]
        BY <2>1, <4>2, ConstantsAssumption DEF Begins, Versions
      <4> QED
        BY <4>1, <4>2
    <3> QED
      BY <1>1, <2>1, <2>3, <3>2, StaysNew DEF Begins
  <2> QED
    BY <2>2, <2>3
<1>4. ASSUME NEW t \in Threads, UpdateLocked(t) PROVE NewWherePending(u)'
  <2>1. PICK new : Begins(t, new) /\ (Broadcasting(t)' => call'[t].kind = "update")
    BY <1>4, UpdateBegins
  <2>2. CASE u = t
    BY <2>1, <2>2 DEF NewWherePending
  <2>3. CASE u # t
    <3>1. ~Broadcasting(u)
      BY <1>4, <2>3, WriterBroadcastsAlone DEF UpdateLocked, WriteHeld
    <3> QED
      BY <1>1, <2>1, <2>3, <3>1, StaysNew DEF Begins
  <2> QED
    BY <2>2, <2>3
<1>5. ASSUME NEW r \in Peers, NEW t \in Threads,
             HandleInsertRequest(r, t) \/ HandleUpdateRequest(r, t)
      PROVE  NewWherePending(u)'
  <2>1. Arrives(r, t) /\ r \in Founders
    BY <1>5, ChangeArrives
  <2>2. \A q \in Founders \ {r} : \A i : Versions(q, i)' = Versions(q, i)
    BY <2>1, ConstantsAssumption DEF Arrives, Versions
  <2>3. CASE u = t
    <3>1. ASSUME Broadcasting(t)', call'[t].kind = "insert"
          PROVE  /\ arg'[t][1] \in Fresh[t]
                 /\ \A q \in Founders : Pending(t, q)' => Versions(q, arg[t][1])' = {}
      <4>1. /\ Broadcasting(t) /\ call[t].kind = "insert" /\ arg'[t] = arg[t]
        BY <2>1, <3>1 DEF Arrives, Pending
      <4>2. arg[t][1] \in Fresh[t] /\ \A q \in Founders : Pending(t, q) => Versions(q, arg[t][1]) = {}
        BY <1>1, <2>3, <4>1 DEF NewWherePending
      <4>3. PICK j \in Fresh[t] : j = arg[t][1]
        BY <4>2
      <4>4. \A q \in Founders : Pending(t, q)' => Versions(q, j)' = {}
        BY <2>1, <2>2, <4>2, <4>3 DEF Arrives
      <4> QED
        BY <4>1, <4>3, <4>4 DEF Versions
    <3> QED
      BY <2>3, <3>1 DEF NewWherePending
  <2>4. CASE u # t
    <3>1. ASSUME NEW i \in Fresh[u], Broadcasting(u) PROVE Versions(r, i)' = Versions(r, i)
      <4>1. HandleInsertRequest(r, t)
        <5>1. ASSUME HandleUpdateRequest(r, t) PROVE FALSE
          <6>1. Broadcasting(t) /\ call[t].kind = "update"
            BY <2>1, <5>1 DEF HandleUpdateRequest, Handles, Arrives, Pending
          <6>2. WriteHeld(t)
            BY <6>1 DEF DataInv, UpdatesAreNew, UpdateIsNew, WriteHeld
          <6> QED
            BY <2>4, <3>1, <6>2, WriterBroadcastsAlone
        <5> QED
          BY <1>5, <5>1
      <4>2. Broadcasting(t) /\ call[t].kind = "insert"
        BY <2>1, <4>1 DEF HandleInsertRequest, Handles, Arrives, Pending
      <4>3. arg[t][1] \in Fresh[t]
        BY <4>2 DEF DataInv, InsertsAreNew, NewWherePending
      <4>4. arg[t][1] # i
        BY <2>4, <4>3, ConstantsAssumption
      <4>5. data'[r] = data[r] \cup {arg[t]}
        BY <2>1 DEF Arrives
      <4> QED
        BY <4>4, <4>5, OtherVersions
    <3> QED
      BY <1>1, <2>1, <2>2, <2>4, <3>1, StaysNew DEF Arrives
  <2> QED
    BY <2>3, <2>4
<1>6. ASSUME NEW t \in Threads, LockStep(t) \/ DataStep(t) PROVE NewWherePending(u)'
  BY <1>2, <1>3, <1>4, <1>6, LockStepIsQuiet, BroadcastReplyIsQuiet, StartIsQuiet DEF DataStep, LockInv
<1>7. ASSUME NEW r \in Peers, NEW t \in Threads, Receive(r, t) \/ Handle(r, t)
      PROVE  NewWherePending(u)'
  BY <1>2, <1>5, <1>7, ServerIsQuiet DEF Handle
<1>8. CASE UNCHANGED vars
  BY <1>8, <1>2, SameThread DEF vars, threadVars, callVars, Quiet
<1> QED
  BY <1>6, <1>7, <1>8 DEF FixedSwarmNext

\* What a peer has noted as inserted grows with the inserts it executes only.
LEMMA InsertedFrame ==
  ASSUME LockInv, [FixedSwarmNext]_vars, NEW q \in Peers
  PROVE  \/ inserted'[q] = inserted[q] \/ inserted'[q] = {}
         \/ \E t \in Threads : /\ HandleInsertRequest(q, t)
                               /\ inserted'[q] \subseteq inserted[q] \cup {arg[t][1]}
<1> USE DEF LockInv, TypeOK, TriggerTypes
<1>1. ASSUME NEW t \in Threads, LockStep(t) \/ DataStep(t) PROVE inserted' = inserted
  BY <1>1 DEF LockStep, ReadLock, Attempt, AskFirst, LockReply, Acquire, Relock, UnlockRead,
     UnlockNested, UnlockWrite, UnlockReply, DataStep, StartCall, Insert, BulkInsertLocked,
     UpdateLocked, BroadcastReply, RunTrigger, TriggerDone, triggerVars
<1>2. ASSUME NEW p \in Peers, NEW t \in Threads,
             \/ Receive(p, t) \/ HandleLockRequest(p, t) \/ HandleUnlockRequest(p, t)
             \/ HandleUpdateRequest(p, t)
      PROVE  inserted' = inserted
  BY <1>2 DEF Receive, HandleLockRequest, HandleUnlockRequest, HandleUpdateRequest, triggerVars
<1>3. ASSUME NEW p \in Peers, NEW t \in Threads, HandleCommitEnd(p, t)
      PROVE  inserted'[q] \in {inserted[q], {}}
  BY <1>3 DEF HandleCommitEnd
<1>4. ASSUME NEW p \in Peers, NEW t \in Threads, HandleInsertRequest(p, t)
      PROVE  \/ inserted'[q] = inserted[q]
             \/ p = q /\ inserted'[q] \subseteq inserted[q] \cup {arg[t][1]}
  BY <1>4 DEF HandleInsertRequest
<1>5. CASE UNCHANGED vars
  BY <1>5 DEF vars, triggerVars
<1> QED
  BY <1>1, <1>2, <1>3, <1>4, <1>5 DEF FixedSwarmNext, Handle

\* No step makes an item that some peer has already.
LEMMA InsertsAreNewStep ==
  ASSUME LockInv, DataInv, [FixedSwarmNext]_vars
  PROVE  InsertsAreNew'
<1>1. ASSUME NEW q \in Founders, NEW i \in inserted'[q] PROVE Versions(q, i)' # {}
  <2>1. data[q] \subseteq data'[q] /\ q \in Peers
    BY DataGrows, ConstantsAssumption
  <2>2. CASE i \in inserted[q]
    BY <2>1, <2>2 DEF DataInv, InsertsAreNew, Versions
  <2>3. CASE i \notin inserted[q]
    <3>1. PICK t \in Threads : HandleInsertRequest(q, t) /\ i = arg[t][1]
      BY <1>1, <2>1, <2>3, InsertedFrame
    <3>2. arg[t] \in data'[q]
      BY <2>1, <3>1, ChangeArrives DEF Arrives
    <3> QED
      BY <3>1, <3>2 DEF Versions
  <2> QED
    BY <2>2, <2>3
<1> QED
  BY <1>1, NewWherePendingStep DEF InsertsAreNew

--------------------------------------------------------------------------------
(* What is updated. *)

\* A peer has noted nothing for its triggers but what the present writer touched.
LEMMA WriterUpdates ==
  ASSUME LockInv, DataInv, NEW t \in Threads, WriteHeld(t), NEW q \in Founders
  PROVE  updated[q] \subseteq touched[t]
<1>1. CASE updated[q] = {}
  BY <1>1
<1>2. CASE updated[q] # {}
  <2>1. PICK u \in Threads : UpdatesAt(u, q)
    BY <1>2 DEF DataInv, UpdatesAreClaimed
  <2>2. u = t
    BY <2>1, OwnerIsAlone DEF UpdatesAt, Owns
  <2> QED
    BY <2>1, <2>2 DEF UpdatesAt, WriteHeld
<1> QED
  BY <1>1, <1>2

\* A batch is called by a client that makes batches.
LEMMA BatchStep ==
  ASSUME LockInv, DataInv, [FixedSwarmNext]_vars, NEW u \in Threads, op'[u] = "batch"
  PROVE  "batch" \in Calls[u]
<1> USE DEF LockInv, TypeOK, ThreadTypes
<1>1. op[u] = "batch" => "batch" \in Calls[u]
  BY DEF DataInv, UpdatesAreNew
<1>2. ASSUME NEW t \in Threads, StartCall(t) PROVE op'[u] = op[u] \/ op'[u] \in Calls[u]
  BY <1>2 DEF StartCall
<1>3. ASSUME NEW t \in Threads, Insert(t) \/ BroadcastReply(t)
      PROVE  op'[u] \in {op[u], "read", "write"}
  BY <1>3 DEF Insert, BroadcastReply
<1>4. ASSUME NEW t \in Threads, LockStep(t) \/ DataStep(t)
      PROVE  op'[u] \in {op[u], "read", "write"} \cup Calls[u]
  BY <1>4, <1>2, <1>3 DEF LockStep, ReadLock, Attempt, AskFirst, LockReply, Acquire, Relock,
     UnlockRead, UnlockNested, UnlockWrite, UnlockReply, DataStep, BulkInsertLocked,
     UpdateLocked, RunTrigger, TriggerDone, threadVars
<1>5. ASSUME NEW q \in Peers, NEW t \in Threads, Receive(q, t) \/ Handle(q, t) PROVE op' = op
  BY <1>5 DEF Receive, Handle, HandleLockRequest, HandleUnlockRequest, HandleCommitEnd,
     HandleInsertRequest, HandleUpdateRequest, threadVars
<1> QED
  BY <1>1, <1>4, <1>5 DEF FixedSwarmNext, vars, threadVars

\* An update that goes on is new where it was.
LEMMA UpdateStaysNew ==
  ASSUME LockInv, DataInv, [FixedSwarmNext]_vars, NEW u \in Threads,
         Broadcasting(u), Broadcasting(u)', arg'[u] = arg[u], call'[u].kind = call[u].kind,
         \A q \in Founders : Pending(u, q)' => Pending(u, q)
  PROVE  UpdateIsNew(u)'
<1>1. pc'[u] = pc[u] /\ op'[u] = op[u] /\ touched'[u] = touched[u]
  BY BroadcasterStays
<1>2. SUFFICES ASSUME call[u].kind = "update" PROVE UpdateIsNew(u)'
  BY DEF UpdateIsNew
<1>3. /\ pc[u] = "writeBroadcast" /\ op[u] \in {"commit", "batch"} /\ arg[u][1] \in touched[u]
      /\ op[u] = "commit" => \A q \in Founders : Pending(u, q) => arg[u][1] \notin updated[q]
  BY <1>2 DEF DataInv, UpdatesAreNew, UpdateIsNew
<1>4. ASSUME NEW q \in Founders, Pending(u, q)' PROVE updated'[q] \subseteq updated[q]
  <2>1. ASSUME NEW t \in Threads, HandleUpdateRequest(q, t) PROVE FALSE
    <3>1. Arrives(q, t)
      BY <2>1, ChangeArrives, ConstantsAssumption
    <3>2. Broadcasting(t) /\ t # u
      BY <1>4, <3>1 DEF Arrives, Pending
    <3> QED
      BY <1>3, <3>2, WriterBroadcastsAlone DEF WriteHeld
  <2> QED
    BY <2>1, UpdatedFrame, ConstantsAssumption
<1>5. op[u] = "commit" => \A q \in Founders : Pending(u, q)' => arg[u][1] \notin updated'[q]
  BY <1>3, <1>4
<1> QED
  BY <1>1, <1>3, <1>5 DEF UpdateIsNew

\* A commit still updates what it has not touched before.
LEMMA UpdatesAreNewStep ==
  ASSUME LockInv, DataInv, [FixedSwarmNext]_vars
  PROVE  UpdatesAreNew'
<1>1. SUFFICES ASSUME NEW u \in Threads, Broadcasting(u)' PROVE UpdateIsNew(u)'
  BY BatchStep DEF UpdatesAreNew, UpdateIsNew
<1>2. ASSUME SameChanges(u) PROVE UpdateIsNew(u)'
  <2>1. /\ Broadcasting(u) /\ arg'[u] = arg[u] /\ call'[u].kind = call[u].kind
        /\ \A q \in Founders : Pending(u, q)' => Pending(u, q)
    BY <1>1, <1>2 DEF SameChanges
  <2> QED
    BY <1>1, <2>1, UpdateStaysNew
<1>3. ASSUME NEW r \in Founders, Arrives(r, u) PROVE UpdateIsNew(u)'
  <2>1. /\ Broadcasting(u) /\ arg'[u] = arg[u] /\ call'[u].kind = call[u].kind
        /\ \A q \in Founders : Pending(u, q)' => Pending(u, q)
    BY <1>3 DEF Arrives, Pending
  <2> QED
    BY <1>1, <2>1, UpdateStaysNew
<1>4. ASSUME Insert(u) \/ BulkInsertLocked(u) PROVE UpdateIsNew(u)'
  BY <1>4, InsertBegins DEF UpdateIsNew
<1>5. ASSUME UpdateLocked(u) PROVE UpdateIsNew(u)'
  <2>1. PICK i \in Items, v \in Nat :
          /\ op[u] = "commit" => i \notin touched[u]
          /\ Begins(u, <<i, v + 1>>) /\ touched'[u] = touched[u] \cup {i}
          /\ Broadcasting(u)' => call'[u].kind = "update" /\ pc'[u] = "writeBroadcast"
    BY <1>5, UpdateBegins
  <2>2. /\ op' = op /\ updated' = updated /\ op[u] \in {"commit", "batch"}
        /\ pc[u] = "writing"
    BY <1>5 DEF UpdateLocked, triggerVars
  <2>3. arg'[u] = <<i, v + 1>>
    BY <1>1, <2>1 DEF Begins
  <2>4. arg'[u][1] = i
    BY <2>3
  <2>5. \A q \in Founders : updated'[q] \subseteq touched[u]
    BY <2>2, WriterUpdates DEF WriteHeld
  <2> QED
    BY <1>1, <2>1, <2>2, <2>4, <2>5 DEF UpdateIsNew
<1>6. ASSUME NEW t \in Threads, LockStep(t) \/ DataStep(t) PROVE UpdateIsNew(u)'
  <2>1. CASE \E rev : Begins(t, rev)
    <3>1. t # u => SameChanges(u)
      BY <2>1 DEF Begins
    <3>2. t = u => Insert(u) \/ BulkInsertLocked(u) \/ UpdateLocked(u) \/ SameChanges(u)
      BY <1>6, LockStepIsQuiet, BroadcastReplyIsQuiet, StartIsQuiet DEF DataStep, LockInv, Quiet
    <3> QED
      BY <3>1, <3>2, <1>2, <1>4, <1>5
  <2>2. CASE Quiet
    BY <2>2, <1>2 DEF Quiet
  <2>3. ASSUME Insert(t) \/ BulkInsertLocked(t) \/ UpdateLocked(t) PROVE \E rev : Begins(t, rev)
    BY <2>3, InsertBegins, UpdateBegins
  <2> QED
    BY <1>6, <2>1, <2>2, <2>3, LockStepIsQuiet, BroadcastReplyIsQuiet, StartIsQuiet DEF DataStep, LockInv
<1>7. ASSUME NEW r \in Peers, NEW t \in Threads, Receive(r, t) \/ Handle(r, t) PROVE UpdateIsNew(u)'
  <2>1. CASE Quiet
    BY <2>1, <1>2 DEF Quiet
  <2>2. CASE Arrives(r, t) /\ r \in Founders
    <3>1. t # u => SameChanges(u)
      BY <2>2 DEF Arrives
    <3> QED
      BY <2>2, <3>1, <1>2, <1>3
  <2> QED
    BY <1>7, <2>1, <2>2, ServerIsQuiet, ChangeArrives DEF Handle
<1>8. CASE UNCHANGED vars
  BY <1>8, <1>2, SameThread DEF vars, threadVars, callVars
<1> QED
  BY <1>6, <1>7, <1>8 DEF FixedSwarmNext

\* What a thread has updated at a peer is its own until the peer tells its triggers.
LEMMA UpdatesStayClaimed ==
  ASSUME LockInv, DataInv, [FixedSwarmNext]_vars, NEW u \in Threads, NEW q \in Founders,
         UpdatesAt(u, q), updated'[q] = updated[q], ~HandleCommitEnd(q, u)
  PROVE  UpdatesAt(u, q)'
<1> USE DEF LockInv, TypeOK, ThreadTypes
<1>1. q \in Others(u) /\ q \in Others(u)'
  BY DEF UpdatesAt, Others
<1>2. ASSUME pc'[u] = pc[u], call'[u] = call[u], rest'[u] = rest[u], touched[u] \subseteq touched'[u]
      PROVE  UpdatesAt(u, q)'
  BY <1>1, <1>2 DEF UpdatesAt, WriteHeld, Claims, Others
<1>3. ASSUME WriteHeld(u), WriteHeld(u)', touched[u] \subseteq touched'[u] PROVE UpdatesAt(u, q)'
  BY <1>1, <1>3 DEF UpdatesAt, WriteHeld
<1>4. ASSUME NEW t \in Threads, LockStep(t) \/ DataStep(t) PROVE UpdatesAt(u, q)'
  <2>1. CASE t # u
    <3>1. touched'[u] = touched[u]
      BY <1>4, <2>1 DEF LockStep, ReadLock, Attempt, AskFirst, LockReply, Acquire, Relock, UnlockRead,
         UnlockNested, UnlockWrite, UnlockReply, DataStep, StartCall, Insert, BulkInsertLocked,
         UpdateLocked, BroadcastReply, RunTrigger, TriggerDone, threadVars
    <3> QED
      BY <1>4, <2>1, <3>1, <1>2, ThreadFrame
  <2>2. CASE DataStep(u)
    <3>1. WriteHeld(u) /\ WriteHeld(u)'
      BY <2>2, DataFrame DEF UpdatesAt, WriteHeld
    <3>2. touched[u] \subseteq touched'[u]
      BY <2>2 DEF DataStep, StartCall, Insert, BulkInsertLocked,
         UpdateLocked, BroadcastReply, RunTrigger, TriggerDone
    <3> QED
      BY <3>1, <3>2, <1>3
  <2>3. CASE Relock(u) \/ UnlockNested(u)
    BY <2>3, <1>2 DEF Relock, UnlockNested, callVars, threadVars
  <2>4. CASE UnlockWrite(u)
    <3>1. peers[Host[u]] = Others(u)
      BY <2>4, ConstantsAssumption
         DEF UnlockWrite, MayUnlockWrite, CallsFit, CallFits, SwarmIsFixed, Others
    <3>2. \E r \in Others(u) : /\ call'[u] = [kind |-> "unlock", to |-> r, reply |-> "none"]
                               /\ rest'[u] = Others(u) \ {r} /\ pc'[u] = "unlocking"
      BY <1>1, <2>4, <3>1 DEF UnlockWrite, Goto, Send, CallTypes
    <3> QED
      BY <1>1, <3>2 DEF UpdatesAt, Claims
  <2>5. CASE UnlockReply(u)
    <3>1. pc[u] = "unlocking" /\ call[u].reply = "ack" /\ q \in rest[u]
      BY <2>5 DEF UnlockReply, UpdatesAt, Claims, WriteHeld
    <3>2. \E r \in rest[u] : /\ call'[u] = [kind |-> "unlock", to |-> r, reply |-> "none"]
                             /\ rest'[u] = rest[u] \ {r} /\ pc'[u] = "unlocking"
      BY <2>5, <3>1 DEF UnlockReply, Send, CallTypes
    <3> QED
      BY <1>1, <3>1, <3>2 DEF UpdatesAt, Claims
  <2>6. CASE LockStep(u) /\ ~Relock(u) /\ ~UnlockNested(u) /\ ~UnlockWrite(u) /\ ~UnlockReply(u)
    BY <2>6 DEF LockStep, ReadLock, Attempt, AskFirst, LockReply, Acquire, UnlockRead,
       UpdatesAt, WriteHeld
  <2> QED
    BY <1>4, <2>1, <2>2, <2>3, <2>4, <2>5, <2>6
<1>5. ASSUME NEW r \in Peers, NEW t \in Threads, Receive(r, t) \/ Handle(r, t)
      PROVE  UpdatesAt(u, q)'
  <2>1. pc' = pc /\ touched' = touched /\ rest' = rest
    BY <1>5 DEF Receive, Handle, HandleLockRequest, HandleUnlockRequest, HandleCommitEnd,
       HandleInsertRequest, HandleUpdateRequest, threadVars
  <2>2. CASE t # u \/ WriteHeld(u)
    BY <1>5, <2>1, <2>2, <1>2, <1>3, ServerFrame DEF WriteHeld
  <2>3. CASE Receive(r, t)
    BY <2>1, <2>3, <1>2 DEF Receive, threadVars, callVars
  <2>4. CASE t = u /\ ~WriteHeld(u) /\ Handle(r, u)
    <3>1. pc[u] = "unlocking" /\ serving[r] = u
      BY <2>4 DEF UpdatesAt, Handle, HandleLockRequest, HandleUnlockRequest, HandleCommitEnd,
         HandleInsertRequest, HandleUpdateRequest, Handles
    <3>2. call[u].to = r /\ call[u].kind = "unlock"
      BY <3>1, ServedFromElsewhere
    <3>3. call'[u].to = r
      BY <1>5, <2>4, <3>2, ServerFrame
    <3>4. CASE q \in rest[u]
      BY <1>1, <2>1, <3>1, <3>4 DEF UpdatesAt, Claims
    <3>5. CASE q = r
      <4>1. HandleUnlockRequest(r, u)
        <5>1. ~HandleLockRequest(r, u) /\ ~HandleInsertRequest(r, u) /\ ~HandleUpdateRequest(r, u)
          BY <3>2 DEF HandleLockRequest, HandleInsertRequest, HandleUpdateRequest, Handles
        <5> QED
          BY <2>4, <3>5, <5>1 DEF Handle
      <4>2. call'[u].reply = "commitEnd"
        BY <4>1 DEF HandleUnlockRequest, CallTypes
      <4> QED
        BY <1>1, <2>1, <3>1, <3>3, <3>5, <4>2 DEF UpdatesAt
    <3> QED
      BY <3>1, <3>2, <3>4, <3>5, <2>4 DEF UpdatesAt, Claims
  <2> QED
    BY <1>5, <2>2, <2>3, <2>4
<1>6. CASE UNCHANGED vars
  BY <1>6, <1>2 DEF vars, threadVars, callVars
<1> QED
  BY <1>4, <1>5, <1>6 DEF FixedSwarmNext

\* A thread that awaits the end of its commit at a peer is executed there.
LEMMA CommitEndStep ==
  ASSUME LockInv, DataInv, [FixedSwarmNext]_vars, NEW u \in Threads, call'[u].reply = "commitEnd"
  PROVE  serving'[call'[u].to] = u
<1> USE DEF LockInv, TypeOK, ThreadTypes
<1>1. call[u].reply = "commitEnd" => serving[call[u].to] = u /\ call[u].to \in Peers
  BY ConstantsAssumption DEF DataInv, UpdatesAreClaimed, CallsFit, CallFits, Others
<1>2. ASSUME NEW t \in Threads, LockStep(t) \/ DataStep(t) PROVE serving'[call'[u].to] = u
  <2>1. call'[u] = call[u] \/ call'[u].reply = "none"
    <3>1. ASSUME NEW kind, NEW r, NEW what, Send(t, kind, r, what) \/ EndCall(t)
          PROVE  call'[t].reply = "none"
      BY <3>1 DEF Send, EndCall, NoCall, CallTypes
    <3>2. \/ call' = call \/ EndCall(t)
          \/ \E kind, r, what : Send(t, kind, r, what)
      <4>1. CASE LockStep(t)
        BY <4>1 DEF LockStep, ReadLock, Attempt, AskFirst, LockReply, Acquire,
           Relock, UnlockRead, UnlockNested, UnlockWrite, UnlockReply, threadVars, callVars
      <4>2. CASE DataStep(t)
        BY <4>2 DEF DataStep, StartCall, Insert, BulkInsertLocked,
           UpdateLocked, Broadcast, BroadcastReply, RunTrigger, TriggerDone, callVars
      <4> QED
        BY <1>2, <4>1, <4>2
    <3>3. u # t => call'[u] = call[u]
      BY <1>2, ThreadFrame
    <3> QED
      BY <3>1, <3>2, <3>3
  <2> QED
    BY <1>1, <1>2, <2>1, ThreadFrame
<1>3. ASSUME NEW q \in Peers, NEW t \in Threads, Receive(q, t) PROVE serving'[call'[u].to] = u
  BY <1>1, <1>3, ConstantsAssumption DEF Receive, threadVars, callVars
<1>4. ASSUME NEW q \in Peers, NEW t \in Threads, Handle(q, t) PROVE serving'[call'[u].to] = u
  <2>1. serving[q] = t /\ call[t].to = q
    BY <1>4, ServedFromElsewhere DEF Handle, HandleLockRequest, HandleUnlockRequest, HandleCommitEnd,
       HandleInsertRequest, HandleUpdateRequest, Handles
  <2>2. CASE u = t
    <3>1. serving' = serving \/ call'[t].reply \in {"ack", "decline"}
      BY <1>4 DEF Handle, HandleLockRequest, HandleUnlockRequest, HandleCommitEnd,
         HandleInsertRequest, HandleUpdateRequest, Reply, CallTypes
    <3> QED
      BY <1>4, <2>1, <2>2, <3>1, ServerFrame
  <2>3. CASE u # t
    <3>1. call'[u] = call[u] /\ call[u].to # q /\ call[u].to \in Peers
      BY <1>1, <1>4, <2>1, <2>3, ServerFrame, ConstantsAssumption DEF CallsFit, CallFits, Others
    <3> QED
      BY <1>1, <1>4, <3>1, ServerFrame
  <2> QED
    BY <2>2, <2>3
<1> QED
  BY <1>1, <1>2, <1>3, <1>4 DEF FixedSwarmNext, vars, threadVars, callVars

\* What a peer has noted for its triggers still belongs to a thread that has it locked.
LEMMA UpdatesAreClaimedStep ==
  ASSUME LockInv, DataInv, [FixedSwarmNext]_vars
  PROVE  UpdatesAreClaimed'
<1>1. SUFFICES ASSUME NEW q \in Founders, updated'[q] # {}
               PROVE  \E u \in Threads : UpdatesAt(u, q)'
  BY CommitEndStep DEF UpdatesAreClaimed
<1>2. CASE updated'[q] = updated[q]
  <2>1. PICK u \in Threads : UpdatesAt(u, q)
    BY <1>1, <1>2 DEF DataInv, UpdatesAreClaimed
  <2>2. ~HandleCommitEnd(q, u)
    <3>1. updated \in [Peers -> SUBSET Items] /\ q \in Peers
      BY ConstantsAssumption DEF LockInv, TypeOK, TriggerTypes
    <3> QED
      BY <1>1, <3>1 DEF HandleCommitEnd
  <2> QED
    BY <1>2, <2>1, <2>2, UpdatesStayClaimed
<1>3. ASSUME NEW t \in Threads, HandleUpdateRequest(q, t), updated'[q] = updated[q] \cup {arg[t][1]}
      PROVE  UpdatesAt(t, q)'
  <2>1. Broadcasting(t) /\ q \in Others(t) /\ call[t].kind = "update"
    <3>1. Arrives(q, t)
      BY <1>3, ChangeArrives, ConstantsAssumption
    <3> QED
      BY <1>3, <3>1 DEF Arrives, Pending, HandleUpdateRequest, Handles
  <2>2. WriteHeld(t) /\ arg[t][1] \in touched[t]
    BY <2>1 DEF DataInv, UpdatesAreNew, UpdateIsNew, WriteHeld
  <2>3. updated[q] \subseteq touched[t]
    BY <2>2, WriterUpdates
  <2>4. touched' = touched /\ pc' = pc
    BY <1>3 DEF HandleUpdateRequest
  <2> QED
    BY <1>3, <2>1, <2>2, <2>3, <2>4 DEF UpdatesAt, WriteHeld, Others
<1> QED
  BY <1>1, <1>2, <1>3, UpdatedFrame, ConstantsAssumption

\* A peer that is write-locked by a thread of its own is so until that thread unlocks it.
LEMMA OwnersExistStep ==
  ASSUME LockInv, DataInv, [FixedSwarmNext]_vars
  PROVE  OwnersExist'
<1> USE DEF LockInv, TypeOK, ThreadTypes, LockTypes
<1>1. SUFFICES ASSUME NEW q \in Founders, IsWriter(q, q)'
               PROVE  \E u \in Threads : Host[u] = q /\ Owns(u)'
  BY DEF OwnersExist
<1>2. q \in Peers
  BY ConstantsAssumption
<1>3. ASSUME IsWriter(q, q), \A u \in Threads : Host[u] = q /\ Owns(u) => Owns(u)'
      PROVE  \E u \in Threads : Host[u] = q /\ Owns(u)'
  BY <1>3 DEF DataInv, OwnersExist
<1>4. ASSUME NEW t \in Threads, Acquire(t) PROVE \E u \in Threads : Host[u] = q /\ Owns(u)'
  <2>1. CASE q = Host[t]
    BY <1>4, <2>1 DEF Acquire, Goto, Owns, WriteHeld
  <2>2. CASE q # Host[t]
    <3>1. IsWriter(q, q)
      BY <1>1, <1>2, <1>4, <2>2 DEF Acquire, IsWriter
    <3>2. \A u \in Threads : Owns(u) => Owns(u)'
      BY <1>4 DEF Acquire, Goto, Owns, WriteHeld
    <3> QED
      BY <3>1, <3>2, <1>3
  <2> QED
    BY <2>1, <2>2
<1>5. ASSUME NEW t \in Threads, UnlockWrite(t) \/ UnlockReply(t)
      PROVE  \E u \in Threads : Host[u] = q /\ Owns(u)'
  <2>1. IsWriter(q, q)
    BY <1>1, <1>2, <1>5 DEF UnlockWrite, UnlockReply, IsWriter
  <2>2. Host[t] = q => Owns(t)'
    BY <1>1, <1>2, <1>5 DEF UnlockWrite, UnlockReply, Goto, IsWriter, Owns, MayUnlockWrite
  <2>3. \A u \in Threads \ {t} : Owns(u) => Owns(u)'
    BY <1>5, ThreadFrame DEF LockStep, Owns, WriteHeld
  <2> QED
    BY <2>1, <2>2, <2>3, <1>3
<1>6. ASSUME NEW t \in Threads, LockStep(t) \/ DataStep(t),
             ~Acquire(t), ~UnlockWrite(t), ~UnlockReply(t)
      PROVE  \E u \in Threads : Host[u] = q /\ Owns(u)'
  <2>1. Owns(t) => Owns(t)'
    <3>1. DataStep(t) => (Owns(t) => Owns(t)')
      BY DataFrame DEF Owns, WriteHeld
    <3> QED
      BY <1>6, <3>1 DEF LockStep, ReadLock, Attempt, AskFirst, LockReply, Relock, UnlockRead,
         UnlockNested, threadVars, Owns, WriteHeld
  <2>2. \A u \in Threads \ {t} : Owns(u) => Owns(u)'
    BY <1>6, ThreadFrame DEF Owns, WriteHeld
  <2>3. IsWriter(q, q)
    BY <1>1, <1>2, <1>6, DataFrame DEF LockStep, ReadLock, Attempt, AskFirst, LockReply, Relock,
       UnlockRead, UnlockNested, IsWriter, lockVars
  <2> QED
    BY <2>1, <2>2, <2>3, <1>3
<1>7. ASSUME NEW r \in Peers, NEW t \in Threads, Receive(r, t) \/ Handle(r, t)
      PROVE  \E u \in Threads : Host[u] = q /\ Owns(u)'
  <2>1. \A u \in Threads : Owns(u) => Owns(u)'
    BY <1>7, ServerFrame DEF Owns, WriteHeld
  <2>2. IsWriter(q, q)
    <3>1. CASE HandleLockRequest(r, t)
      <4>1. r \in Others(t)
        BY <3>1, ServedFromElsewhere DEF HandleLockRequest, Handles
      <4> QED
        BY <1>1, <1>2, <3>1, <4>1 DEF HandleLockRequest, IsWriter, Others
    <3>2. CASE HandleUnlockRequest(r, t)
      BY <1>1, <1>2, <3>2 DEF HandleUnlockRequest, IsWriter
    <3>3. CASE UNCHANGED lockVars
      BY <1>1, <3>3 DEF lockVars, IsWriter
    <3> QED
      BY <1>7, <3>1, <3>2, <3>3 DEF Receive, Handle, HandleCommitEnd, HandleInsertRequest,
         HandleUpdateRequest
  <2> QED
    BY <2>1, <2>2, <1>3
<1>8. CASE UNCHANGED vars
  BY <1>1, <1>3, <1>8 DEF vars, lockVars, threadVars, IsWriter, Owns, WriteHeld
<1> QED
  BY <1>4, <1>5, <1>6, <1>7, <1>8 DEF FixedSwarmNext

\* The invariant of the replicas is inductive.
LEMMA DataInvStep ==
  ASSUME LockInv, DataInv, [FixedSwarmNext]_vars
  PROVE  DataInv'
BY ReplicatedStep, BroadcastIsMadeStep, OutsidersStep, InsertsAreNewStep, UpdatesAreNewStep,
   UpdatesAreClaimedStep, OwnersExistStep DEF DataInv

\* It holds at first: the founders have the same items.
LEMMA DataInvInit ==
  ASSUME Init
  PROVE  DataInv
<1>1. \A t \in Threads : ~Broadcasting(t) /\ op[t] = "read" /\ call[t].reply = "none"
  BY DEF Init, Broadcasting, NoCall
<1>2. /\ \A p, q \in Founders : data[p] = data[q]
      /\ \A p \in Peers \ Founders : data[p] = {}
      /\ \A p \in Peers : updated[p] = {} /\ inserted[p] = {} /\ state[p] = "UNLOCKED"
  BY ConstantsAssumption DEF Init
<1>3. Replicated /\ BroadcastIsMade /\ OutsidersHaveNothing
  BY <1>1, <1>2 DEF Replicated, BroadcastIsMade, OutsidersHaveNothing
<1>4. InsertsAreNew /\ UpdatesAreNew
  BY <1>1, <1>2, ConstantsAssumption DEF InsertsAreNew, NewWherePending, UpdatesAreNew, UpdateIsNew
<1>5. UpdatesAreClaimed /\ OwnersExist
  BY <1>1, <1>2, ConstantsAssumption DEF UpdatesAreClaimed, OwnersExist, IsWriter
<1> QED
  BY <1>3, <1>4, <1>5 DEF DataInv

--------------------------------------------------------------------------------
(* What a writer, and a trigger, may rely on. *)

\* Whoever has the lock and is not in the middle of a broadcast sees the same replica
\* everywhere.
LEMMA WriterSeesAll ==
  ASSUME LockInv, DataInv, NEW t \in Threads, pc[t] = "writing"
  PROVE  /\ Host[t] \in Founders /\ peers[Host[t]] = Others(t)
         /\ \A p \in Founders : data[p] = data[Host[t]]
<1>1. Host[t] \in Founders /\ peers[Host[t]] = Others(t)
  BY ConstantsAssumption DEF LockInv, CallsFit, CallFits, SwarmIsFixed, Others
<1>2. \A u \in Threads : ~Broadcasting(u)
  BY WriterBroadcastsAlone DEF WriteHeld, Broadcasting
<1>3. \A p, q \in Founders : data[p] \subseteq data[q]
  BY <1>2 DEF DataInv, Replicated, OnItsWay, Pending
<1> QED
  BY <1>1, <1>3

\* The invariant implies that a writer finds all replicas equal.
LEMMA AgreementOfDataInv ==
  ASSUME LockInv, DataInv
  PROVE  WriterFindsAgreement
<1>1. ReplicasAgree
  BY WriterSeesAll DEF ReplicasAgree, Others
<1>2. SwarmAgrees
  <2>1. SUFFICES ASSUME NEW t \in Threads, pc[t] = "writing", NEW q \in peers[Host[t]] \cup {Host[t]}
                 PROVE  member[q] = "active" /\ peers[q] = (peers[Host[t]] \cup {Host[t]}) \ {q}
    BY DEF SwarmAgrees
  <2>2. peers[Host[t]] \cup {Host[t]} = Founders
    BY <2>1, WriterSeesAll DEF Others
  <2>3. q \in Founders /\ q \in Peers
    BY <2>1, <2>2, ConstantsAssumption
  <2> QED
    BY <2>2, <2>3 DEF LockInv, SwarmIsFixed
<1> QED
  BY <1>1, <1>2 DEF WriterFindsAgreement

\* The version that updateLocked makes is above all versions of the item in the swarm.
LEMMA NoUpdateLostStep ==
  ASSUME LockInv, DataInv, NEW t \in Threads, UpdateLocked(t), NEW p \in Peers
  PROVE  (data'[Host[t]] \ data[Host[t]]) \cap data[p] = {}
<1>1. PICK i \in Items, v \in Nat : IsLatest(Host[t], i, v) /\ Begins(t, <<i, v + 1>>)
  BY UpdateBegins
<1>2. data'[Host[t]] \ data[Host[t]] \subseteq {<<i, v + 1>>}
  BY <1>1 DEF Begins
<1>3. <<i, v + 1>> \notin data[Host[t]]
  <2>1. SUFFICES ASSUME <<i, v + 1>> \in data[Host[t]] PROVE FALSE
    OBVIOUS
  <2>2. <<i, v + 1>>[1] = i /\ <<i, v + 1>>[2] = v + 1
    OBVIOUS
  <2>3. v + 1 \in Versions(Host[t], i)
    BY <2>1, <2>2 DEF Versions
  <2>4. v + 1 <= v
    BY <1>1, <2>3 DEF IsLatest
  <2> QED
    BY <2>4
<1>4. data[p] = data[Host[t]] \/ data[p] = {}
  <2>1. pc[t] = "writing"
    BY DEF UpdateLocked
  <2>2. p \in Founders => data[p] = data[Host[t]]
    BY <2>1, WriterSeesAll
  <2>3. p \notin Founders => data[p] = {}
    BY DEF DataInv, OutsidersHaveNothing
  <2> QED
    BY <2>2, <2>3
<1> QED
  BY <1>2, <1>3, <1>4

\* The invariant implies that nothing is noted at a peer that is at rest.
LEMMA TriggersOfDataInv ==
  ASSUME LockInv, DataInv
  PROVE  UpdatesReachTriggers
<1>1. SUFFICES ASSUME NEW q \in Peers, state[q] # "WRITE_LOCKED", serving[q] = NoThread,
                      updated[q] # {}
               PROVE  FALSE
  BY DEF UpdatesReachTriggers
<1>2. q \in Founders
  BY <1>1 DEF DataInv, OutsidersHaveNothing
<1>3. PICK u \in Threads : UpdatesAt(u, q)
  BY <1>1, <1>2 DEF DataInv, UpdatesAreClaimed
<1>4. ~Claims(u, q)
  BY <1>1, <1>2 DEF LockInv, ClaimsHeld, IsWriter
<1>5. call[u].to = q /\ call[u].reply = "commitEnd"
  BY <1>3, <1>4 DEF UpdatesAt, Claims
<1> QED
  BY <1>1, <1>5, ConstantsAssumption DEF DataInv, UpdatesAreClaimed

\* No client makes a batch: each item is updated at most once under one lock.
NoBatches == \A t \in Threads : "batch" \notin Calls[t]

\* An insert that arrives is new, and its peer is not locked by a thread of its own.
LEMMA InsertCheck ==
  ASSUME LockInv, DataInv, NEW q \in Peers, NEW t \in Threads, Handles(q, t, "insert"), MetalockFree(q)
  PROVE  ~IsWriter(q, q) /\ arg[t][1] \notin inserted[q]
<1>1. q \in Founders /\ q \in Others(t) /\ Pending(t, q) /\ Broadcasting(t)
  BY ServedFromElsewhere, ChangesAreBroadcast DEF Handles, Pending, Others
<1>2. ASSUME IsWriter(q, q) PROVE FALSE
  <2>1. PICK u \in Threads : Host[u] = q /\ Owns(u)
    BY <1>1, <1>2 DEF DataInv, OwnersExist
  <2>2. WriteHeld(u)
    BY <2>1 DEF MetalockFree, Owns
  <2> QED
    BY <1>1, <2>1, <2>2, WriterBroadcastsAlone DEF Others
<1>3. Versions(q, arg[t][1]) = {}
  BY <1>1 DEF DataInv, InsertsAreNew, NewWherePending, Handles
<1> QED
  BY <1>1, <1>2, <1>3 DEF DataInv, InsertsAreNew

\* An update that arrives comes from the writer, and is the first of its item.
LEMMA UpdateCheck ==
  ASSUME NoBatches, LockInv, DataInv, NEW q \in Peers, NEW t \in Threads, Handles(q, t, "update")
  PROVE  IsWriter(q, Host[t]) /\ arg[t][1] \notin updated[q]
<1>1. q \in Founders /\ q \in Others(t) /\ Pending(t, q) /\ Broadcasting(t)
  BY ServedFromElsewhere, ChangesAreBroadcast DEF Handles, Pending, Others
<1>2. pc[t] = "writeBroadcast" /\ op[t] = "commit"
  BY <1>1 DEF DataInv, UpdatesAreNew, UpdateIsNew, Handles, NoBatches
<1>3. IsWriter(q, Host[t])
  BY <1>1, <1>2, WriterHoldsFounders DEF WriteHeld
<1> QED
  BY <1>1, <1>2, <1>3 DEF DataInv, UpdatesAreNew, UpdateIsNew, Handles

\* The invariants imply the CHECKs of the handlers.
LEMMA ChecksOfDataInv ==
  ASSUME NoBatches, LockInv, DataInv
  PROVE  ChecksHold
<1>1. DataChecks
  <2>1. \A t \in Threads : Broadcasting(t) => call[t].reply # "decline"
    BY ChangesAreBroadcast
  <2> QED
    BY <2>1, InsertCheck, UpdateCheck DEF DataChecks, Broadcasting
<1>2. SwarmChecks
  <2>1. ASSUME NEW t \in Threads
        PROVE  /\ pc[t] \in {"inviting", "connecting"} => call[t].reply # "decline"
               /\ pc[t] = "connectStart" => member[Host[t]] # "relinquished"
    <3>1. CallFits(t) /\ Host[t] \in Peers
      BY ConstantsAssumption DEF LockInv, CallsFit
    <3>2. pc[t] \in {"inviting", "connecting"} => call[t] = NoCall
      BY <3>1 DEF CallFits
    <3>3. member[Host[t]] # "relinquished"
      BY <3>1 DEF LockInv, SwarmIsFixed
    <3> QED
      BY <3>2, <3>3 DEF NoCall
  <2>2. ASSUME NEW q \in Peers, NEW t \in Threads, serving[q] = t
        PROVE  /\ call[t].kind \in {"lock", "unlock", "insert", "update"}
               /\ member[q] = "active"
    <3>1. call[t].to = q /\ member[q] = "active"
      BY <2>2, ServedFromElsewhere
    <3>2. call[t] # NoCall
      BY <3>1, ConstantsAssumption DEF NoCall
    <3>3. CallFits(t)
      BY DEF LockInv, CallsFit
    <3>4. pc[t] \in {"lockFirst", "lockRest", "unlocking", "readBroadcast", "writeBroadcast"}
      BY <3>2, <3>3 DEF CallFits
    <3>5. call[t].kind \in {"lock", "unlock", "insert", "update"}
      BY <3>3, <3>4 DEF CallFits
    <3> QED
      BY <3>1, <3>5
  <2> QED
    BY <2>1, <2>2 DEF SwarmChecks, Handles
<1> QED
  BY <1>1, <1>2 DEF ChecksHold, LockInv

--------------------------------------------------------------------------------
\* The invariant that explains the replicas: a change that a peer lacks is in a broadcast
\* that has yet to reach it, and what it has noted for its triggers belongs to the thread
\* that has it locked.
THEOREM DataInvariant == FixedSwarmSpec => []DataInv
<1>1. Init => DataInv
  BY DataInvInit
<1>2. LockInv /\ DataInv /\ [FixedSwarmNext]_vars => DataInv'
  BY DataInvStep
<1> QED
  BY <1>1, <1>2, LockInvariant, PTL DEF FixedSwarmSpec

\* A writer that is not in the middle of a broadcast finds all replicas equal, and all
\* peers agreed on the swarm, whatever was inserted and committed before it.
THEOREM WritersFindAgreement == FixedSwarmSpec => []WriterFindsAgreement
<1>1. LockInv /\ DataInv => WriterFindsAgreement
  BY AgreementOfDataInv
<1> QED
  BY <1>1, LockInvariant, DataInvariant, PTL

\* updateLocked never makes a version of an item that some replica already has: no
\* update of another writer is overwritten.
THEOREM UpdatesAreNotLost == FixedSwarmSpec => NoUpdateLost
<1>1. LockInv /\ DataInv /\ [FixedSwarmNext]_vars
        => [\A t \in Threads : UpdateLocked(t) =>
              \A p \in Peers : (data'[Host[t]] \ data[Host[t]]) \cap data[p] = {}]_vars
  BY NoUpdateLostStep
<1> QED
  BY <1>1, LockInvariant, DataInvariant, PTL DEF FixedSwarmSpec, NoUpdateLost

\* What handleUpdateRequest notes is handed to the triggers by the unlock request that
\* ends the commit, before the peer serves anybody else.
THEOREM TriggersHearUpdates == FixedSwarmSpec => []UpdatesReachTriggers
<1>1. LockInv /\ DataInv => UpdatesReachTriggers
  BY TriggersOfDataInv
<1> QED
  BY <1>1, LockInvariant, DataInvariant, PTL

\* If clients update an item once per lock, as transactions do, no CHECK on a replicated
\* change or on membership fails: no broadcast is declined, an insert finds its item
\* absent and the peer not locked by itself, an update comes from the writer.
THEOREM ChecksAlwaysHold ==
  ASSUME NoBatches
  PROVE  FixedSwarmSpec => []ChecksHold
<1>1. LockInv /\ DataInv => ChecksHold
  BY NoBatches, ChecksOfDataInv
<1> QED
  BY <1>1, LockInvariant, DataInvariant, PTL
================================================================================
