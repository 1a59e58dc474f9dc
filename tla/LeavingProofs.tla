----------------------------- MODULE LeavingProofs ------------------------------
(***************************************************************************)
(* A peer that has left the swarm has no trigger thread under way, whoever *)
(* joins, leaves, commits or calls from a callback meanwhile: LeaveInv is  *)
(* inductive for all steps of a chunk.                                     *)
(***************************************************************************)
EXTENDS LegacyChunk, TLAPS

\* What a step may do to the membership of a peer.
LEMMA MembersStay ==
  ASSUME LeaveInv, [Next]_vars
  PROVE  /\ member' \in [Peers -> {"absent", "active", "relinquished"}]
         /\ \A p \in Peers : member[p] # "absent" => member'[p] # "absent"
         /\ \A p \in Peers : member'[p] = "relinquished" /\ member[p] # "relinquished" =>
              Silent(p)
<1> USE DEF LeaveInv
<1>0. \A t \in Threads : Host[t] \in Peers
  BY ConstantsAssumption
<1>1. ASSUME NEW t \in Threads, BroadcastReply(t) \/ TellLeaving(t)
      PROVE  \/ UNCHANGED member
             \/ member' = [member EXCEPT ![Host[t]] = "relinquished"] /\ Silent(Host[t])
  BY <1>1 DEF BroadcastReply, TellLeaving, swarmVars, LeaveFits, LeavePlaces
<1>2. ASSUME NEW q \in Peers, NEW t \in Threads, HandleInitRequest(q, t)
      PROVE  member[q] = "absent" /\ member' = [member EXCEPT ![q] = "active"]
  BY <1>2 DEF HandleInitRequest
<1>3. ASSUME NEW t \in Threads, LockStep(t) PROVE UNCHANGED member
  BY <1>3 DEF LockStep, ReadLock, Attempt, AskFirst, LockReply, Acquire, Relock, UnlockRead,
     UnlockNested, UnlockWrite, UnlockReply, swarmVars
<1>4. ASSUME NEW t \in Threads, StartCall(t) \/ Insert(t) \/ BulkInsertLocked(t) \/ UpdateLocked(t)
                                  \/ RunTrigger(t) \/ TriggerDone(t)
      PROVE  UNCHANGED member
  BY <1>4 DEF StartCall, Insert, BulkInsertLocked, UpdateLocked, RunTrigger, TriggerDone, swarmVars
<1>5. ASSUME NEW t \in Threads,
             \/ AddPeer(t) \/ InitReply(t) \/ ClearTriggers(t) \/ AwaitTriggers(t) \/ LeaveLock(t)
             \/ JoinCall(t) \/ JoinReply(t) \/ Joined(t) \/ ConnectStart(t)
      PROVE  UNCHANGED member
  BY <1>5 DEF AddPeer, InitReply, ClearTriggers, AwaitTriggers, LeaveLock, JoinCall, JoinReply,
     Joined, ConnectStart, swarmVars
<1>6. ASSUME NEW q \in Peers, NEW t \in Threads,
             \/ Receive(q, t) \/ Handle(q, t) \/ HandleLeaveRequest(q, t)
             \/ HandleNewPeerRequest(q, t) \/ HandleConnectRequest(q, t)
      PROVE  UNCHANGED member
  BY <1>6 DEF Receive, Handle, HandleLockRequest, HandleUnlockRequest, HandleCommitEnd,
     HandleInsertRequest, HandleUpdateRequest, HandleLeaveRequest, HandleNewPeerRequest,
     HandleConnectRequest, swarmVars
<1>7. CASE UNCHANGED member
  BY <1>7
<1>8. CASE \E t \in Threads : BroadcastReply(t) \/ TellLeaving(t)
  BY <1>0, <1>1, <1>7, <1>8
<1>9. CASE \E q \in Peers, t \in Threads : HandleInitRequest(q, t)
  BY <1>2, <1>9
<1> QED
  BY <1>3, <1>4, <1>5, <1>6, <1>7, <1>8, <1>9
     DEF Next, FixedSwarmNext, DataStep, SwarmStep, HandleSwarm, Finished, vars, swarmVars

\* Triggers are never attached again; a job comes only where they are attached.
LEMMA TriggersStay ==
  ASSUME LeaveInv, [Next]_vars
  PROVE  /\ attached' \in [Peers -> BOOLEAN] /\ jobs' \in [Peers -> Nat]
         /\ \A p \in Peers : ~attached[p] => ~attached'[p]
         /\ \A p \in Peers : ~attached[p] /\ jobs[p] = 0 => jobs'[p] = 0
<1> USE DEF LeaveInv
<1>0. \A t \in Threads : Host[t] \in Peers
  BY ConstantsAssumption
<1>1. ASSUME NEW t \in Threads, ClearTriggers(t)
      PROVE  attached' = [attached EXCEPT ![Host[t]] = FALSE] /\ UNCHANGED jobs
  BY <1>1 DEF ClearTriggers
<1>2. ASSUME NEW t \in Threads, RunTrigger(t)
      PROVE  /\ UNCHANGED attached
             /\ jobs[Host[t]] > 0 /\ jobs' = [jobs EXCEPT ![Host[t]] = @ - 1]
  BY <1>2 DEF RunTrigger
<1>3. ASSUME NEW q \in Peers, NEW t \in Threads, HandleCommitEnd(q, t)
      PROVE  /\ UNCHANGED attached
             /\ jobs' = [jobs EXCEPT ![q] = IF attached[q] THEN @ + 1 ELSE @]
  BY <1>3 DEF HandleCommitEnd
<1>4. ASSUME NEW t \in Threads, LockStep(t) PROVE UNCHANGED <<attached, jobs>>
  BY <1>4 DEF LockStep, ReadLock, Attempt, AskFirst, LockReply, Acquire, Relock, UnlockRead,
     UnlockNested, UnlockWrite, UnlockReply, triggerVars
<1>5. ASSUME NEW t \in Threads, StartCall(t) \/ Insert(t) \/ BulkInsertLocked(t) \/ UpdateLocked(t)
                                  \/ BroadcastReply(t) \/ TriggerDone(t)
      PROVE  UNCHANGED <<attached, jobs>>
  BY <1>5 DEF StartCall, Insert, BulkInsertLocked, UpdateLocked, BroadcastReply, TriggerDone,
     triggerVars
<1>6. ASSUME NEW t \in Threads,
             \/ AddPeer(t) \/ InitReply(t) \/ AwaitTriggers(t) \/ LeaveLock(t) \/ TellLeaving(t)
             \/ JoinCall(t) \/ JoinReply(t) \/ Joined(t) \/ ConnectStart(t)
      PROVE  UNCHANGED <<attached, jobs>>
  BY <1>6 DEF AddPeer, InitReply, AwaitTriggers, LeaveLock, TellLeaving, JoinCall, JoinReply,
     Joined, ConnectStart, triggerVars
<1>7. ASSUME NEW q \in Peers, NEW t \in Threads,
             \/ Receive(q, t) \/ HandleLockRequest(q, t) \/ HandleUnlockRequest(q, t)
             \/ HandleInsertRequest(q, t) \/ HandleUpdateRequest(q, t) \/ HandleSwarm(q, t)
      PROVE  UNCHANGED <<attached, jobs>>
  BY <1>7 DEF Receive, HandleLockRequest, HandleUnlockRequest, HandleInsertRequest,
     HandleUpdateRequest, HandleSwarm, HandleLeaveRequest, HandleNewPeerRequest,
     HandleConnectRequest, HandleInitRequest, triggerVars
<1>8. CASE UNCHANGED <<attached, jobs>>
  BY <1>8
<1>9. CASE \E t \in Threads : ClearTriggers(t)
  BY <1>0, <1>1, <1>9
<1>10. CASE \E t \in Threads : RunTrigger(t)
  BY <1>0, <1>2, <1>10
<1>11. CASE \E q \in Peers, t \in Threads : HandleCommitEnd(q, t)
  BY <1>3, <1>11
<1> QED
  BY <1>4, <1>5, <1>6, <1>7, <1>8, <1>9, <1>10, <1>11
     DEF Next, FixedSwarmNext, DataStep, SwarmStep, Handle, Finished, vars, triggerVars

SameThread(u) == pc'[u] = pc[u] /\ op'[u] = op[u] /\ call'[u].kind = call[u].kind

\* A client thread moves itself only.
LEMMA ClientsMoveAlone ==
  ASSUME LeaveInv, NEW t \in Threads, NEW u \in Threads, t # u,
         LockStep(t) \/ DataStep(t) \/ SwarmStep(t)
  PROVE  SameThread(u)
<1> USE DEF SameThread
<1>0. op = [v \in Threads |-> op[v]]
  BY DEF LeaveInv
<1>1. ASSUME NEW kind, NEW q, NEW what, Send(t, kind, q, what) PROVE call'[u] = call[u]
  BY <1>1 DEF Send, LeaveInv
<1>2. ASSUME EndCall(t) PROVE call'[u] = call[u]
  BY <1>2 DEF EndCall, LeaveInv
<1>3. ASSUME NEW label, Goto(t, label) PROVE pc'[u] = pc[u]
  BY <1>3 DEF Goto, LeaveInv
<1>4. ASSUME NEW kind, NEW what, NEW label, Broadcast(t, kind, what, label)
      PROVE  call'[u] = call[u] /\ pc'[u] = pc[u]
  BY <1>1, <1>3, <1>4 DEF Broadcast, callVars
<1>5. CASE LockStep(t)
  BY <1>1, <1>2, <1>3, <1>5 DEF LockStep, ReadLock, Attempt, AskFirst, LockReply, Acquire, Relock,
     UnlockRead, UnlockNested, UnlockWrite, UnlockReply, callVars, threadVars
<1>6. CASE StartCall(t) \/ RunTrigger(t) \/ TriggerDone(t)
  BY <1>0, <1>3, <1>6 DEF StartCall, RunTrigger, TriggerDone, callVars
<1>7. CASE Insert(t)
  BY <1>0, <1>4, <1>7 DEF Insert
<1>8. CASE BulkInsertLocked(t) \/ UpdateLocked(t)
  BY <1>0, <1>4, <1>8 DEF BulkInsertLocked, UpdateLocked
<1>9. CASE BroadcastReply(t)
  BY <1>0, <1>1, <1>2, <1>3, <1>9 DEF BroadcastReply
<1>10. CASE AddPeer(t) \/ InitReply(t) \/ TellLeaving(t)
  BY <1>0, <1>1, <1>2, <1>3, <1>10 DEF AddPeer, InitReply, TellLeaving, callVars
<1>11. CASE ClearTriggers(t) \/ AwaitTriggers(t) \/ LeaveLock(t) \/ Joined(t) \/ ConnectStart(t)
  BY <1>0, <1>3, <1>11 DEF ClearTriggers, AwaitTriggers, LeaveLock, Joined, ConnectStart, callVars
<1>12. CASE JoinCall(t) \/ JoinReply(t)
  BY <1>0, <1>1, <1>2, <1>3, <1>12 DEF JoinCall, JoinReply
<1> QED
  BY <1>5, <1>6, <1>7, <1>8, <1>9, <1>10, <1>11, <1>12 DEF DataStep, SwarmStep

\* handleConnectRequest starts a helper; a server thread moves nobody else.
LEMMA ServersMoveHelpers ==
  ASSUME LeaveInv, NEW q \in Peers, NEW t \in Threads, NEW u \in Threads,
         Receive(q, t) \/ Handle(q, t) \/ HandleSwarm(q, t)
  PROVE  \/ SameThread(u)
         \/ /\ u \in Helpers /\ pc[u] = "idle" /\ pc'[u] = "connectStart" /\ op'[u] = "connect"
            /\ call'[u].kind = call[u].kind
<1> USE DEF SameThread
<1>1. ASSUME NEW reply, call' = [call EXCEPT ![t].reply = reply]
      PROVE  call'[u].kind = call[u].kind
  BY <1>1 DEF LeaveInv
<1>2. CASE Receive(q, t)
  BY <1>2 DEF Receive, threadVars, callVars
<1>3. CASE Handle(q, t)
  BY <1>1, <1>3 DEF Handle, HandleLockRequest, HandleUnlockRequest, HandleCommitEnd,
     HandleInsertRequest, HandleUpdateRequest, Reply
<1>4. CASE HandleLeaveRequest(q, t) \/ HandleNewPeerRequest(q, t) \/ HandleInitRequest(q, t)
  BY <1>1, <1>4 DEF HandleLeaveRequest, HandleNewPeerRequest, HandleInitRequest, Reply
<1>5. CASE HandleConnectRequest(q, t)
  BY <1>1, <1>5, ConstantsAssumption DEF HandleConnectRequest, Reply, Goto, LeaveInv
<1> QED
  BY <1>2, <1>3, <1>4, <1>5 DEF HandleSwarm

\* So a thread moves itself, or is a helper that starts, or stays.
LEMMA WhoMoves ==
  ASSUME LeaveInv, [Next]_vars, NEW u \in Threads
  PROVE  \/ SameThread(u)
         \/ LockStep(u) \/ DataStep(u) \/ SwarmStep(u)
         \/ /\ u \in Helpers /\ pc[u] = "idle" /\ pc'[u] = "connectStart" /\ op'[u] = "connect"
            /\ call'[u].kind = call[u].kind
<1>1. CASE \E t \in Threads : LockStep(t) \/ DataStep(t) \/ SwarmStep(t)
  BY <1>1, ClientsMoveAlone
<1>2. CASE \E q \in Peers, t \in Threads : Receive(q, t) \/ Handle(q, t) \/ HandleSwarm(q, t)
  BY <1>2, ServersMoveHelpers
<1>3. CASE UNCHANGED vars
  BY <1>3 DEF vars, threadVars, callVars, SameThread
<1> QED
  BY <1>1, <1>2, <1>3 DEF Next, FixedSwarmNext, Finished

\* A peer that is silent stays so: no job comes, and a trigger thread needs one to start.
LEMMA SilentStays ==
  ASSUME LeaveInv, [Next]_vars, NEW p \in Peers, Silent(p)
  PROVE  Silent(p)'
<1> USE DEF LeaveInv
<1>1. ASSUME NEW t \in Callbacks, Host[t] = p PROVE pc'[t] = "idle"
  <2>1. /\ t \in Threads /\ t \notin Helpers /\ pc[t] = "idle"
        /\ jobs[p] = 0 /\ member[p] # "absent"
    BY <1>1, ConstantsAssumption DEF Silent
  <2>2. CASE LockStep(t)
    BY <2>1, <2>2 DEF LockStep, ReadLock, Attempt, AskFirst, LockReply, Acquire, Relock,
       UnlockRead, UnlockNested, MayUnlockWrite, UnlockWrite, UnlockReply
  <2>3. CASE DataStep(t)
    BY <1>1, <2>1, <2>3 DEF DataStep, StartCall, Base, Insert, BulkInsertLocked, UpdateLocked,
       BroadcastReply, RunTrigger, TriggerDone
  <2>4. CASE SwarmStep(t)
    BY <1>1, <2>1, <2>4 DEF SwarmStep, AddPeer, InitReply, ClearTriggers, AwaitTriggers, LeaveLock,
       TellLeaving, JoinCall, JoinReply, Joined, ConnectStart
  <2> QED
    BY <2>1, <2>2, <2>3, <2>4, WhoMoves DEF SameThread
<1> QED
  BY <1>1, MembersStay, TriggersStay DEF Silent

\* A thread that does not move fits as before.
LEMMA StaysFit ==
  ASSUME LeaveInv, [Next]_vars, NEW u \in Threads, SameThread(u)
  PROVE  LeaveFits(u)'
<1>1. Host[u] \in Peers
  BY ConstantsAssumption
<1> QED
  BY <1>1, SilentStays, MembersStay, TriggersStay DEF LeaveInv, LeaveFits, SameThread

\* Distributed locks and their requests: the leaver goes on from one place to the next.
LEMMA LockStepFits ==
  ASSUME LeaveInv, [Next]_vars, NEW u \in Threads, LockStep(u)
  PROVE  LeaveFits(u)'
<1> USE DEF LeaveInv
<1>0. Host[u] \in Peers /\ LeaveFits(u)
  BY ConstantsAssumption
<1>1. op'[u] = op[u]
  BY DEF LockStep, ReadLock, Attempt, AskFirst, LockReply, Acquire, Relock, UnlockRead,
     UnlockNested, UnlockWrite, UnlockReply, threadVars
<1>2. \/ pc'[u] = pc[u] /\ call'[u] = call[u]
      \/ /\ pc[u] \in LeavePlaces \/ pc'[u] \notin LeavePlaces
         /\ pc'[u] \notin {"clearTriggers", "awaitTriggers", "leaveLock", "inviting", "connectStart"}
         /\ call'[u].kind # "leave"
  <2>1. ASSUME NEW kind, NEW q, NEW what, Send(u, kind, q, what) PROVE call'[u].kind = kind
    BY <2>1 DEF Send
  <2>2. ASSUME EndCall(u) PROVE call'[u].kind = "none"
    BY <2>2 DEF EndCall, NoCall
  <2>3. ASSUME NEW label, Goto(u, label) PROVE pc'[u] = label
    BY <2>3 DEF Goto
  <2>4. CASE ReadLock(u) \/ Attempt(u) \/ Acquire(u) \/ UnlockRead(u)
    BY <1>0, <2>3, <2>4 DEF ReadLock, Attempt, Acquire, UnlockRead, callVars, Base, LeavePlaces,
       LeaveFits
  <2>5. CASE Relock(u) \/ UnlockNested(u)
    BY <2>5 DEF Relock, UnlockNested, callVars, threadVars
  <2>6. CASE AskFirst(u) \/ LockReply(u)
    BY <1>0, <2>1, <2>2, <2>3, <2>6 DEF AskFirst, LockReply, callVars, LeavePlaces, LeaveFits
  <2>7. CASE UnlockWrite(u) \/ UnlockReply(u)
    BY <1>0, <2>1, <2>2, <2>3, <2>7
       DEF UnlockWrite, MayUnlockWrite, UnlockReply, callVars, Base, LeavePlaces, LeaveFits
  <2> QED
    BY <2>4, <2>5, <2>6, <2>7 DEF LockStep
<1>3. pc'[u] \in LeavePlaces /\ pc[u] \in LeavePlaces /\ op[u] = "leave" => Silent(Host[u])'
  BY <1>0, SilentStays DEF LeaveFits
<1>4. CASE pc'[u] = pc[u] /\ call'[u] = call[u]
  BY <1>1, <1>4, StaysFit DEF SameThread
<1> QED
  BY <1>1, <1>2, <1>3, <1>4 DEF LeaveFits

\* Calls and changes: a call that leaves starts at the triggers, a broadcast of a leaver is one
\* that tells of it.
LEMMA DataStepFits ==
  ASSUME LeaveInv, [Next]_vars, NEW u \in Threads, DataStep(u)
  PROVE  LeaveFits(u)'
<1> USE DEF LeaveInv
<1>0. Host[u] \in Peers /\ LeaveFits(u)
  BY ConstantsAssumption
<1>1. ASSUME NEW kind, NEW q, NEW what, Send(u, kind, q, what) PROVE call'[u].kind = kind
  BY <1>1 DEF Send
<1>2. ASSUME EndCall(u) PROVE call'[u].kind = "none"
  BY <1>2 DEF EndCall, NoCall
<1>3. ASSUME NEW label, Goto(u, label) PROVE pc'[u] = label
  BY <1>3 DEF Goto
<1>4. CASE StartCall(u)
  <2>1. PICK o \in Ops : /\ op'[u] = o
                         /\ Goto(u, CASE o \in {"read", "insert"} -> "readLock"
                                      [] o = "leave" -> "clearTriggers"
                                      [] OTHER -> "writeLock")
    BY <1>4, ConstantsAssumption DEF StartCall
  <2>2. /\ pc'[u] \in {"readLock", "writeLock", "clearTriggers"}
        /\ op'[u] = "leave" <=> pc'[u] = "clearTriggers"
    BY <2>1, <1>3
  <2>3. member[Host[u]] = "active" /\ call'[u] = call[u] /\ pc[u] \in {"idle", "callback"}
    BY <1>4 DEF StartCall, callVars, Base
  <2>4. member'[Host[u]] # "absent" /\ call[u].kind # "leave"
    BY <1>0, <2>3, MembersStay DEF LeaveFits
  <2> QED
    BY <2>2, <2>3, <2>4 DEF LeaveFits, LeavePlaces
<1>5. CASE Insert(u)
  <2>1. /\ op'[u] = "read" /\ pc'[u] \in {"reading", "readBroadcast"} /\ pc[u] = "reading"
        /\ call'[u] = call[u] \/ call'[u].kind = "insert"
    BY <1>5, <1>1, <1>3 DEF Insert, Broadcast, callVars
  <2> QED
    BY <2>1, <1>0 DEF LeaveFits
<1>6. CASE BulkInsertLocked(u) \/ UpdateLocked(u)
  <2>1. /\ op'[u] = op[u] /\ op[u] \in {"commit", "batch"} /\ pc[u] = "writing"
        /\ pc'[u] \in {"writing", "writeBroadcast"}
        /\ call'[u] = call[u] \/ call'[u].kind \in {"insert", "update"}
    BY <1>6, <1>1, <1>3 DEF BulkInsertLocked, UpdateLocked, Broadcast, callVars
  <2> QED
    BY <2>1, <1>0 DEF LeaveFits
<1>7. CASE BroadcastReply(u)
  <2>1. CASE \E q \in peers[Host[u]] : Send(u, call[u].kind, q, arg[u]) /\ UNCHANGED <<pc, op>>
    <3>1. SameThread(u)
      BY <2>1, <1>1 DEF SameThread
    <3> QED
      BY <3>1, StaysFit
  <2>2. CASE /\ EndCall(u)
             /\ Goto(u, IF pc[u] = "readBroadcast" THEN "reading" ELSE "writing")
    <3>1. /\ call'[u].kind = "none" /\ pc'[u] \in {"reading", "writing"}
          /\ pc'[u] = "writing" => pc[u] = "writeBroadcast"
      BY <1>2, <1>3, <1>7, <2>2 DEF BroadcastReply
    <3>2. op'[u] \in {op[u], "write"}
      BY <1>7 DEF BroadcastReply
    <3>3. pc[u] = "writeBroadcast" /\ op[u] = "leave" => Silent(Host[u])'
      BY <1>0, SilentStays DEF LeaveFits, LeavePlaces
    <3> QED
      BY <3>1, <3>2, <3>3 DEF LeaveFits, LeavePlaces
  <2> QED
    BY <1>7, <2>1, <2>2 DEF BroadcastReply
<1>8. CASE RunTrigger(u) \/ TriggerDone(u)
  <2>1. /\ pc[u] \in {"idle", "callback"} /\ pc'[u] \in {"idle", "callback"}
        /\ call'[u] = call[u] /\ op'[u] = op[u]
    BY <1>8, <1>3 DEF RunTrigger, TriggerDone, callVars
  <2> QED
    BY <2>1, <1>0 DEF LeaveFits, LeavePlaces
<1> QED
  BY <1>4, <1>5, <1>6, <1>7, <1>8 DEF DataStep

\* ChunkBase::leave up to the broadcast, and the calls that change the swarm otherwise.
LEMMA SwarmStepFits ==
  ASSUME LeaveInv, [Next]_vars, NEW u \in Threads, SwarmStep(u)
  PROVE  LeaveFits(u)'
<1> USE DEF LeaveInv
<1>0. Host[u] \in Peers /\ LeaveFits(u)
  BY ConstantsAssumption
<1>1. ASSUME NEW kind, NEW q, NEW what, Send(u, kind, q, what) PROVE call'[u].kind = kind
  BY <1>1 DEF Send
<1>2. ASSUME EndCall(u) PROVE call'[u].kind = "none"
  BY <1>2 DEF EndCall, NoCall
<1>3. ASSUME NEW label, Goto(u, label) PROVE pc'[u] = label
  BY <1>3 DEF Goto
<1>4. member[Host[u]] # "absent" => member'[Host[u]] # "absent"
  BY <1>0, MembersStay
<1>5. Silent(Host[u]) => Silent(Host[u])'
  BY <1>0, SilentStays
<1>6. CASE ClearTriggers(u)
  <2>1. ~attached'[Host[u]]
    BY <1>0, <1>6 DEF ClearTriggers
  <2>2. pc'[u] = "awaitTriggers" /\ op'[u] = op[u] /\ call'[u] = call[u] /\ pc[u] = "clearTriggers"
    BY <1>6, <1>3 DEF ClearTriggers, callVars
  <2> QED
    BY <2>1, <2>2, <1>0, <1>4 DEF LeaveFits, LeavePlaces
<1>7. CASE AwaitTriggers(u)
  <2>1. pc'[u] = "writeLock" /\ op'[u] = op[u] /\ call'[u] = call[u] /\ pc[u] = "awaitTriggers"
    BY <1>7, <1>3 DEF AwaitTriggers, callVars
  <2>2. Silent(Host[u])
    BY <1>7, <1>0, <2>1 DEF AwaitTriggers, Silent, TriggerMutexFree, LeaveFits
  <2> QED
    BY <2>1, <2>2, <1>0, <1>5 DEF LeaveFits, LeavePlaces
<1>8. CASE LeaveLock(u)
  <2>1. /\ pc'[u] = "leaveLock" /\ op'[u] = op[u] /\ call'[u] = call[u]
        /\ pc[u] = "writing" /\ op[u] = "leave"
    BY <1>8, <1>3 DEF LeaveLock, callVars
  <2> QED
    BY <2>1, <1>0, <1>5 DEF LeaveFits, LeavePlaces
<1>9. CASE TellLeaving(u)
  <2>1. /\ pc[u] = "leaveLock"
        /\ \/ pc'[u] = "writing" /\ op'[u] = "write" /\ call'[u] = call[u]
           \/ pc'[u] = "writeBroadcast" /\ op'[u] = op[u] /\ call'[u].kind = "leave"
    BY <1>9, <1>1, <1>3 DEF TellLeaving, callVars
  <2> QED
    BY <2>1, <1>0, <1>5 DEF LeaveFits, LeavePlaces
<1>10. CASE AddPeer(u)
  <2>1. /\ pc[u] = "writing" /\ op[u] \in {"invite", "connect"}
        /\ \/ pc'[u] = "writing" /\ op'[u] = "write" /\ call'[u] = call[u]
           \/ pc'[u] = "inviting" /\ op'[u] = op[u] /\ call'[u].kind = "init"
    BY <1>10, <1>1, <1>3 DEF AddPeer, callVars
  <2> QED
    BY <2>1, <1>0 DEF LeaveFits, LeavePlaces
<1>11. CASE InitReply(u)
  <2>1. /\ pc[u] = "inviting"
        /\ \/ pc'[u] = "writing" /\ op'[u] = "write" /\ call'[u].kind = "none"
           \/ pc'[u] = "writeBroadcast" /\ op'[u] = op[u] /\ call'[u].kind = "newPeer"
    BY <1>11, <1>1, <1>2, <1>3 DEF InitReply
  <2> QED
    BY <2>1, <1>0 DEF LeaveFits, LeavePlaces
<1>12. CASE JoinCall(u) \/ JoinReply(u) \/ Joined(u)
  <2>1. /\ pc'[u] \in {"connecting", "awaitChunk", "idle", "callback"}
        /\ \/ call'[u].kind \in {"connect", "none"}
           \/ call'[u] = call[u] /\ pc[u] = "awaitChunk"
    BY <1>12, <1>1, <1>2, <1>3 DEF JoinCall, JoinReply, Joined, callVars, Base
  <2> QED
    BY <2>1, <1>0 DEF LeaveFits, LeavePlaces
<1>13. CASE ConnectStart(u)
  <2>1. pc'[u] = "writeLock" /\ op'[u] = op[u] /\ call'[u] = call[u] /\ pc[u] = "connectStart"
    BY <1>13, <1>3 DEF ConnectStart, callVars
  <2> QED
    BY <2>1, <1>0 DEF LeaveFits, LeavePlaces
<1> QED
  BY <1>6, <1>7, <1>8, <1>9, <1>10, <1>11, <1>12, <1>13 DEF SwarmStep

\* The variables that LeaveInv speaks of keep their types.
LEMMA LeaveTypesStep ==
  ASSUME LeaveInv, [Next]_vars
  PROVE  /\ pc' \in [Threads -> Labels] /\ op' \in [Threads -> Ops]
         /\ call' = [t \in Threads |->
              [kind |-> call'[t].kind, to |-> call'[t].to, reply |-> call'[t].reply]]
<1> USE DEF LeaveInv
<1> DEFINE Typed ==
      /\ pc' \in [Threads -> Labels] /\ op' \in [Threads -> Ops]
      /\ call' = [t \in Threads |->
           [kind |-> call'[t].kind, to |-> call'[t].to, reply |-> call'[t].reply]]
      Called == call' = [t \in Threads |->
           [kind |-> call'[t].kind, to |-> call'[t].to, reply |-> call'[t].reply]]
<1>1. ASSUME NEW t \in Threads, NEW kind, NEW q, NEW what, Send(t, kind, q, what) PROVE Called
  BY <1>1 DEF Send
<1>2. ASSUME NEW t \in Threads, EndCall(t) PROVE Called
  BY <1>2 DEF EndCall, NoCall
<1>3. ASSUME NEW t \in Threads, NEW reply, call' = [call EXCEPT ![t].reply = reply] PROVE Called
  BY <1>3
<1>4. ASSUME UNCHANGED call PROVE Called
  BY <1>4
<1>5. ASSUME NEW t \in Threads, NEW label \in Labels, Goto(t, label)
      PROVE  pc' \in [Threads -> Labels]
  BY <1>5 DEF Goto
<1>6. ASSUME NEW t \in Threads PROVE Base(t) \in Labels
  BY DEF Base, Labels
<1>7. ASSUME NEW t \in Threads, LockStep(t) PROVE Typed
  <2>1. Called
    <3> HIDE DEF Called
    <3> QED
      BY <1>1, <1>2, <1>4, <1>7 DEF LockStep, ReadLock, Attempt, AskFirst, LockReply, Acquire, Relock,
         UnlockRead, UnlockNested, UnlockWrite, UnlockReply, callVars, threadVars
  <2>2. pc' \in [Threads -> Labels]
    BY <1>5, <1>6, <1>7 DEF LockStep, ReadLock, Attempt, AskFirst, LockReply, Acquire, Relock,
       UnlockRead, UnlockNested, UnlockWrite, UnlockReply, threadVars, Labels
  <2>3. UNCHANGED op
    BY <1>7 DEF LockStep, ReadLock, Attempt, AskFirst, LockReply, Acquire, Relock,
       UnlockRead, UnlockNested, UnlockWrite, UnlockReply, threadVars
  <2> QED
    BY <2>1, <2>2, <2>3
<1>8. ASSUME NEW t \in Threads, DataStep(t) PROVE Typed
  <2>1. Called
    <3> HIDE DEF Called
    <3> QED
      BY <1>1, <1>2, <1>4, <1>8 DEF DataStep, StartCall, Insert, BulkInsertLocked, UpdateLocked,
         BroadcastReply, RunTrigger, TriggerDone, Broadcast, callVars
  <2>2. pc' \in [Threads -> Labels]
    <3>1. CASE StartCall(t)
      <4>1. \E label \in {"readLock", "clearTriggers", "writeLock"} : Goto(t, label)
        BY <3>1 DEF StartCall
      <4> QED
        BY <4>1, <1>5 DEF Labels
    <3>2. CASE Insert(t) \/ BulkInsertLocked(t) \/ UpdateLocked(t)
      <4>1. UNCHANGED pc \/ \E label \in {"readBroadcast", "writeBroadcast"} : Goto(t, label)
        BY <3>2 DEF Insert, BulkInsertLocked, UpdateLocked, Broadcast
      <4> QED
        BY <4>1, <1>5 DEF Labels
    <3>3. CASE BroadcastReply(t) \/ RunTrigger(t) \/ TriggerDone(t)
      <4>1. \/ UNCHANGED pc
            \/ \E label \in {"reading", "writing", "idle", "callback"} : Goto(t, label)
        BY <3>3 DEF BroadcastReply, RunTrigger, TriggerDone
      <4> QED
        BY <4>1, <1>5 DEF Labels
    <3> QED
      BY <1>8, <3>1, <3>2, <3>3 DEF DataStep
  <2>3. op' \in [Threads -> Ops]
    <3>1. UNCHANGED op \/ \E o \in Ops : op' = [op EXCEPT ![t] = o]
      <4>1. CASE StartCall(t)
        BY <4>1, ConstantsAssumption DEF StartCall
      <4>2. CASE Insert(t) \/ BroadcastReply(t)
        BY <4>2 DEF Insert, BroadcastReply, Ops
      <4>3. CASE BulkInsertLocked(t) \/ UpdateLocked(t) \/ RunTrigger(t) \/ TriggerDone(t)
        BY <4>3 DEF BulkInsertLocked, UpdateLocked, RunTrigger, TriggerDone
      <4> QED
        BY <1>8, <4>1, <4>2, <4>3 DEF DataStep
    <3> QED
      BY <3>1
  <2> QED
    BY <2>1, <2>2, <2>3
<1>9. ASSUME NEW t \in Threads, SwarmStep(t) PROVE Typed
  <2>1. Called
    <3> HIDE DEF Called
    <3> QED
      BY <1>1, <1>2, <1>4, <1>9 DEF SwarmStep, AddPeer, InitReply, ClearTriggers, AwaitTriggers,
         LeaveLock, TellLeaving, JoinCall, JoinReply, Joined, ConnectStart, callVars
  <2>2. pc' \in [Threads -> Labels]
    BY <1>5, <1>6, <1>9 DEF SwarmStep, AddPeer, InitReply, ClearTriggers, AwaitTriggers,
       LeaveLock, TellLeaving, JoinCall, JoinReply, Joined, ConnectStart, Labels
  <2>3. op' \in [Threads -> Ops]
    BY <1>9 DEF SwarmStep, AddPeer, InitReply, ClearTriggers, AwaitTriggers,
       LeaveLock, TellLeaving, JoinCall, JoinReply, Joined, ConnectStart, Ops
  <2> QED
    BY <2>1, <2>2, <2>3
<1>10. ASSUME NEW q \in Peers, NEW t \in Threads, Handle(q, t) \/ HandleSwarm(q, t) PROVE Typed
  <2>1. Called
    <3> HIDE DEF Called
    <3> QED
      BY <1>3, <1>4, <1>10 DEF Handle, HandleLockRequest, HandleUnlockRequest, HandleCommitEnd,
         HandleInsertRequest, HandleUpdateRequest, HandleSwarm, HandleLeaveRequest,
         HandleNewPeerRequest, HandleConnectRequest, HandleInitRequest, Reply
  <2>2. pc' \in [Threads -> Labels] /\ op' \in [Threads -> Ops]
    <3>1. CASE HandleConnectRequest(q, t)
      BY <3>1, <1>5, ConstantsAssumption DEF HandleConnectRequest, Labels, Ops
    <3>2. CASE UNCHANGED <<pc, op>>
      BY <3>2
    <3> QED
      BY <3>1, <3>2, <1>10 DEF Handle, HandleLockRequest, HandleUnlockRequest, HandleCommitEnd,
         HandleInsertRequest, HandleUpdateRequest, HandleSwarm, HandleLeaveRequest,
         HandleNewPeerRequest, HandleInitRequest
  <2> QED
    BY <2>1, <2>2
<1>11. ASSUME UNCHANGED <<pc, op, call>> PROVE Typed
  BY <1>11
<1>12. ASSUME NEW q \in Peers, NEW t \in Threads, Receive(q, t) PROVE Typed
  BY <1>11, <1>12 DEF Receive, threadVars, callVars
<1> HIDE DEF Typed
<1>13. Typed
  BY <1>7, <1>8, <1>9, <1>10, <1>11, <1>12
     DEF Next, FixedSwarmNext, Finished, vars, threadVars, callVars
<1> QED
  BY <1>13 DEF Typed

\* LeaveInv holds at first, when nobody has left, ...
LEMMA LeaveInvInit == Init => LeaveInv
<1> SUFFICES ASSUME Init PROVE LeaveInv
  OBVIOUS
<1>1. /\ member \in [Peers -> {"absent", "active", "relinquished"}]
      /\ attached \in [Peers -> BOOLEAN] /\ jobs \in [Peers -> Nat]
      /\ pc \in [Threads -> Labels] /\ op \in [Threads -> Ops]
  BY DEF Init, Labels, Ops
<1>2. call = [t \in Threads |-> [kind |-> call[t].kind, to |-> call[t].to, reply |-> call[t].reply]]
  BY DEF Init, NoCall
<1>3. \A t \in Threads : LeaveFits(t)
  BY DEF Init, NoCall, LeaveFits, LeavePlaces
<1>4. \A p \in Peers : member[p] # "relinquished"
  BY DEF Init
<1> QED
  BY <1>1, <1>2, <1>3, <1>4 DEF LeaveInv

\* ... and is kept by every step.
LEMMA LeaveInvStep == LeaveInv /\ [Next]_vars => LeaveInv'
<1> SUFFICES ASSUME LeaveInv, [Next]_vars PROVE LeaveInv'
  OBVIOUS
<1>1. ASSUME NEW u \in Threads PROVE LeaveFits(u)'
  <2>1. CASE SameThread(u)
    BY <2>1, StaysFit
  <2>2. CASE LockStep(u) \/ DataStep(u) \/ SwarmStep(u)
    BY <2>2, LockStepFits, DataStepFits, SwarmStepFits
  <2>3. CASE /\ u \in Helpers /\ pc[u] = "idle" /\ pc'[u] = "connectStart" /\ op'[u] = "connect"
             /\ call'[u].kind = call[u].kind
    BY <2>3 DEF LeaveInv, LeaveFits, LeavePlaces
  <2> QED
    BY <2>1, <2>2, <2>3, WhoMoves
<1>2. ASSUME NEW p \in Peers, member'[p] = "relinquished" PROVE Silent(p)'
  BY <1>2, MembersStay, SilentStays DEF LeaveInv
<1> QED
  BY <1>1, <1>2, MembersStay, TriggersStay, LeaveTypesStep DEF LeaveInv

--------------------------------------------------------------------------------
\* The inductive invariant of leaving (ChunkBase::leave, LegacyChunk::leaveImpl): from the end of
\* waitForTriggerCompletion() on no trigger of the peer is attached, noted or under way.
THEOREM LeaveInvariant == Spec => []LeaveInv
<1>1. Init => LeaveInv
  BY LeaveInvInit
<1>2. LeaveInv /\ [Next]_vars => LeaveInv'
  BY LeaveInvStep
<1> QED
  BY <1>1, <1>2, PTL DEF Spec

\* A peer that has left has no trigger thread under way and gets none, for any swarm that
\* grows and shrinks, any calls, and callbacks that use the chunk themselves.
THEOREM TriggersHaveEnded == Spec => []TriggersEndFirst
<1>1. LeaveInv => TriggersEndFirst
  BY ConstantsAssumption DEF LeaveInv, Silent, TriggersEndFirst
<1> QED
  BY <1>1, LeaveInvariant, PTL

================================================================================
