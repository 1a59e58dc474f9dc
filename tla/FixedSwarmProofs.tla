---------------------------- MODULE FixedSwarmProofs ----------------------------
(***************************************************************************)
(* The lock of a chunk is a readers-writer lock, for every number of peers *)
(* and threads, as long as the swarm does not change.                      *)
(***************************************************************************)
EXTENDS FixedSwarm, FiniteSetTheorems, TLAPS

--------------------------------------------------------------------------------
(* What a step of a chunk in a fixed swarm leaves alone, and that it keeps *)
(* the types of what it changes.                                           *)

\* A request that is sent has the type of a request.
LEMMA SendTypes ==
  ASSUME CallTypes, NEW t \in Threads, NEW kind \in Calling, NEW q \in Peers, NEW what,
         Send(t, kind, q, what)
  PROVE  CallTypes'
  BY DEF CallTypes, Send

\* The end of a call keeps the type of the requests in flight, ...
LEMMA EndCallTypes ==
  ASSUME CallTypes, NEW t \in Threads, EndCall(t)
  PROVE  CallTypes'
  BY DEF CallTypes, EndCall, NoCall

\* ... and so does a reply.
LEMMA AnswerTypes ==
  ASSUME CallTypes, NEW t \in Threads, NEW reply \in {"commitEnd", "ack", "decline"},
         call' = [call EXCEPT ![t].reply = reply]
  PROVE  CallTypes'
  BY DEF CallTypes

\* A step keeps the types of the replicas and of the swarm, ...
LEMMA SwarmTypesStep ==
  ASSUME LockInv, [FixedSwarmNext]_vars
  PROVE  SwarmTypes'
<1> USE DEF LockInv, TypeOK
<1>1. ASSUME NEW p \in Peers, NEW rev \in Items \X Nat, Patch(p, rev), UNCHANGED swarmVars
      PROVE  SwarmTypes'
  BY <1>1 DEF SwarmTypes, Patch, swarmVars
<1>2. ASSUME NEW t \in Threads, Insert(t) \/ BulkInsertLocked(t) PROVE SwarmTypes'
  <2>1. \E i \in Items : Patch(Host[t], <<i, 1>>)
    BY <1>2, ConstantsAssumption DEF Insert, BulkInsertLocked
  <2>2. UNCHANGED swarmVars
    BY <1>2 DEF Insert, BulkInsertLocked
  <2> QED
    BY <2>1, <2>2, <1>1, ConstantsAssumption
<1>3. ASSUME NEW t \in Threads, UpdateLocked(t) PROVE SwarmTypes'
  <2>1. PICK i \in Items : \E v \in Versions(Host[t], i) : Patch(Host[t], <<i, v + 1>>)
    BY <1>3 DEF UpdateLocked
  <2>2. PICK v \in Versions(Host[t], i) : Patch(Host[t], <<i, v + 1>>)
    BY <2>1
  <2>3. data[Host[t]] \in SUBSET (Items \X Nat)
    BY ConstantsAssumption DEF SwarmTypes
  <2>4. PICK rev \in data[Host[t]] : v = rev[2]
    BY <2>2 DEF Versions
  <2>5. v + 1 \in Nat
    BY <2>3, <2>4
  <2>6. UNCHANGED swarmVars
    BY <1>3 DEF UpdateLocked
  <2> QED
    BY <2>2, <2>5, <2>6, <1>1, ConstantsAssumption
<1>4. ASSUME NEW q \in Peers, NEW t \in Threads, HandleInsertRequest(q, t) PROVE SwarmTypes'
  <2>1. arg[t] \in Items \X Nat
    BY <1>4 DEF HandleInsertRequest, Handles, ArgTypes
  <2>2. CASE Patch(q, arg[t])
    BY <1>4, <2>1, <2>2, <1>1 DEF HandleInsertRequest
  <2>3. CASE UNCHANGED data
    BY <1>4, <2>3 DEF HandleInsertRequest, swarmVars, SwarmTypes
  <2> QED
    BY <1>4, <2>2, <2>3 DEF HandleInsertRequest
<1>5. ASSUME NEW q \in Peers, NEW t \in Threads, HandleUpdateRequest(q, t) PROVE SwarmTypes'
  <2>1. arg[t] \in Items \X Nat
    BY <1>5 DEF HandleUpdateRequest, Handles, ArgTypes
  <2> QED
    BY <1>5, <2>1, <1>1 DEF HandleUpdateRequest
<1>6. ASSUME NEW t \in Threads, BroadcastReply(t) PROVE SwarmTypes'
  <2>1. UNCHANGED swarmVars
    BY <1>6 DEF BroadcastReply, CallsFit, CallFits, swarmVars
  <2> QED
    BY <1>6, <2>1 DEF BroadcastReply, swarmVars, SwarmTypes
<1>7. ASSUME NEW t \in Threads, LockStep(t) \/ StartCall(t) \/ RunTrigger(t) \/ TriggerDone(t)
      PROVE  SwarmTypes'
  BY <1>7 DEF LockStep, ReadLock, Attempt, AskFirst, LockReply, Acquire, Relock, UnlockRead,
     UnlockNested, UnlockWrite, UnlockReply, StartCall, RunTrigger, TriggerDone, swarmVars, SwarmTypes
<1>8. ASSUME NEW q \in Peers, NEW t \in Threads,
             \/ Receive(q, t) \/ HandleLockRequest(q, t)
             \/ HandleUnlockRequest(q, t) \/ HandleCommitEnd(q, t)
      PROVE  SwarmTypes'
  BY <1>8 DEF Receive, HandleLockRequest, HandleUnlockRequest, HandleCommitEnd,
     swarmVars, SwarmTypes
<1>9. CASE UNCHANGED vars
  BY <1>9 DEF vars, swarmVars, SwarmTypes
<1> QED
  BY <1>2, <1>3, <1>4, <1>5, <1>6, <1>7, <1>8, <1>9 DEF FixedSwarmNext, DataStep, Handle

\* ... lock_, ...
LEMMA LockTypesStep ==
  ASSUME LockInv, [FixedSwarmNext]_vars
  PROVE  LockTypes'
<1> USE DEF LockInv, TypeOK
<1>0. \A t \in Threads : Host[t] \in Peers
  BY ConstantsAssumption
<1>1. ASSUME NEW t \in Threads, ReadLock(t) PROVE LockTypes'
  BY <1>1, <1>0 DEF ReadLock, Wait, LockTypes, LockStates
<1>2. ASSUME NEW t \in Threads, Attempt(t) PROVE LockTypes'
  <2>1. cv' \in [Peers -> SUBSET Threads]
    BY <1>2, <1>0 DEF Attempt, Wait, LockTypes
  <2>2. /\ state' \in [Peers -> LockStates]
        /\ thread' \in [Peers -> Threads \cup {NoThread}]
    BY <1>2, <1>0 DEF Attempt, LockTypes, LockStates
  <2> QED
    BY <1>2, <2>1, <2>2 DEF Attempt, LockTypes
<1>3. ASSUME NEW t \in Threads, Acquire(t) PROVE LockTypes'
  <2>1. /\ state' \in [Peers -> LockStates]
        /\ thread' \in [Peers -> Threads \cup {NoThread}]
        /\ holder' \in [Peers -> Peers \cup {NoPeer}]
    BY <1>3, <1>0 DEF Acquire, LockTypes, LockStates
  <2>2. depth' \in [Peers -> Nat]
    BY <1>3, <1>0 DEF Acquire, LockTypes
  <2> QED
    BY <1>3, <2>1, <2>2 DEF Acquire, LockTypes
<1>4. ASSUME NEW t \in Threads, Relock(t) PROVE LockTypes'
  <2>1. depth' \in [Peers -> Nat]
    BY <1>4, <1>0 DEF Relock, LockTypes
  <2> QED
    BY <1>4, <2>1 DEF Relock, LockTypes
<1>5. ASSUME NEW t \in Threads, UnlockRead(t) PROVE LockTypes'
  <2>1. nReaders[Host[t]] \in Nat \ {0}
    BY <1>5, <1>0 DEF UnlockRead, LockTypes, ReadersCounted
  <2>2. nReaders' \in [Peers -> Nat]
    BY <1>5, <1>0, <2>1 DEF UnlockRead, LockTypes
  <2>3. state' \in [Peers -> LockStates] /\ cv' \in [Peers -> SUBSET Threads]
    BY <1>5, <1>0 DEF UnlockRead, NotifyAll, LockTypes, LockStates
  <2> QED
    BY <1>5, <2>2, <2>3 DEF UnlockRead, LockTypes
<1>6. ASSUME NEW t \in Threads, UnlockNested(t) \/ UnlockWrite(t) PROVE LockTypes'
  <2>1. depth[Host[t]] \in Nat \ {0}
    BY <1>6, <1>0 DEF UnlockNested, UnlockWrite, LockTypes
  <2>2. depth' \in [Peers -> Nat]
    BY <1>6, <1>0, <2>1 DEF UnlockNested, UnlockWrite, LockTypes
  <2>3. state' \in [Peers -> LockStates] /\ cv' \in [Peers -> SUBSET Threads]
    BY <1>6, <1>0 DEF UnlockNested, UnlockWrite, NotifyAll, LockTypes, LockStates
  <2> QED
    BY <1>6, <2>2, <2>3 DEF UnlockNested, UnlockWrite, LockTypes
<1>7. ASSUME NEW t \in Threads, UnlockReply(t) PROVE LockTypes'
  BY <1>7, <1>0 DEF UnlockReply, NotifyAll, LockTypes, LockStates
<1>8. ASSUME NEW q \in Peers, NEW t \in Threads, HandleLockRequest(q, t) PROVE LockTypes'
  <2>1. /\ state' \in [Peers -> LockStates]
        /\ preempted' \in [Peers -> {"UNLOCKED", "ATTEMPTING"}]
        /\ holder' \in [Peers -> Peers \cup {NoPeer}]
    BY <1>8, <1>0 DEF HandleLockRequest, LockTypes, LockStates
  <2>2. cv' \in [Peers -> SUBSET Threads]
    BY <1>8 DEF HandleLockRequest, LockTypes
  <2> QED
    BY <1>8, <2>1, <2>2 DEF HandleLockRequest, LockTypes
<1>9. ASSUME NEW q \in Peers, NEW t \in Threads, HandleUnlockRequest(q, t) PROVE LockTypes'
  BY <1>9 DEF HandleUnlockRequest, NotifyAll, LockTypes, LockStates
<1>10. ASSUME NEW t \in Threads, AskFirst(t) \/ LockReply(t) \/ DataStep(t) PROVE LockTypes'
  BY <1>10 DEF AskFirst, LockReply, DataStep, StartCall, Insert, BulkInsertLocked, UpdateLocked,
     BroadcastReply, RunTrigger, TriggerDone, lockVars, LockTypes
<1>11. ASSUME NEW q \in Peers, NEW t \in Threads,
              \/ Receive(q, t) \/ HandleCommitEnd(q, t)
              \/ HandleInsertRequest(q, t) \/ HandleUpdateRequest(q, t)
       PROVE  LockTypes'
  BY <1>11 DEF Receive, HandleCommitEnd, HandleInsertRequest, HandleUpdateRequest,
     lockVars, LockTypes
<1>12. CASE UNCHANGED vars
  BY <1>12 DEF vars, lockVars, LockTypes
<1> QED
  BY <1>1, <1>2, <1>3, <1>4, <1>5, <1>6, <1>7, <1>8, <1>9, <1>10, <1>11, <1>12
     DEF FixedSwarmNext, LockStep, Handle

\* ... what the triggers have yet to be told, ...
LEMMA TriggerTypesStep ==
  ASSUME LockInv, [FixedSwarmNext]_vars
  PROVE  TriggerTypes'
<1> USE DEF LockInv, TypeOK
<1>1. ASSUME NEW t \in Threads, RunTrigger(t) PROVE TriggerTypes'
  <2>1. Host[t] \in Peers
    BY ConstantsAssumption
  <2>2. jobs[Host[t]] > 0 /\ jobs' = [jobs EXCEPT ![Host[t]] = @ - 1]
    BY <1>1 DEF RunTrigger
  <2>3. jobs' \in [Peers -> Nat]
    BY <2>1, <2>2 DEF TriggerTypes
  <2> QED
    BY <1>1, <2>3 DEF RunTrigger, TriggerTypes
<1>2. ASSUME NEW q \in Peers, NEW t \in Threads, HandleCommitEnd(q, t) PROVE TriggerTypes'
  BY <1>2 DEF HandleCommitEnd, TriggerTypes
<1>3. ASSUME NEW q \in Peers, NEW t \in Threads,
             HandleInsertRequest(q, t) \/ HandleUpdateRequest(q, t)
      PROVE  TriggerTypes'
  <2>1. arg[t][1] \in Items
    BY <1>3 DEF HandleInsertRequest, HandleUpdateRequest, Handles, ArgTypes
  <2> QED
    BY <1>3, <2>1 DEF HandleInsertRequest, HandleUpdateRequest, TriggerTypes
<1>4. ASSUME NEW t \in Threads,
             \/ LockStep(t) \/ StartCall(t) \/ Insert(t) \/ BulkInsertLocked(t)
             \/ UpdateLocked(t) \/ BroadcastReply(t) \/ TriggerDone(t)
      PROVE  TriggerTypes'
  BY <1>4 DEF LockStep, ReadLock, Attempt, AskFirst, LockReply, Acquire, Relock, UnlockRead,
     UnlockNested, UnlockWrite, UnlockReply, StartCall, Insert, BulkInsertLocked, UpdateLocked,
     BroadcastReply, TriggerDone, triggerVars, TriggerTypes
<1>5. ASSUME NEW q \in Peers, NEW t \in Threads,
             \/ Receive(q, t) \/ HandleLockRequest(q, t)
             \/ HandleUnlockRequest(q, t)
      PROVE  TriggerTypes'
  BY <1>5 DEF Receive, HandleLockRequest, HandleUnlockRequest, triggerVars, TriggerTypes
<1>6. CASE UNCHANGED vars
  BY <1>6 DEF vars, triggerVars, TriggerTypes
<1> QED
  BY <1>1, <1>2, <1>3, <1>4, <1>5, <1>6 DEF FixedSwarmNext, DataStep, Handle

\* ... what the threads do, ...
LEMMA ThreadTypesStep ==
  ASSUME LockInv, [FixedSwarmNext]_vars
  PROVE  ThreadTypes'
<1> USE ConstantsAssumption DEF LockInv, TypeOK, ThreadTypes
<1>1. ASSUME NEW t \in Threads,
             ReadLock(t) \/ Attempt(t) \/ AskFirst(t) \/ LockReply(t) \/ Acquire(t) \/ UnlockRead(t)
      PROVE  ThreadTypes'
  <2>1. pc' = pc \/ \E label \in Labels : Goto(t, label)
    BY <1>1 DEF ReadLock, Attempt, AskFirst, LockReply, Acquire, UnlockRead, Labels, Base
  <2>2. UNCHANGED <<op, calls, touched, target, rest, serving>>
    BY <1>1 DEF ReadLock, Attempt, AskFirst, LockReply, Acquire, UnlockRead
  <2> QED
    BY <2>1, <2>2 DEF Goto
<1>2. ASSUME NEW t \in Threads, SpendCall(t) PROVE calls' \in [Threads -> 0..MaxCalls]
  BY <1>2 DEF SpendCall
<1>3. ASSUME NEW t \in Threads, Relock(t) \/ UnlockNested(t) PROVE ThreadTypes'
  BY <1>3, <1>2 DEF Relock, UnlockNested, threadVars
<1>4. ASSUME NEW t \in Threads, UnlockWrite(t) PROVE ThreadTypes'
  <2>1. pc' = pc \/ \E label \in Labels : Goto(t, label)
    BY <1>4 DEF UnlockWrite, Labels, Base
  <2>2. peers[Host[t]] \in SUBSET Peers
    BY DEF SwarmTypes
  <2>3. rest' \in [Threads -> SUBSET Peers]
    BY <1>4, <2>2 DEF UnlockWrite, callVars
  <2>4. touched' \in [Threads -> SUBSET Items]
    BY <1>4 DEF UnlockWrite
  <2> QED
    BY <1>4, <2>1, <2>3, <2>4 DEF UnlockWrite, Goto
<1>5. ASSUME NEW t \in Threads, UnlockReply(t) PROVE ThreadTypes'
  <2>1. pc' = pc \/ \E label \in Labels : Goto(t, label)
    BY <1>5 DEF UnlockReply, Labels, Base
  <2>2. rest' \in [Threads -> SUBSET Peers]
    BY <1>5 DEF UnlockReply
  <2> QED
    BY <1>5, <2>1, <2>2 DEF UnlockReply, Goto
<1>6. ASSUME NEW t \in Threads, StartCall(t) PROVE ThreadTypes'
  <2>1. calls' \in [Threads -> 0..MaxCalls]
    BY <1>6, <1>2 DEF StartCall
  <2>2. \E label \in Labels : Goto(t, label)
    BY <1>6 DEF StartCall, Labels
  <2>3. op' \in [Threads -> Ops]
    BY <1>6 DEF StartCall
  <2>4. target' \in [Threads -> Peers \cup {NoPeer}]
    BY <1>6 DEF StartCall
  <2> QED
    BY <1>6, <2>1, <2>2, <2>3, <2>4 DEF StartCall, Goto
<1>7. ASSUME NEW t \in Threads, Insert(t) \/ BulkInsertLocked(t) \/ UpdateLocked(t)
      PROVE  ThreadTypes'
  <2>1. pc' = pc \/ \E label \in Labels : Goto(t, label)
    BY <1>7 DEF Insert, BulkInsertLocked, UpdateLocked, Broadcast, Labels
  <2>2. calls' \in [Threads -> 0..MaxCalls]
    BY <1>7, <1>2 DEF Insert, BulkInsertLocked, UpdateLocked, SpendChange
  <2>3. touched' = touched \/ \E i \in Items : touched' = [touched EXCEPT ![t] = @ \cup {i}]
    BY <1>7 DEF Insert, BulkInsertLocked, UpdateLocked
  <2>4. op' = op \/ op' = [op EXCEPT ![t] = "read"]
    BY <1>7 DEF Insert, BulkInsertLocked, UpdateLocked
  <2>5. touched' \in [Threads -> SUBSET Items] /\ op' \in [Threads -> Ops]
    BY <2>3, <2>4 DEF Ops
  <2>6. UNCHANGED <<target, rest, serving>>
    BY <1>7 DEF Insert, BulkInsertLocked, UpdateLocked
  <2> QED
    BY <2>1, <2>2, <2>5, <2>6 DEF Goto
<1>8. ASSUME NEW t \in Threads, BroadcastReply(t) PROVE ThreadTypes'
  <2>1. pc' = pc \/ \E label \in Labels : Goto(t, label)
    BY <1>8 DEF BroadcastReply, Labels
  <2>2. op' = op
    BY <1>8 DEF BroadcastReply, CallsFit, CallFits
  <2> QED
    BY <1>8, <2>1, <2>2 DEF BroadcastReply, Goto
<1>9. ASSUME NEW t \in Threads, RunTrigger(t) \/ TriggerDone(t) PROVE ThreadTypes'
  <2>1. \E label \in Labels : Goto(t, label)
    BY <1>9 DEF RunTrigger, TriggerDone, Labels
  <2> QED
    BY <1>9, <2>1 DEF RunTrigger, TriggerDone, Goto
<1>10. ASSUME NEW q \in Peers, NEW t \in Threads, Receive(q, t) \/ Handle(q, t) PROVE ThreadTypes'
  <2>1. serving' = serving \/ \E u \in Threads \cup {NoThread} : serving' = [serving EXCEPT ![q] = u]
    BY <1>10 DEF Receive, Handle, HandleLockRequest, HandleUnlockRequest,
       HandleCommitEnd, HandleInsertRequest, HandleUpdateRequest, Reply
  <2>2. UNCHANGED <<pc, op, calls, touched, target, rest>>
    BY <1>10 DEF Receive, Handle, HandleLockRequest, HandleUnlockRequest,
       HandleCommitEnd, HandleInsertRequest, HandleUpdateRequest, threadVars
  <2> QED
    BY <2>1, <2>2
<1>11. CASE UNCHANGED vars
  BY <1>11 DEF vars, threadVars
<1> QED
  BY <1>1, <1>3, <1>4, <1>5, <1>6, <1>7, <1>8, <1>9, <1>10, <1>11
     DEF FixedSwarmNext, LockStep, DataStep

\* ... the requests in flight, ...
LEMMA CallTypesStep ==
  ASSUME TypeOK, [FixedSwarmNext]_vars
  PROVE  CallTypes'
<1> USE DEF TypeOK
<1>1. ASSUME NEW t \in Threads, NEW kind \in Calling, NEW q, NEW what,
             q \in peers[Host[t]], Send(t, kind, q, what)
      PROVE  CallTypes'
  <2>1. Host[t] \in Peers
    BY ConstantsAssumption
  <2>2. q \in Peers
    BY <1>1, <2>1 DEF SwarmTypes
  <2> QED
    BY <1>1, <2>2, SendTypes
<1>2. ASSUME NEW t \in Threads, AskFirst(t) PROVE CallTypes'
  <2>1. CASE UNCHANGED call
    BY <2>1 DEF CallTypes
  <2>2. CASE \E q \in peers[Host[t]] : Send(t, "lock", q, NoArg)
    BY <2>2, <1>1 DEF Calling
  <2> QED
    BY <1>2, <2>1, <2>2 DEF AskFirst, callVars
<1>3. ASSUME NEW t \in Threads, LockReply(t) PROVE CallTypes'
  <2>1. CASE Send(t, "lock", call[t].to, NoArg)
    <3>1. call'[t].to = call[t].to
      BY <2>1 DEF CallTypes, Send
    <3> QED
      BY <2>1, <3>1 DEF CallTypes, Send, Calling
  <2>2. CASE EndCall(t)
    BY <2>2, EndCallTypes
  <2>3. CASE \E q \in peers[Host[t]] : Send(t, "lock", q, NoArg)
    BY <2>3, <1>1 DEF Calling
  <2> QED
    BY <1>3, <2>1, <2>2, <2>3 DEF LockReply, IsNext
<1>4. ASSUME NEW t \in Threads, UnlockWrite(t) PROVE CallTypes'
  <2>1. CASE UNCHANGED call
    BY <2>1 DEF CallTypes
  <2>2. CASE \E q \in peers[Host[t]] : Send(t, "unlock", q, NoArg)
    BY <2>2, <1>1 DEF Calling
  <2> QED
    BY <1>4, <2>1, <2>2 DEF UnlockWrite, callVars
<1>5. ASSUME NEW t \in Threads, UnlockReply(t) PROVE CallTypes'
  <2>1. CASE EndCall(t)
    BY <2>1, EndCallTypes
  <2>2. CASE \E q \in rest[t] : Send(t, "unlock", q, NoArg)
    BY <2>2, SendTypes DEF Calling, ThreadTypes
  <2> QED
    BY <1>5, <2>1, <2>2 DEF UnlockReply
<1>6. ASSUME NEW t \in Threads, Insert(t) \/ BulkInsertLocked(t) \/ UpdateLocked(t)
      PROVE  CallTypes'
  <2>1. CASE UNCHANGED call
    BY <2>1 DEF CallTypes
  <2>2. CASE \E q \in peers[Host[t]] : \E kind \in {"insert", "update"} : \E what :
               Send(t, kind, q, what)
    BY <2>2, <1>1 DEF Calling
  <2> QED
    BY <1>6, <2>1, <2>2 DEF Insert, BulkInsertLocked, UpdateLocked, Broadcast, callVars
<1>7. ASSUME NEW t \in Threads, BroadcastReply(t) PROVE CallTypes'
  <2>1. CASE EndCall(t)
    BY <2>1, EndCallTypes
  <2>2. CASE \E q \in peers[Host[t]] : Send(t, call[t].kind, q, arg[t])
    <3>1. PICK q \in peers[Host[t]] : Send(t, call[t].kind, q, arg[t])
      BY <2>2
    <3>2. q \in Peers
      BY ConstantsAssumption DEF SwarmTypes
    <3> QED
      BY <3>1, <3>2 DEF CallTypes, Send
  <2> QED
    BY <1>7, <2>1, <2>2 DEF BroadcastReply, IsNext
<1>8. ASSUME NEW q \in Peers, NEW t \in Threads, Handle(q, t) PROVE CallTypes'
  <2>1. CASE UNCHANGED call
    BY <2>1 DEF CallTypes
  <2>2. CASE \E reply \in {"commitEnd", "ack", "decline"} :
               call' = [call EXCEPT ![t].reply = reply]
    BY <2>2, AnswerTypes
  <2> QED
    BY <1>8, <2>1, <2>2 DEF Handle, HandleLockRequest, HandleUnlockRequest,
       HandleCommitEnd, HandleInsertRequest, HandleUpdateRequest, Reply
<1>9. ASSUME NEW t \in Threads,
             \/ ReadLock(t) \/ Attempt(t) \/ Acquire(t) \/ Relock(t) \/ UnlockRead(t)
             \/ UnlockNested(t) \/ StartCall(t) \/ RunTrigger(t) \/ TriggerDone(t)
      PROVE  CallTypes'
  BY <1>9 DEF ReadLock, Attempt, Acquire, Relock, UnlockRead, UnlockNested, StartCall,
     RunTrigger, TriggerDone, threadVars, callVars, CallTypes
<1>10. ASSUME NEW q \in Peers, NEW t \in Threads, Receive(q, t) PROVE CallTypes'
  BY <1>10 DEF Receive, threadVars, callVars, CallTypes
<1>11. CASE UNCHANGED vars
  BY <1>11 DEF vars, threadVars, callVars, CallTypes
<1> QED
  BY <1>2, <1>3, <1>4, <1>5, <1>6, <1>7, <1>8, <1>9, <1>10, <1>11
     DEF FixedSwarmNext, LockStep, DataStep

\* ... and what they say.
LEMMA ArgTypesStep ==
  ASSUME LockInv, [FixedSwarmNext]_vars
  PROVE  ArgTypes'
<1> USE DEF LockInv, TypeOK
<1>1. ASSUME NEW t \in Threads, NEW kind, NEW q, NEW what, Send(t, kind, q, what),
             \/ kind \in {"lock", "unlock"}
             \/ kind \in {"insert", "update"} /\ what \in Items \X Nat
      PROVE  ArgTypes'
  BY <1>1 DEF Send, ArgTypes, CallTypes
<1>2. ASSUME NEW t \in Threads, EndCall(t) PROVE ArgTypes'
  BY <1>2 DEF EndCall, NoCall, ArgTypes, CallTypes
<1>3. ASSUME UNCHANGED callVars PROVE ArgTypes'
  BY <1>3 DEF callVars, ArgTypes
<1>4. ASSUME NEW t \in Threads, AskFirst(t) \/ LockReply(t) \/ UnlockWrite(t) \/ UnlockReply(t)
      PROVE  ArgTypes'
  BY <1>4, <1>1, <1>2, <1>3 DEF AskFirst, LockReply, UnlockWrite, UnlockReply
<1>5. ASSUME NEW t \in Threads, Insert(t) \/ BulkInsertLocked(t) PROVE ArgTypes'
  <2>1. PICK i \in Items : \E kind \in {"insert"}, label \in Labels : Broadcast(t, kind, <<i, 1>>, label)
    BY <1>5, ConstantsAssumption DEF Insert, BulkInsertLocked, Labels
  <2> QED
    BY <2>1, <1>1, <1>3 DEF Broadcast, callVars
<1>6. ASSUME NEW t \in Threads, UpdateLocked(t) PROVE ArgTypes'
  <2>1. PICK i \in Items : \E v \in Versions(Host[t], i) :
                             Broadcast(t, "update", <<i, v + 1>>, "writeBroadcast")
    BY <1>6 DEF UpdateLocked
  <2>2. PICK v \in Versions(Host[t], i) : Broadcast(t, "update", <<i, v + 1>>, "writeBroadcast")
    BY <2>1
  <2>3. data[Host[t]] \in SUBSET (Items \X Nat)
    BY ConstantsAssumption DEF SwarmTypes
  <2>4. PICK rev \in data[Host[t]] : v = rev[2]
    BY <2>2 DEF Versions
  <2>5. <<i, v + 1>> \in Items \X Nat
    BY <2>3, <2>4
  <2> QED
    BY <2>2, <2>5, <1>1, <1>3 DEF Broadcast
<1>7. ASSUME NEW t \in Threads, BroadcastReply(t) PROVE ArgTypes'
  <2>1. call[t].kind \in {"insert", "update"} /\ arg[t] \in Items \X Nat
    BY <1>7 DEF BroadcastReply, CallsFit, CallFits, ArgTypes
  <2> QED
    BY <1>7, <2>1, <1>1, <1>2 DEF BroadcastReply
<1>8. ASSUME NEW t \in Threads,
             \/ ReadLock(t) \/ Attempt(t) \/ Acquire(t) \/ Relock(t) \/ UnlockRead(t)
             \/ UnlockNested(t) \/ StartCall(t) \/ RunTrigger(t) \/ TriggerDone(t)
      PROVE  ArgTypes'
  BY <1>8, <1>3 DEF ReadLock, Attempt, Acquire, Relock, UnlockRead, UnlockNested, StartCall,
     RunTrigger, TriggerDone, threadVars
<1>9. ASSUME NEW q \in Peers, NEW t \in Threads, Receive(q, t) \/ Handle(q, t) PROVE ArgTypes'
  <2>1. arg' = arg /\ \A u \in Threads : call'[u].kind = call[u].kind
    BY <1>9 DEF Receive, Handle, HandleLockRequest, HandleUnlockRequest,
       HandleCommitEnd, HandleInsertRequest, HandleUpdateRequest, Reply, threadVars, callVars, CallTypes
  <2> QED
    BY <2>1 DEF ArgTypes
<1>10. CASE UNCHANGED vars
  BY <1>10, <1>3 DEF vars, threadVars
<1> QED
  BY <1>4, <1>5, <1>6, <1>7, <1>8, <1>9, <1>10 DEF FixedSwarmNext, LockStep, DataStep

--------------------------------------------------------------------------------
\* A step of a client thread leaves the requests of other threads, and lock_ of other peers, alone.
LEMMA ThreadFrame ==
  ASSUME TypeOK, NEW t \in Threads, LockStep(t) \/ DataStep(t)
  PROVE  /\ \A u \in Threads \ {t} : pc'[u] = pc[u] /\ call'[u] = call[u] /\ rest'[u] = rest[u]
         /\ \A p \in Peers \ {Host[t]} :
              /\ state'[p] = state[p] /\ preempted'[p] = preempted[p]
              /\ nReaders'[p] = nReaders[p]
              /\ holder'[p] = holder[p] /\ thread'[p] = thread[p]
         /\ serving' = serving
<1> USE DEF TypeOK, LockTypes, ThreadTypes, CallTypes
<1>1. CASE LockStep(t)
  <2>1. /\ pc' = pc \/ \E label : pc' = [pc EXCEPT ![t] = label]
        /\ call' = call \/ \E new : call' = [call EXCEPT ![t] = new]
        /\ rest' = rest \/ \E new : rest' = [rest EXCEPT ![t] = new]
    BY <1>1 DEF LockStep, ReadLock, Attempt, AskFirst, LockReply, Acquire, Relock, UnlockRead,
       UnlockNested, UnlockWrite, UnlockReply, Goto, Send, EndCall, threadVars, callVars
  <2>2. /\ state' = state \/ \E new : state' = [state EXCEPT ![Host[t]] = new]
        /\ nReaders' = nReaders \/ \E new : nReaders' = [nReaders EXCEPT ![Host[t]] = new]
        /\ holder' = holder \/ \E new : holder' = [holder EXCEPT ![Host[t]] = new]
        /\ thread' = thread \/ \E new : thread' = [thread EXCEPT ![Host[t]] = new]
        /\ preempted' = preempted
    BY <1>1 DEF LockStep, ReadLock, Attempt, AskFirst, LockReply, Acquire, Relock, UnlockRead,
       UnlockNested, UnlockWrite, UnlockReply, lockVars
  <2>3. serving' = serving
    BY <1>1 DEF LockStep, ReadLock, Attempt, AskFirst, LockReply, Acquire, Relock, UnlockRead,
       UnlockNested, UnlockWrite, UnlockReply
  <2> QED
    BY <2>1, <2>2, <2>3
<1>2. CASE DataStep(t)
  <2>1. /\ pc' = pc \/ \E label : pc' = [pc EXCEPT ![t] = label]
        /\ call' = call \/ \E new : call' = [call EXCEPT ![t] = new]
        /\ UNCHANGED <<rest, lockVars, serving>>
    BY <1>2 DEF DataStep, StartCall, Insert, BulkInsertLocked, UpdateLocked, BroadcastReply,
       RunTrigger, TriggerDone, Broadcast, Goto, Send, EndCall, callVars
  <2> QED
    BY <2>1 DEF lockVars
<1> QED
  BY <1>1, <1>2

\* A data step leaves every lock_ alone, and a thread that holds the lock holds it afterwards.
LEMMA DataFrame ==
  ASSUME TypeOK, NEW t \in Threads, DataStep(t)
  PROVE  /\ UNCHANGED <<lockVars, rest, serving>>
         /\ \A u \in Threads \ {t} : pc'[u] = pc[u]
         /\ \/ /\ pc[t] \in {"idle", "callback"}
               /\ pc'[t] \in {"idle", "callback", "readLock", "writeLock", "clearTriggers"}
            \/ pc[t] \in {"reading", "readBroadcast"} /\ pc'[t] \in {"reading", "readBroadcast"}
            \/ pc[t] \in {"writing", "writeBroadcast"} /\ pc'[t] \in {"writing", "writeBroadcast"}
<1> USE DEF TypeOK, ThreadTypes
<1>1. CASE StartCall(t)
  <2>1. \E l \in {"readLock", "writeLock", "clearTriggers"} : pc' = [pc EXCEPT ![t] = l]
    BY <1>1 DEF StartCall, Goto
  <2>2. pc[t] \in {"idle", "callback"}
    BY <1>1 DEF StartCall, Base
  <2> QED
    BY <1>1, <2>1, <2>2 DEF StartCall
<1>2. CASE Insert(t)
  <2>1. pc[t] = "reading" /\ (pc' = pc \/ pc' = [pc EXCEPT ![t] = "readBroadcast"])
    BY <1>2 DEF Insert, Broadcast, Goto
  <2> QED
    BY <1>2, <2>1 DEF Insert
<1>3. CASE BulkInsertLocked(t) \/ UpdateLocked(t)
  <2>1. pc[t] = "writing" /\ (pc' = pc \/ pc' = [pc EXCEPT ![t] = "writeBroadcast"])
    BY <1>3 DEF BulkInsertLocked, UpdateLocked, Broadcast, Goto
  <2> QED
    BY <1>3, <2>1 DEF BulkInsertLocked, UpdateLocked
<1>4. CASE BroadcastReply(t)
  <2>1. /\ pc[t] \in {"readBroadcast", "writeBroadcast"}
        /\ \/ pc' = pc
           \/ pc' = [pc EXCEPT ![t] = IF pc[t] = "readBroadcast" THEN "reading" ELSE "writing"]
    BY <1>4 DEF BroadcastReply, Goto
  <2> QED
    BY <1>4, <2>1 DEF BroadcastReply
<1>5. CASE RunTrigger(t) \/ TriggerDone(t)
  <2>1. /\ pc[t] \in {"idle", "callback"}
        /\ \E l \in {"idle", "callback"} : pc' = [pc EXCEPT ![t] = l]
    BY <1>5 DEF RunTrigger, TriggerDone, Goto
  <2> QED
    BY <1>5, <2>1 DEF RunTrigger, TriggerDone
<1> QED
  BY <1>1, <1>2, <1>3, <1>4, <1>5 DEF DataStep

\* A server thread answers the request it executes and changes lock_ of its own peer only.
LEMMA ServerFrame ==
  ASSUME TypeOK, NEW q \in Peers, NEW t \in Threads, Receive(q, t) \/ Handle(q, t)
  PROVE  /\ pc' = pc /\ rest' = rest /\ nReaders' = nReaders /\ thread' = thread
         /\ \A u \in Threads \ {t} : call'[u] = call[u]
         /\ call'[t].kind = call[t].kind /\ call'[t].to = call[t].to
         /\ \A p \in Peers \ {q} :
              /\ state'[p] = state[p] /\ preempted'[p] = preempted[p]
              /\ holder'[p] = holder[p] /\ serving'[p] = serving[p]
<1> USE DEF TypeOK, LockTypes, ThreadTypes, CallTypes
<1>1. CASE Receive(q, t)
  BY <1>1 DEF Receive, threadVars, callVars, lockVars
<1>2. CASE Handle(q, t)
  <2>1. /\ call' = call \/ \E new : call' = [call EXCEPT ![t].reply = new]
        /\ serving' = serving \/ serving' = [serving EXCEPT ![q] = NoThread]
        /\ state' = state \/ \E new : state' = [state EXCEPT ![q] = new]
        /\ preempted' = preempted \/ \E new : preempted' = [preempted EXCEPT ![q] = new]
        /\ holder' = holder \/ \E new : holder' = [holder EXCEPT ![q] = new]
        /\ UNCHANGED <<pc, rest, nReaders, thread>>
    BY <1>2 DEF Handle, HandleLockRequest, HandleUnlockRequest, HandleCommitEnd,
       HandleInsertRequest, HandleUpdateRequest, Reply, lockVars
  <2> QED
    BY <2>1
<1> QED
  BY <1>1, <1>2

--------------------------------------------------------------------------------
(* The lock is a lock. *)

\* Without requests to join or to leave the swarm stays as it was founded.
LEMMA SwarmIsFixedStep ==
  ASSUME LockInv, [FixedSwarmNext]_vars
  PROVE  SwarmIsFixed'
<1> USE DEF LockInv
<1>1. ASSUME NEW t \in Threads, LockStep(t) \/ DataStep(t) PROVE UNCHANGED swarmVars
  <2>1. ASSUME BroadcastReply(t) PROVE UNCHANGED swarmVars
    BY <2>1 DEF BroadcastReply, CallsFit, CallFits, swarmVars
  <2> QED
    BY <1>1, <2>1 DEF LockStep, ReadLock, Attempt, AskFirst, LockReply, Acquire, Relock, UnlockRead,
       UnlockNested, UnlockWrite, UnlockReply, DataStep, StartCall, Insert, BulkInsertLocked,
       UpdateLocked, RunTrigger, TriggerDone
<1>2. ASSUME NEW q \in Peers, NEW t \in Threads, Receive(q, t) \/ Handle(q, t)
      PROVE  UNCHANGED swarmVars
  BY <1>2 DEF Receive, Handle, HandleLockRequest, HandleUnlockRequest,
     HandleCommitEnd, HandleInsertRequest, HandleUpdateRequest
<1> QED
  BY <1>1, <1>2 DEF FixedSwarmNext, SwarmIsFixed, swarmVars, vars

\* No thread gives up a request that a server thread executes.
LEMMA ServesCallsStep ==
  ASSUME LockInv, [FixedSwarmNext]_vars
  PROVE  ServesCalls'
<1> USE DEF LockInv, TypeOK, ServesCalls
<1>1. ASSUME NEW t \in Threads, LockStep(t) \/ DataStep(t) PROVE ServesCalls'
  <2>1. ASSUME \/ AskFirst(t) \/ UnlockWrite(t) \/ Insert(t) \/ BulkInsertLocked(t) \/ UpdateLocked(t)
        PROVE  call[t] = NoCall
    BY <2>1 DEF AskFirst, UnlockWrite, MayUnlockWrite, Insert, BulkInsertLocked, UpdateLocked,
       CallsFit, CallFits
  <2>2. ASSUME LockReply(t) \/ UnlockReply(t) \/ BroadcastReply(t)
        PROVE  call[t].reply \in {"ack", "decline"}
    BY <2>2 DEF LockReply, UnlockReply, BroadcastReply
  <2>3. ASSUME \/ ReadLock(t) \/ Attempt(t) \/ Acquire(t) \/ Relock(t) \/ UnlockRead(t)
               \/ UnlockNested(t) \/ StartCall(t) \/ RunTrigger(t) \/ TriggerDone(t)
        PROVE  call'[t] = call[t]
    BY <2>3 DEF ReadLock, Attempt, Acquire, Relock, UnlockRead, UnlockNested, StartCall,
       RunTrigger, TriggerDone, threadVars, callVars
  <2>4. call'[t] = call[t] \/ \A q \in Peers : serving[q] # t
    BY <1>1, <2>1, <2>2, <2>3, ConstantsAssumption DEF LockStep, DataStep, NoCall
  <2> QED
    BY <1>1, <2>4, ThreadFrame
<1>2. ASSUME NEW q \in Peers, NEW t \in Threads, Receive(q, t) PROVE ServesCalls'
  BY <1>2 DEF Receive, ThreadTypes, threadVars, callVars
<1>3. ASSUME NEW q \in Peers, NEW t \in Threads, Handle(q, t) PROVE ServesCalls'
  <2>1. serving[q] = t
    BY <1>3 DEF Handle, HandleLockRequest, HandleUnlockRequest, HandleCommitEnd,
       HandleInsertRequest, HandleUpdateRequest, Handles
  <2>2. \/ serving'[q] = NoThread
        \/ serving'[q] = t /\ call'[t].reply \in {"none", "commitEnd"}
    BY <1>3, <2>1 DEF Handle, HandleLockRequest, HandleUnlockRequest, HandleCommitEnd,
       HandleInsertRequest, HandleUpdateRequest, Handles, Reply, ThreadTypes, CallTypes
  <2> QED
    BY <1>3, <2>1, <2>2, ServerFrame, ConstantsAssumption
<1> QED
  BY <1>1, <1>2, <1>3 DEF FixedSwarmNext, vars, threadVars, callVars

\* A thread waits for the reply its place in the code suggests.
LEMMA CallsFitStep ==
  ASSUME LockInv, [FixedSwarmNext]_vars
  PROVE  CallsFit'
<1> USE DEF LockInv, TypeOK
<1>1. ASSUME NEW t \in Threads, LockStep(t) \/ DataStep(t), CallFits(t)' PROVE CallsFit'
  BY <1>1, ThreadFrame DEF CallsFit, CallFits, Others
<1> DEFINE peersOf(t) == peers[Host[t]]
<1>2. ASSUME NEW t \in Threads, Host[t] \in Founders PROVE peersOf(t) = Others(t)
  BY <1>2, ConstantsAssumption DEF SwarmIsFixed, Others
<1>3. ASSUME NEW t \in Threads, ReadLock(t) \/ Attempt(t) \/ Acquire(t) \/ UnlockRead(t)
      PROVE  CallFits(t)'
  BY <1>3 DEF ReadLock, Attempt, Acquire, UnlockRead, Goto, Base, callVars, ThreadTypes,
     CallsFit, CallFits, Others
<1>4. ASSUME NEW t \in Threads, Relock(t) \/ UnlockNested(t) PROVE CallFits(t)'
  BY <1>4 DEF Relock, UnlockNested, threadVars, callVars, CallsFit, CallFits, Others
<1>5. ASSUME NEW t \in Threads, StartCall(t) PROVE CallFits(t)'
  <2>1. Host[t] \in Founders
    BY <1>5, ConstantsAssumption DEF StartCall, SwarmIsFixed
  <2>2. /\ pc[t] \in {"idle", "callback"} /\ pc'[t] \in {"readLock", "clearTriggers", "writeLock"}
        /\ call' = call /\ rest' = rest
    BY <1>5 DEF StartCall, Base, Goto, callVars, ThreadTypes
  <2> QED
    BY <2>1, <2>2 DEF CallsFit, CallFits, Others
<1>6. ASSUME NEW t \in Threads, AskFirst(t) PROVE CallFits(t)'
  <2>1. pc[t] = "attempting" /\ rest' = rest
    BY <1>6 DEF AskFirst
  <2>2. CASE pc'[t] = "accepted" /\ call' = call
    BY <2>1, <2>2 DEF CallsFit, CallFits, Others
  <2>3. CASE \E q \in peersOf(t) : /\ IsFirst(Host[t], q) /\ pc'[t] = "lockFirst"
                                   /\ call'[t] = [kind |-> "lock", to |-> q, reply |-> "none"]
    BY <2>1, <2>3, <1>2 DEF CallsFit, CallFits, Others, IsFirst
  <2> QED
    BY <1>6, <2>2, <2>3 DEF AskFirst, Goto, Send, callVars, ThreadTypes, CallTypes
<1>7. ASSUME NEW t \in Threads, LockReply(t) PROVE CallFits(t)'
  <2>1. pc[t] \in {"lockFirst", "lockRest"} /\ rest' = rest
    BY <1>7 DEF LockReply
  <2>2. CASE pc'[t] \in {"writeLock", "accepted"} /\ call'[t] = NoCall
    BY <2>1, <2>2, ConstantsAssumption DEF CallsFit, CallFits, Others, NoCall
  <2>3. CASE \E q \in Others(t) : /\ pc'[t] = "lockRest"
                                  /\ call'[t] = [kind |-> "lock", to |-> q, reply |-> "none"]
    BY <2>1, <2>3 DEF CallsFit, CallFits, Others
  <2>4. call[t].to \in Others(t) /\ peersOf(t) = Others(t)
    BY <2>1, <1>2 DEF CallsFit, CallFits
  <2> QED
    BY <1>7, <2>2, <2>3, <2>4 DEF LockReply, Goto, Send, EndCall, IsNext, ThreadTypes, CallTypes
<1>8. ASSUME NEW t \in Threads, UnlockWrite(t) PROVE CallFits(t)'
  <2>1. pc[t] = "writing" /\ peersOf(t) = Others(t)
    BY <1>8, <1>2 DEF UnlockWrite, MayUnlockWrite, CallsFit, CallFits
  <2>2. CASE pc'[t] \in {"idle", "callback"} /\ call' = call /\ rest' = rest
    BY <2>1, <2>2 DEF CallsFit, CallFits, Others
  <2>3. CASE \E q \in Others(t) : /\ pc'[t] = "unlocking"
                                  /\ call'[t] = [kind |-> "unlock", to |-> q, reply |-> "none"]
                                  /\ rest'[t] = Others(t) \ {q}
    BY <2>1, <2>3 DEF CallsFit, CallFits, Others
  <2> QED
    BY <1>8, <2>1, <2>2, <2>3 DEF UnlockWrite, Goto, Base, Send, callVars, ThreadTypes, CallTypes
<1>9. ASSUME NEW t \in Threads, UnlockReply(t) PROVE CallFits(t)'
  <2>1. pc[t] = "unlocking" /\ rest[t] \subseteq Others(t)
    BY <1>9 DEF UnlockReply, CallsFit, CallFits
  <2>2. CASE /\ pc'[t] \in {"idle", "callback"} /\ call'[t] = NoCall
             /\ rest' = rest /\ rest[t] = {}
    BY <2>1, <2>2 DEF CallsFit, CallFits, Others, NoCall
  <2>3. CASE \E q \in rest[t] : /\ pc' = pc
                                /\ call'[t] = [kind |-> "unlock", to |-> q, reply |-> "none"]
                                /\ rest'[t] = rest[t] \ {q}
    BY <2>1, <2>3 DEF CallsFit, CallFits, Others
  <2> QED
    BY <1>9, <2>2, <2>3 DEF UnlockReply, Goto, Base, Send, EndCall, callVars, ThreadTypes, CallTypes
<1>10. ASSUME NEW t \in Threads, Insert(t) \/ BulkInsertLocked(t) \/ UpdateLocked(t)
       PROVE  CallFits(t)'
  <2>1. pc[t] \in {"reading", "writing"} /\ peersOf(t) = Others(t) /\ rest' = rest
    BY <1>10, <1>2 DEF Insert, BulkInsertLocked, UpdateLocked, CallsFit, CallFits
  <2>2. CASE pc' = pc /\ call' = call
    BY <2>1, <2>2 DEF CallsFit, CallFits, Others
  <2>3. CASE \E q \in Others(t), kind \in {"insert", "update"} :
               /\ pc'[t] \in {"readBroadcast", "writeBroadcast"}
               /\ call'[t] = [kind |-> kind, to |-> q, reply |-> "none"]
    BY <2>1, <2>3 DEF CallsFit, CallFits, Others
  <2>4. \E kind \in {"insert", "update"}, label \in {"readBroadcast", "writeBroadcast"} :
          \E what : Broadcast(t, kind, what, label)
    BY <1>10 DEF Insert, BulkInsertLocked, UpdateLocked
  <2> QED
    BY <2>1, <2>2, <2>3, <2>4 DEF Broadcast, Goto, Send, callVars, ThreadTypes, CallTypes
<1>11. ASSUME NEW t \in Threads, BroadcastReply(t) PROVE CallFits(t)'
  <2>1. /\ pc[t] \in {"readBroadcast", "writeBroadcast"} /\ rest' = rest
        /\ call[t].kind \in {"insert", "update"} /\ peersOf(t) = Others(t)
    BY <1>11, <1>2 DEF BroadcastReply, CallsFit, CallFits
  <2>4. \/ EndCall(t) /\ pc'[t] \in {"reading", "writing"}
        \/ pc' = pc /\ \E q \in peersOf(t) : Send(t, call[t].kind, q, arg[t])
    BY <1>11 DEF BroadcastReply, Goto, IsNext, ThreadTypes
  <2>2. CASE pc'[t] \in {"reading", "writing"} /\ call'[t] = NoCall
    BY <2>1, <2>2, ConstantsAssumption DEF CallsFit, CallFits, Others, NoCall
  <2>3. CASE \E q \in Others(t) :
               pc' = pc /\ call'[t] = [kind |-> call[t].kind, to |-> q, reply |-> "none"]
    BY <2>1, <2>3 DEF CallsFit, CallFits, Others
  <2> QED
    BY <2>1, <2>2, <2>3, <2>4 DEF Send, EndCall, CallTypes
<1>12. ASSUME NEW t \in Threads, RunTrigger(t) \/ TriggerDone(t) PROVE CallFits(t)'
  BY <1>12 DEF RunTrigger, TriggerDone, Goto, callVars, ThreadTypes, CallsFit, CallFits, Others
<1>13. ASSUME NEW q \in Peers, NEW t \in Threads, Receive(q, t) PROVE CallsFit'
  BY <1>13 DEF Receive, threadVars, callVars, CallsFit, CallFits, Others
<1>14. ASSUME NEW q \in Peers, NEW t \in Threads, Handle(q, t) PROVE CallsFit'
  <2>1. /\ serving[q] = t
        /\ \/ call'[t].reply = call[t].reply
           \/ call'[t].reply = "commitEnd" /\ call[t].kind = "unlock"
           \/ call'[t].reply = "decline" /\ call[t].kind = "lock"
           \/ call'[t].reply = "ack"
    <3>1. CASE HandleInsertRequest(q, t)
      <4>1. member[q] = "active"
        BY <1>14, <3>1 DEF ServesCalls, HandleInsertRequest, Handles, SwarmIsFixed
      <4> QED
        BY <3>1, <4>1 DEF HandleInsertRequest, Handles, Reply, CallTypes
    <3> QED
      BY <1>14, <3>1 DEF Handle, HandleLockRequest, HandleUnlockRequest, HandleCommitEnd,
         HandleUpdateRequest, Handles, Reply, CallTypes
  <2>2. call[t] # NoCall
    BY <2>1, ConstantsAssumption DEF ServesCalls, NoCall
  <2>3. CallFits(t)'
    BY <1>14, <2>1, <2>2, ServerFrame DEF CallsFit, CallFits, Others
  <2>4. ASSUME NEW u \in Threads, u # t PROVE CallFits(u)'
    BY <1>14, <2>4, ServerFrame DEF CallsFit, CallFits, Others
  <2> QED
    BY <2>3, <2>4 DEF CallsFit
<1>15. CASE UNCHANGED vars
  BY <1>15 DEF vars, threadVars, callVars, CallsFit, CallFits, Others
<1> QED
  <2>1. ASSUME NEW t \in Threads, LockStep(t) \/ DataStep(t) PROVE CallFits(t)'
    BY <2>1, <1>3, <1>4, <1>5, <1>6, <1>7, <1>8, <1>9, <1>10, <1>11, <1>12 DEF LockStep, DataStep
  <2>2. ASSUME NEW t \in Threads, LockStep(t) \/ DataStep(t) PROVE CallsFit'
    BY <2>1, <2>2, <1>1
  <2> QED
    BY <2>2, <1>13, <1>14, <1>15 DEF FixedSwarmNext

--------------------------------------------------------------------------------
\* lock_.thread tells the threads of one process apart.
LEMMA OneLocker ==
  ASSUME LockInv, NEW t \in Threads, NEW u \in Threads, Host[t] = Host[u],
         Owns(t) \/ Attempting(t), Owns(u) \/ Attempting(u)
  PROVE  t = u
  BY DEF LockInv, OwnLock, OwnLockOf

\* A peer whose lock_ is free or read-locked has no thread that wants or has the write lock.
LEMMA Unlocked ==
  ASSUME LockInv, NEW t \in Threads, state[Host[t]] \in {"UNLOCKED", "READ_LOCKED"}
  PROVE  ~Owns(t) /\ ~Attempting(t)
  BY DEF LockInv, OwnLock, OwnLockOf, IsWriter

\* A peer asks others of the swarm only.
LEMMA ServedFromElsewhere ==
  ASSUME LockInv, NEW q \in Peers, NEW t \in Threads, serving[q] = t
  PROVE  /\ call[t].to = q /\ q \in Others(t)
         /\ call[t].kind = "lock" <=> pc[t] \in {"lockFirst", "lockRest"}
         /\ call[t].kind = "unlock" <=> pc[t] = "unlocking"
         /\ member[q] = "active" /\ peers[q] = Founders \ {q}
<1> USE DEF LockInv
<1>1. call[t].to = q /\ call[t] # NoCall
  BY ConstantsAssumption DEF ServesCalls, NoCall
<1> QED
  BY <1>1, ConstantsAssumption DEF CallsFit, CallFits, Others, SwarmIsFixed

\* An attempt stays noted in lock_ until it succeeds, even if a remote writer preempts it.
LEMMA OwnLockStep ==
  ASSUME LockInv, [FixedSwarmNext]_vars
  PROVE  OwnLock'
<1> USE DEF LockInv, TypeOK
<1> DEFINE lockUnchanged == UNCHANGED <<state, preempted, holder, thread>>
<1>1. ASSUME NEW u \in Threads,
             pc'[u] = pc[u], state'[Host[u]] = state[Host[u]],
             preempted'[Host[u]] = preempted[Host[u]], holder'[Host[u]] = holder[Host[u]],
             thread'[Host[u]] = thread[Host[u]]
      PROVE  OwnLockOf(u)'
  BY <1>1 DEF OwnLock, OwnLockOf, Owns, Attempting, WriteHeld, IsWriter
<1>2. ASSUME NEW t \in Threads, LockStep(t) \/ DataStep(t),
             \A u \in Threads : Host[u] = Host[t] => OwnLockOf(u)'
      PROVE  OwnLock'
  <2>1. ASSUME NEW u \in Threads, Host[u] # Host[t] PROVE OwnLockOf(u)'
    <3>1. u \in Threads \ {t} /\ Host[u] \in Peers \ {Host[t]}
      BY <2>1, ConstantsAssumption
    <3> QED
      BY <1>2, <3>1, <1>1, ThreadFrame
  <2> QED
    BY <1>2, <2>1 DEF OwnLock
<1>3. ASSUME NEW t \in Threads, ReadLock(t), NEW u \in Threads, Host[u] = Host[t]
      PROVE  OwnLockOf(u)'
  <2>1. CASE lockUnchanged /\ pc' = pc
    BY <1>1, <2>1
  <2>2. CASE /\ state[Host[t]] \in {"UNLOCKED", "READ_LOCKED"}
             /\ pc' = [pc EXCEPT ![t] = "reading"]
    BY <1>3, <2>2, Unlocked DEF ThreadTypes, OwnLockOf, Owns, Attempting, WriteHeld
  <2> QED
    BY <1>3, <2>1, <2>2 DEF ReadLock, Goto
<1>4. ASSUME NEW t \in Threads, Attempt(t), NEW u \in Threads, Host[u] = Host[t]
      PROVE  OwnLockOf(u)'
  <2>1. CASE lockUnchanged /\ pc' = pc
    BY <1>1, <2>1
  <2>2. CASE /\ \/ state[Host[t]] = "UNLOCKED"
                \/ state[Host[t]] = "ATTEMPTING" /\ thread[Host[t]] = t
             /\ state' = [state EXCEPT ![Host[t]] = "ATTEMPTING"]
             /\ thread' = [thread EXCEPT ![Host[t]] = t]
             /\ pc' = [pc EXCEPT ![t] = "attempting"]
    <3>1. u # t => ~Owns(u) /\ ~Attempting(u)
      BY <1>4, <2>2, Unlocked DEF OwnLock, OwnLockOf, IsWriter
    <3> QED
      BY <1>4, <2>2, <3>1, ConstantsAssumption
         DEF LockTypes, ThreadTypes, OwnLockOf, Owns, Attempting, WriteHeld
  <2> QED
    BY <1>4, <2>1, <2>2 DEF Attempt, Goto
<1>5. ASSUME NEW t \in Threads, Acquire(t), NEW u \in Threads, Host[u] = Host[t]
      PROVE  OwnLockOf(u)'
  <2>1. Attempting(t)
    BY <1>5 DEF Acquire, Attempting
  <2>2. u # t => ~Owns(u) /\ ~Attempting(u)
    BY <1>5, <2>1, OneLocker
  <2>3. /\ pc' = [pc EXCEPT ![t] = "writing"]
        /\ state' = [state EXCEPT ![Host[t]] = "WRITE_LOCKED"]
        /\ holder' = [holder EXCEPT ![Host[t]] = Host[t]]
        /\ thread' = [thread EXCEPT ![Host[t]] = t]
    BY <1>5 DEF Acquire, Goto
  <2> QED
    BY <1>5, <2>2, <2>3, ConstantsAssumption
       DEF LockTypes, ThreadTypes, OwnLockOf, Owns, Attempting, WriteHeld, IsWriter
<1>6. ASSUME NEW t \in Threads, UnlockRead(t), NEW u \in Threads, Host[u] = Host[t]
      PROVE  OwnLockOf(u)'
  BY <1>6, Unlocked DEF UnlockRead, Goto, Base, ThreadTypes, OwnLockOf, Owns, Attempting, WriteHeld
<1>7. ASSUME NEW t \in Threads, UnlockWrite(t) \/ UnlockReply(t),
             NEW u \in Threads, Host[u] = Host[t]
      PROVE  OwnLockOf(u)'
  <2>1. Owns(t)
    BY <1>7 DEF UnlockWrite, MayUnlockWrite, UnlockReply, Owns, WriteHeld
  <2>2. u # t => ~Owns(u) /\ ~Attempting(u)
    BY <1>7, <2>1, OneLocker
  <2>3. \/ pc' \in {[pc EXCEPT ![t] = Base(t)]}
        \/ pc'[t] = "unlocking" /\ (\A v \in Threads \ {t} : pc'[v] = pc[v]) /\ state' = state
    BY <1>7 DEF UnlockWrite, UnlockReply, Goto, ThreadTypes
  <2>4. UNCHANGED <<preempted, holder, thread>>
    BY <1>7 DEF UnlockWrite, UnlockReply
  <2> QED
    BY <2>1, <2>2, <2>3, <2>4
       DEF Base, ThreadTypes, OwnLock, OwnLockOf, Owns, Attempting, WriteHeld, IsWriter
<1>8. ASSUME NEW t \in Threads, AskFirst(t) \/ LockReply(t), NEW u \in Threads
      PROVE  OwnLockOf(u)'
  BY <1>8 DEF AskFirst, LockReply, Goto, lockVars, ThreadTypes,
     OwnLock, OwnLockOf, Owns, Attempting, WriteHeld, IsWriter
<1>9. ASSUME NEW t \in Threads, Relock(t) \/ UnlockNested(t), NEW u \in Threads
      PROVE  OwnLockOf(u)'
  BY <1>9, <1>1 DEF Relock, UnlockNested, threadVars
<1>10. ASSUME NEW t \in Threads, DataStep(t), NEW u \in Threads
       PROVE  OwnLockOf(u)'
  <2>1. UNCHANGED lockVars
    BY <1>10, DataFrame
  <2>2. (Owns(u) <=> Owns(u)') /\ (Attempting(u) <=> Attempting(u)')
    BY <1>10, DataFrame DEF WriteHeld, Attempting, Owns
  <2> QED
    BY <2>1, <2>2 DEF lockVars, OwnLock, OwnLockOf, IsWriter
<1>11. ASSUME NEW q \in Peers, NEW t \in Threads, HandleLockRequest(q, t), NEW u \in Threads
       PROVE  OwnLockOf(u)'
  <2>1. pc' = pc /\ thread' = thread
    BY <1>11 DEF HandleLockRequest
  <2>2. CASE Host[u] # q \/ UNCHANGED <<state, preempted, holder>>
    <3>1. Host[u] \in Peers /\ Handle(q, t)
      BY <1>11, ConstantsAssumption DEF Handle
    <3>2. /\ state'[Host[u]] = state[Host[u]] /\ preempted'[Host[u]] = preempted[Host[u]]
          /\ holder'[Host[u]] = holder[Host[u]]
      BY <2>2, <3>1, ServerFrame
    <3> QED
      BY <2>1, <3>2, <1>1
  <2>3. CASE /\ Host[u] = q
             /\ \/ state[q] = "UNLOCKED"
                \/ /\ state[q] = "ATTEMPTING" /\ \E r \in peers[q] : ~(q < r)
                   /\ preempted' = [preempted EXCEPT ![q] = "ATTEMPTING"]
             /\ state' = [state EXCEPT ![q] = "WRITE_LOCKED"]
             /\ holder' = [holder EXCEPT ![q] = Host[t]]
    <3>1. ~Owns(u)
      BY <2>3 DEF OwnLock, OwnLockOf, IsWriter
    <3>2. ASSUME Attempting(u)
          PROVE  /\ thread[q] = u /\ preempted'[q] = "ATTEMPTING"
                 /\ \E r \in Founders \ {q} : ~(q < r)
      <4>1. thread[q] = u /\ state[q] # "UNLOCKED"
        BY <2>3, <3>2 DEF OwnLock, OwnLockOf
      <4> QED
        BY <1>11, <2>3, <4>1, ServedFromElsewhere DEF HandleLockRequest, Lowest, Handles, LockTypes
    <3>3. Host[t] # q
      BY <1>11, ServedFromElsewhere DEF HandleLockRequest, Handles, Others
    <3>4. \A r \in Founders \ {q} : ~(q < r) => r < q
      BY ConstantsAssumption
    <3> QED
      BY <2>1, <2>3, <3>1, <3>2, <3>3, <3>4
         DEF LockTypes, OwnLockOf, Owns, Attempting, WriteHeld, IsWriter
  <2> QED
    BY <1>11, <2>2, <2>3 DEF HandleLockRequest, Lowest
<1>12. ASSUME NEW q \in Peers, NEW t \in Threads, HandleUnlockRequest(q, t), NEW u \in Threads
       PROVE  OwnLockOf(u)'
  <2>1. /\ pc' = pc /\ UNCHANGED <<preempted, holder, thread>>
        /\ IsWriter(q, Host[t]) /\ state' = [state EXCEPT ![q] = preempted[q]]
    BY <1>12 DEF HandleUnlockRequest
  <2>2. CASE Host[u] # q
    BY <1>12, <2>1, <2>2, <1>1, ServerFrame, ConstantsAssumption DEF Handle
  <2>3. CASE Host[u] = q
    <3>1. Host[t] # q
      BY <1>12, ServedFromElsewhere DEF HandleUnlockRequest, Handles, Others
    <3>2. ~Owns(u)
      BY <2>1, <2>3, <3>1 DEF OwnLock, OwnLockOf, IsWriter
    <3> QED
      BY <2>1, <2>3, <3>2 DEF LockTypes, OwnLock, OwnLockOf, Owns, Attempting, WriteHeld, IsWriter
  <2> QED
    BY <2>2, <2>3
<1>13. ASSUME NEW q \in Peers, NEW t \in Threads, NEW u \in Threads,
              \/ Receive(q, t) \/ HandleCommitEnd(q, t)
              \/ HandleInsertRequest(q, t) \/ HandleUpdateRequest(q, t)
       PROVE  OwnLockOf(u)'
  BY <1>13, <1>1 DEF Receive, HandleCommitEnd, HandleInsertRequest,
     HandleUpdateRequest, lockVars, threadVars
<1>14. CASE UNCHANGED vars
  BY <1>14, <1>1 DEF vars, lockVars, threadVars, OwnLock
<1>15. ASSUME NEW t \in Threads, LockStep(t) \/ DataStep(t) PROVE OwnLock'
  <2>1. ASSUME NEW u \in Threads, Host[u] = Host[t] PROVE OwnLockOf(u)'
    BY <1>15, <2>1, <1>3, <1>4, <1>5, <1>6, <1>7, <1>8, <1>9, <1>10 DEF LockStep
  <2> QED
    BY <1>15, <2>1, <1>2
<1>16. ASSUME NEW q \in Peers, NEW t \in Threads, Receive(q, t) \/ Handle(q, t) PROVE OwnLock'
  BY <1>16, <1>11, <1>12, <1>13 DEF Handle, OwnLock
<1> QED
  BY <1>14, <1>15, <1>16 DEF FixedSwarmNext

\* A client thread never touches lock_ of its peer while a remote peer holds it.
LEMMA RemoteHoldStands ==
  ASSUME LockInv, NEW t \in Threads, LockStep(t) \/ DataStep(t)
  PROVE  LET p == Host[t] IN
         /\ state[p] = "WRITE_LOCKED" /\ holder[p] # p =>
              state'[p] = state[p] /\ holder'[p] = holder[p]
         /\ state'[p] = "WRITE_LOCKED" /\ holder'[p] # p =>
              state[p] = "WRITE_LOCKED" /\ holder[p] # p
<1> USE DEF LockInv, TypeOK, LockTypes
<1>1. CASE UNCHANGED <<state, holder>>
  BY <1>1
<1>2. CASE ReadLock(t) \/ Attempt(t)
  BY <1>2, ConstantsAssumption DEF ReadLock, Attempt
<1>3. CASE Acquire(t)
  BY <1>3, ConstantsAssumption DEF Acquire
<1>4. CASE UnlockRead(t)
  BY <1>4, ConstantsAssumption DEF UnlockRead
<1>5. CASE UnlockWrite(t) \/ UnlockReply(t)
  <2>1. Owns(t)
    BY <1>5 DEF UnlockWrite, MayUnlockWrite, UnlockReply, Owns, WriteHeld
  <2>2. holder[Host[t]] = Host[t] /\ holder' = holder
    BY <1>5, <2>1 DEF UnlockWrite, UnlockReply, OwnLock, OwnLockOf, IsWriter
  <2> QED
    BY <2>2
<1> QED
  BY <1>1, <1>2, <1>3, <1>4, <1>5 DEF LockStep, AskFirst, LockReply, Relock, UnlockNested, DataStep,
     StartCall, Insert, BulkInsertLocked, UpdateLocked, BroadcastReply, RunTrigger, TriggerDone, lockVars

\* What a peer has granted it grants to nobody else until it is unlocked.
LEMMA ClaimsHeldStep ==
  ASSUME LockInv, [FixedSwarmNext]_vars
  PROVE  ClaimsHeld'
<1> USE DEF LockInv, TypeOK
<1>1. ASSUME NEW t \in Threads, LockStep(t) \/ DataStep(t),
             \A q \in Founders : Claims(t, q)' => Claims(t, q)
      PROVE  ClaimsHeld'
  <2>1. ASSUME NEW u \in Threads, NEW q \in Founders, Claims(u, q)' PROVE IsWriter(q, Host[u])'
    <3>1. Claims(u, q)
      BY <1>1, <2>1, ThreadFrame DEF Claims, WriteHeld, Others
    <3>2. IsWriter(q, Host[u]) /\ q # Host[u] /\ q \in Peers
      BY <3>1, ConstantsAssumption DEF ClaimsHeld, Claims, Others
    <3>3. CASE q = Host[t]
      BY <1>1, <3>2, <3>3, RemoteHoldStands DEF IsWriter
    <3>4. CASE q # Host[t]
      BY <1>1, <3>2, <3>4, ThreadFrame DEF IsWriter
    <3> QED
      BY <3>3, <3>4
  <2> QED
    BY <2>1 DEF ClaimsHeld
<1>2. ASSUME NEW t \in Threads, AskFirst(t), NEW q \in Founders, Claims(t, q)' PROVE Claims(t, q)
  <2>1. peers[Host[t]] = Others(t) /\ Others(t) \subseteq Int /\ q \in Others(t)
    BY <1>2, ConstantsAssumption DEF AskFirst, CallsFit, CallFits, SwarmIsFixed, Others, Claims
  <2>2. PICK r \in Others(t) : /\ \A s \in Others(t) : r <= s
                               /\ pc'[t] = "lockFirst"
                               /\ call'[t] = [kind |-> "lock", to |-> r, reply |-> "none"]
    BY <1>2, <2>1 DEF AskFirst, Goto, Send, IsFirst, ThreadTypes, CallTypes
  <2>3. q < r
    BY <1>2, <2>2 DEF Claims, WriteHeld
  <2> QED
    BY <2>1, <2>2, <2>3
<1>3. ASSUME NEW t \in Threads, LockReply(t), NEW q \in Founders, Claims(t, q)' PROVE Claims(t, q)
  <2>1. /\ peers[Host[t]] = Others(t) /\ Others(t) \subseteq Int
        /\ q \in Others(t) /\ call[t].to \in Others(t)
        /\ pc[t] \in {"lockFirst", "lockRest"}
    BY <1>3, ConstantsAssumption DEF LockReply, CallsFit, CallFits, SwarmIsFixed, Others, Claims
  <2>2. CASE pc'[t] = "writeLock"
    BY <1>3, <2>2 DEF Claims, WriteHeld
  <2>3. CASE pc'[t] = "accepted" /\ AtEnd(Host[t], call[t].to) /\ call[t].reply = "ack"
    BY <2>1, <2>3 DEF Claims, AtEnd
  <2>4. CASE /\ pc' = pc
             /\ call'[t] = [kind |-> "lock", to |-> call[t].to, reply |-> "none"]
    BY <1>3, <2>1, <2>4 DEF Claims, WriteHeld
  <2>5. CASE /\ pc'[t] = "lockRest" /\ call[t].reply = "ack"
             /\ \E r \in Others(t) :
                  /\ IsNext(Host[t], call[t].to, r)
                  /\ call'[t] = [kind |-> "lock", to |-> r, reply |-> "none"]
    BY <1>3, <2>1, <2>5 DEF Claims, WriteHeld, IsNext
  <2> QED
    BY <1>3, <2>1, <2>2, <2>3, <2>4, <2>5 DEF LockReply, Goto, Send, ThreadTypes, CallTypes
<1>4. ASSUME NEW t \in Threads, UnlockWrite(t) \/ UnlockReply(t),
             NEW q \in Founders, Claims(t, q)'
      PROVE  Claims(t, q)
  BY <1>4 DEF UnlockWrite, MayUnlockWrite, UnlockReply, Goto, Base, Send, ThreadTypes, CallTypes,
     Claims, WriteHeld, Others, callVars
<1>5. ASSUME NEW t \in Threads, DataStep(t), NEW q \in Founders, Claims(t, q)' PROVE Claims(t, q)
  BY <1>5, DataFrame DEF Claims, WriteHeld, Others
<1>6. ASSUME NEW t \in Threads,
             ReadLock(t) \/ Attempt(t) \/ Acquire(t) \/ Relock(t) \/ UnlockRead(t) \/ UnlockNested(t),
             NEW q \in Founders, Claims(t, q)'
      PROVE  Claims(t, q)
  BY <1>6 DEF ReadLock, Attempt, Acquire, Relock, UnlockRead, UnlockNested, Goto, Base, ThreadTypes,
     Claims, WriteHeld, Others, threadVars, callVars
<1>7. ASSUME NEW t \in Threads, LockStep(t) \/ DataStep(t) PROVE ClaimsHeld'
  BY <1>7, <1>1, <1>2, <1>3, <1>4, <1>5, <1>6 DEF LockStep
<1>8. ASSUME NEW q \in Peers, NEW t \in Threads, HandleLockRequest(q, t) PROVE ClaimsHeld'
  <2>1. q \in Others(t) /\ call[t].to = q /\ pc[t] \in {"lockFirst", "lockRest"}
    BY <1>8, ServedFromElsewhere DEF HandleLockRequest, Handles
  <2>2. CASE UNCHANGED <<state, holder>> /\ (call' = call \/ call'[t].reply = "decline")
    BY <1>8, <2>1, <2>2, ServerFrame DEF Handle, ClaimsHeld, Claims, WriteHeld, IsWriter, Others
  <2>3. CASE /\ state[q] # "WRITE_LOCKED"
             /\ state' = [state EXCEPT ![q] = "WRITE_LOCKED"]
             /\ holder' = [holder EXCEPT ![q] = Host[t]]
    <3>1. ASSUME NEW u \in Threads, NEW r \in Founders, Claims(u, r)' PROVE IsWriter(r, Host[u])'
      <4>1. r # q => Claims(u, r)
        BY <1>8, <2>1, <3>1, ServerFrame DEF Handle, Claims, WriteHeld, Others
      <4>2. r = q => u = t
        BY <1>8, <2>3, <3>1, ServerFrame DEF Handle, ClaimsHeld, Claims, WriteHeld, IsWriter, Others
      <4> QED
        BY <2>3, <4>1, <4>2, ConstantsAssumption DEF ClaimsHeld, IsWriter, LockTypes
    <3> QED
      BY <3>1 DEF ClaimsHeld
  <2> QED
    BY <1>8, <2>2, <2>3 DEF HandleLockRequest, Reply, CallTypes
<1>9. ASSUME NEW q \in Peers, NEW t \in Threads, HandleUnlockRequest(q, t) PROVE ClaimsHeld'
  <2>1. /\ q \in Others(t) /\ call[t].to = q /\ pc[t] = "unlocking"
        /\ call[t].reply = "none" /\ call'[t].reply = "commitEnd" /\ IsWriter(q, Host[t])
        /\ call[t].to \notin rest[t]
    BY <1>9, ServedFromElsewhere
       DEF HandleUnlockRequest, Handles, CallsFit, CallFits, CallTypes
  <2>2. ASSUME NEW u \in Threads, NEW r \in Founders, Claims(u, r)' PROVE IsWriter(r, Host[u])'
    <3>1. Claims(u, r)
      BY <1>9, <2>1, <2>2, ServerFrame DEF Handle, Claims, WriteHeld, Others
    <3>2. r = q => u = t
      <4>1. r = q => Host[u] = Host[t]
        BY <2>1, <3>1 DEF ClaimsHeld, IsWriter
      <4> QED
        BY <2>1, <3>1, <4>1, OneLocker DEF Claims, Owns, Attempting
    <3>3. r # q
      BY <1>9, <2>1, <2>2, <3>2, ServerFrame DEF Handle, Claims, WriteHeld
    <3> QED
      BY <1>9, <3>1, <3>3, ServerFrame, ConstantsAssumption DEF Handle, ClaimsHeld, IsWriter
  <2> QED
    BY <2>2 DEF ClaimsHeld
<1>10. ASSUME NEW q \in Peers, NEW t \in Threads,
              \/ Receive(q, t) \/ HandleCommitEnd(q, t)
              \/ HandleInsertRequest(q, t) \/ HandleUpdateRequest(q, t)
       PROVE  ClaimsHeld'
  <2>1. UNCHANGED lockVars
    BY <1>10 DEF Receive, HandleCommitEnd, HandleInsertRequest, HandleUpdateRequest
  <2>2. ASSUME NEW r \in Founders, Claims(t, r)' PROVE Claims(t, r)
    <3>1. CASE Receive(q, t)
      BY <2>2, <3>1 DEF Receive, threadVars, callVars, Claims, WriteHeld, Others
    <3>2. CASE \/ HandleCommitEnd(q, t)
               \/ HandleInsertRequest(q, t) \/ HandleUpdateRequest(q, t)
      <4>1. pc[t] \notin {"lockFirst", "lockRest"} /\ pc' = pc
        BY <3>2, ServedFromElsewhere DEF HandleCommitEnd, HandleInsertRequest,
           HandleUpdateRequest, Handles, CallsFit, CallFits
      <4> QED
        BY <1>10, <2>2, <4>1, <3>2, ServerFrame DEF Handle, HandleCommitEnd,
           HandleInsertRequest, HandleUpdateRequest, Reply, CallTypes, Claims, WriteHeld, Others
    <3> QED
      BY <1>10, <3>1, <3>2
  <2> QED
    BY <1>10, <2>1, <2>2, ServerFrame
       DEF Handle, lockVars, ClaimsHeld, Claims, WriteHeld, IsWriter, Others
<1>11. CASE UNCHANGED vars
  BY <1>11 DEF vars, lockVars, threadVars, callVars, ClaimsHeld, Claims, WriteHeld, IsWriter, Others
<1> QED
  BY <1>7, <1>8, <1>9, <1>10, <1>11 DEF FixedSwarmNext, Handle

\* A peer is never left write-locked by a remote peer that has forgotten it.
LEMMA HeldIsClaimedStep ==
  ASSUME LockInv, [FixedSwarmNext]_vars
  PROVE  HeldIsClaimed'
<1> USE DEF LockInv, TypeOK
<1>1. ASSUME NEW t \in Threads, LockStep(t) \/ DataStep(t),
             \A q \in Founders : Claims(t, q) => Claims(t, q)'
      PROVE  HeldIsClaimed'
  <2>1. ASSUME NEW q \in Founders, state'[q] = "WRITE_LOCKED", holder'[q] # q
        PROVE  \E u \in Threads : Host[u] = holder'[q] /\ Claims(u, q)'
    <3>1. /\ state[q] = "WRITE_LOCKED" /\ holder[q] # q
          /\ holder'[q] = holder[q]
      <4>1. CASE q = Host[t]
        BY <1>1, <2>1, <4>1, RemoteHoldStands
      <4>2. CASE q # Host[t]
        BY <1>1, <2>1, <4>2, ThreadFrame, ConstantsAssumption
      <4> QED
        BY <4>1, <4>2
    <3>2. PICK u \in Threads : Host[u] = holder[q] /\ Claims(u, q)
      BY <3>1 DEF HeldIsClaimed
    <3>3. Claims(u, q)'
      BY <1>1, <3>2, ThreadFrame DEF Claims, WriteHeld, Others
    <3> QED
      BY <3>1, <3>2, <3>3
  <2> QED
    BY <2>1 DEF HeldIsClaimed
<1>2. ASSUME NEW t \in Threads, LockReply(t), NEW q \in Founders, Claims(t, q) PROVE Claims(t, q)'
  <2>1. /\ peers[Host[t]] = Others(t) /\ Others(t) \subseteq Int
        /\ q \in Others(t) /\ call[t].to \in Others(t)
        /\ pc[t] \in {"lockFirst", "lockRest"}
        /\ pc[t] = "lockFirst" => call[t].to <= q
        /\ q < call[t].to \/ (q = call[t].to /\ call[t].reply = "ack")
    BY <1>2, ConstantsAssumption DEF LockReply, CallsFit, CallFits, SwarmIsFixed, Others, Claims, WriteHeld
  <2>2. CASE call[t].reply = "decline" /\ pc[t] = "lockFirst"
    BY <2>1, <2>2
  <2>3. CASE pc'[t] = "accepted"
    BY <2>1, <2>3 DEF Claims
  <2>4. CASE /\ call[t].reply = "decline" /\ pc' = pc
             /\ call'[t] = [kind |-> "lock", to |-> call[t].to, reply |-> "none"]
    BY <2>1, <2>4 DEF Claims, WriteHeld
  <2>5. CASE /\ pc'[t] = "lockRest"
             /\ \E r \in Others(t) :
                  /\ IsNext(Host[t], call[t].to, r)
                  /\ call'[t] = [kind |-> "lock", to |-> r, reply |-> "none"]
    BY <2>1, <2>5 DEF Claims, WriteHeld, IsNext
  <2> QED
    BY <1>2, <2>1, <2>2, <2>3, <2>4, <2>5 DEF LockReply, Goto, Send, ThreadTypes, CallTypes
<1>3. ASSUME NEW t \in Threads, UnlockWrite(t), NEW q \in Founders, Claims(t, q) PROVE Claims(t, q)'
  <2>1. Host[t] \in Founders /\ q \in Others(t)
    BY <1>3 DEF UnlockWrite, MayUnlockWrite, CallsFit, CallFits, Claims
  <2>2. peers[Host[t]] = Others(t)
    BY <2>1, ConstantsAssumption DEF SwarmIsFixed, Others
  <2> QED
    BY <1>3, <2>1, <2>2 DEF UnlockWrite, Goto, Send, ThreadTypes, CallTypes, Claims
<1>4. ASSUME NEW t \in Threads, UnlockReply(t), NEW q \in Founders, Claims(t, q) PROVE Claims(t, q)'
  BY <1>4 DEF UnlockReply, Goto, Send, ThreadTypes, CallTypes, Claims, WriteHeld
<1>5. ASSUME NEW t \in Threads, DataStep(t), NEW q \in Founders, Claims(t, q) PROVE Claims(t, q)'
  BY <1>5, DataFrame DEF Claims, WriteHeld, Others
<1>6. ASSUME NEW t \in Threads,
             \/ ReadLock(t) \/ Attempt(t) \/ AskFirst(t) \/ Acquire(t) \/ Relock(t)
             \/ UnlockRead(t) \/ UnlockNested(t),
             NEW q \in Founders, Claims(t, q)
      PROVE  Claims(t, q)'
  BY <1>6 DEF ReadLock, Attempt, AskFirst, Acquire, Relock, UnlockRead, UnlockNested, Goto, Base,
     MayUnlockWrite, ThreadTypes, Claims, WriteHeld, Others, threadVars, callVars
<1>7. ASSUME NEW t \in Threads, LockStep(t) \/ DataStep(t) PROVE HeldIsClaimed'
  BY <1>7, <1>1, <1>2, <1>3, <1>4, <1>5, <1>6 DEF LockStep
<1>8. ASSUME NEW q \in Peers, NEW t \in Threads, Receive(q, t) \/ Handle(q, t),
             NEW r \in Founders, \/ r # q \/ ~HandleUnlockRequest(q, t),
             NEW u \in Threads, Claims(u, r)
      PROVE  Claims(u, r)'
  <2>1. CASE u # t \/ pc[t] \notin {"lockFirst", "lockRest", "unlocking"}
    BY <1>8, <2>1, ServerFrame DEF Claims, WriteHeld, Others
  <2>2. CASE Receive(q, t)
    BY <1>8, <2>2 DEF Receive, threadVars, callVars, Claims, WriteHeld, Others
  <2>3. CASE u = t /\ Handle(q, t) /\ pc[t] \in {"lockFirst", "lockRest"}
    <3>1. serving[q] = t
      BY <2>3 DEF Handle, HandleLockRequest, HandleUnlockRequest, HandleCommitEnd,
         HandleInsertRequest, HandleUpdateRequest, Handles
    <3>2. call[t].reply # "ack"
      BY <3>1 DEF ServesCalls
    <3> QED
      BY <1>8, <2>3, <3>2, ServerFrame DEF Claims, WriteHeld, Others
  <2>4. CASE u = t /\ Handle(q, t) /\ pc[t] = "unlocking"
    <3>1. serving[q] = t
      BY <2>4 DEF Handle, HandleLockRequest, HandleUnlockRequest, HandleCommitEnd,
         HandleInsertRequest, HandleUpdateRequest, Handles
    <3>2. call[t].kind = "unlock" /\ call[t].to = q /\ member[q] = "active"
      BY <2>4, <3>1, ServedFromElsewhere
    <3>3. r # q \/ HandleCommitEnd(q, t)
      BY <1>8, <2>4, <3>2 DEF Handle, HandleLockRequest,
         HandleInsertRequest, HandleUpdateRequest, Handles
    <3>4. call[t].to = r /\ call[t].reply = "none" => FALSE
      BY <3>2, <3>3 DEF HandleCommitEnd
    <3> QED
      BY <1>8, <2>4, <3>4, ServerFrame DEF Claims, WriteHeld, Others
  <2> QED
    BY <1>8, <2>1, <2>2, <2>3, <2>4
<1>9. ASSUME NEW q \in Peers, NEW t \in Threads, Receive(q, t) \/ Handle(q, t)
      PROVE  HeldIsClaimed'
  <2>1. ASSUME NEW r \in Founders, state'[r] = "WRITE_LOCKED", holder'[r] # r,
               state[r] = "WRITE_LOCKED", holder'[r] = holder[r], ~HandleUnlockRequest(q, t) \/ r # q
        PROVE  \E u \in Threads : Host[u] = holder'[r] /\ Claims(u, r)'
    <3>1. PICK u \in Threads : Host[u] = holder[r] /\ Claims(u, r)
      BY <2>1 DEF HeldIsClaimed
    <3> QED
      BY <1>9, <2>1, <3>1, <1>8
  <2>2. CASE HandleUnlockRequest(q, t)
    <3>1. state'[q] # "WRITE_LOCKED" \/ q \notin Founders
      BY <2>2 DEF HandleUnlockRequest, LockTypes
    <3>2. \A r \in Founders \ {q} : state'[r] = state[r] /\ holder'[r] = holder[r]
      BY <1>9, ServerFrame, ConstantsAssumption
    <3> QED
      BY <2>1, <3>1, <3>2 DEF HeldIsClaimed
  <2>3. CASE HandleLockRequest(q, t) /\ state[q] # "WRITE_LOCKED" /\ state'[q] = "WRITE_LOCKED"
    <3>1. q \in Others(t) /\ call[t].to = q /\ pc[t] \in {"lockFirst", "lockRest"}
      BY <2>3, ServedFromElsewhere DEF HandleLockRequest, Handles
    <3>2. call'[t].reply = "ack" /\ holder'[q] = Host[t]
      BY <2>3, <3>1, ConstantsAssumption DEF HandleLockRequest, Reply, CallTypes, LockTypes
    <3>3. Claims(t, q)'
      BY <1>9, <3>1, <3>2, ServerFrame DEF Claims, Others
    <3>4. \A r \in Founders \ {q} : state'[r] = state[r] /\ holder'[r] = holder[r]
      BY <1>9, ServerFrame, ConstantsAssumption
    <3>5. ~HandleUnlockRequest(q, t)
      BY <2>3 DEF HandleLockRequest, HandleUnlockRequest, Handles
    <3> QED
      BY <2>1, <3>2, <3>3, <3>4, <3>5 DEF HeldIsClaimed
  <2>4. CASE UNCHANGED <<state, holder>> /\ ~HandleUnlockRequest(q, t)
    BY <2>1, <2>4 DEF HeldIsClaimed
  <2> QED
    BY <1>9, <2>2, <2>3, <2>4 DEF Receive, Handle, HandleLockRequest, HandleCommitEnd,
       HandleInsertRequest, HandleUpdateRequest, LockTypes, lockVars
<1>10. CASE UNCHANGED vars
  BY <1>10 DEF vars, lockVars, threadVars, callVars, HeldIsClaimed, Claims, WriteHeld, Others
<1> QED
  BY <1>7, <1>9, <1>10 DEF FixedSwarmNext

\* n_readers counts the readers of the peer.
LEMMA ReadersCountedStep ==
  ASSUME LockInv, [FixedSwarmNext]_vars
  PROVE  ReadersCounted'
<1> USE DEF LockInv, TypeOK
<1> DEFINE CountedAt(p) == /\ nReaders[p] = Cardinality(ReadersAt(p))
                           /\ nReaders[p] > 0 <=> state[p] = "READ_LOCKED"
<1>1. ASSUME NEW p \in Peers,
             \A t \in Threads : Host[t] = p => (ReadHeld(t)' <=> ReadHeld(t)),
             nReaders'[p] = nReaders[p],
             state'[p] = "READ_LOCKED" <=> state[p] = "READ_LOCKED"
      PROVE  CountedAt(p)'
  <2>1. ReadersAt(p)' = ReadersAt(p)
    BY <1>1 DEF ReadersAt
  <2> QED
    BY <1>1, <2>1 DEF ReadersCounted
<1>2. ASSUME NEW t \in Threads, ReadLock(t) \/ UnlockRead(t) PROVE CountedAt(Host[t])'
  <2>1. IsFiniteSet(ReadersAt(Host[t]))
    <3>1. ReadersAt(Host[t]) \subseteq Threads
      BY DEF ReadersAt
    <3> QED
      BY <3>1, ConstantsAssumption, FS_Subset
  <2>2. CASE pc' = pc /\ state' = state /\ nReaders' = nReaders
    BY <2>2, <1>1, ConstantsAssumption DEF ReadHeld
  <2>3. CASE /\ pc[t] = "readLock" /\ pc' = [pc EXCEPT ![t] = "reading"]
             /\ state' = [state EXCEPT ![Host[t]] = "READ_LOCKED"]
             /\ nReaders' = [nReaders EXCEPT ![Host[t]] = @ + 1]
    <3>1. ReadersAt(Host[t])' = ReadersAt(Host[t]) \cup {t} /\ t \notin ReadersAt(Host[t])
      BY <2>3 DEF ReadersAt, ReadHeld, ThreadTypes
    <3>2. Cardinality(ReadersAt(Host[t])') = Cardinality(ReadersAt(Host[t])) + 1
      BY <2>1, <3>1, FS_AddElement
    <3>3. nReaders[Host[t]] \in Nat /\ nReaders[Host[t]] = Cardinality(ReadersAt(Host[t]))
      BY ConstantsAssumption DEF LockTypes, ReadersCounted
    <3>4. nReaders'[Host[t]] = nReaders[Host[t]] + 1 /\ state'[Host[t]] = "READ_LOCKED"
      BY <2>3, ConstantsAssumption DEF LockTypes
    <3> QED
      BY <3>2, <3>3, <3>4
  <2>4. CASE /\ pc[t] = "reading" /\ pc' = [pc EXCEPT ![t] = Base(t)]
             /\ state[Host[t]] = "READ_LOCKED"
             /\ nReaders' = [nReaders EXCEPT ![Host[t]] = @ - 1]
             /\ IF nReaders[Host[t]] = 1
                  THEN state' = [state EXCEPT ![Host[t]] = "UNLOCKED"]
                  ELSE state' = state
    <3>1. ReadersAt(Host[t])' = ReadersAt(Host[t]) \ {t} /\ t \in ReadersAt(Host[t])
      BY <2>4 DEF ReadersAt, ReadHeld, ThreadTypes, Base
    <3>2. Cardinality(ReadersAt(Host[t])') = Cardinality(ReadersAt(Host[t])) - 1
      BY <2>1, <3>1, FS_RemoveElement
    <3>3. /\ nReaders[Host[t]] \in Nat /\ nReaders[Host[t]] > 0
          /\ nReaders[Host[t]] = Cardinality(ReadersAt(Host[t]))
      BY <2>4, ConstantsAssumption DEF LockTypes, ReadersCounted
    <3>4. /\ nReaders'[Host[t]] = nReaders[Host[t]] - 1
          /\ state'[Host[t]] = "READ_LOCKED" <=> nReaders[Host[t]] # 1
      BY <2>4, ConstantsAssumption DEF LockTypes
    <3> QED
      BY <3>2, <3>3, <3>4
  <2> QED
    BY <1>2, <2>2, <2>3, <2>4 DEF ReadLock, UnlockRead, Goto
<1>3. ASSUME NEW t \in Threads, NEW p \in Peers,
             \/ Attempt(t) \/ AskFirst(t) \/ LockReply(t) \/ Acquire(t) \/ Relock(t)
             \/ UnlockNested(t) \/ UnlockWrite(t) \/ UnlockReply(t)
      PROVE  CountedAt(p)'
  <2>1. nReaders' = nReaders /\ ~ReadHeld(t) /\ ~ReadHeld(t)'
    BY <1>3 DEF Attempt, AskFirst, LockReply, Acquire, Relock, UnlockNested, UnlockWrite,
       UnlockReply, MayUnlockWrite, Goto, Base, ReadHeld, ThreadTypes, lockVars, threadVars
  <2>2. Owns(t) => state[Host[t]] = "WRITE_LOCKED"
    BY DEF OwnLock, OwnLockOf, IsWriter
  <2>3. CASE state' = state
    BY <1>3, <2>1, <2>3, <1>1, ThreadFrame DEF LockStep, ReadHeld
  <2>4. CASE /\ state[Host[t]] # "READ_LOCKED"
             /\ \E new \in LockStates \ {"READ_LOCKED"} : state' = [state EXCEPT ![Host[t]] = new]
    BY <1>3, <2>1, <2>4, <1>1, ThreadFrame DEF LockStep, ReadHeld, LockTypes
  <2> QED
    BY <1>3, <2>2, <2>3, <2>4 DEF Attempt, AskFirst, LockReply, Acquire, Relock, UnlockNested,
       UnlockWrite, UnlockReply, MayUnlockWrite, Owns, WriteHeld, LockStates, lockVars
<1>4. ASSUME NEW t \in Threads, NEW p \in Peers, DataStep(t) PROVE CountedAt(p)'
  <2>1. UNCHANGED lockVars
    BY <1>4, DataFrame
  <2>2. ReadHeld(t)' <=> ReadHeld(t)
    BY <1>4, DataFrame DEF ReadHeld
  <2> QED
    BY <1>4, <2>1, <2>2, <1>1, ThreadFrame DEF lockVars, ReadHeld
<1>5. ASSUME NEW q \in Peers, NEW t \in Threads, Receive(q, t) \/ Handle(q, t), NEW p \in Peers
      PROVE  CountedAt(p)'
  <2>1. \/ state' = state
        \/ /\ state[q] # "READ_LOCKED"
           /\ \E new \in LockStates \ {"READ_LOCKED"} : state' = [state EXCEPT ![q] = new]
    BY <1>5 DEF Receive, Handle, HandleLockRequest, HandleUnlockRequest,
       HandleCommitEnd, HandleInsertRequest, HandleUpdateRequest, IsWriter, lockVars, LockStates
  <2> QED
    BY <1>5, <2>1, <1>1, ServerFrame DEF ReadHeld, LockTypes
<1>6. CASE UNCHANGED vars
  BY <1>6, <1>1 DEF vars, lockVars, threadVars, ReadersCounted, ReadHeld
<1>7. ASSUME NEW t \in Threads, LockStep(t) \/ DataStep(t), NEW p \in Peers PROVE CountedAt(p)'
  <2>1. CASE (ReadLock(t) \/ UnlockRead(t)) /\ p # Host[t]
    BY <1>7, <2>1, <1>1, ThreadFrame DEF ReadHeld
  <2> QED
    BY <1>7, <2>1, <1>2, <1>3, <1>4 DEF LockStep
<1> QED
  BY <1>5, <1>6, <1>7 DEF FixedSwarmNext, ReadersCounted

\* The recursion depth of a writer is positive until it unlocks.
LEMMA DepthCountedStep ==
  ASSUME LockInv, [FixedSwarmNext]_vars
  PROVE  DepthCounted'
<1> USE DEF LockInv, TypeOK
<1>1. ASSUME NEW u \in Threads, WriteHeld(u)' => WriteHeld(u), depth'[Host[u]] = depth[Host[u]]
      PROVE  WriteHeld(u)' => depth'[Host[u]] > 0
  BY <1>1 DEF DepthCounted
<1>2. ASSUME NEW t \in Threads, NEW u \in Threads, u # t,
             Acquire(t) \/ Relock(t) \/ UnlockNested(t) \/ UnlockWrite(t)
      PROVE  WriteHeld(u)' => depth'[Host[u]] > 0
  <2>1. Owns(t) \/ Attempting(t)
    BY <1>2 DEF Acquire, Relock, UnlockNested, UnlockWrite, MayUnlockWrite, Owns, WriteHeld, Attempting
  <2>2. WriteHeld(u)' <=> WriteHeld(u)
    BY <1>2, ThreadFrame DEF LockStep, WriteHeld
  <2>3. Host[u] = Host[t] => ~WriteHeld(u)
    BY <1>2, <2>1, OneLocker DEF Owns
  <2>4. Host[u] # Host[t] => depth'[Host[u]] = depth[Host[u]]
    <3>1. \E n : depth' = [depth EXCEPT ![Host[t]] = n]
      <4>1. CASE Acquire(t)
        BY <4>1 DEF Acquire
      <4>2. CASE Relock(t)
        BY <4>2 DEF Relock
      <4>3. CASE UnlockNested(t)
        BY <4>3 DEF UnlockNested
      <4>4. CASE UnlockWrite(t)
        BY <4>4 DEF UnlockWrite
      <4> QED
        BY <1>2, <4>1, <4>2, <4>3, <4>4
    <3>2. Host[u] \in Peers /\ depth \in [Peers -> Nat]
      BY ConstantsAssumption DEF LockTypes
    <3> QED
      BY ONLY <3>1, <3>2
  <2> QED
    BY <2>2, <2>3, <2>4, <1>1
<1>3. ASSUME NEW t \in Threads, Acquire(t) \/ Relock(t) \/ UnlockNested(t)
      PROVE  depth'[Host[t]] > 0
  <2>1. Host[t] \in Peers /\ depth[Host[t]] \in Nat
    BY ConstantsAssumption DEF LockTypes
  <2>2. \/ depth' = [depth EXCEPT ![Host[t]] = @ + 1]
        \/ depth' = [depth EXCEPT ![Host[t]] = @ - 1] /\ depth[Host[t]] > 1
    BY <1>3 DEF Acquire, Relock, UnlockNested
  <2>3. \/ depth'[Host[t]] = depth[Host[t]] + 1
        \/ depth'[Host[t]] = depth[Host[t]] - 1 /\ depth[Host[t]] > 1
    BY <2>1, <2>2 DEF LockTypes
  <2> QED
    BY <2>1, <2>3
<1>4. ASSUME NEW t \in Threads, UnlockWrite(t) PROVE ~WriteHeld(t)'
  BY <1>4 DEF UnlockWrite, Goto, Base, ThreadTypes, WriteHeld
<1>5. ASSUME NEW t \in Threads, NEW u \in Threads,
             \/ ReadLock(t) \/ Attempt(t) \/ AskFirst(t) \/ LockReply(t)
             \/ UnlockRead(t) \/ UnlockReply(t)
      PROVE  WriteHeld(u)' => depth'[Host[u]] > 0
  <2>1. WriteHeld(u)' => WriteHeld(u)
    BY <1>5 DEF ReadLock, Attempt, AskFirst, LockReply, UnlockRead, UnlockReply, Goto, Base,
       ThreadTypes, WriteHeld
  <2>2. depth' = depth
    BY <1>5 DEF ReadLock, Attempt, AskFirst, LockReply, UnlockRead, UnlockReply, lockVars
  <2> QED
    BY <2>1, <2>2, <1>1
<1>6. ASSUME NEW t \in Threads, NEW u \in Threads, DataStep(t)
      PROVE  WriteHeld(u)' => depth'[Host[u]] > 0
  <2>1. WriteHeld(u)' => WriteHeld(u)
    BY <1>6, DataFrame DEF WriteHeld
  <2>2. depth' = depth
    BY <1>6, DataFrame DEF lockVars
  <2> QED
    BY <2>1, <2>2, <1>1
<1>7. ASSUME NEW q \in Peers, NEW t \in Threads, Receive(q, t) \/ Handle(q, t)
      PROVE  DepthCounted'
  BY <1>7, ServerFrame DEF Receive, Handle, HandleLockRequest, HandleUnlockRequest,
     HandleCommitEnd, HandleInsertRequest, HandleUpdateRequest, lockVars, DepthCounted, WriteHeld
<1>8. CASE UNCHANGED vars
  BY <1>8 DEF vars, lockVars, threadVars, DepthCounted, WriteHeld
<1>9. ASSUME NEW t \in Threads, NEW u \in Threads, LockStep(t) \/ DataStep(t)
      PROVE  WriteHeld(u)' => depth'[Host[u]] > 0
  BY <1>9, <1>2, <1>3, <1>4, <1>5, <1>6 DEF LockStep
<1> QED
  BY <1>7, <1>8, <1>9 DEF FixedSwarmNext, DepthCounted

--------------------------------------------------------------------------------
\* The inductive invariant holds initially ...
LEMMA LockInvInit ==
  ASSUME Init
  PROVE  LockInv
<1> USE ConstantsAssumption
<1>1. TypeOK
  <2>1. SwarmTypes /\ LockTypes
    BY DEF Init, SwarmTypes, LockTypes, LockStates
  <2>2. TriggerTypes /\ ThreadTypes
    BY DEF Init, TriggerTypes, ThreadTypes, Labels, Ops
  <2>3. CallTypes /\ ArgTypes
    BY DEF Init, CallTypes, ArgTypes, NoCall
  <2> QED
    BY <2>1, <2>2, <2>3 DEF TypeOK
<1>2. SwarmIsFixed /\ CallsFit /\ ServesCalls
  BY DEF Init, SwarmIsFixed, CallsFit, CallFits, ServesCalls, NoCall
<1>3. OwnLock /\ ClaimsHeld /\ HeldIsClaimed
  BY DEF Init, OwnLock, OwnLockOf, Owns, Attempting, WriteHeld, ClaimsHeld, Claims, HeldIsClaimed
<1>4. ReadersCounted
  <2>1. \A p \in Peers : ReadersAt(p) = {}
    BY DEF Init, ReadersAt, ReadHeld
  <2>2. \A p \in Peers : Cardinality(ReadersAt(p)) = 0
    BY <2>1, FS_EmptySet
  <2>3. \A p \in Peers : nReaders[p] = 0 /\ state[p] = "UNLOCKED"
    BY DEF Init
  <2> QED
    BY <2>2, <2>3 DEF ReadersCounted
<1>5. DepthCounted
  BY DEF Init, DepthCounted, WriteHeld
<1> QED
  BY <1>1, <1>2, <1>3, <1>4, <1>5 DEF LockInv

\* ... and every step preserves it.
LEMMA LockInvStep ==
  ASSUME LockInv, [FixedSwarmNext]_vars
  PROVE  LockInv'
<1>1. TypeOK'
  BY SwarmTypesStep, LockTypesStep, TriggerTypesStep, ThreadTypesStep, CallTypesStep, ArgTypesStep
     DEF TypeOK, LockInv
<1>2. SwarmIsFixed' /\ CallsFit' /\ ServesCalls'
  BY SwarmIsFixedStep, CallsFitStep, ServesCallsStep
<1>3. OwnLock' /\ ClaimsHeld' /\ HeldIsClaimed' /\ ReadersCounted' /\ DepthCounted'
  BY OwnLockStep, ClaimsHeldStep, HeldIsClaimedStep, ReadersCountedStep, DepthCountedStep
<1> QED
  BY <1>1, <1>2, <1>3 DEF LockInv

\* Once all peers have accepted, every other peer is write-locked by the peer of the thread.
LEMMA WriterHoldsFounders ==
  ASSUME LockInv, NEW t \in Threads, WriteHeld(t) \/ pc[t] = "accepted"
  PROVE  /\ Host[t] \in Founders
         /\ \A q \in Others(t) : IsWriter(q, Host[t])
<1> USE DEF LockInv
<1>1. Host[t] \in Founders
  BY DEF WriteHeld, CallsFit, CallFits
<1>2. \A q \in Others(t) : Claims(t, q)
  BY DEF Claims
<1> QED
  BY <1>1, <1>2 DEF ClaimsHeld, Others

\* A thread that has the read lock is counted, and its peer is read-locked.
LEMMA ReaderIsCounted ==
  ASSUME LockInv, NEW t \in Threads, ReadHeld(t)
  PROVE  Host[t] \in Founders /\ nReaders[Host[t]] > 0 /\ state[Host[t]] = "READ_LOCKED"
<1> USE DEF LockInv
<1>1. Host[t] \in Founders /\ Host[t] \in Peers
  BY ConstantsAssumption DEF ReadHeld, CallsFit, CallFits
<1>2. t \in ReadersAt(Host[t]) /\ IsFiniteSet(ReadersAt(Host[t]))
  BY ConstantsAssumption, FS_Subset DEF ReadersAt
<1>3. nReaders[Host[t]] # 0
  BY <1>1, <1>2, FS_EmptySet DEF ReadersCounted
<1>4. nReaders[Host[t]] \in Nat
  BY <1>1 DEF TypeOK, LockTypes
<1> QED
  BY <1>1, <1>3, <1>4 DEF ReadersCounted

\* Two writers would both have to hold the peer of the other, and a reader keeps its own peer from being held.
LEMMA ExclusionOfLockInv ==
  ASSUME LockInv
  PROVE  MutualExclusion
<1> USE DEF LockInv
<1> SUFFICES ASSUME NEW t \in Threads, NEW u \in Threads, WriteHeld(t), t # u
             PROVE  ~WriteHeld(u) /\ ~ReadHeld(u)
  BY DEF MutualExclusion
<1>1. \A p \in Founders : IsWriter(p, Host[t])
  BY WriterHoldsFounders DEF OwnLock, OwnLockOf, Owns, Others
<1>2. ASSUME WriteHeld(u) PROVE FALSE
  <2>1. Host[u] \in Founders /\ IsWriter(Host[u], Host[u])
    BY <1>2, WriterHoldsFounders DEF OwnLock, OwnLockOf, Owns
  <2>2. Host[t] = Host[u]
    BY <1>1, <2>1 DEF IsWriter
  <2> QED
    BY <1>2, <2>2, OneLocker DEF Owns
<1>3. ASSUME ReadHeld(u) PROVE FALSE
  <2>1. Host[u] \in Founders /\ state[Host[u]] = "READ_LOCKED"
    BY <1>3, ReaderIsCounted
  <2> QED
    BY <1>1, <2>1 DEF IsWriter
<1> QED
  BY <1>2, <1>3

\* The CHECK at the end of distributedWriteLock: were the attempt still preempted by
\* a thread u of peer h, u would hold this peer and, as every third peer is held by
\* us, no other; so this peer is the lowest but for h, and h the lowest of all.  But the
\* lowest peer declines to preempt an attempt, and we hold h.
LEMMA AttemptStands ==
  ASSUME LockInv, NEW t \in Threads, pc[t] = "accepted"
  PROVE  state[Host[t]] = "ATTEMPTING"
<1> USE DEF LockInv
<1> DEFINE p == Host[t]
           h == holder[p]
<1>1. SUFFICES ASSUME state[p] = "WRITE_LOCKED", h # p, NEW r \in Founders, r < p
               PROVE  FALSE
  BY DEF OwnLock, OwnLockOf, Attempting
<1>2. p \in Founders /\ \A q \in Others(t) : IsWriter(q, p)
  BY WriterHoldsFounders
<1>3. PICK u \in Threads : Host[u] = h /\ Claims(u, p)
  BY <1>1, <1>2 DEF HeldIsClaimed
<1>4. h \in Founders /\ h \in Others(t)
  BY <1>1, <1>2, <1>3 DEF Claims, WriteHeld, CallsFit, CallFits, Others
<1>5. Attempting(u)
  <2>1. IsWriter(h, p)
    BY <1>2, <1>4
  <2>2. ~Owns(u)
    BY <1>1, <1>3, <2>1 DEF OwnLock, OwnLockOf, IsWriter
  <2> QED
    BY <1>3, <2>2 DEF Claims, Owns, Attempting
<1>6. \A q \in Founders \ {p, h} : ~Claims(u, q)
  <2>1. \A q \in Founders \ {p, h} : IsWriter(q, p)
    BY <1>2 DEF Others
  <2> QED
    BY <1>1, <1>3, <2>1 DEF ClaimsHeld, IsWriter
<1>7. \A q \in Founders \ {p, h} : p < q
  <2>1. \A q \in Founders : q \in Int
    BY ConstantsAssumption
  <2> QED
    BY <1>2, <1>3, <1>4, <1>5, <1>6, <2>1 DEF Claims, Attempting, WriteHeld, Others, CallsFit, CallFits
<1>8. p \in Int /\ h < p
  <2>1. p \in Int /\ h \in Int /\ r \in Int
    BY <1>1, <1>2, <1>4, ConstantsAssumption
  <2>2. r = h \/ p < r
    BY <1>1, <1>7, <2>1
  <2> QED
    BY <1>1, <2>1, <2>2
<1>9. PICK s \in Founders : s < h
  <2>1. state[h] = "WRITE_LOCKED"
    BY <1>2, <1>4 DEF IsWriter
  <2> QED
    BY <1>3, <1>5, <2>1 DEF OwnLock, OwnLockOf
<1>10. s \in Int /\ h \in Int
  BY <1>4, <1>9, ConstantsAssumption
<1>11. s = p \/ p < s
  BY <1>7, <1>9, <1>10
<1> QED
  BY <1>8, <1>9, <1>10, <1>11

\* No CHECK of the lock protocol fails.
LEMMA LockChecksOfLockInv ==
  ASSUME LockInv
  PROVE  LockChecks
<1> USE DEF LockInv
<1>1. ASSUME NEW t \in Threads
      PROVE  LET p == Host[t] IN
             /\ pc[t] = "accepted" /\ MetalockFree(p) => state[p] = "ATTEMPTING"
             /\ pc[t] = "writing" => IsWriter(p, p) /\ thread[p] = t /\ depth[p] > 0
             /\ pc[t] = "reading" => state[p] = "READ_LOCKED" /\ nReaders[p] > 0
             /\ pc[t] = "unlocking" => call[t].reply # "decline"
             /\ pc[t] \in {"readLock", "writeLock"} /\ t \notin cv[p] => member[p] # "relinquished"
  <2>1. pc[t] = "accepted" => state[Host[t]] = "ATTEMPTING"
    BY AttemptStands
  <2>2. pc[t] = "writing" =>
          IsWriter(Host[t], Host[t]) /\ thread[Host[t]] = t /\ depth[Host[t]] > 0
    BY DEF OwnLock, OwnLockOf, Owns, WriteHeld, DepthCounted
  <2>3. pc[t] = "reading" => state[Host[t]] = "READ_LOCKED" /\ nReaders[Host[t]] > 0
    BY ReaderIsCounted DEF ReadHeld
  <2>4. pc[t] = "unlocking" => call[t].reply # "decline"
    BY DEF CallsFit, CallFits
  <2>5. member[Host[t]] # "relinquished"
    BY ConstantsAssumption DEF SwarmIsFixed
  <2> QED
    BY <2>1, <2>2, <2>3, <2>4, <2>5
<1>2. ASSUME NEW q \in Peers, NEW t \in Threads, serving[q] = t
      PROVE  /\ Handles(q, t, "unlock") => member[q] = "active" /\ IsWriter(q, Host[t])
             /\ Handles(q, t, "lock") /\ state[q] = "ATTEMPTING" /\ Lowest(q) => q < Host[t]
  <2>1. q \in Others(t) /\ call[t].to = q /\ member[q] = "active" /\ peers[q] = Founders \ {q}
    BY <1>2, ServedFromElsewhere
  <2>2. ASSUME Handles(q, t, "unlock") PROVE IsWriter(q, Host[t])
    <3>1. pc[t] = "unlocking" /\ call[t].reply = "none"
      BY <1>2, <2>2, ServedFromElsewhere DEF Handles
    <3> QED
      BY <2>1, <3>1 DEF Claims, ClaimsHeld, Others
  <2>3. Lowest(q) => q < Host[t]
    BY <2>1, <1>2, ConstantsAssumption DEF Lowest, CallsFit, CallFits, ServesCalls, NoCall, Others
  <2> QED
    BY <2>1, <2>2, <2>3
<1>3. AttemptSurvivesPreemption
  BY DEF AttemptSurvivesPreemption, OwnLock, OwnLockOf, Attempting
<1> QED
  BY <1>1, <1>2, <1>3 DEF LockChecks, Handles

\* A step of the distributed lock is a step of the readers-writer lock or does not concern it.
LEMMA RefinementStep ==
  ASSUME LockInv, MutualExclusion', [FixedSwarmNext]_vars
  PROVE  [RW!Next]_<<{t \in Threads : ReadHeld(t)}, {t \in Threads : WriteHeld(t)}>>
<1> USE DEF LockInv, TypeOK
<1> DEFINE readers == {t \in Threads : ReadHeld(t)}
           writers == {t \in Threads : WriteHeld(t)}
<1>1. ASSUME \A u \in Threads : (ReadHeld(u)' <=> ReadHeld(u)) /\ (WriteHeld(u)' <=> WriteHeld(u))
      PROVE  UNCHANGED <<readers, writers>>
  BY <1>1
<1>2. ASSUME NEW t \in Threads, ReadLock(t), pc' # pc PROVE RW!BeginRead(t)
  <2>1. /\ pc[t] = "readLock" /\ state[Host[t]] \in {"UNLOCKED", "READ_LOCKED"}
        /\ pc' = [pc EXCEPT ![t] = "reading"]
    BY <1>2 DEF ReadLock, Goto
  <2>2. Host[t] \in Founders
    BY <2>1 DEF CallsFit, CallFits
  <2>3. writers = {}
    <3>1. SUFFICES ASSUME NEW u \in Threads, WriteHeld(u) PROVE FALSE
      OBVIOUS
    <3>2. IsWriter(Host[t], Host[u])
      BY <2>2, <3>1, WriterHoldsFounders DEF Others, OwnLock, OwnLockOf, Owns
    <3> QED
      BY <2>1, <3>2 DEF IsWriter
  <2>4. readers' = readers \cup {t} /\ writers' = writers
    BY <2>1 DEF ThreadTypes, ReadHeld, WriteHeld
  <2> QED
    BY <2>3, <2>4 DEF RW!BeginRead
<1>3. ASSUME NEW t \in Threads, UnlockRead(t) PROVE RW!EndRead(t)
  <2>1. readers' = readers \ {t} /\ writers' = writers
    BY <1>3 DEF UnlockRead, Goto, Base, ThreadTypes, ReadHeld, WriteHeld
  <2> QED
    BY <2>1 DEF RW!EndRead
<1>4. ASSUME NEW t \in Threads, Acquire(t) PROVE RW!BeginWrite(t)
  <2>1. pc[t] = "accepted" /\ pc' = [pc EXCEPT ![t] = "writing"]
    BY <1>4 DEF Acquire, Goto
  <2>2. \A u \in Threads \ {t} : ~WriteHeld(u)' /\ ~ReadHeld(u)'
    <3>1. WriteHeld(t)'
      BY <2>1 DEF ThreadTypes, WriteHeld
    <3> QED
      BY <3>1 DEF MutualExclusion
  <2>3. \A u \in Threads : ~WriteHeld(u) /\ ~ReadHeld(u)
    BY <2>1, <2>2 DEF ThreadTypes, WriteHeld, ReadHeld
  <2>4. readers = {} /\ writers = {}
    BY <2>3
  <2>5. writers' = {t} /\ readers' = {}
    BY <2>1, <2>2 DEF ThreadTypes, WriteHeld, ReadHeld
  <2> QED
    BY <2>4, <2>5 DEF RW!BeginWrite
<1>5. ASSUME NEW t \in Threads, UnlockWrite(t) PROVE RW!EndWrite(t)
  <2>1. readers' = readers /\ writers' = writers \ {t}
    BY <1>5 DEF UnlockWrite, MayUnlockWrite, Goto, Base, ThreadTypes, ReadHeld, WriteHeld
  <2> QED
    BY <2>1 DEF RW!EndWrite
<1>6. ASSUME NEW t \in Threads, NEW u \in Threads,
             \/ Attempt(t) \/ AskFirst(t) \/ LockReply(t) \/ Relock(t) \/ UnlockNested(t)
             \/ UnlockReply(t)
      PROVE  (ReadHeld(u)' <=> ReadHeld(u)) /\ (WriteHeld(u)' <=> WriteHeld(u))
  BY <1>6 DEF Attempt, AskFirst, LockReply, Relock, UnlockNested, UnlockReply, Goto, Base, threadVars,
     ThreadTypes, ReadHeld, WriteHeld
<1>7. ASSUME NEW t \in Threads, NEW u \in Threads, DataStep(t)
      PROVE  (ReadHeld(u)' <=> ReadHeld(u)) /\ (WriteHeld(u)' <=> WriteHeld(u))
  BY <1>7, DataFrame DEF ReadHeld, WriteHeld
<1>8. ASSUME pc' = pc PROVE UNCHANGED <<readers, writers>>
  BY <1>8, <1>1 DEF ReadHeld, WriteHeld
<1>9. ASSUME NEW t \in Threads, LockStep(t) \/ DataStep(t)
      PROVE  [RW!Next]_<<readers, writers>>
  BY <1>9, <1>1, <1>2, <1>3, <1>4, <1>5, <1>6, <1>7, <1>8 DEF LockStep, RW!Next
<1>10. ASSUME NEW q \in Peers, NEW t \in Threads, Receive(q, t) \/ Handle(q, t)
       PROVE  UNCHANGED <<readers, writers>>
  BY <1>10, <1>8, ServerFrame
<1>11. CASE UNCHANGED vars
  BY <1>11, <1>8 DEF vars, threadVars
<1> QED
  BY <1>9, <1>10, <1>11 DEF FixedSwarmNext

--------------------------------------------------------------------------------
\* The invariant that explains the lock: each peer that is write-locked from outside is
\* claimed by a thread that is attempting, writing or unlocking.
THEOREM LockInvariant == FixedSwarmSpec => []LockInv
<1>1. Init => LockInv
  BY LockInvInit
<1>2. LockInv /\ [FixedSwarmNext]_vars => LockInv'
  BY LockInvStep
<1> QED
  BY <1>1, <1>2, PTL DEF FixedSwarmSpec

\* All variables of a chunk keep their types, in any swarm that nobody joins or leaves.
THEOREM TypesAlwaysOK == FixedSwarmSpec => []TypeOK
<1>1. LockInv => TypeOK
  BY DEF LockInv
<1> QED
  BY <1>1, LockInvariant, PTL

\* Whatever the number of peers and threads, a writer of the chunk is alone: the grants
\* collected by distributedWriteLock exclude all other writers and readers.
THEOREM WritersExclude == FixedSwarmSpec => []MutualExclusion
<1>1. LockInv => MutualExclusion
  BY ExclusionOfLockInv
<1> QED
  BY <1>1, LockInvariant, PTL

\* A writer has the lock at every other peer of the swarm, so that its unlock requests
\* find what handleUnlockRequest CHECKs.
THEOREM WritersHoldAllPeers == FixedSwarmSpec => []WriterHoldsAllPeers
<1>1. LockInv => WriterHoldsAllPeers
  BY WriterHoldsFounders, ConstantsAssumption DEF WriterHoldsAllPeers, WriteHeld, LockInv, SwarmIsFixed, Others
<1> QED
  BY <1>1, LockInvariant, PTL

\* An attempt that handleLockRequest preempts is back when the remote writer unlocks.
THEOREM AttemptsSurvive == FixedSwarmSpec => []AttemptSurvivesPreemption
<1>1. LockInv => AttemptSurvivesPreemption
  BY DEF AttemptSurvivesPreemption, LockInv, OwnLock, OwnLockOf, Attempting
<1> QED
  BY <1>1, LockInvariant, PTL

\* No CHECK of distributedReadLock, distributedWriteLock, distributedUnlock,
\* handleLockRequest and handleUnlockRequest fails while the swarm is fixed.
THEOREM LockChecksHold == FixedSwarmSpec => []LockChecks
<1>1. LockInv => LockChecks
  BY LockChecksOfLockInv
<1> QED
  BY <1>1, LockInvariant, PTL

\* The distributed lock implements a readers-writer lock of all threads of the swarm.
THEOREM LockRefinesRWLock == FixedSwarmSpec => ImplementsRWLock
<1>1. Init => RW!Init
  BY DEF Init, RW!Init, ReadHeld, WriteHeld
<1>2. LockInv /\ MutualExclusion' /\ [FixedSwarmNext]_vars
        => [RW!Next]_<<{t \in Threads : ReadHeld(t)}, {t \in Threads : WriteHeld(t)}>>
  BY RefinementStep
<1> QED
  BY <1>1, <1>2, LockInvariant, WritersExclude, PTL DEF FixedSwarmSpec, ImplementsRWLock, RW!Spec
================================================================================
