------------------------------ MODULE LegacyChunk ------------------------------
(***************************************************************************)
(* One chunk of one table, replicated on a swarm of peers                  *)
(* (map-api/src/legacy-chunk.cc), guarded by a distributed readers-writer  *)
(* lock.  Every peer of the swarm holds a full replica; a write lock is    *)
(* granted peer by peer with request-reply messages, lowest peer first; a  *)
(* read lock is local and makes the peer's server thread hold lock requests*)
(* back.                                                                   *)
(*                                                                         *)
(* A process has one server thread that executes one handler at a time     *)
(* (Hub::listenThread) and any number of client threads.  A step of this   *)
(* module is the code between two points where a thread can be delayed:    *)
(* it takes a mutex, it sends a request, it receives a reply, it waits.    *)
(* A CHECK of the code is an enabling condition of the step that executes  *)
(* it, and the invariants of the last section state that it never blocks   *)
(* the step.                                                               *)
(***************************************************************************)
EXTENDS Integers, FiniteSets

CONSTANTS Peers,     \* PeerIds, totally ordered
          Founders,  \* the swarm in the initial state
          Threads,   \* the client threads of all processes
          Helpers,   \* those spawned by handleConnectRequest
          Callbacks, \* those spawned by handleCommitEnd to call the triggers
          Host,      \* the process a thread runs in
          Calls,     \* the calls a thread may make
          MaxCalls,  \* bound on the calls of each thread
          Items,     \* ids of revisions
          Stored,    \* those in the chunk initially
          Fresh,     \* the ids generateId gives to each thread, no id to two threads
          NoThread,
          NoPeer

\* "commit" is a transaction, which changes an item at most once per lock;
\* "batch" is a client that calls update() under its own lock at will.
Ops == {"read", "insert", "write", "commit", "batch",
        "invite", "connect", "leave", "join"}

ASSUME ConstantsAssumption ==
  /\ Peers \subseteq Int
  /\ Founders \subseteq Peers
  /\ IsFiniteSet(Threads)
  /\ Helpers \subseteq Threads
  /\ Callbacks \subseteq Threads \ Helpers
  /\ Host \in [Threads -> Peers]
  /\ Calls \in [Threads -> SUBSET Ops]
  /\ MaxCalls \in Nat
  /\ Stored \subseteq Items
  /\ Fresh \in [Threads -> SUBSET (Items \ Stored)]
  /\ \A t, u \in Threads : t # u => Fresh[t] \cap Fresh[u] = {}
  /\ NoThread \notin Threads
  /\ NoPeer \notin Peers

VARIABLES
  \* LegacyChunk, one replica per peer
  member,     \* "absent" (no such chunk), "active", or "relinquished" (relinquished_)
  peers,      \* peers_, the rest of the swarm as this peer knows it
  data,       \* data_container_, the set of revisions <<item, version>>
  \* DistributedRWLock lock_
  state, preempted, nReaders, holder, thread, depth,
  cv,         \* the threads asleep in lock_.cv.wait
  \* ChunkBase: the triggers and what they have yet to be told
  attached, inserted, updated, jobs,
  \* the threads and the requests in flight
  pc, op, calls,
  touched,    \* the items a thread has changed under the present lock
  target,     \* the peer a thread is adding to the swarm
  call,       \* the request a thread awaits the reply of ...
  arg,        \* ... and what the request says
  rest,       \* the peers distributedUnlock has yet to ask
  serving     \* the thread whose request the server thread executes

lockVars == <<state, preempted, nReaders, holder, thread, depth>>
swarmVars == <<member, peers>>
triggerVars == <<attached, inserted, updated, jobs>>
callVars == <<call, arg>>
threadVars == <<pc, op, calls, touched, target, callVars, rest>>
vars == <<swarmVars, data, lockVars, cv, triggerVars, threadVars, serving>>

LockStates == {"UNLOCKED", "READ_LOCKED", "ATTEMPTING", "WRITE_LOCKED"}
NoArg == <<>>
NoCall == [kind |-> "none", to |-> NoPeer, reply |-> "none"]

--------------------------------------------------------------------------------
(* Helpers.  A definition marked "mutant" is a wrong version of the one that  *)
(* follows it.  No specification uses it: it shows which property notices.   *)

IsWriter(p, q) == state[p] = "WRITE_LOCKED" /\ holder[p] = q

\* lock_.mutex is held across steps in one place: distributedUnlock keeps it
\* while it awaits the replies to its unlock requests.
MetalockFree(p) == \A t \in Threads : Host[t] = p => pc[t] # "unlocking"

\* mutant: the loop does not start at the lowest peer
IsFirst_Any(p, q) == q \in peers[p]

\* Iteration over the std::set peers_, which other threads may change meanwhile.
IsFirst(p, q) == q \in peers[p] /\ \A r \in peers[p] : q <= r

IsNext(p, c, q) == q \in peers[p] /\ c < q /\ \A r \in peers[p] : c < r => q <= r

\* mutant: one peer is enough
AtEnd_AfterFirst(p, c) == TRUE
AtEnd(p, c) == \A r \in peers[p] : r <= c

Lowest(p) == \A r \in peers[p] : p < r

Versions(p, i) == {rev[2] : rev \in {r \in data[p] : r[1] = i}}
IsLatest(p, i, v) == v \in Versions(p, i) /\ \A w \in Versions(p, i) : w <= v
Known(i) == \E p \in Peers : Versions(p, i) # {}

Goto(t, label) == pc' = [pc EXCEPT ![t] = label]

\* Hub::request keeps peer_mutex_ until the reply is there, so that a process has at
\* most one request in flight.
HubFree(p) ==
  \A t \in Threads : Host[t] = p => call[t] = NoCall \/ call[t].reply \in {"ack", "decline"}

Send(t, kind, q, what) ==
  /\ HubFree(Host[t])
  /\ call' = [call EXCEPT ![t] = [kind |-> kind, to |-> q, reply |-> "none"]]
  /\ arg' = [arg EXCEPT ![t] = what]
EndCall(t) == call' = [call EXCEPT ![t] = NoCall] /\ arg' = [arg EXCEPT ![t] = NoArg]
Wait(t) == cv' = [cv EXCEPT ![Host[t]] = @ \cup {t}]

NotifyAll(p) == cv' = [cv EXCEPT ![p] = {}]
SpendCall(t) == calls[t] < MaxCalls /\ calls' = [calls EXCEPT ![t] = @ + 1]
\* What a commit changes is bounded by Items, a batch has to be bounded
SpendChange(t) == IF op[t] = "batch" THEN SpendCall(t) ELSE UNCHANGED calls

\* A trigger thread comes back to its callback from a call, others to their client.
Base(t) == IF t \in Callbacks THEN "callback" ELSE "idle"

\* trigger_mutex_ is held while the callbacks run.
TriggerMutexFree(p) == \A t \in Callbacks : Host[t] = p => pc[t] = "idle"

\* leave_lock_: leaveImpl holds it for writing while it tells the swarm; a
\* pending writer already keeps readers out (ReaderWriterMutex).
Leaving(t) == pc[t] = "leaveLock" \/ (pc[t] = "writeBroadcast" /\ call[t].kind = "leave")
LeaveLockReadable(p) == \A t \in Threads : Host[t] = p => ~Leaving(t)
LeaveLockReaders(p) ==
  {t \in Threads : /\ serving[p] = t /\ call[t].reply = "none"
                   /\ call[t].kind \notin {"update", "init"}} \cup
  {t \in Helpers : Host[t] = p /\ pc[t] \notin {"idle", "connectStart"}}

--------------------------------------------------------------------------------
(* Client threads: taking the lock *)

StartCall(t) ==
  /\ pc[t] = Base(t) /\ t \notin Helpers
  /\ member[Host[t]] = "active"
  /\ SpendCall(t)
  /\ \E o \in Calls[t] \ {"join"} :
       /\ o = "insert" => \E i \in Fresh[t] : ~Known(i)
       /\ op' = [op EXCEPT ![t] = o]
       /\ Goto(t, CASE o \in {"read", "insert"} -> "readLock"
                    [] o = "leave" -> "clearTriggers"
                    [] OTHER -> "writeLock")
       /\ \E q \in IF o = "invite" THEN Peers \ {Host[t]} ELSE {NoPeer} :
            target' = [target EXCEPT ![t] = q]
  /\ UNCHANGED <<swarmVars, data, lockVars, cv, touched, callVars, rest, triggerVars, serving>>

\* LegacyChunk::distributedReadLock
ReadLock(t) ==
  LET p == Host[t] IN
  /\ pc[t] = "readLock" /\ t \notin cv[p] /\ MetalockFree(p)
  /\ \/ /\ state[p] \in {"UNLOCKED", "READ_LOCKED"}
        /\ member[p] # "relinquished"
        /\ state' = [state EXCEPT ![p] = "READ_LOCKED"]
        /\ nReaders' = [nReaders EXCEPT ![p] = @ + 1]
        /\ Goto(t, "reading")
        /\ UNCHANGED cv
     \/ /\ state[p] \notin {"UNLOCKED", "READ_LOCKED"}
        /\ Wait(t)
        /\ UNCHANGED <<state, nReaders, pc>>
  /\ UNCHANGED <<swarmVars, data, preempted, holder, thread, depth,
                 op, calls, touched, target, callVars, rest, triggerVars, serving>>

\* LegacyChunk::distributedWriteLock, top of the attempt loop
Attempt(t) ==
  LET p == Host[t]
      Available == \/ state[p] = "UNLOCKED"
                   \/ state[p] = "ATTEMPTING" /\ thread[p] = t
  IN
  /\ pc[t] = "writeLock" /\ t \notin cv[p] /\ MetalockFree(p)
  /\ \/ /\ Available
        /\ member[p] # "relinquished"
        /\ state' = [state EXCEPT ![p] = "ATTEMPTING"]
        /\ thread' = [thread EXCEPT ![p] = t]
        /\ Goto(t, "attempting")
        /\ UNCHANGED cv
     \/ /\ ~Available
        /\ Wait(t)
        /\ UNCHANGED <<state, thread, pc>>
  /\ UNCHANGED <<swarmVars, data, preempted, nReaders, holder, depth,
                 op, calls, touched, target, callVars, rest, triggerVars, serving>>

\* The first request goes to the lowest peer
AskFirst(t) ==
  LET p == Host[t] IN
  /\ pc[t] = "attempting"
  /\ \/ /\ peers[p] = {}
        /\ Goto(t, "accepted")
        /\ UNCHANGED callVars
     \/ \E q \in peers[p] : /\ IsFirst(p, q)
                            /\ Send(t, "lock", q, NoArg)
                            /\ Goto(t, "lockFirst")
  /\ UNCHANGED <<swarmVars, data, lockVars, cv, op, calls, touched, target, rest, triggerVars, serving>>

\* The reply to a lock request.  Declined by the lowest peer, start over;
\* declined by another one, ask it again until it accepts.
LockReply(t) ==
  LET p == Host[t] IN
  /\ pc[t] \in {"lockFirst", "lockRest"}
  /\ \/ /\ call[t].reply = "decline" /\ pc[t] = "lockFirst"
        /\ Goto(t, "writeLock")
        /\ EndCall(t)
     \/ /\ call[t].reply = "decline" /\ pc[t] = "lockRest"
        /\ Send(t, "lock", call[t].to, NoArg)
        /\ UNCHANGED pc
     \/ /\ call[t].reply = "ack"
        /\ AtEnd(p, call[t].to)
        /\ Goto(t, "accepted")
        /\ EndCall(t)
     \/ /\ call[t].reply = "ack"
        /\ \E q \in peers[p] : IsNext(p, call[t].to, q) /\ Send(t, "lock", q, NoArg)
        /\ Goto(t, "lockRest")
  /\ UNCHANGED <<swarmVars, data, lockVars, cv, op, calls, touched, target, rest, triggerVars, serving>>

\* End of distributedWriteLock: all peers have accepted
Acquire(t) ==
  LET p == Host[t] IN
  /\ pc[t] = "accepted" /\ MetalockFree(p)
  /\ state[p] = "ATTEMPTING"
  /\ state' = [state EXCEPT ![p] = "WRITE_LOCKED"]
  /\ holder' = [holder EXCEPT ![p] = p]
  /\ thread' = [thread EXCEPT ![p] = t]
  /\ depth' = [depth EXCEPT ![p] = @ + 1]
  /\ Goto(t, "writing")
  /\ UNCHANGED <<swarmVars, data, preempted, nReaders, cv,
                 op, calls, touched, target, callVars, rest, triggerVars, serving>>

\* A thread that has the write lock locks again, for reading or for writing
Relock(t) ==
  LET p == Host[t] IN
  /\ pc[t] = "writing" /\ op[t] \in {"commit", "batch"} /\ MetalockFree(p)
  /\ IsWriter(p, p) /\ thread[p] = t
  /\ SpendCall(t)
  /\ depth' = [depth EXCEPT ![p] = @ + 1]
  /\ UNCHANGED <<swarmVars, data, state, preempted, nReaders, holder, thread,
                 cv, pc, op, touched, target, callVars, rest, triggerVars, serving>>

--------------------------------------------------------------------------------
(* Client threads: distributedUnlock *)

\* mutant: the first reader that leaves unlocks the peer
UnlockRead_FirstOut(t) ==
  LET p == Host[t] IN
  /\ pc[t] = "reading" /\ op[t] = "read" /\ MetalockFree(p)
  /\ nReaders' = [nReaders EXCEPT ![p] = @ - 1]
  /\ state' = [state EXCEPT ![p] = "UNLOCKED"]
  /\ NotifyAll(p)
  /\ Goto(t, Base(t))
  /\ UNCHANGED <<swarmVars, data, preempted, holder, thread, depth,
                 op, calls, touched, target, callVars, rest, triggerVars, serving>>

UnlockRead(t) ==
  LET p == Host[t] IN
  /\ pc[t] = "reading" /\ op[t] = "read" /\ MetalockFree(p)
  /\ state[p] = "READ_LOCKED"
  /\ nReaders' = [nReaders EXCEPT ![p] = @ - 1]
  /\ IF nReaders[p] = 1
       THEN state' = [state EXCEPT ![p] = "UNLOCKED"] /\ NotifyAll(p)
       ELSE UNCHANGED <<state, cv>>
  /\ Goto(t, Base(t))
  /\ UNCHANGED <<swarmVars, data, preempted, holder, thread, depth,
                 op, calls, touched, target, callVars, rest, triggerVars, serving>>

MayUnlockWrite(t) ==
  /\ pc[t] = "writing" /\ op[t] \in {"write", "commit", "batch"} /\ MetalockFree(Host[t])
  /\ IsWriter(Host[t], Host[t]) /\ thread[Host[t]] = t

\* Unlocking one level of a recursive lock
UnlockNested(t) ==
  LET p == Host[t] IN
  /\ MayUnlockWrite(t) /\ depth[p] > 1
  /\ depth' = [depth EXCEPT ![p] = @ - 1]
  /\ UNCHANGED <<swarmVars, data, state, preempted, nReaders, holder, thread,
                 cv, threadVars, triggerVars, serving>>

\* The peers are asked one by one in a random order (UnlockStrategy::RANDOM);
\* lock_.mutex stays locked until the last one has replied.
UnlockWrite(t) ==
  LET p == Host[t] IN
  /\ MayUnlockWrite(t) /\ depth[p] = 1
  /\ depth' = [depth EXCEPT ![p] = 0]
  /\ touched' = [touched EXCEPT ![t] = {}]
  /\ \/ /\ peers[p] = {}
        /\ state' = [state EXCEPT ![p] = "UNLOCKED"]
        /\ NotifyAll(p)
        /\ Goto(t, Base(t))
        /\ UNCHANGED <<callVars, rest>>
     \/ \E q \in peers[p] : /\ Send(t, "unlock", q, NoArg)
                            /\ rest' = [rest EXCEPT ![t] = peers[p] \ {q}]
                            /\ Goto(t, "unlocking")
                            /\ UNCHANGED <<state, cv>>
  /\ UNCHANGED <<swarmVars, data, preempted, nReaders, holder, thread,
                 op, calls, target, triggerVars, serving>>

UnlockReply(t) ==
  LET p == Host[t] IN
  /\ pc[t] = "unlocking" /\ call[t].reply = "ack"
  /\ \/ /\ rest[t] = {}
        /\ state' = [state EXCEPT ![p] = "UNLOCKED"]
        /\ NotifyAll(p)
        /\ Goto(t, Base(t))
        /\ EndCall(t)
        /\ UNCHANGED rest
     \/ \E q \in rest[t] : /\ Send(t, "unlock", q, NoArg)
                           /\ rest' = [rest EXCEPT ![t] = @ \ {q}]
                           /\ UNCHANGED <<state, cv, pc>>
  /\ UNCHANGED <<swarmVars, data, preempted, nReaders, holder, thread, depth,
                 op, calls, touched, target, triggerVars, serving>>

--------------------------------------------------------------------------------
(* Client threads: changing the data *)

\* PeerHandler::undisputableBroadcast: one request at a time, in the order of peers_
Broadcast(t, kind, what, label) ==
  LET p == Host[t] IN
  \/ peers[p] = {} /\ UNCHANGED <<callVars, pc>>
  \/ \E q \in peers[p] : IsFirst(p, q) /\ Send(t, kind, q, what) /\ Goto(t, label)

Patch(p, rev) == data' = [data EXCEPT ![p] = @ \cup {rev}]

\* LegacyChunk::insert, under the read lock
Insert(t) ==
  LET p == Host[t] IN
  /\ pc[t] = "reading" /\ op[t] = "insert"
  /\ \E i \in {j \in Fresh[t] : ~Known(j)} :
       Patch(p, <<i, 1>>) /\ Broadcast(t, "insert", <<i, 1>>, "readBroadcast")
  /\ op' = [op EXCEPT ![t] = "read"]
  /\ UNCHANGED <<swarmVars, lockVars, cv, calls, touched, target, rest, triggerVars, serving>>

\* LegacyChunk::bulkInsertLocked, one item at a time
BulkInsertLocked(t) ==
  LET p == Host[t] IN
  /\ pc[t] = "writing" /\ op[t] \in {"commit", "batch"}
  /\ SpendChange(t)
  /\ \E i \in {j \in Fresh[t] : ~Known(j)} :
       /\ Patch(p, <<i, 1>>)
       /\ Broadcast(t, "insert", <<i, 1>>, "writeBroadcast")
       /\ touched' = [touched EXCEPT ![t] = @ \cup {i}]
  /\ UNCHANGED <<swarmVars, lockVars, cv, op, target, rest, triggerVars, serving>>

\* LegacyChunk::updateLocked and removeLocked; LegacyChunk::update is the commit
\* that does this once
UpdateLocked(t) ==
  LET p == Host[t] IN
  /\ pc[t] = "writing" /\ op[t] \in {"commit", "batch"}
  /\ SpendChange(t)
  /\ \E i \in Items : \E v \in Versions(p, i) :
       /\ IsLatest(p, i, v)
       /\ op[t] = "commit" => i \notin touched[t]
       /\ Patch(p, <<i, v + 1>>)
       /\ Broadcast(t, "update", <<i, v + 1>>, "writeBroadcast")
       /\ touched' = [touched EXCEPT ![t] = @ \cup {i}]
  /\ UNCHANGED <<swarmVars, lockVars, cv, op, target, rest, triggerVars, serving>>

\* A peer has replied to a broadcast request: ask the next one, or be done
BroadcastReply(t) ==
  LET p == Host[t] IN
  /\ pc[t] \in {"readBroadcast", "writeBroadcast"}
  /\ call[t].reply = "ack"
  /\ \/ /\ \E q \in peers[p] : IsNext(p, call[t].to, q)
                               /\ Send(t, call[t].kind, q, arg[t])
        /\ UNCHANGED <<swarmVars, pc, op>>
     \/ /\ AtEnd(p, call[t].to)
        /\ EndCall(t)
        /\ Goto(t, IF pc[t] = "readBroadcast" THEN "reading" ELSE "writing")
        /\ \/ /\ call[t].kind = "leave"
              /\ member' = [member EXCEPT ![p] = "relinquished"]
              /\ op' = [op EXCEPT ![t] = "write"]
              /\ UNCHANGED peers
           \/ /\ call[t].kind = "newPeer"
              /\ peers' = [peers EXCEPT ![p] = @ \cup {target[t]}]
              /\ op' = [op EXCEPT ![t] = "write"]
              /\ UNCHANGED member
           \/ call[t].kind \in {"insert", "update"} /\ UNCHANGED <<swarmVars, op>>
  /\ UNCHANGED <<data, lockVars, cv, calls, touched, target, rest, triggerVars, serving>>

--------------------------------------------------------------------------------
(* Client threads: changing the swarm *)

\* mutant: the peer is added even if the swarm has it by now
AddPeer_Twice(t) ==
  LET p == Host[t] IN
  /\ pc[t] = "writing" /\ op[t] \in {"invite", "connect"}
  /\ Send(t, "init", target[t], [peers |-> peers[p] \cup {p}, data |-> data[p]])
  /\ Goto(t, "inviting")
  /\ UNCHANGED <<swarmVars, data, lockVars, cv, op, calls, touched, target, rest, triggerVars, serving>>

\* requestParticipation(peer) and handleConnectRequestThread under the write
\* lock; addPeer sends the replica and the swarm to the new peer first
AddPeer(t) ==
  LET p == Host[t] IN
  /\ pc[t] = "writing" /\ op[t] \in {"invite", "connect"}
  /\ IF target[t] \in peers[p]
       THEN op' = [op EXCEPT ![t] = "write"] /\ UNCHANGED <<callVars, pc>>
       ELSE /\ Send(t, "init", target[t], [peers |-> peers[p] \cup {p}, data |-> data[p]])
            /\ Goto(t, "inviting")
            /\ UNCHANGED op
  /\ UNCHANGED <<swarmVars, data, lockVars, cv, calls, touched, target, rest, triggerVars, serving>>

\* The new peer has its replica: tell the old swarm
InitReply(t) ==
  LET p == Host[t] IN
  /\ pc[t] = "inviting" /\ call[t].reply = "ack"
  /\ \/ /\ peers[p] = {}
        /\ peers' = [peers EXCEPT ![p] = {target[t]}]
        /\ op' = [op EXCEPT ![t] = "write"]
        /\ EndCall(t)
        /\ Goto(t, "writing")
     \/ /\ \E q \in peers[p] : IsFirst(p, q) /\ Send(t, "newPeer", q, target[t])
        /\ Goto(t, "writeBroadcast")
        /\ UNCHANGED <<peers, op>>
  /\ UNCHANGED <<member, data, lockVars, cv, calls, touched, target, rest, triggerVars, serving>>

\* ChunkBase::leave: no more triggers, and those under way must finish
ClearTriggers(t) ==
  LET p == Host[t] IN
  /\ pc[t] = "clearTriggers" /\ TriggerMutexFree(p)
  /\ attached' = [attached EXCEPT ![p] = FALSE]
  /\ Goto(t, "awaitTriggers")
  /\ UNCHANGED <<swarmVars, data, lockVars, cv, inserted, updated, jobs,
                 op, calls, touched, target, callVars, rest, serving>>

\* mutant: waitForTriggerCompletion returns at once
AwaitTriggers_Not(t) ==
  /\ pc[t] = "awaitTriggers"
  /\ Goto(t, "writeLock")
  /\ UNCHANGED <<swarmVars, data, lockVars, cv, triggerVars,
                 op, calls, touched, target, callVars, rest, serving>>

AwaitTriggers(t) ==
  /\ pc[t] = "awaitTriggers"
  /\ jobs[Host[t]] = 0 /\ TriggerMutexFree(Host[t])
  /\ Goto(t, "writeLock")
  /\ UNCHANGED <<swarmVars, data, lockVars, cv, triggerVars,
                 op, calls, touched, target, callVars, rest, serving>>

\* LegacyChunk::leaveImpl has the write lock and now wants leave_lock_
LeaveLock(t) ==
  /\ pc[t] = "writing" /\ op[t] = "leave"
  /\ Goto(t, "leaveLock")
  /\ UNCHANGED <<swarmVars, data, lockVars, cv, op, calls, touched, target, callVars, rest, triggerVars, serving>>

TellLeaving(t) ==
  LET p == Host[t] IN
  /\ pc[t] = "leaveLock" /\ LeaveLockReaders(p) = {}
  /\ \/ /\ peers[p] = {}
        /\ member' = [member EXCEPT ![p] = "relinquished"]
        /\ op' = [op EXCEPT ![t] = "write"]
        /\ Goto(t, "writing")
        /\ UNCHANGED callVars
     \/ /\ \E q \in peers[p] : IsFirst(p, q) /\ Send(t, "leave", q, NoArg)
        /\ Goto(t, "writeBroadcast")
        /\ UNCHANGED <<member, op>>
  /\ UNCHANGED <<peers, data, lockVars, cv, calls, touched, target, rest, triggerVars, serving>>

\* NetTable::connectTo: ask a chunk holder, then poll until the chunk is there
JoinCall(t) ==
  LET p == Host[t] IN
  /\ pc[t] = "idle" /\ "join" \in Calls[t]
  /\ member[p] = "absent"
  /\ op' = [op EXCEPT ![t] = "join"]
  /\ \E q \in {r \in Peers : member[r] # "absent"} : Send(t, "connect", q, NoArg)
  /\ Goto(t, "connecting")
  /\ UNCHANGED <<swarmVars, data, lockVars, cv, calls, touched, target, rest, triggerVars, serving>>

JoinReply(t) ==
  /\ pc[t] = "connecting" /\ call[t].reply = "ack"
  /\ EndCall(t)
  /\ Goto(t, "awaitChunk")
  /\ UNCHANGED <<swarmVars, data, lockVars, cv, op, calls, touched, target, rest, triggerVars, serving>>

Joined(t) ==
  /\ pc[t] = "awaitChunk" /\ member[Host[t]] = "active"
  /\ Goto(t, Base(t))
  /\ UNCHANGED <<swarmVars, data, lockVars, cv, op, calls, touched, target, callVars, rest, triggerVars, serving>>

\* LegacyChunk::handleConnectRequestThread keeps leave_lock_ for reading from
\* here until it has unlocked the chunk
ConnectStart(t) ==
  LET p == Host[t] IN
  /\ pc[t] = "connectStart" /\ LeaveLockReadable(p)
  /\ member[p] # "relinquished"
  /\ Goto(t, "writeLock")
  /\ UNCHANGED <<swarmVars, data, lockVars, cv, op, calls, touched, target, callVars, rest, triggerVars, serving>>

--------------------------------------------------------------------------------
(* Trigger threads *)

\* ChunkBase::triggerWrapper takes trigger_mutex_ and calls the callbacks, which
\* may use the chunk themselves
RunTrigger(t) ==
  LET p == Host[t] IN
  /\ t \in Callbacks /\ pc[t] = "idle" /\ jobs[p] > 0
  /\ jobs' = [jobs EXCEPT ![p] = @ - 1]
  /\ Goto(t, IF attached[p] THEN "callback" ELSE "idle")
  /\ UNCHANGED <<swarmVars, data, lockVars, cv, attached, inserted, updated,
                 op, calls, touched, target, callVars, rest, serving>>

TriggerDone(t) ==
  /\ pc[t] = "callback"
  /\ Goto(t, "idle")
  /\ UNCHANGED <<swarmVars, data, lockVars, cv, triggerVars,
                 op, calls, touched, target, callVars, rest, serving>>

--------------------------------------------------------------------------------
(* The server thread: one request at a time, and the reply when it is done *)

\* Hub::listenThread takes a request.  All handlers of a chunk but
\* handleUpdateRequest take leave_lock_ for reading first.
Receive(q, t) ==
  /\ serving[q] = NoThread
  /\ call[t].to = q /\ call[t].reply = "none"
  /\ call[t].kind \in {"update", "init"} \/ LeaveLockReadable(q)
  /\ serving' = [serving EXCEPT ![q] = t]
  /\ UNCHANGED <<swarmVars, data, lockVars, cv, triggerVars, threadVars>>

\* NetTable::routingBasics has found the chunk
Handles(q, t, kind) ==
  serving[q] = t /\ call[t].kind = kind /\ call[t].reply = "none" /\ member[q] # "absent"

Reply(q, t, reply) ==
  /\ call' = [call EXCEPT ![t].reply = reply]
  /\ serving' = [serving EXCEPT ![q] = NoThread]

\* LegacyChunk::handleLockRequest
HandleLockRequest(q, t) ==
  LET Grant(was) == /\ preempted' = [preempted EXCEPT ![q] = was]
                    /\ state' = [state EXCEPT ![q] = "WRITE_LOCKED"]
                    /\ holder' = [holder EXCEPT ![q] = Host[t]]
                    /\ Reply(q, t, "ack")
                    /\ UNCHANGED cv
      Decline == Reply(q, t, "decline") /\ UNCHANGED <<state, preempted, holder, cv>>
  IN
  /\ Handles(q, t, "lock") /\ t \notin cv[q]
  /\ \/ member[q] = "relinquished" /\ Decline
     \/ /\ member[q] = "active" /\ MetalockFree(q)
        /\ \/ /\ state[q] = "READ_LOCKED"
              /\ cv' = [cv EXCEPT ![q] = @ \cup {t}]
              /\ UNCHANGED <<state, preempted, holder, call, serving>>
           \/ state[q] = "UNLOCKED" /\ Grant("UNLOCKED")
           \/ state[q] = "ATTEMPTING" /\ Lowest(q) /\ q < Host[t] /\ Decline
           \/ state[q] = "ATTEMPTING" /\ ~Lowest(q) /\ Grant("ATTEMPTING")
           \/ state[q] = "WRITE_LOCKED" /\ Decline
  /\ UNCHANGED <<swarmVars, data, nReaders, thread, depth, triggerVars,
                 pc, op, calls, touched, target, arg, rest>>

\* mutant: the preempted attempt is forgotten
HandleUnlockRequest_Forgets(q, t) ==
  /\ Handles(q, t, "unlock") /\ MetalockFree(q) /\ IsWriter(q, Host[t])
  /\ state' = [state EXCEPT ![q] = "UNLOCKED"]
  /\ NotifyAll(q)
  /\ call' = [call EXCEPT ![t].reply = "commitEnd"]
  /\ UNCHANGED <<swarmVars, data, preempted, nReaders, holder, thread, depth, triggerVars,
                 pc, op, calls, touched, target, arg, rest, serving>>

\* mutant: lock_ is given back only when the triggers can be told
HandleUnlockRequest_AfterTriggers(q, t) ==
  /\ Handles(q, t, "unlock") /\ MetalockFree(q) /\ IsWriter(q, Host[t])
  /\ TriggerMutexFree(q)
  /\ state' = [state EXCEPT ![q] = preempted[q]]
  /\ NotifyAll(q)
  /\ call' = [call EXCEPT ![t].reply = "commitEnd"]
  /\ UNCHANGED <<swarmVars, data, preempted, nReaders, holder, thread, depth, triggerVars,
                 pc, op, calls, touched, target, arg, rest, serving>>

\* LegacyChunk::handleUnlockRequest up to handleCommitEnd; the reply is sent
\* when the handler returns
HandleUnlockRequest(q, t) ==
  /\ Handles(q, t, "unlock") /\ MetalockFree(q)
  /\ member[q] # "relinquished"
  /\ IsWriter(q, Host[t])
  /\ preempted[q] \in {"UNLOCKED", "ATTEMPTING"}
  /\ state' = [state EXCEPT ![q] = preempted[q]]
  /\ NotifyAll(q)
  /\ call' = [call EXCEPT ![t].reply = "commitEnd"]
  /\ UNCHANGED <<swarmVars, data, preempted, nReaders, holder, thread, depth, triggerVars,
                 pc, op, calls, touched, target, arg, rest, serving>>

\* mutant: the updates of the commit are not handed over
HandleCommitEnd_KeepsUpdates(q, t) ==
  /\ serving[q] = t /\ call[t].reply = "commitEnd"
  /\ inserted' = [inserted EXCEPT ![q] = {}]
  /\ Reply(q, t, "ack")
  /\ UNCHANGED <<swarmVars, data, lockVars, cv, attached, updated, jobs,
                 pc, op, calls, touched, target, arg, rest>>

\* ChunkBase::handleCommitEnd, called by handleUnlockRequest
HandleCommitEnd(q, t) ==
  /\ serving[q] = t /\ call[t].reply = "commitEnd"
  /\ TriggerMutexFree(q)
  /\ jobs' = [jobs EXCEPT ![q] = IF attached[q] THEN @ + 1 ELSE @]
  /\ inserted' = [inserted EXCEPT ![q] = {}]
  /\ updated' = [updated EXCEPT ![q] = {}]
  /\ Reply(q, t, "ack")
  /\ UNCHANGED <<swarmVars, data, lockVars, cv, attached,
                 pc, op, calls, touched, target, arg, rest>>

\* LegacyChunk::handleInsertRequest and ChunkBase::handleCommitInsert
HandleInsertRequest(q, t) ==
  LET rev == arg[t] IN
  /\ Handles(q, t, "insert")
  /\ \/ /\ member[q] = "relinquished"
        /\ Reply(q, t, "decline")
        /\ UNCHANGED <<data, inserted>>
     \/ /\ member[q] = "active" /\ MetalockFree(q)
        /\ ~IsWriter(q, q)
        /\ rev[1] \notin inserted[q]
        /\ Patch(q, rev)
        /\ inserted' = [inserted EXCEPT ![q] = @ \cup {rev[1]}]
        /\ Reply(q, t, "ack")
  /\ UNCHANGED <<swarmVars, lockVars, cv, attached, updated, jobs,
                 pc, op, calls, touched, target, arg, rest>>

\* mutant: the update is noted for the triggers but not stored
HandleUpdateRequest_Drops(q, t) ==
  /\ Handles(q, t, "update") /\ IsWriter(q, Host[t])
  /\ updated' = [updated EXCEPT ![q] = @ \cup {arg[t][1]}]
  /\ Reply(q, t, "ack")
  /\ UNCHANGED <<swarmVars, data, lockVars, cv, attached, inserted, jobs,
                 pc, op, calls, touched, target, arg, rest>>

\* LegacyChunk::handleUpdateRequest and ChunkBase::handleCommitUpdate
HandleUpdateRequest(q, t) ==
  LET rev == arg[t] IN
  /\ Handles(q, t, "update") /\ MetalockFree(q)
  /\ IsWriter(q, Host[t])
  /\ rev[1] \notin updated[q]
  /\ Patch(q, rev)
  /\ updated' = [updated EXCEPT ![q] = @ \cup {rev[1]}]
  /\ Reply(q, t, "ack")
  /\ UNCHANGED <<swarmVars, lockVars, cv, attached, inserted, jobs,
                 pc, op, calls, touched, target, arg, rest>>

\* mutant: the peer that leaves is not removed
HandleLeaveRequest_Keeps(q, t) ==
  /\ Handles(q, t, "leave") /\ IsWriter(q, Host[t])
  /\ Reply(q, t, "ack")
  /\ UNCHANGED <<swarmVars, data, lockVars, cv, triggerVars,
                 pc, op, calls, touched, target, arg, rest>>

\* LegacyChunk::handleLeaveRequest
HandleLeaveRequest(q, t) ==
  /\ Handles(q, t, "leave") /\ MetalockFree(q)
  /\ member[q] # "relinquished"
  /\ IsWriter(q, Host[t])
  /\ Host[t] \in peers[q]
  /\ peers' = [peers EXCEPT ![q] = @ \ {Host[t]}]
  /\ Reply(q, t, "ack")
  /\ UNCHANGED <<member, data, lockVars, cv, triggerVars,
                 pc, op, calls, touched, target, arg, rest>>

\* mutant: the new peer is not added
HandleNewPeerRequest_Ignores(q, t) ==
  /\ Handles(q, t, "newPeer") /\ IsWriter(q, Host[t])
  /\ Reply(q, t, "ack")
  /\ UNCHANGED <<swarmVars, data, lockVars, cv, triggerVars,
                 pc, op, calls, touched, target, arg, rest>>

\* LegacyChunk::handleNewPeerRequest
HandleNewPeerRequest(q, t) ==
  /\ Handles(q, t, "newPeer") /\ MetalockFree(q)
  /\ member[q] # "relinquished"
  /\ IsWriter(q, Host[t])
  /\ peers' = [peers EXCEPT ![q] = @ \cup {arg[t]}]
  /\ Reply(q, t, "ack")
  /\ UNCHANGED <<member, data, lockVars, cv, triggerVars,
                 pc, op, calls, touched, target, arg, rest>>

\* LegacyChunk::handleConnectRequest: a thread of its own adds the peer
HandleConnectRequest(q, t) ==
  /\ Handles(q, t, "connect")
  /\ \/ /\ member[q] = "relinquished"
        /\ Reply(q, t, "decline")
        /\ UNCHANGED <<pc, op, target>>
     \/ /\ member[q] = "active"
        /\ \E h \in Helpers :
             /\ Host[h] = q /\ pc[h] = "idle"
             /\ Goto(h, "connectStart")
             /\ op' = [op EXCEPT ![h] = "connect"]
             /\ target' = [target EXCEPT ![h] = Host[t]]
        /\ Reply(q, t, "ack")
  /\ UNCHANGED <<swarmVars, data, lockVars, cv, triggerVars, calls, touched, arg, rest>>

\* mutant: the new peer starts unlocked
HandleInitRequest_Unlocked(q, t) ==
  /\ serving[q] = t /\ call[t].kind = "init" /\ call[t].reply = "none"
  /\ member' = [member EXCEPT ![q] = "active"]
  /\ peers' = [peers EXCEPT ![q] = arg[t].peers]
  /\ data' = [data EXCEPT ![q] = arg[t].data]
  /\ Reply(q, t, "ack")
  /\ UNCHANGED <<lockVars, cv, triggerVars, pc, op, calls, touched, target, arg, rest>>

\* NetTable::handleInitRequest and LegacyChunk::init: the chunk starts out
\* write-locked by the peer that adds this one
HandleInitRequest(q, t) ==
  /\ serving[q] = t /\ call[t].kind = "init" /\ call[t].reply = "none"
  /\ member[q] = "absent"
  /\ member' = [member EXCEPT ![q] = "active"]
  /\ peers' = [peers EXCEPT ![q] = arg[t].peers]
  /\ data' = [data EXCEPT ![q] = arg[t].data]
  /\ preempted' = [preempted EXCEPT ![q] = "UNLOCKED"]
  /\ state' = [state EXCEPT ![q] = "WRITE_LOCKED"]
  /\ holder' = [holder EXCEPT ![q] = Host[t]]
  /\ Reply(q, t, "ack")
  /\ UNCHANGED <<nReaders, thread, depth, cv, triggerVars,
                 pc, op, calls, touched, target, arg, rest>>

--------------------------------------------------------------------------------
(* The specification *)

\* The founders share the stored items and their lock is free; triggers are
\* attached where a process has a callback thread.
Init ==
  /\ member = [p \in Peers |-> IF p \in Founders THEN "active" ELSE "absent"]
  /\ peers = [p \in Peers |-> IF p \in Founders THEN Founders \ {p} ELSE {}]
  /\ data = [p \in Peers |-> IF p \in Founders THEN Stored \X {1} ELSE {}]
  /\ state = [p \in Peers |-> "UNLOCKED"]
  /\ preempted = [p \in Peers |-> "UNLOCKED"]
  /\ nReaders = [p \in Peers |-> 0]
  /\ holder = [p \in Peers |-> NoPeer]
  /\ thread = [p \in Peers |-> NoThread]
  /\ depth = [p \in Peers |-> 0]
  /\ cv = [p \in Peers |-> {}]
  /\ attached = [p \in Peers |-> \E t \in Callbacks : Host[t] = p]
  /\ inserted = [p \in Peers |-> {}]
  /\ updated = [p \in Peers |-> {}]
  /\ jobs = [p \in Peers |-> 0]
  /\ pc = [t \in Threads |-> "idle"]
  /\ op = [t \in Threads |-> "read"]
  /\ calls = [t \in Threads |-> 0]
  /\ touched = [t \in Threads |-> {}]
  /\ target = [t \in Threads |-> NoPeer]
  /\ call = [t \in Threads |-> NoCall]
  /\ arg = [t \in Threads |-> NoArg]
  /\ rest = [t \in Threads |-> {}]
  /\ serving = [p \in Peers |-> NoThread]

LockStep(t) ==
  \/ ReadLock(t) \/ Attempt(t) \/ AskFirst(t) \/ LockReply(t) \/ Acquire(t)
  \/ Relock(t) \/ UnlockRead(t) \/ UnlockNested(t) \/ UnlockWrite(t) \/ UnlockReply(t)

DataStep(t) ==
  \/ StartCall(t) \/ Insert(t) \/ BulkInsertLocked(t) \/ UpdateLocked(t)
  \/ BroadcastReply(t) \/ RunTrigger(t) \/ TriggerDone(t)

SwarmStep(t) ==
  \/ AddPeer(t) \/ InitReply(t) \/ ClearTriggers(t) \/ AwaitTriggers(t)
  \/ LeaveLock(t) \/ TellLeaving(t) \/ JoinCall(t) \/ JoinReply(t) \/ Joined(t)
  \/ ConnectStart(t)

Handle(q, t) ==
  \/ HandleLockRequest(q, t) \/ HandleUnlockRequest(q, t)
  \/ HandleCommitEnd(q, t) \/ HandleInsertRequest(q, t) \/ HandleUpdateRequest(q, t)

HandleSwarm(q, t) ==
  \/ HandleLeaveRequest(q, t) \/ HandleNewPeerRequest(q, t)
  \/ HandleConnectRequest(q, t) \/ HandleInitRequest(q, t)

\* Every client has made all the calls it will make.
Finished ==
  /\ \A t \in Threads : pc[t] = "idle"
  /\ \A p \in Peers : jobs[p] = 0
  /\ UNCHANGED vars

FixedSwarmNext ==
  \/ \E t \in Threads : LockStep(t) \/ DataStep(t)
  \/ \E q \in Peers, t \in Threads : Receive(q, t) \/ Handle(q, t)

Next ==
  \/ FixedSwarmNext
  \/ \E t \in Threads : SwarmStep(t)
  \/ \E q \in Peers, t \in Threads : HandleSwarm(q, t)
  \/ Finished

\* A thread inside a call goes on, a client unlocks what it has locked, and a
\* server thread finishes what it can; sockets are served in turn, so that no
\* request is passed over for ever.  Nobody has to make a call.
Fairness ==
  /\ \A t \in Threads :
       WF_vars(\/ LockStep(t) \/ Insert(t) \/ BroadcastReply(t) \/ RunTrigger(t)
               \/ TriggerDone(t) \/ AddPeer(t) \/ InitReply(t) \/ ClearTriggers(t)
               \/ AwaitTriggers(t) \/ LeaveLock(t) \/ TellLeaving(t) \/ JoinReply(t)
               \/ Joined(t) \/ ConnectStart(t))
  /\ \A t \in Threads : SF_vars(\E q \in Peers : Receive(q, t))
  /\ \A q \in Peers : WF_vars(\E t \in Threads : Handle(q, t) \/ HandleSwarm(q, t))

FixedSwarmSpec == Init /\ [][FixedSwarmNext]_vars
Spec == Init /\ [][Next]_vars /\ Fairness

--------------------------------------------------------------------------------
(* Properties *)

Calling == {"connect", "lock", "unlock", "insert", "update", "leave", "newPeer", "init"}
Labels == {"idle", "callback", "readLock", "reading", "readBroadcast", "writeLock",
           "attempting", "lockFirst", "lockRest", "accepted", "writing", "writeBroadcast",
           "unlocking", "inviting", "clearTriggers", "awaitTriggers", "leaveLock",
           "connecting", "awaitChunk", "connectStart"}

\* The threads that have the lock, as distributedReadLock and distributedWriteLock
\* promise it to their callers
ReadHeld(t) == pc[t] \in {"reading", "readBroadcast"}
WriteHeld(t) == pc[t] \in {"writing", "writeBroadcast", "inviting", "leaveLock"}

SwarmTypes ==
  /\ member \in [Peers -> {"absent", "active", "relinquished"}]
  /\ peers \in [Peers -> SUBSET Peers]
  /\ data \in [Peers -> SUBSET (Items \X Nat)]

LockTypes ==
  /\ state \in [Peers -> LockStates]
  /\ preempted \in [Peers -> {"UNLOCKED", "ATTEMPTING"}]
  /\ nReaders \in [Peers -> Nat]
  /\ holder \in [Peers -> Peers \cup {NoPeer}]
  /\ thread \in [Peers -> Threads \cup {NoThread}]
  /\ depth \in [Peers -> Nat]
  /\ cv \in [Peers -> SUBSET Threads]

TriggerTypes ==
  /\ attached \in [Peers -> BOOLEAN]
  /\ inserted \in [Peers -> SUBSET Items]
  /\ updated \in [Peers -> SUBSET Items]
  /\ jobs \in [Peers -> Nat]

ThreadTypes ==
  /\ pc \in [Threads -> Labels]
  /\ op \in [Threads -> Ops]
  /\ calls \in [Threads -> 0..MaxCalls]
  /\ touched \in [Threads -> SUBSET Items]
  /\ target \in [Threads -> Peers \cup {NoPeer}]
  /\ rest \in [Threads -> SUBSET Peers]
  /\ serving \in [Peers -> Threads \cup {NoThread}]

CallTypes == call \in [Threads -> [kind : Calling \cup {"none"},
                                  to : Peers \cup {NoPeer},
                                  reply : {"none", "commitEnd", "ack", "decline"}]]

ArgTypes ==
  /\ arg = [t \in Threads |-> arg[t]]
  /\ \A t \in Threads :
       /\ call[t].kind \in {"insert", "update"} => arg[t] \in Items \X Nat
       /\ call[t].kind = "newPeer" => arg[t] \in Peers
       /\ call[t].kind = "init" =>
            arg[t] \in [peers : SUBSET Peers, data : SUBSET (Items \X Nat)]

\* All variables have their types: in particular a request carries what its handler
\* expects (map-api/proto/chunk.proto).
TypeOK ==
  SwarmTypes /\ LockTypes /\ TriggerTypes /\ ThreadTypes /\ CallTypes /\ ArgTypes

\* While a thread has the write lock no thread of the swarm has it too, nor the
\* read lock.
MutualExclusion ==
  \A t, u \in Threads : WriteHeld(t) /\ t # u => ~WriteHeld(u) /\ ~ReadHeld(u)

\* "Once all peers have accepted, the lock is considered acquired": a writer has
\* the lock at every peer it will ask to unlock (legacy-chunk.cc:555).
WriterHoldsAllPeers ==
  \A t \in Threads : pc[t] = "writing" =>
    \A q \in peers[Host[t]] : IsWriter(q, Host[t])

\* An attempt that a remote writer preempts is still there when it unlocks: no
\* schedule makes a thread that awaits lock replies lose its ATTEMPTING state.
AttemptSurvivesPreemption ==
  \A t \in Threads : pc[t] \in {"attempting", "lockFirst", "lockRest", "accepted"} =>
    LET p == Host[t] IN
    /\ thread[p] = t
    /\ \/ state[p] = "ATTEMPTING"
       \/ state[p] = "WRITE_LOCKED" /\ holder[p] # p /\ preempted[p] = "ATTEMPTING"

\* The CHECKs of the lock protocol (legacy-chunk.cc:466, 497, 557, 591, 592, 650,
\* 839 and 879-885) never fail: neither a thread of the peer itself nor a
\* handler of a remote request finds the lock in a state it rules out.
LockChecks ==
  /\ AttemptSurvivesPreemption
  /\ \A t \in Threads :
       LET p == Host[t] IN
       /\ pc[t] = "accepted" /\ MetalockFree(p) => state[p] = "ATTEMPTING"
       /\ pc[t] = "writing" => IsWriter(p, p) /\ thread[p] = t /\ depth[p] > 0
       /\ pc[t] = "reading" => state[p] = "READ_LOCKED" /\ nReaders[p] > 0
       /\ pc[t] = "unlocking" => call[t].reply # "decline"
       /\ pc[t] \in {"readLock", "writeLock"} /\ t \notin cv[p] => member[p] # "relinquished"
  /\ \A q \in Peers, t \in Threads :
       /\ Handles(q, t, "unlock") => member[q] = "active" /\ IsWriter(q, Host[t])
       /\ Handles(q, t, "lock") /\ state[q] = "ATTEMPTING" /\ Lowest(q) => q < Host[t]

\* The CHECKs on replicated changes (legacy-chunk.cc:213, 342, 364, 778, 901 and
\* chunk-base.cc:87, 91): an insert never reaches a peer that really has the
\* write lock, an update only comes from the peer that has it, and no broadcast
\* is declined.
DataChecks ==
  /\ \A t \in Threads :
       pc[t] \in {"readBroadcast", "writeBroadcast"} => call[t].reply # "decline"
  /\ \A q \in Peers, t \in Threads :
       /\ Handles(q, t, "insert") /\ MetalockFree(q) =>
            ~IsWriter(q, q) /\ arg[t][1] \notin inserted[q]
       /\ Handles(q, t, "update") =>
            IsWriter(q, Host[t]) /\ arg[t][1] \notin updated[q]

\* The CHECKs on membership (legacy-chunk.cc:241, 407, 740, 749, 795-799 and
\* 865-869, net-table.cc:109, 410): a peer that leaves or adds a peer has the
\* write lock wherever it says so, nobody tells a peer that has left or asks one
\* that has not joined, no peer joins twice and no request to join is declined.
SwarmChecks ==
  /\ \A t \in Threads :
       /\ pc[t] \in {"inviting", "connecting"} => call[t].reply # "decline"
       /\ pc[t] = "connectStart" => member[Host[t]] # "relinquished"
  /\ \A q \in Peers, t \in Threads :
       /\ Handles(q, t, "leave") =>
            member[q] = "active" /\ IsWriter(q, Host[t]) /\ Host[t] \in peers[q]
       /\ Handles(q, t, "newPeer") => member[q] = "active" /\ IsWriter(q, Host[t])
       /\ serving[q] = t /\ call[t].reply = "none" =>
            (call[t].kind = "init" <=> member[q] = "absent")

\* No CHECK fails, except those of the lock that a peer that leaves takes away
\* (LockChecks).
ChecksHold == TypeOK /\ DataChecks /\ SwarmChecks

\* A writer that is not in the middle of a broadcast finds all replicas equal: what
\* readers inserted and what earlier writers committed has reached every peer,
\* the peers that joined meanwhile included.
ReplicasAgree ==
  \A t \in Threads : pc[t] = "writing" =>
    \A q \in peers[Host[t]] : data[q] = data[Host[t]]

\* ... and all peers agree on who is in the swarm.
SwarmAgrees ==
  \A t \in Threads : pc[t] = "writing" /\ member[Host[t]] = "active" =>
    LET swarm == peers[Host[t]] \cup {Host[t]} IN
    \A q \in swarm : member[q] = "active" /\ peers[q] = swarm \ {q}

\* What a writer needs to find, whoever has joined or left before it.
WriterFindsAgreement == ReplicasAgree /\ SwarmAgrees

\* No update is lost: a writer never makes a version of an item that some
\* replica already has.
NoUpdateLost ==
  [][\A t \in Threads : UpdateLocked(t) =>
       \A p \in Peers : (data'[Host[t]] \ data[Host[t]]) \cap data[p] = {}]_vars

\* What a remote commit updated is told to the triggers by the unlock that ends it
UpdatesReachTriggers ==
  \A q \in Peers : state[q] # "WRITE_LOCKED" /\ serving[q] = NoThread => updated[q] = {}

\* A peer that has left the swarm, and may destroy the chunk, has no trigger thread
\* under way: ChunkBase::leave has waited for the last one and no commit has
\* started another.
TriggersEndFirst ==
  \A t \in Callbacks : member[Host[t]] = "relinquished" => pc[t] = "idle" /\ jobs[Host[t]] = 0

\* Why: the thread that leaves keeps the peer silent from the end of
\* waitForTriggerCompletion() on, and only it sets relinquished_ (chunk-base.cc,
\* leave; legacy-chunk.cc, leaveImpl).
Silent(p) ==
  /\ member[p] # "absent" /\ ~attached[p] /\ jobs[p] = 0
  /\ \A t \in Callbacks : Host[t] = p => pc[t] = "idle"

LeavePlaces == {"writeLock", "attempting", "lockFirst", "lockRest", "accepted", "writing",
                "writeBroadcast", "leaveLock"}

LeaveFits(t) ==
  /\ pc[t] \in {"clearTriggers", "awaitTriggers", "leaveLock"} => op[t] = "leave"
  /\ pc[t] \in {"clearTriggers", "awaitTriggers"} => member[Host[t]] # "absent"
  /\ pc[t] = "awaitTriggers" => ~attached[Host[t]]
  /\ pc[t] \in LeavePlaces /\ op[t] = "leave" => Silent(Host[t])
  /\ pc[t] \in {"inviting", "connectStart"} => op[t] # "leave"
  /\ call[t].kind = "leave" => pc[t] = "writeBroadcast" /\ op[t] = "leave"

LeaveInv ==
  /\ member \in [Peers -> {"absent", "active", "relinquished"}]
  /\ attached \in [Peers -> BOOLEAN] /\ jobs \in [Peers -> Nat]
  /\ pc \in [Threads -> Labels] /\ op \in [Threads -> Ops]
  /\ call = [t \in Threads |-> [kind |-> call[t].kind, to |-> call[t].to, reply |-> call[t].reply]]
  /\ \A t \in Threads : LeaveFits(t)
  /\ \A p \in Peers : member[p] = "relinquished" => Silent(p)

\* Every call returns, whatever the others do: there is no deadlock and no livelock
\* between attempts, preemptions, blocked handlers and sleeping threads.
EveryCallReturns ==
  \A t \in Threads : pc[t] # "idle" ~> pc[t] = "idle"

================================================================================
