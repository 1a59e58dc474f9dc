----------------------------- MODULE TablesProofs -----------------------------
(***************************************************************************)
(* For any processes, chunks and calls: every chunk that a process has     *)
(* gets every trigger, and gets it once; who listens to peers that join    *)
(* hears of them.  When nobody leaves while something goes on and ids are  *)
(* fresh, too: index, swarm and processes agree on who has a chunk, and    *)
(* listeners get every chunk; no CHECK fails.                              *)
(***************************************************************************)
EXTENDS Tables, TLAPS

\* What a thread is doing, and with what.
Definitions == [participant : Processes \cup {NoProcess}, listeners : SUBSET Processes]
Places ==
  [at : {"idle", "sync", "create", "read", "retry", "attach"}]
    \cup [at : {"join", "announce"}, rest : SUBSET Processes]
    \cup [at : {"update"}, read : Definitions]
    \cup [at : {"emplaced", "hold", "created", "seek", "await"}, chunk : Chunks]
    \cup [at : {"connect"}, chunk : Chunks, to : Processes]
    \cup [at : {"push"}, chunk : Chunks, rest : SUBSET Processes]
    \cup [at : {"listen"}, to : Processes]

\* The requests that a listenThread serves.
Requests ==
  {NoRequest}
    \cup [type : {"init", "emplaced"}, chunk : Chunks]
    \cup [type : {"listen"}, by : Processes]
    \cup [type : {"listed"}, by : Processes, chunks : SUBSET Chunks]

Locks == [readers : SUBSET Threads, writer : {"none"} \cup Threads]

SharedTypes ==
  /\ definition \in Definitions
  /\ holders \in [Chunks -> SUBSET Processes]
  /\ listening \in [Processes -> SUBSET Processes]
ThreadType == thread \in [Processes -> Places]
ServerType == server \in [Processes -> Requests]
LockType == lock \in [Processes -> Locks]
TriggerTypes ==
  /\ active \in [Processes -> SUBSET Chunks]
  /\ future \in [Processes -> Nat]
  /\ triggers \in [Processes -> [Chunks -> Nat]]

TypeInv == SharedTypes /\ ThreadType /\ ServerType /\ LockType /\ TriggerTypes

\* Who writes has the lock alone, and those in the middle of something have it.
LockKept(p) ==
  /\ lock[p].writer # "none" => lock[p].readers = {}
  /\ thread[p].at = "emplaced" => lock[p].writer = "thread"
  /\ server[p].type = "emplaced" => lock[p].writer = "server"
  /\ thread[p].at = "attach" => "thread" \in lock[p].readers

\* The chunk that has been emplaced and has no triggers yet.
Fresh(p, c) ==
  \/ thread[p].at = "emplaced" /\ thread[p].chunk = c
  \/ server[p].type = "emplaced" /\ server[p].chunk = c

\* The triggers that a chunk has at any time.
Counted(p, c) ==
  /\ c \notin active[p] => triggers[p][c] = 0
  /\ Fresh(p, c) => c \in active[p]
  /\ Fresh(p, c) /\ p \notin aborted => triggers[p][c] = 0
  /\ c \in active[p] /\ ~Fresh(p, c) =>
       triggers[p][c] + (IF thread[p].at = "attach" THEN 1 ELSE 0) = future[p]

IInv == TypeInv /\ \A p \in Processes : LockKept(p) /\ \A c \in Chunks : Counted(p, c)

--------------------------------------------------------------------------------
(* What a step leaves alone. *)

\* Nothing of q changes that its triggers depend on: at most who reads.
Bystander(q) ==
  /\ active'[q] = active[q] /\ future'[q] = future[q] /\ triggers'[q] = triggers[q]
  /\ lock'[q].writer = lock[q].writer
  /\ lock'[q].writer # "none" => lock'[q].readers = {}
  /\ thread[q].at = "attach" => "thread" \in lock'[q].readers
  /\ \/ /\ thread'[q].at = thread[q].at
        /\ thread[q].at = "emplaced" => thread'[q].chunk = thread[q].chunk
     \/ thread[q].at \notin {"emplaced", "attach"} /\ thread'[q].at \notin {"emplaced", "attach"}
  /\ \/ server'[q] = server[q]
     \/ server[q].type # "emplaced" /\ server'[q].type # "emplaced"

Kept(p) == LockKept(p) /\ \A c \in Chunks : Counted(p, c)

\* A bystander keeps its part of the invariant.
LEMMA BystanderKeeps ==
  ASSUME NEW q \in Processes, Kept(q), Bystander(q), aborted \subseteq aborted'
  PROVE  Kept(q)'
<1>1. LockKept(q)'
  BY DEF Kept, LockKept, Bystander
<1>2. ASSUME NEW c \in Chunks PROVE Fresh(q, c)' = Fresh(q, c)
  BY DEF Kept, Bystander, Fresh
<1>3. (thread'[q].at = "attach") = (thread[q].at = "attach")
  BY DEF Bystander
<1>4. ASSUME NEW c \in Chunks PROVE Counted(q, c)'
  BY <1>2, <1>3 DEF Kept, Bystander, Counted
<1> QED
  BY <1>1, <1>4 DEF Kept

--------------------------------------------------------------------------------
(* The types. *)

\* The initial state is well-typed.
LEMMA InitTypes == Init => TypeInv
BY TablesAssumption
   DEF Init, TypeInv, SharedTypes, ThreadType, ServerType, LockType, TriggerTypes, Locks,
       Places, Requests, Definitions, Undefined, Idle, NoRequest, Threads

\* A thread at a chunk goes on with it.
LEMMA PlaceAtChunk ==
  ASSUME NEW x \in Places,
         x.at \in {"emplaced", "hold", "created", "seek", "await", "connect", "push"}
  PROVE  /\ x.chunk \in Chunks
         /\ \A at \in {"hold", "created"} : x.at \in {"emplaced", "hold"} =>
              [x EXCEPT !.at = at] = [at |-> at, chunk |-> x.chunk]
BY DEF Places

\* A thread goes on with its next peer.
Without(x, q) == [x EXCEPT !.rest = @ \ {q}]

\* Such a thread is at a place, the same one.
LEMMA PlaceRest ==
  ASSUME NEW x \in Places, NEW q
  PROVE  /\ Without(x, q) \in Places /\ Without(x, q).at = x.at
         /\ x.at = "emplaced" => Without(x, q).chunk = x.chunk
<1>1. Without(x, q) \in Places
  BY DEF Places, Without
<1>2. Without(x, q).at = x.at
  BY DEF Places, Without
<1>3. x.at = "emplaced" => Without(x, q).chunk = x.chunk
  BY DEF Places, Without
<1> QED
  BY <1>1, <1>2, <1>3

\* A thread that moves stays well-typed, and no other moves.
LEMMA Moves ==
  ASSUME ThreadType, NEW p \in Processes, NEW place \in Places, Goes(p, place)
  PROVE  ThreadType' /\ thread'[p] = place /\ \A q \in Processes \ {p} : thread'[q] = thread[q]
BY DEF ThreadType, Goes

\* A listenThread that gets or ends a request stays well-typed, and no other does.
LEMMA Serving ==
  ASSUME ServerType, NEW p \in Processes, NEW r \in Requests, server' = [server EXCEPT ![p] = r]
  PROVE  ServerType' /\ server'[p] = r /\ \A q \in Processes \ {p} : server'[q] = server[q]
BY DEF ServerType

\* What a process does to its active_chunks_lock_: acquireReadLock, ...
LEMMA ReadLocking ==
  ASSUME LockType, NEW p \in Processes, NEW who \in Threads, ReadLocks(p, who)
  PROVE  /\ LockType' /\ \A q \in Processes \ {p} : lock'[q] = lock[q]
         /\ lock'[p].writer = lock[p].writer /\ lock'[p].readers = lock[p].readers \cup {who}
BY DEF LockType, Locks, ReadLocks

\* ... releaseReadLock, ...
LEMMA ReadUnlocking ==
  ASSUME LockType, NEW p \in Processes, NEW who \in Threads, ReadUnlocks(p, who)
  PROVE  /\ LockType' /\ \A q \in Processes \ {p} : lock'[q] = lock[q]
         /\ lock'[p].writer = lock[p].writer /\ lock'[p].readers = lock[p].readers \ {who}
BY DEF LockType, Locks, ReadUnlocks

\* ... acquireWriteLock, ...
LEMMA WriteLocking ==
  ASSUME LockType, NEW p \in Processes, NEW who \in Threads, WriteLocks(p, who)
  PROVE  /\ LockType' /\ \A q \in Processes \ {p} : lock'[q] = lock[q]
         /\ lock'[p].writer = who /\ lock'[p].readers = lock[p].readers
BY DEF LockType, Locks, WriteLocks

\* ... releaseWriteLock.
LEMMA WriteUnlocking ==
  ASSUME LockType, NEW p \in Processes, WriteUnlocks(p)
  PROVE  /\ LockType' /\ \A q \in Processes \ {p} : lock'[q] = lock[q]
         /\ lock'[p].writer = "none" /\ lock'[p].readers = lock[p].readers
BY DEF LockType, Locks, WriteUnlocks

--------------------------------------------------------------------------------
(* Steps that triggers do not depend on. *)

\* The invariant is kept when every process is a bystander.
LEMMA AllBystanders ==
  ASSUME IInv, TypeInv', \A q \in Processes : Bystander(q), aborted \subseteq aborted'
  PROVE  IInv'
<1>1. ASSUME NEW q \in Processes PROVE Kept(q)'
  BY BystanderKeeps DEF IInv, Kept
<1> QED
  BY <1>1 DEF IInv, Kept

\* Only what others know of a table changes, or a process ends.
LEMMA NothingMoves ==
  ASSUME IInv, SharedTypes', UNCHANGED <<thread, server, lock, active, future, triggers>>,
         aborted \subseteq aborted'
  PROVE  IInv'
<1>1. TypeInv'
  BY DEF IInv, TypeInv, ThreadType, ServerType, LockType, TriggerTypes
<1>2. ASSUME NEW q \in Processes PROVE Bystander(q)
  <2>1. LockKept(q)
    BY DEF IInv
  <2> QED
    BY <2>1 DEF LockKept, Bystander
<1> QED
  BY <1>1, <1>2, AllBystanders

\* A thread goes from one place to another, at neither of which it has anything
\* to do with triggers.
LEMMA ThreadMoves ==
  ASSUME IInv, SharedTypes', NEW p \in Processes, NEW place \in Places, Goes(p, place),
         thread[p].at \notin {"emplaced", "attach"}, place.at \notin {"emplaced", "attach"},
         UNCHANGED <<server, lock, active, future, triggers>>, aborted \subseteq aborted'
  PROVE  IInv'
<1>1. ThreadType' /\ thread'[p] = place /\ \A q \in Processes \ {p} : thread'[q] = thread[q]
  BY Moves DEF IInv, TypeInv
<1>2. TypeInv'
  BY <1>1 DEF IInv, TypeInv, ServerType, LockType, TriggerTypes
<1>3. ASSUME NEW q \in Processes PROVE Bystander(q)
  <2>1. LockKept(q)
    BY DEF IInv
  <2>2. CASE q = p
    BY <1>1, <2>1, <2>2 DEF LockKept, Bystander
  <2>3. CASE q # p
    BY <1>1, <2>1, <2>3 DEF LockKept, Bystander
  <2> QED
    BY <2>2, <2>3
<1> QED
  BY <1>2, <1>3, AllBystanders

\* A process gets a request that has nothing to do with triggers yet.
LEMMA ServerMoves ==
  ASSUME IInv, SharedTypes', NEW p \in Processes, NEW r \in Requests,
         server' = [server EXCEPT ![p] = r],
         server[p].type # "emplaced", r.type # "emplaced",
         UNCHANGED <<thread, lock, active, future, triggers>>, aborted \subseteq aborted'
  PROVE  IInv'
<1>1. ServerType' /\ server'[p] = r /\ \A q \in Processes \ {p} : server'[q] = server[q]
  BY Serving DEF IInv, TypeInv
<1>2. TypeInv'
  BY <1>1 DEF IInv, TypeInv, ThreadType, LockType, TriggerTypes
<1>3. ASSUME NEW q \in Processes PROVE Bystander(q)
  <2>1. LockKept(q)
    BY DEF IInv
  <2>2. CASE q = p
    BY <1>1, <2>1, <2>2 DEF LockKept, Bystander
  <2>3. CASE q # p
    BY <1>1, <2>1, <2>3 DEF LockKept, Bystander
  <2> QED
    BY <2>2, <2>3
<1> QED
  BY <1>2, <1>3, AllBystanders

\* Whoever has added a peer to a chunk goes on with the next one.
LEMMA InvitationEnds ==
  ASSUME IInv, SharedTypes', NEW p, NEW q, NEW c, NEW by, Invited(p, q, c, by),
         UNCHANGED <<server, lock, active, future, triggers>>, aborted \subseteq aborted'
  PROVE  IInv'
<1>1. CASE UNCHANGED thread
  BY <1>1, NothingMoves
<1>2. CASE thread' = [thread EXCEPT ![p].rest = @ \ {q}]
  <2>1. ASSUME NEW t \in Processes
        PROVE  /\ thread'[t] \in Places /\ thread'[t].at = thread[t].at
               /\ thread[t].at = "emplaced" => thread'[t].chunk = thread[t].chunk
    <3>1. thread[t] \in Places
      BY DEF IInv, TypeInv, ThreadType
    <3>2. CASE thread'[t] = thread[t]
      BY ONLY <3>1, <3>2
    <3>3. CASE thread'[t] = Without(thread[t], q)
      BY ONLY <3>1, <3>3, PlaceRest
    <3> QED
      BY <1>2, <3>2, <3>3 DEF IInv, TypeInv, ThreadType, Without
  <2>2. TypeInv'
    BY <1>2, <2>1 DEF IInv, TypeInv, ThreadType, ServerType, LockType, TriggerTypes
  <2>3. ASSUME NEW t \in Processes PROVE Bystander(t)
    <3>1. LockKept(t)
      BY DEF IInv
    <3> QED
      BY <2>1, <3>1 DEF LockKept, Bystander
  <2> QED
    BY <2>2, <2>3, AllBystanders
<1> QED
  BY <1>1, <1>2 DEF Invited

\* addTable, and what follows it.
LEMMA AddTableKeeps ==
  ASSUME IInv, NEW p \in Processes,
         \/ AddTable(p) \/ SyncTableDefinition(p) \/ CreateIndex(p) \/ ReadDefinition(p)
         \/ JoinIndex(p) \/ Announce(p)
  PROVE  IInv'
<1>. USE DEF metaVars, chunkVars, listenVars, triggerVars
<1>. thread[p] \in Places /\ SharedTypes
  BY DEF IInv, TypeInv, ThreadType
<1>1. CASE AddTable(p)
  <2>1. [at |-> "sync"] \in Places
    BY DEF Places
  <2> QED
    BY <1>1, <2>1, ThreadMoves DEF AddTable, Idle, SharedTypes
<1>2. CASE SyncTableDefinition(p)
  <2>1. [at |-> "create"] \in Places /\ [at |-> "read"] \in Places
    BY DEF Places
  <2>2. SharedTypes'
    BY <1>2 DEF SyncTableDefinition, TryInsert, SharedTypes, Definitions
  <2> QED
    BY <1>2, <2>1, <2>2, ThreadMoves DEF SyncTableDefinition
<1>3. CASE CreateIndex(p)
  <2>1. Idle \in Places
    BY DEF Places, Idle
  <2> QED
    BY <1>3, <2>1, ThreadMoves DEF CreateIndex, Returns, Idle, SharedTypes
<1>4. CASE ReadDefinition(p)
  <2>1. [at |-> "join", rest |-> definition.listeners] \in Places
    BY DEF Places, SharedTypes, Definitions
  <2> QED
    BY <1>4, <2>1, ThreadMoves DEF ReadDefinition, SharedTypes
<1>5. CASE JoinIndex(p)
  <2>1. thread[p].at = "join" => [thread[p] EXCEPT !.at = "announce"] \in Places
    BY DEF Places
  <2>2. thread[p].at = "join" => [thread[p] EXCEPT !.at = "announce"].at = "announce"
    BY DEF Places
  <2>3. CASE Aborts(p) /\ UNCHANGED thread
    BY <1>5, <2>3, NothingMoves DEF JoinIndex, Aborts, SharedTypes
  <2>4. CASE Goes(p, [thread[p] EXCEPT !.at = "announce"]) /\ UNCHANGED aborted
    BY <1>5, <2>1, <2>2, <2>4, ThreadMoves DEF JoinIndex, SharedTypes
  <2> QED
    BY <1>5, <2>3, <2>4 DEF JoinIndex
<1>6. CASE Announce(p)
  <2>1. Idle \in Places /\ Idle.at = "idle"
    BY DEF Places, Idle
  <2>2. CASE Returns(p)
    BY <1>6, <2>1, <2>2, ThreadMoves DEF Announce, Returns, SharedTypes
  <2>3. ASSUME NEW l, Goes(p, Without(thread[p], l)) PROVE IInv'
    <3>1. Without(thread[p], l) \in Places /\ Without(thread[p], l).at = thread[p].at
      BY PlaceRest
    <3> QED
      BY <1>6, <2>3, <3>1, ThreadMoves DEF Announce, SharedTypes
  <2> QED
    BY <1>6, <2>2, <2>3 DEF Announce, Without
<1> QED
  BY <1>1, <1>2, <1>3, <1>4, <1>5, <1>6

\* listenToPeersJoiningTable.
LEMMA ListenKeeps ==
  ASSUME IInv, NEW p \in Processes, ReadListeners(p) \/ UpdateListeners(p),
         thread[p] = Idle \/ thread[p].at \in {"retry", "update"}
  PROVE  IInv'
<1>. USE DEF metaVars, chunkVars, listenVars, triggerVars
<1>. thread[p] \in Places /\ SharedTypes
  BY DEF IInv, TypeInv, ThreadType
<1>1. CASE ReadListeners(p)
  <2>1. [at |-> "update", read |-> definition] \in Places
    BY DEF Places, SharedTypes
  <2> QED
    BY <1>1, <2>1, ThreadMoves DEF ReadListeners, Idle, SharedTypes
<1>2. CASE UpdateListeners(p)
  <2>1. Idle \in Places /\ [at |-> "retry"] \in Places /\ Idle.at = "idle"
    BY DEF Places, Idle
  <2>2. thread[p].at = "update" => thread[p].read \in Definitions
    BY DEF Places
  <2>3. SharedTypes'
    BY <1>2, <2>2 DEF UpdateListeners, SharedTypes, Definitions
  <2> QED
    BY <1>2, <2>1, <2>3, ThreadMoves DEF UpdateListeners, Returns
<1> QED
  BY <1>1, <1>2

\* newChunk, once its chunk has its triggers.
LEMMA NewChunkGoesOn ==
  ASSUME IInv, NEW p \in Processes, RegisterNew(p) \/ BeginPush(p) \/ EndPush(p)
  PROVE  IInv'
<1>. USE DEF metaVars, chunkVars, listenVars, triggerVars
<1>. thread[p] \in Places /\ SharedTypes
  BY DEF IInv, TypeInv, ThreadType
<1>1. CASE RegisterNew(p)
  <2>1. /\ thread[p].chunk \in Chunks
        /\ [thread[p] EXCEPT !.at = "created"] = [at |-> "created", chunk |-> thread[p].chunk]
    BY <1>1, PlaceAtChunk DEF RegisterNew
  <2>2. [at |-> "created", chunk |-> thread[p].chunk] \in Places
    BY <2>1 DEF Places
  <2>3. SharedTypes'
    BY <1>1 DEF RegisterNew, JoinHolders, SharedTypes
  <2> QED
    BY <1>1, <2>1, <2>2, <2>3, ThreadMoves DEF RegisterNew
<1>2. CASE BeginPush(p)
  <2>1. thread[p].chunk \in Chunks
    BY <1>2, PlaceAtChunk DEF BeginPush
  <2>2. [at |-> "push", chunk |-> thread[p].chunk, rest |-> listening[p]] \in Places
    BY <2>1 DEF Places, SharedTypes
  <2> QED
    BY <1>2, <2>2, ThreadMoves DEF BeginPush, SharedTypes
<1>3. CASE EndPush(p)
  <2>1. Idle \in Places /\ Idle.at = "idle"
    BY DEF Places, Idle
  <2> QED
    BY <1>3, <2>1, ThreadMoves DEF EndPush, Returns, SharedTypes
<1> QED
  BY <1>1, <1>2, <1>3

\* getChunk.
LEMMA GetChunkKeeps ==
  ASSUME IInv, NEW p \in Processes, NEW c \in Chunks,
         GetChunk(p, c) \/ Seek(p) \/ Connect(p) \/ Connected(p)
  PROVE  IInv'
<1>. USE DEF metaVars, chunkVars, listenVars, triggerVars
<1>. thread[p] \in Places /\ TypeInv /\ LockKept(p)
  BY DEF IInv, TypeInv, ThreadType
<1>1. CASE GetChunk(p, c)
  <2>1. CASE UNCHANGED <<lock, thread>>
    BY <1>1, <2>1, NothingMoves DEF GetChunk, TypeInv, SharedTypes
  <2>2. CASE ReadLocks(p, "thread") /\ Goes(p, [at |-> "seek", chunk |-> c])
    <3>1. [at |-> "seek", chunk |-> c] \in Places
      BY DEF Places
    <3>2. /\ ThreadType' /\ thread'[p].at = "seek"
          /\ \A q \in Processes \ {p} : thread'[q] = thread[q]
      BY <2>2, <3>1, Moves DEF TypeInv
    <3>3. /\ LockType' /\ \A q \in Processes \ {p} : lock'[q] = lock[q]
          /\ lock'[p].writer = "none"
      BY <1>1, <2>2, ReadLocking DEF TypeInv, Threads, GetChunk, CanRead
    <3>4. TypeInv'
      BY <1>1, <3>2, <3>3 DEF GetChunk, TypeInv, SharedTypes, ServerType, TriggerTypes
    <3>5. ASSUME NEW q \in Processes PROVE Bystander(q)
      <4>1. LockKept(q)
        BY DEF IInv
      <4>2. CASE q = p
        BY <1>1, <3>2, <3>3, <4>2 DEF GetChunk, CanCall, CanRead, Idle, Bystander
      <4>3. CASE q # p
        BY <1>1, <3>2, <3>3, <4>1, <4>3 DEF GetChunk, LockKept, Bystander
      <4> QED
        BY <4>2, <4>3
    <3> QED
      BY <1>1, <3>4, <3>5, AllBystanders DEF GetChunk
  <2> QED
    BY <1>1, <2>1, <2>2 DEF GetChunk
<1>2. CASE Seek(p)
  <2>1. thread[p].chunk \in Chunks /\ thread[p].at = "seek"
    BY <1>2, PlaceAtChunk DEF Seek
  <2>2. /\ ThreadType' /\ thread'[p].at \in {"seek", "connect"}
        /\ \A q \in Processes \ {p} : thread'[q] = thread[q]
    <3>1. CASE UNCHANGED thread
      BY <2>1, <3>1 DEF TypeInv, ThreadType
    <3>2. ASSUME NEW h \in Processes,
                 Goes(p, [at |-> "connect", chunk |-> thread[p].chunk, to |-> h])
          PROVE  /\ ThreadType' /\ thread'[p].at \in {"seek", "connect"}
                 /\ \A q \in Processes \ {p} : thread'[q] = thread[q]
      <4>1. [at |-> "connect", chunk |-> thread[p].chunk, to |-> h] \in Places
        BY <2>1 DEF Places
      <4> QED
        BY <3>2, <4>1, Moves DEF TypeInv
    <3>3. holders[thread[p].chunk] \subseteq Processes
      BY <2>1 DEF TypeInv, SharedTypes
    <3> QED
      BY <1>2, <3>1, <3>2, <3>3 DEF Seek
  <2>3. /\ LockType' /\ \A q \in Processes \ {p} : lock'[q] = lock[q]
        /\ lock'[p].writer = lock[p].writer /\ lock'[p].readers = lock[p].readers \ {"thread"}
    BY <1>2, ReadUnlocking DEF TypeInv, Threads, Seek
  <2>4. TypeInv'
    BY <1>2, <2>2, <2>3 DEF Seek, TypeInv, SharedTypes, ServerType, TriggerTypes
  <2>5. ASSUME NEW q \in Processes PROVE Bystander(q)
    <3>1. LockKept(q)
      BY DEF IInv
    <3>2. CASE q = p
      BY <1>2, <2>1, <2>2, <2>3, <3>1, <3>2 DEF Seek, LockKept, Bystander
    <3>3. CASE q # p
      BY <1>2, <2>2, <2>3, <3>1, <3>3 DEF Seek, LockKept, Bystander
    <3> QED
      BY <3>2, <3>3
  <2>6. aborted \subseteq aborted'
    BY <1>2 DEF Seek, Aborts
  <2> QED
    BY <2>4, <2>5, <2>6, AllBystanders
<1>3. CASE Connect(p)
  <2>1. CASE UNCHANGED thread /\ Aborts(p)
    BY <1>3, <2>1, NothingMoves DEF Connect, Aborts, TypeInv, SharedTypes
  <2>2. CASE Goes(p, [at |-> "await", chunk |-> thread[p].chunk])
    <3>1. thread[p].chunk \in Chunks
      BY <1>3, PlaceAtChunk DEF Connect
    <3>2. [at |-> "await", chunk |-> thread[p].chunk] \in Places
      BY <3>1 DEF Places
    <3> QED
      BY <1>3, <2>2, <3>2, ThreadMoves DEF Connect, Aborts, TypeInv, SharedTypes
  <2> QED
    BY <1>3, <2>1, <2>2 DEF Connect
<1>4. CASE Connected(p)
  <2>1. Idle \in Places /\ Idle.at = "idle"
    BY DEF Places, Idle
  <2> QED
    BY <1>4, <2>1, ThreadMoves DEF Connected, Returns, TypeInv, SharedTypes
<1> QED
  BY <1>1, <1>2, <1>3, <1>4

\* Adding a peer to a chunk, but for what the peer does.
LEMMA InviteKeeps ==
  ASSUME IInv, NEW p \in Processes, NEW q \in Processes, NEW c \in Chunks, NEW by,
         Skip(p, q, c, by) \/ Invite(p, q, c, by) \/ RegisterInvited(p, c)
  PROVE  IInv'
<1>. USE DEF metaVars, chunkVars, listenVars, triggerVars
<1>. TypeInv /\ SharedTypes
  BY DEF IInv, TypeInv
<1>1. CASE Skip(p, q, c, by)
  BY <1>1, InvitationEnds DEF Skip, Aborts, SharedTypes
<1>2. CASE Invite(p, q, c, by)
  <2> DEFINE r == [type |-> "init", chunk |-> c]
  <2>1. r \in Requests /\ r.type # "emplaced" /\ server[q].type # "emplaced"
    BY <1>2 DEF Requests, Invite, NoRequest
  <2>2. /\ server' = [server EXCEPT ![q] = r] /\ SharedTypes'
        /\ UNCHANGED <<thread, lock, active, future, triggers, aborted>>
    BY <1>2 DEF Invite, SharedTypes
  <2> HIDE DEF r
  <2> QED
    BY <2>1, <2>2, ServerMoves
<1>3. CASE RegisterInvited(p, c)
  BY <1>3, NothingMoves DEF RegisterInvited, JoinHolders, SharedTypes
<1> QED
  BY <1>1, <1>2, <1>3

\* listenToChunksFromPeer and handleListenToChunksFromPeer.
LEMMA FollowKeeps ==
  ASSUME IInv, NEW l \in Processes, NEW p \in Processes,
         Follow(l, p) \/ RequestChunks(l, p) \/ ListChunks(p) \/ AddListener(p)
  PROVE  IInv'
<1>. USE DEF metaVars, chunkVars, listenVars, triggerVars
<1>. TypeInv /\ SharedTypes /\ LockKept(p) /\ server[p] \in Requests
  BY DEF IInv, TypeInv, ServerType
<1>1. CASE Follow(l, p)
  <2>1. [at |-> "listen", to |-> p] \in Places
    BY DEF Places
  <2> QED
    BY <1>1, <2>1, ThreadMoves DEF Follow, CanCall, Idle, SharedTypes
<1>2. CASE RequestChunks(l, p)
  <2> DEFINE r == [type |-> "listen", by |-> l]
  <2>1. r \in Requests /\ r.type # "emplaced" /\ server[p].type # "emplaced"
    BY <1>2 DEF Requests, RequestChunks, NoRequest
  <2>2. /\ server' = [server EXCEPT ![p] = r] /\ SharedTypes'
        /\ UNCHANGED <<thread, lock, active, future, triggers, aborted>>
    BY <1>2 DEF RequestChunks, SharedTypes
  <2> HIDE DEF r
  <2> QED
    BY <2>1, <2>2, ServerMoves
<1>3. CASE ListChunks(p)
  <2> DEFINE r == [type |-> "listed", by |-> server[p].by, chunks |-> active[p]]
  <2>1. r \in Requests /\ server' = [server EXCEPT ![p] = r]
    <3>1. server[p].by \in Processes
      BY <1>3 DEF ListChunks, Requests, NoRequest
    <3>2. active[p] \in SUBSET Chunks
      BY DEF TypeInv, TriggerTypes
    <3>3. r \in Requests
      BY <3>1, <3>2 DEF Requests
    <3>4. server' = [server EXCEPT ![p] = r]
      BY <1>3 DEF ListChunks, TypeInv, ServerType
    <3> QED
      BY <3>3, <3>4
  <2>2. /\ ServerType' /\ server'[p].type = "listed"
        /\ \A q \in Processes \ {p} : server'[q] = server[q]
    <3>1. r.type = "listed"
      OBVIOUS
    <3> HIDE DEF r
    <3>2. ServerType' /\ server'[p] = r /\ \A q \in Processes \ {p} : server'[q] = server[q]
      BY <2>1, Serving DEF TypeInv
    <3> QED
      BY <3>1, <3>2
  <2>3. /\ LockType' /\ \A q \in Processes \ {p} : lock'[q] = lock[q]
        /\ lock'[p].writer = "none" /\ lock'[p].readers = lock[p].readers \cup {"server"}
    BY <1>3, ReadLocking DEF TypeInv, Threads, ListChunks, ListLocks, CanRead
  <2>4. TypeInv'
    BY <1>3, <2>2, <2>3 DEF ListChunks, TypeInv, SharedTypes, ThreadType, TriggerTypes
  <2>5. ASSUME NEW q \in Processes PROVE Bystander(q)
    <3>1. LockKept(q)
      BY DEF IInv
    <3>2. CASE q = p
      BY <1>3, <2>2, <2>3, <3>1, <3>2 DEF ListChunks, CanRead, LockKept, Bystander
    <3>3. CASE q # p
      BY <1>3, <2>2, <2>3, <3>1, <3>3 DEF ListChunks, LockKept, Bystander
    <3> QED
      BY <3>2, <3>3
  <2> QED
    BY <1>3, <2>4, <2>5, AllBystanders DEF ListChunks
<1>4. CASE AddListener(p)
  <2>1. server[p].type = "listed" /\ server[p].by \in Processes
    BY <1>4 DEF AddListener, Requests, NoRequest
  <2>2. /\ ThreadType'
        /\ \A q \in Processes : \/ thread'[q] = thread[q]
                                \/ thread[q].at = "listen" /\ thread'[q].at = "idle"
    <3>1. Idle \in Places /\ Idle.at = "idle"
      BY DEF Places, Idle
    <3>2. CASE UNCHANGED thread
      BY <3>2 DEF TypeInv, ThreadType
    <3>3. CASE thread[server[p].by].at = "listen" /\ Returns(server[p].by)
      BY <2>1, <3>1, <3>3, Moves DEF TypeInv, Returns
    <3> QED
      BY <1>4, <3>2, <3>3 DEF AddListener
  <2>3. ServerType' /\ server'[p] = NoRequest /\ \A q \in Processes \ {p} : server'[q] = server[q]
    BY <1>4, Serving DEF AddListener, TypeInv, Requests
  <2>4. /\ LockType' /\ \A q \in Processes \ {p} : lock'[q] = lock[q]
        /\ lock'[p].writer = lock[p].writer /\ lock'[p].readers = lock[p].readers \ {"server"}
    BY <1>4, ReadUnlocking DEF TypeInv, Threads, AddListener
  <2>5. SharedTypes'
    BY <1>4, <2>1 DEF AddListener, SharedTypes
  <2>6. TypeInv'
    BY <1>4, <2>2, <2>3, <2>4, <2>5 DEF AddListener, TypeInv, TriggerTypes
  <2>7. ASSUME NEW q \in Processes PROVE Bystander(q)
    <3>1. LockKept(q)
      BY DEF IInv
    <3>2. CASE q = p
      BY <1>4, <2>1, <2>2, <2>3, <2>4, <3>1, <3>2 DEF AddListener, NoRequest, LockKept, Bystander
    <3>3. CASE q # p
      BY <1>4, <2>2, <2>3, <2>4, <3>1, <3>3 DEF AddListener, LockKept, Bystander
    <3> QED
      BY <3>2, <3>3
  <2> QED
    BY <1>4, <2>6, <2>7, AllBystanders DEF AddListener
<1> QED
  BY <1>1, <1>2, <1>3, <1>4

--------------------------------------------------------------------------------
(* Steps that triggers depend on: every process but the one that takes the *)
(* step is a bystander.                                                    *)

\* A step keeps the invariant if it keeps it where it is taken.
LEMMA OneProcessSteps ==
  ASSUME IInv, TypeInv', NEW p \in Processes, Kept(p)', aborted \subseteq aborted',
         \A q \in Processes \ {p} :
           /\ thread'[q] = thread[q] /\ server'[q] = server[q] /\ lock'[q] = lock[q]
           /\ active'[q] = active[q] /\ future'[q] = future[q] /\ triggers'[q] = triggers[q]
  PROVE  IInv'
<1>1. ASSUME NEW q \in Processes \ {p} PROVE Kept(q)'
  <2>1. Kept(q)
    BY DEF IInv, Kept
  <2>2. Bystander(q)
    BY <2>1 DEF Kept, LockKept, Bystander
  <2> QED
    BY <2>1, <2>2, BystanderKeeps
<1> QED
  BY <1>1 DEF IInv, Kept

\* attachTriggerToCurrentAndFutureChunks, until it has been to the future chunks: those there
\* are lack one trigger.
LEMMA AttachToFutureKeeps ==
  ASSUME IInv, NEW p \in Processes, AttachToFuture(p)
  PROVE  IInv'
<1>. USE DEF metaVars, chunkVars, listenVars, triggerVars
<1>1. TypeInv /\ LockKept(p) /\ \A c \in Chunks : Counted(p, c)
  BY DEF IInv
<1>2. /\ ThreadType' /\ thread'[p].at = "attach"
      /\ \A q \in Processes \ {p} : thread'[q] = thread[q]
  <2>1. [at |-> "attach"] \in Places
    BY DEF Places
  <2> QED
    BY <1>1, <2>1, Moves DEF AttachToFuture, TypeInv
<1>3. /\ LockType' /\ \A q \in Processes \ {p} : lock'[q] = lock[q]
      /\ lock'[p].writer = "none" /\ lock'[p].readers = lock[p].readers \cup {"thread"}
  BY <1>1, ReadLocking DEF TypeInv, Threads, AttachToFuture, TriggerLocks, CanRead
<1>4. /\ future' \in [Processes -> Nat] /\ future'[p] = future[p] + 1
      /\ \A q \in Processes \ {p} : future'[q] = future[q]
  BY <1>1 DEF AttachToFuture, TypeInv, TriggerTypes
<1>5. TypeInv'
  BY <1>1, <1>2, <1>3, <1>4
     DEF AttachToFuture, TypeInv, SharedTypes, ServerType, TriggerTypes
<1>6. thread[p].at = "idle" /\ server[p].type # "emplaced"
  BY <1>1 DEF AttachToFuture, CanCall, Idle, CanRead, LockKept
<1>7. LockKept(p)'
  BY <1>2, <1>3, <1>6 DEF AttachToFuture, LockKept
<1>8. ASSUME NEW c \in Chunks PROVE Counted(p, c)'
  <2>1. Counted(p, c)
    BY <1>1
  <2>2. ~Fresh(p, c) /\ ~Fresh(p, c)'
    BY <1>2, <1>6 DEF AttachToFuture, Fresh
  <2>3. triggers[p][c] \in Nat /\ future[p] \in Nat
    BY <1>1 DEF TypeInv, TriggerTypes
  <2>4. active' = active /\ triggers' = triggers
    BY DEF AttachToFuture
  <2> QED
    BY <1>2, <1>4, <1>6, <2>1, <2>2, <2>3, <2>4 DEF Counted
<1> QED
  BY <1>2, <1>3, <1>4, <1>5, <1>7, <1>8, OneProcessSteps DEF AttachToFuture, Kept

\* ... and it gets it, with no chunk added in between.
LEMMA AttachToCurrentKeeps ==
  ASSUME IInv, NEW p \in Processes, AttachToCurrent(p)
  PROVE  IInv'
<1>. USE DEF metaVars, chunkVars, listenVars, triggerVars
<1>1. TypeInv /\ LockKept(p) /\ \A c \in Chunks : Counted(p, c)
  BY DEF IInv
<1>2. /\ ThreadType' /\ thread'[p].at = "idle"
      /\ \A q \in Processes \ {p} : thread'[q] = thread[q]
  <2>1. Idle \in Places /\ Idle.at = "idle"
    BY DEF Places, Idle
  <2> QED
    BY <1>1, <2>1, Moves DEF AttachToCurrent, Returns, TypeInv
<1>3. /\ LockType' /\ \A q \in Processes \ {p} : lock'[q] = lock[q]
      /\ lock'[p].writer = lock[p].writer /\ lock'[p].readers = lock[p].readers \ {"thread"}
  BY <1>1, ReadUnlocking DEF TypeInv, Threads, AttachToCurrent
<1>4. /\ triggers' \in [Processes -> [Chunks -> Nat]]
      /\ \A c \in Chunks :
           triggers'[p][c] = IF c \in active[p] THEN triggers[p][c] + 1 ELSE triggers[p][c]
      /\ \A q \in Processes \ {p} : triggers'[q] = triggers[q]
  BY <1>1 DEF AttachToCurrent, TypeInv, TriggerTypes
<1>5. TypeInv'
  BY <1>1, <1>2, <1>3, <1>4
     DEF AttachToCurrent, TypeInv, SharedTypes, ServerType, TriggerTypes
<1>6. thread[p].at = "attach" /\ lock[p].writer = "none" /\ server[p].type # "emplaced"
  BY <1>1 DEF AttachToCurrent, LockKept
<1>7. LockKept(p)'
  BY <1>2, <1>3, <1>6 DEF AttachToCurrent, LockKept
<1>8. ASSUME NEW c \in Chunks PROVE Counted(p, c)'
  <2>1. Counted(p, c)
    BY <1>1
  <2>2. ~Fresh(p, c) /\ ~Fresh(p, c)'
    BY <1>2, <1>6 DEF AttachToCurrent, Fresh
  <2>3. triggers[p][c] \in Nat /\ future[p] \in Nat
    BY <1>1 DEF TypeInv, TriggerTypes
  <2>4. active' = active /\ future' = future
    BY DEF AttachToCurrent
  <2> QED
    BY <1>2, <1>4, <1>6, <2>1, <2>2, <2>3, <2>4 DEF Counted
<1> QED
  BY <1>2, <1>3, <1>4, <1>5, <1>7, <1>8, OneProcessSteps DEF AttachToCurrent, Kept

\* kill: no chunk, no trigger.
LEMMA KillKeeps ==
  ASSUME IInv, NEW p \in Processes, Kill(p)
  PROVE  IInv'
<1>1. TypeInv /\ LockKept(p)
  BY DEF IInv
<1>2. /\ active' \in [Processes -> SUBSET Chunks] /\ active'[p] = {}
      /\ triggers' \in [Processes -> [Chunks -> Nat]] /\ \A c \in Chunks : triggers'[p][c] = 0
      /\ \A q \in Processes \ {p} : active'[q] = active[q] /\ triggers'[q] = triggers[q]
  BY <1>1 DEF Kill, TypeInv, TriggerTypes
<1>3. holders' \in [Chunks -> SUBSET Processes]
  BY <1>1 DEF Kill, TypeInv, SharedTypes
<1>4. TypeInv'
  BY <1>1, <1>2, <1>3
     DEF Kill, listenVars, TypeInv, SharedTypes, ThreadType, ServerType, LockType, TriggerTypes
<1>5. thread[p].at = "idle" /\ server[p].type # "emplaced"
  BY <1>1 DEF Kill, CanCall, Idle, CanWrite, LockKept
<1>6. Kept(p)'
  BY <1>1, <1>2, <1>5 DEF Kill, Kept, LockKept, Fresh, Counted
<1> QED
  BY <1>2, <1>4, <1>6, OneProcessSteps DEF Kill

\* addInitializedChunk puts the chunk into active_chunks_, without triggers, and keeps the lock.
LEMMA Emplacing ==
  ASSUME TypeInv, NEW p \in Processes, NEW c \in Chunks, NEW who \in Threads,
         Emplace(p, c, who), \A d \in Chunks : Counted(p, d)
  PROVE  /\ LockType' /\ \A q \in Processes \ {p} : lock'[q] = lock[q] /\ active'[q] = active[q]
         /\ lock[p].writer = "none" /\ lock[p].readers = {}
         /\ lock'[p].writer = who /\ lock'[p].readers = {}
         /\ active' \in [Processes -> SUBSET Chunks] /\ active'[p] = active[p] \cup {c}
         /\ aborted \subseteq aborted' /\ (p \notin aborted' => triggers[p][c] = 0)
<1>1. /\ LockType' /\ \A q \in Processes \ {p} : lock'[q] = lock[q]
      /\ lock'[p].writer = who /\ lock'[p].readers = lock[p].readers
  BY WriteLocking DEF Emplace, TypeInv
<1>2. lock[p].writer = "none" /\ lock[p].readers = {}
  BY DEF Emplace, CanWrite
<1>3. /\ active' \in [Processes -> SUBSET Chunks] /\ active'[p] = active[p] \cup {c}
      /\ \A q \in Processes \ {p} : active'[q] = active[q]
  BY DEF Emplace, TypeInv, TriggerTypes
<1>4. aborted \subseteq aborted' /\ (p \notin aborted' => triggers[p][c] = 0)
  BY DEF Emplace, Aborts, Counted
<1> QED
  BY <1>1, <1>2, <1>3, <1>4

\* The chunk that has been emplaced is the fresh one.
LEMMA EmplacedIsFresh ==
  ASSUME IInv, NEW p \in Processes, NEW c \in Chunks, NEW who \in Threads,
         Emplace(p, c, who), UNCHANGED <<future, triggers>>,
         thread[p].at # "attach", thread'[p].at # "attach",
         who = "thread" => /\ server'[p] = server[p]
                           /\ thread'[p].at = "emplaced" /\ thread'[p].chunk = c,
         who = "server" => /\ thread'[p] = thread[p]
                           /\ server'[p].type = "emplaced" /\ server'[p].chunk = c
  PROVE  Kept(p)'
<1>1. TypeInv /\ LockKept(p) /\ \A d \in Chunks : Counted(p, d)
  BY DEF IInv
<1>2. /\ lock[p].writer = "none" /\ lock'[p].writer = who /\ lock'[p].readers = {}
      /\ active'[p] = active[p] \cup {c}
      /\ aborted \subseteq aborted' /\ (p \notin aborted' => triggers[p][c] = 0)
  BY <1>1, Emplacing
<1>3. who \in {"thread", "server"}
  BY DEF Threads
<1>4. thread[p].at # "emplaced" /\ server[p].type # "emplaced"
  BY <1>1, <1>2 DEF LockKept
<1>5. LockKept(p)'
  BY <1>2, <1>3, <1>4 DEF LockKept
<1>6. ASSUME NEW d \in Chunks PROVE Counted(p, d)'
  <2>1. Counted(p, d) /\ ~Fresh(p, d)
    BY <1>1, <1>4 DEF Fresh
  <2>2. Fresh(p, d)' <=> d = c
    BY <1>3, <1>4 DEF Fresh
  <2>3. triggers' = triggers /\ future' = future
    OBVIOUS
  <2>4. CASE d = c
    BY <1>2, <2>2, <2>3, <2>4 DEF Counted
  <2>5. CASE d # c
    BY <1>2, <2>1, <2>2, <2>3, <2>5 DEF Counted
  <2> QED
    BY <2>4, <2>5
<1> QED
  BY <1>5, <1>6 DEF Kept

\* The fresh chunk gets the triggers of future chunks, and is no longer fresh.
LEMMA FreshGetsTriggers ==
  ASSUME IInv, NEW p \in Processes, p \notin aborted, NEW c \in Chunks, Fresh(p, c),
         AttachTriggers(p, c), UNCHANGED <<active, future, aborted>>,
         thread'[p].at \notin {"emplaced", "attach"}, server'[p].type # "emplaced"
  PROVE  /\ Kept(p)' /\ LockType' /\ TriggerTypes'
         /\ \A q \in Processes \ {p} : lock'[q] = lock[q] /\ triggers'[q] = triggers[q]
<1>1. TypeInv /\ LockKept(p) /\ \A d \in Chunks : Counted(p, d)
  BY DEF IInv
<1>2. /\ LockType' /\ \A q \in Processes \ {p} : lock'[q] = lock[q]
      /\ lock'[p].writer = "none"
  BY <1>1, WriteUnlocking DEF AttachTriggers, TypeInv
<1>3. /\ triggers' \in [Processes -> [Chunks -> Nat]]
      /\ \A d \in Chunks :
           triggers'[p][d] = IF d = c THEN triggers[p][c] + future[p] ELSE triggers[p][d]
      /\ \A q \in Processes \ {p} : triggers'[q] = triggers[q]
  BY <1>1 DEF AttachTriggers, TypeInv, TriggerTypes
<1>4. TriggerTypes'
  BY <1>1, <1>3 DEF TypeInv, TriggerTypes
<1>5. LockKept(p)'
  BY <1>2 DEF LockKept
<1>6. ASSUME NEW d \in Chunks PROVE Counted(p, d)'
  <2>1. Counted(p, d) /\ Counted(p, c) /\ ~Fresh(p, d)'
    BY <1>1 DEF Fresh
  <2>2. future[p] \in Nat /\ triggers[p][d] \in Nat
    BY <1>1 DEF TypeInv, TriggerTypes
  <2>3. thread[p].at # "attach" /\ (d # c => ~Fresh(p, d))
    BY <1>1 DEF Fresh, LockKept
  <2> QED
    BY <1>3, <2>1, <2>2, <2>3 DEF Counted
<1> QED
  BY <1>2, <1>3, <1>4, <1>5, <1>6 DEF Kept

\* newChunk, until its chunk has its triggers.
LEMMA NewChunkKeeps ==
  ASSUME IInv, NEW p \in Processes, NEW c \in Chunks, NewChunk(p, c)
  PROVE  IInv'
<1>. USE DEF metaVars, listenVars, triggerVars
<1>1. TypeInv /\ \A d \in Chunks : Counted(p, d)
  BY DEF IInv
<1>2. /\ ThreadType' /\ thread'[p].at = "emplaced" /\ thread'[p].chunk = c
      /\ \A q \in Processes \ {p} : thread'[q] = thread[q]
  <2> DEFINE place == [at |-> "emplaced", chunk |-> c]
  <2>1. place \in Places /\ place.at = "emplaced" /\ place.chunk = c
    BY DEF Places
  <2>2. Goes(p, place)
    BY DEF NewChunk
  <2> HIDE DEF place
  <2>3. ThreadType' /\ thread'[p] = place /\ \A q \in Processes \ {p} : thread'[q] = thread[q]
    BY <1>1, <2>1, <2>2, Moves DEF TypeInv
  <2> QED
    BY <2>1, <2>3
<1>3. "thread" \in Threads /\ thread[p].at = "idle" /\ UNCHANGED <<server, future, triggers>>
  BY DEF Threads, NewChunk, CanCall, Idle
<1>4. Emplace(p, c, "thread")
  BY DEF NewChunk
<1>5. /\ LockType' /\ \A q \in Processes \ {p} : lock'[q] = lock[q] /\ active'[q] = active[q]
      /\ active' \in [Processes -> SUBSET Chunks] /\ aborted \subseteq aborted'
  BY <1>1, <1>3, <1>4, Emplacing
<1>6. Kept(p)'
  BY <1>2, <1>3, <1>4, EmplacedIsFresh
<1>7. TypeInv'
  BY <1>1, <1>2, <1>3, <1>5 DEF NewChunk, TypeInv, SharedTypes, ServerType, TriggerTypes
<1> QED
  BY <1>2, <1>3, <1>5, <1>6, <1>7, OneProcessSteps

\* handleInitRequest, until the chunk has its triggers.
LEMMA HandleInitKeeps ==
  ASSUME IInv, NEW p \in Processes, HandleInit(p)
  PROVE  IInv'
<1>. USE DEF metaVars, listenVars, triggerVars
<1>1. TypeInv /\ \A d \in Chunks : Counted(p, d)
  BY DEF IInv
<1>2. server[p].chunk \in Chunks /\ server[p] \in Requests /\ server[p].type = "init"
  BY <1>1 DEF HandleInit, TypeInv, ServerType, Requests, NoRequest
<1>3. /\ ServerType' /\ server'[p].type = "emplaced" /\ server'[p].chunk = server[p].chunk
      /\ \A q \in Processes \ {p} : server'[q] = server[q]
  <2> DEFINE r == [server[p] EXCEPT !.type = "emplaced"]
  <2>1. r = [type |-> "emplaced", chunk |-> server[p].chunk]
    BY <1>2 DEF Requests, NoRequest
  <2>2. r \in Requests /\ r.type = "emplaced" /\ r.chunk = server[p].chunk
    BY <1>2, <2>1 DEF Requests
  <2>3. server' = [server EXCEPT ![p] = r]
    BY <1>1 DEF HandleInit, TypeInv, ServerType
  <2> HIDE DEF r
  <2>4. ServerType' /\ server'[p] = r /\ \A q \in Processes \ {p} : server'[q] = server[q]
    BY <1>1, <2>2, <2>3, Serving DEF TypeInv
  <2> QED
    BY <2>2, <2>4
<1>4. "server" \in Threads /\ UNCHANGED <<thread, future, triggers>>
  BY DEF Threads, HandleInit
<1>5. Emplace(p, server[p].chunk, "server")
  BY DEF HandleInit
<1>6. /\ LockType' /\ \A q \in Processes \ {p} : lock'[q] = lock[q] /\ active'[q] = active[q]
      /\ lock[p].readers = {}
      /\ active' \in [Processes -> SUBSET Chunks] /\ aborted \subseteq aborted'
  BY <1>1, <1>2, <1>4, <1>5, Emplacing
<1>7. thread[p].at # "attach"
  BY <1>6 DEF IInv, LockKept
<1>8. Kept(p)'
  BY <1>2, <1>3, <1>4, <1>5, <1>7, EmplacedIsFresh
<1>9. TypeInv'
  BY <1>1, <1>3, <1>4, <1>6 DEF HandleInit, TypeInv, SharedTypes, ThreadType, TriggerTypes
<1> QED
  BY <1>3, <1>4, <1>6, <1>8, <1>9, OneProcessSteps

\* The second half of addInitializedChunk, in newChunk.
LEMMA AttachToNewKeeps ==
  ASSUME IInv, NEW p \in Processes, p \notin aborted, AttachToNew(p)
  PROVE  IInv'
<1>. USE DEF metaVars, chunkVars, listenVars
<1>1. TypeInv /\ LockKept(p)
  BY DEF IInv
<1>2. thread[p].at = "emplaced" /\ thread[p].chunk \in Chunks /\ server[p].type # "emplaced"
  <2>1. thread[p] \in Places /\ thread[p].at = "emplaced"
    BY <1>1 DEF AttachToNew, TypeInv, ThreadType
  <2> QED
    BY <1>1, <2>1, PlaceAtChunk DEF LockKept
<1>3. /\ ThreadType' /\ thread'[p].at = "hold"
      /\ \A q \in Processes \ {p} : thread'[q] = thread[q]
  <2> DEFINE place == [at |-> "hold", chunk |-> thread[p].chunk]
  <2>1. thread[p] \in Places
    BY <1>1 DEF TypeInv, ThreadType
  <2>2. place \in Places /\ place.at = "hold"
    BY <1>2 DEF Places
  <2>3. Goes(p, place)
    BY <1>2, <2>1, PlaceAtChunk DEF AttachToNew
  <2> HIDE DEF place
  <2>4. ThreadType' /\ thread'[p] = place /\ \A q \in Processes \ {p} : thread'[q] = thread[q]
    BY <1>1, <2>2, <2>3, Moves DEF TypeInv
  <2> QED
    BY <2>2, <2>4
<1>4. /\ AttachTriggers(p, thread[p].chunk) /\ Fresh(p, thread[p].chunk)
      /\ UNCHANGED <<server, active, future, aborted>>
  BY <1>2 DEF AttachToNew, Fresh
<1>5. /\ Kept(p)' /\ LockType' /\ TriggerTypes'
      /\ \A q \in Processes \ {p} : lock'[q] = lock[q] /\ triggers'[q] = triggers[q]
  BY <1>2, <1>3, <1>4, FreshGetsTriggers
<1>6. TypeInv'
  BY <1>1, <1>3, <1>4, <1>5 DEF AttachToNew, TypeInv, SharedTypes, ServerType
<1> QED
  BY <1>3, <1>4, <1>5, <1>6, OneProcessSteps

\* ... and in handleInitRequest.
LEMMA HandleInitEndKeeps ==
  ASSUME IInv, NEW p \in Processes, p \notin aborted, HandleInitEnd(p)
  PROVE  IInv'
<1>. USE DEF metaVars, chunkVars, listenVars
<1>1. TypeInv /\ LockKept(p)
  BY DEF IInv
<1>2. /\ server[p].type = "emplaced" /\ server[p].chunk \in Chunks
      /\ thread[p].at \notin {"emplaced", "attach"}
  <2>1. server[p] \in Requests /\ server[p].type = "emplaced"
    BY <1>1 DEF HandleInitEnd, TypeInv, ServerType
  <2>2. server[p].chunk \in Chunks
    BY <2>1 DEF Requests, NoRequest
  <2> QED
    BY <1>1, <2>1, <2>2 DEF LockKept
<1>3. /\ ServerType' /\ server'[p].type # "emplaced"
      /\ \A q \in Processes \ {p} : server'[q] = server[q]
  <2>1. NoRequest \in Requests /\ NoRequest.type = "none"
    BY DEF Requests, NoRequest
  <2>2. server' = [server EXCEPT ![p] = NoRequest]
    BY DEF HandleInitEnd
  <2> QED
    BY <1>1, <2>1, <2>2, Serving DEF TypeInv
<1>4. /\ AttachTriggers(p, server[p].chunk) /\ Fresh(p, server[p].chunk)
      /\ UNCHANGED <<thread, active, future, aborted>>
  BY <1>2 DEF HandleInitEnd, Fresh
<1>5. /\ Kept(p)' /\ LockType' /\ TriggerTypes'
      /\ \A q \in Processes \ {p} : lock'[q] = lock[q] /\ triggers'[q] = triggers[q]
  BY <1>2, <1>3, <1>4, FreshGetsTriggers
<1>6. TypeInv'
  BY <1>1, <1>3, <1>4, <1>5 DEF HandleInitEnd, TypeInv, SharedTypes, ThreadType
<1> QED
  BY <1>3, <1>4, <1>5, <1>6, OneProcessSteps

--------------------------------------------------------------------------------
(* The theorem about triggers. *)

\* The invariant holds at first ...
LEMMA InitKeeps == Init => IInv
<1> SUFFICES ASSUME Init PROVE IInv
  OBVIOUS
<1>1. TypeInv
  BY InitTypes
<1>2. ASSUME NEW p \in Processes PROVE Kept(p)
  BY <1>2 DEF Init, Idle, NoRequest, Kept, LockKept, Fresh, Counted
<1> QED
  BY <1>1, <1>2 DEF IInv, Kept

\* ... and every step keeps it.
LEMMA NextKeeps == IInv /\ [Next]_vars => IInv'
<1> SUFFICES ASSUME IInv, [Next]_vars PROVE IInv'
  OBVIOUS
<1>1. CASE UNCHANGED vars
  BY <1>1, NothingMoves DEF vars, IInv, TypeInv, SharedTypes
<1>2. ASSUME NEW p \in Processes, Begin(p) PROVE IInv'
  <2>1. CASE thread[p] = Idle /\ ReadListeners(p)
    BY <2>1, ListenKeeps
  <2> QED
    BY <1>2, <2>1, AddTableKeeps, AttachToFutureKeeps, KillKeeps, NewChunkKeeps, GetChunkKeeps,
       FollowKeeps DEF Begin
<1>3. ASSUME NEW p \in Processes, Step(p) PROVE IInv'
  <2>1. CASE UpdateListeners(p) \/ (thread[p].at = "retry" /\ ReadListeners(p))
    BY <2>1, ListenKeeps DEF UpdateListeners
  <2>2. CASE AttachToNew(p) \/ HandleInitEnd(p)
    BY <1>3, <2>2, AttachToNewKeeps, HandleInitEndKeeps DEF Step
  <2>3. CASE Seek(p) \/ Connect(p) \/ Connected(p)
    <3>1. thread[p] \in Places /\ thread[p].at \in {"seek", "connect", "await"}
      BY <2>3 DEF Seek, Connect, Connected, IInv, TypeInv, ThreadType
    <3>2. thread[p].chunk \in Chunks
      BY <3>1, PlaceAtChunk
    <3> QED
      BY <2>3, <3>2, GetChunkKeeps
  <2> QED
    BY <1>3, <2>1, <2>2, <2>3, AddTableKeeps, NewChunkGoesOn, AttachToCurrentKeeps,
       HandleInitKeeps, FollowKeeps DEF Step, ThreadStep, ServerStep
<1>4. ASSUME NEW p \in Processes, NEW q \in Processes, DetachedStep(p, q) PROVE IInv'
  BY <1>4, FollowKeeps, InviteKeeps DEF DetachedStep
<1>5. ASSUME NEW c \in Chunks, ChunkStep(c) PROVE IInv'
  <2>1. CASE Added(c)
    BY <2>1, InvitationEnds
       DEF Added, IInv, TypeInv, SharedTypes, metaVars, listenVars, triggerVars
  <2> QED
    BY <1>5, <2>1, InviteKeeps DEF ChunkStep
<1> QED
  BY <1>1, <1>2, <1>3, <1>4, <1>5 DEF Next

\* attachTriggerToCurrentAndFutureChunks and addInitializedChunk: whatever chunks come in
\* meanwhile, from whichever process, a chunk that is active has every trigger, once.
THEOREM TriggersOnce == Spec => []TriggersAttachedOnce
<1>1. IInv => TriggersAttachedOnce
  <2> SUFFICES ASSUME IInv, NEW p \in Processes, lock[p] = [readers |-> {}, writer |-> "none"],
                      NEW c \in active[p]
               PROVE  triggers[p][c] = future[p]
    BY DEF TriggersAttachedOnce
  <2>1. TypeInv /\ LockKept(p) /\ c \in Chunks
    BY DEF IInv, TypeInv, TriggerTypes
  <2>2. Counted(p, c)
    BY <2>1 DEF IInv
  <2>3. thread[p].at \notin {"emplaced", "attach"} /\ server[p].type # "emplaced"
    BY <2>1 DEF LockKept
  <2>4. triggers[p][c] \in Nat
    BY <2>1 DEF TypeInv, TriggerTypes
  <2> QED
    BY <2>2, <2>3, <2>4 DEF Counted, Fresh
<1> QED
  BY <1>1, InitKeeps, NextKeeps, PTL DEF Spec

--------------------------------------------------------------------------------
(* What holds besides, whatever overlaps. *)

\* The thread that has the lock of a chunk to add a peer.
Invitations ==
  {NoInvitation}
    \cup [of : Processes, to : Processes, by : {"push", "share", "connect"}, accepted : BOOLEAN]

\* The threads that handlers detach.
ListenJob(l, p) == [at |-> "listen", of |-> l, to |-> p]
ShareJob(p, l, c) == [at |-> "share", of |-> p, to |-> l, chunk |-> c]
ConnectJob(p, q, c) == [at |-> "connect", of |-> p, to |-> q, chunk |-> c]
HoldJob(p, c) == [at |-> "hold", of |-> p, chunk |-> c]
Jobs ==
  [at : {"listen"}, of : Processes, to : Processes]
    \cup [at : {"share", "connect"}, of : Processes, to : Processes, chunk : Chunks]
    \cup [at : {"hold"}, of : Processes, chunk : Chunks]

AllCalls ==
  [call : {"new", "get"}, chunk : Chunks] \cup [call : {"listen", "trigger", "kill", "gone"}]
    \cup [call : {"follow"}, peer : Processes]

OtherTypes ==
  /\ tables \subseteq Processes /\ index \subseteq tables
  /\ heard \subseteq Processes \X Processes /\ aborted \subseteq Processes
  /\ swarm \in [Chunks -> SUBSET Processes] /\ created \in [Processes -> SUBSET Chunks]
  /\ inviting \in [Chunks -> Invitations] /\ detached \subseteq Jobs
  /\ m_listeners \in [Processes -> {"none", "thread"}]
  /\ todo \in [Processes -> SUBSET AllCalls]

\* A process that has left does not come back.
Gone(p) == [call |-> "gone"] \in todo[p]
Known(p) == p \in tables \/ Gone(p)

PresentFits(p) ==
  /\ thread[p].at # "idle" => p \in tables
  /\ Gone(p) => p \notin tables

\* The peer that is being added, until it accepts.
Arriving(q, c) == server[q].type \in {"init", "emplaced"} /\ server[q].chunk = c
Arrived(q, c) == server[q].type = "emplaced" /\ server[q].chunk = c

\* Whoever adds a peer waits for it.
InvitationFits(c) ==
  /\ \A q \in Processes : Arriving(q, c) => inviting[c].to = q /\ ~inviting[c].accepted
  /\ inviting[c] # NoInvitation =>
       /\ inviting[c].accepted \/ Arriving(inviting[c].to, c)
       /\ inviting[c].by = "push" =>
            LET x == thread[inviting[c].of] IN
            x.at = "push" /\ x.chunk = c /\ inviting[c].to \in x.rest

BaseInv ==
  /\ OtherTypes
  /\ \A p \in Processes : PresentFits(p)
  /\ \A c \in Chunks : InvitationFits(c)

--------------------------------------------------------------------------------
(* What a step does to a variable. *)

\* What a thread has besides a chunk.
LEMMA PlaceFields ==
  ASSUME NEW x \in Places
  PROVE  /\ x.at \in {"join", "announce", "push"} => x.rest \subseteq Processes
         /\ x.at \in {"connect", "listen"} => x.to \in Processes
         /\ x.at = "update" => x.read \in Definitions
BY DEF Places

\* A call that is made is no longer to be made; the others are.
LEMMA CallsMade ==
  ASSUME OtherTypes, NEW p \in Processes, NEW call, Call(p, call)
  PROVE  /\ todo' \in [Processes -> SUBSET AllCalls] /\ todo'[p] = todo[p] \ {call}
         /\ call \in todo[p] /\ \A q \in Processes \ {p} : todo'[q] = todo[q]
BY DEF OtherTypes, Call

\* Nothing that these types are about changes.
LEMMA TypesStay ==
  ASSUME OtherTypes,
         UNCHANGED <<tables, index, heard, aborted, swarm, created, inviting, detached,
                     m_listeners, todo>>
  PROVE  OtherTypes'
BY DEF OtherTypes

\* addTable, and what follows it, keeps them.
LEMMA AddTableTypes ==
  ASSUME IInv, OtherTypes, NEW p \in Processes, PresentFits(p),
         \/ AddTable(p) \/ SyncTableDefinition(p) \/ CreateIndex(p) \/ ReadDefinition(p)
         \/ JoinIndex(p) \/ Announce(p)
  PROVE  OtherTypes'
<1>. USE DEF metaVars, chunkVars, listenVars, triggerVars
<1>. thread[p] \in Places /\ definition \in Definitions
  BY DEF IInv, TypeInv, ThreadType, SharedTypes
<1>1. CASE AddTable(p)
  BY <1>1 DEF AddTable, OtherTypes
<1>2. CASE SyncTableDefinition(p)
  BY <1>2 DEF SyncTableDefinition, OtherTypes
<1>3. CASE CreateIndex(p)
  BY <1>3 DEF CreateIndex, OtherTypes, PresentFits
<1>4. CASE ReadDefinition(p)
  BY <1>4 DEF ReadDefinition, OtherTypes, Definitions
<1>5. CASE JoinIndex(p)
  BY <1>5 DEF JoinIndex, Aborts, OtherTypes, PresentFits
<1>6. CASE Announce(p)
  <2>1. detached' \subseteq Jobs
    <3>1. ASSUME NEW l \in Processes PROVE handleAnnounceToListeners(l, p) \subseteq Jobs
      BY DEF handleAnnounceToListeners, OtherTypes, Jobs
    <3>2. thread[p].rest \subseteq Processes
      BY <1>6, PlaceFields DEF Announce
    <3> QED
      BY <1>6, <3>1, <3>2 DEF Announce, OtherTypes
  <2> QED
    BY <1>6, <2>1 DEF Announce, OtherTypes
<1> QED
  BY <1>1, <1>2, <1>3, <1>4, <1>5, <1>6

\* The calls keep them, ...
LEMMA CallTypes ==
  ASSUME IInv, OtherTypes, NEW p \in Processes,
         \/ ReadListeners(p) \/ UpdateListeners(p) \/ AttachToFuture(p) \/ AttachToCurrent(p)
         \/ Kill(p) \/ \E c \in Chunks : NewChunk(p, c) \/ GetChunk(p, c)
         \/ \E q \in Processes : Follow(p, q)
  PROVE  OtherTypes'
<1>. USE DEF metaVars, chunkVars, listenVars, triggerVars
<1>1. ASSUME NEW call, Call(p, call) \/ UNCHANGED todo
      PROVE  todo' \in [Processes -> SUBSET AllCalls]
  BY <1>1, CallsMade DEF OtherTypes
<1>2. CASE ReadListeners(p)
  BY <1>1, <1>2 DEF ReadListeners, OtherTypes
<1>3. CASE UpdateListeners(p)
  BY <1>3 DEF UpdateListeners, OtherTypes
<1>4. ASSUME NEW c \in Chunks, NewChunk(p, c) PROVE OtherTypes'
  BY <1>1, <1>4 DEF NewChunk, Emplace, Aborts, OtherTypes
<1>5. ASSUME NEW c \in Chunks, GetChunk(p, c) PROVE OtherTypes'
  BY <1>1, <1>5 DEF GetChunk, OtherTypes
<1>6. CASE AttachToFuture(p)
  BY <1>1, <1>6 DEF AttachToFuture, OtherTypes
<1>7. CASE AttachToCurrent(p)
  BY <1>7 DEF AttachToCurrent, OtherTypes
<1>8. CASE Kill(p)
  <2>1. todo' \in [Processes -> SUBSET AllCalls]
    BY <1>8 DEF Kill, OtherTypes, AllCalls
  <2> QED
    BY <1>8, <2>1 DEF Kill, OtherTypes
<1>9. ASSUME NEW q \in Processes, Follow(p, q) PROVE OtherTypes'
  BY <1>1, <1>9 DEF Follow, OtherTypes
<1> QED
  BY <1>2, <1>3, <1>4, <1>5, <1>6, <1>7, <1>8, <1>9

\* ... what follows a call, ...
LEMMA ThreadTypes ==
  ASSUME IInv, OtherTypes, NEW p \in Processes,
         \/ AttachToNew(p) \/ RegisterNew(p) \/ BeginPush(p) \/ EndPush(p)
         \/ Seek(p) \/ Connect(p) \/ Connected(p)
  PROVE  OtherTypes'
<1>. USE DEF metaVars, chunkVars, listenVars, triggerVars
<1>. thread[p] \in Places /\ SharedTypes
  BY DEF IInv, TypeInv, ThreadType
<1>1. CASE AttachToNew(p) \/ RegisterNew(p) \/ Connected(p)
  BY <1>1 DEF AttachToNew, RegisterNew, Connected, OtherTypes
<1>2. CASE BeginPush(p) \/ EndPush(p)
  BY <1>2 DEF BeginPush, EndPush, OtherTypes
<1>3. CASE Seek(p)
  <2>1. aborted' \in {aborted, aborted \cup {p}}
    BY <1>3 DEF Seek, Aborts
  <2>2. UNCHANGED <<tables, index, heard, swarm, created, inviting, detached, m_listeners, todo>>
    BY <1>3 DEF Seek
  <2> QED
    BY <2>1, <2>2 DEF OtherTypes
<1>4. CASE Connect(p)
  <2>1. thread[p].to \in Processes /\ thread[p].chunk \in Chunks
    BY <1>4, PlaceFields, PlaceAtChunk DEF Connect
  <2>2. ConnectJob(thread[p].to, p, thread[p].chunk) \in Jobs
    BY <2>1 DEF ConnectJob, Jobs
  <2>3. detached' \subseteq Jobs
    BY <1>4, <2>2 DEF Connect, OtherTypes, ConnectJob
  <2> QED
    BY <1>4, <2>3 DEF Connect, Aborts, OtherTypes
<1> QED
  BY <1>1, <1>2, <1>3, <1>4

\* ... and what other threads do.
LEMMA ServerTypes ==
  ASSUME IInv, OtherTypes, NEW p \in Processes,
         \/ ServerStep(p) \/ \E q \in Processes : DetachedStep(p, q)
  PROVE  OtherTypes'
<1>. USE DEF metaVars, chunkVars, listenVars, triggerVars
<1>. server[p] \in Requests /\ active[p] \subseteq Chunks
  BY DEF IInv, TypeInv, ServerType, TriggerTypes
<1>. DEFINE By == {"push", "share", "connect"}
<1>1. ASSUME NEW q \in Processes, NEW c \in Chunks, NEW by \in By, Skip(p, q, c, by)
      PROVE  OtherTypes'
  BY <1>1 DEF Skip, Invited, Aborts, OtherTypes
<1>2. ASSUME NEW q \in Processes, NEW c \in Chunks, NEW by \in By, Invite(p, q, c, by)
      PROVE  OtherTypes'
  <2>1. [of |-> p, to |-> q, by |-> by, accepted |-> FALSE] \in Invitations
    BY DEF Invitations
  <2> QED
    BY <1>2, <2>1 DEF Invite, OtherTypes
<1>3. CASE HandleInit(p)
  BY <1>3 DEF HandleInit, Emplace, Aborts, OtherTypes
<1>4. CASE HandleInitEnd(p)
  <2>1. server[p].chunk \in Chunks
    BY <1>4 DEF HandleInitEnd, Requests, NoRequest
  <2>2. HoldJob(p, server[p].chunk) \in Jobs
    BY <2>1 DEF HoldJob, Jobs
  <2>3. ASSUME NEW i \in Invitations PROVE [i EXCEPT !.accepted = TRUE] \in Invitations
    BY DEF Invitations, NoInvitation
  <2>4. inviting' \in [Chunks -> Invitations]
    BY <1>4, <2>1, <2>3 DEF HandleInitEnd, OtherTypes
  <2> QED
    BY <1>4, <2>2, <2>4 DEF HandleInitEnd, OtherTypes, HoldJob
<1>5. CASE ListChunks(p)
  BY <1>5 DEF ListChunks, OtherTypes
<1>6. ASSUME NEW q \in Processes, RequestChunks(p, q) PROVE OtherTypes'
  BY <1>6 DEF RequestChunks, OtherTypes
<1>7. CASE AddListener(p)
  <2>1. server[p].by \in Processes /\ server[p].chunks \subseteq Chunks
    BY <1>7 DEF AddListener, Requests, NoRequest
  <2>2. ASSUME NEW d \in server[p].chunks PROVE ShareJob(p, server[p].by, d) \in Jobs
    BY <2>1, <2>2 DEF ShareJob, Jobs
  <2>3. detached' \subseteq Jobs
    BY <1>7, <2>2 DEF AddListener, OtherTypes, ShareJob
  <2> QED
    BY <1>7, <2>3 DEF AddListener, OtherTypes
<1> QED
  BY <1>1, <1>2, <1>3, <1>4, <1>5, <1>6, <1>7 DEF ServerStep, DetachedStep

\* The end of an invitation, and the registration of who accepted it, keep them.
LEMMA ChunkTypes ==
  ASSUME OtherTypes, NEW c \in Chunks, ChunkStep(c)
  PROVE  OtherTypes'
<1>. USE DEF metaVars, chunkVars, listenVars, triggerVars
<1>1. CASE Added(c)
  <2>1. inviting[c].to \in Processes /\ NoInvitation \in Invitations
    BY <1>1 DEF Added, OtherTypes, Invitations
  <2> QED
    BY <1>1, <2>1 DEF Added, Invited, OtherTypes
<1>2. ASSUME NEW p \in Processes, RegisterInvited(p, c) PROVE OtherTypes'
  BY <1>2 DEF RegisterInvited, OtherTypes
<1> QED
  BY <1>1, <1>2 DEF ChunkStep

\* Every step keeps them.
LEMMA OtherTypesKept ==
  ASSUME IInv, BaseInv, [Next]_vars
  PROVE  OtherTypes'
<1>. OtherTypes /\ \A p \in Processes : PresentFits(p)
  BY DEF BaseInv
<1>1. CASE UNCHANGED vars
  BY <1>1, TypesStay DEF vars
<1>2. ASSUME NEW p \in Processes, Begin(p) PROVE OtherTypes'
  BY <1>2, AddTableTypes, CallTypes DEF Begin
<1>3. ASSUME NEW p \in Processes, Step(p) PROVE OtherTypes'
  <2>1. CASE ThreadStep(p)
    BY <2>1, AddTableTypes, CallTypes, ThreadTypes DEF ThreadStep
  <2>2. CASE ServerStep(p)
    BY <2>2, ServerTypes
  <2> QED
    BY <1>3, <2>1, <2>2 DEF Step
<1>4. ASSUME NEW p \in Processes, NEW q \in Processes, DetachedStep(p, q) PROVE OtherTypes'
  BY <1>4, ServerTypes
<1>5. ASSUME NEW c \in Chunks, ChunkStep(c) PROVE OtherTypes'
  BY <1>5, ChunkTypes
<1> QED
  BY <1>1, <1>2, <1>3, <1>4, <1>5 DEF Next

\* A thread that goes on with a call: no other one moves, ...
LEMMA ThreadStepShape ==
  ASSUME ThreadType, NEW p \in Processes, ThreadStep(p)
  PROVE  /\ thread[p].at # "idle" /\ UNCHANGED <<tables, todo, server, inviting>>
         /\ \A x \in Processes \ {p} : thread'[x] = thread[x]
         /\ thread[p].at = "push" => thread[p].rest = {}
<1>. USE DEF metaVars, chunkVars, listenVars, triggerVars
<1>1. ASSUME NEW place, Goes(p, place)
      PROVE  \A x \in Processes \ {p} : thread'[x] = thread[x]
  BY <1>1 DEF Goes, ThreadType
<1>2. CASE SyncTableDefinition(p) \/ CreateIndex(p) \/ ReadDefinition(p)
  BY <1>1, <1>2 DEF SyncTableDefinition, CreateIndex, ReadDefinition, Returns
<1>3. CASE JoinIndex(p) \/ Announce(p)
  BY <1>1, <1>3 DEF JoinIndex, Announce, Returns
<1>4. CASE UpdateListeners(p) \/ (thread[p].at = "retry" /\ ReadListeners(p))
  BY <1>1, <1>4 DEF UpdateListeners, ReadListeners, CanCall, Idle, Returns
<1>5. CASE AttachToNew(p) \/ RegisterNew(p)
  BY <1>1, <1>5 DEF AttachToNew, RegisterNew
<1>6. CASE BeginPush(p) \/ EndPush(p)
  BY <1>1, <1>6 DEF BeginPush, EndPush, Returns
<1>7. CASE Seek(p)
  BY <1>1, <1>7 DEF Seek
<1>8. CASE Connect(p) \/ Connected(p) \/ AttachToCurrent(p)
  BY <1>1, <1>8 DEF Connect, Connected, AttachToCurrent, Returns
<1> QED
  BY <1>2, <1>3, <1>4, <1>5, <1>6, <1>7, <1>8 DEF ThreadStep

\* ... one that begins with a call: it has the table, ...
LEMMA CallShape ==
  ASSUME IInv, BaseInv, NEW p \in Processes, Begin(p), ~AddTable(p), ~Kill(p)
  PROVE  /\ thread[p] = Idle /\ p \in tables /\ UNCHANGED <<tables, server, inviting>>
         /\ \A x \in Processes \ {p} : thread'[x] = thread[x]
         /\ \A x \in Processes : Gone(x)' <=> Gone(x)
<1>. USE DEF metaVars, chunkVars, listenVars, triggerVars
<1>. OtherTypes /\ ThreadType
  BY DEF BaseInv, IInv, TypeInv
<1>1. ASSUME NEW place, Goes(p, place)
      PROVE  \A x \in Processes \ {p} : thread'[x] = thread[x]
  BY <1>1 DEF Goes, ThreadType
<1>2. ASSUME NEW call, Call(p, call), call # [call |-> "gone"]
      PROVE  \A x \in Processes : Gone(x)' <=> Gone(x)
  BY <1>2, CallsMade DEF Gone
<1>3. p \in index => p \in tables
  BY DEF OtherTypes
<1>4. CASE thread[p] = Idle /\ ReadListeners(p)
  <2>1. Call(p, [call |-> "listen"]) /\ [call |-> "listen"] # [call |-> "gone"]
    BY <1>4 DEF ReadListeners, Idle
  <2> QED
    BY <1>1, <1>2, <1>3, <1>4, <2>1 DEF ReadListeners, CanCall, Idle
<1>5. CASE AttachToFuture(p)
  <2>1. Call(p, [call |-> "trigger"]) /\ [call |-> "trigger"] # [call |-> "gone"]
    BY <1>5 DEF AttachToFuture
  <2> QED
    BY <1>1, <1>2, <1>3, <1>5, <2>1 DEF AttachToFuture, CanCall
<1>6. ASSUME NEW c \in Chunks, NewChunk(p, c)
      PROVE  /\ thread[p] = Idle /\ p \in tables /\ UNCHANGED <<tables, server, inviting>>
             /\ \A x \in Processes \ {p} : thread'[x] = thread[x]
             /\ \A x \in Processes : Gone(x)' <=> Gone(x)
  <2>1. /\ Call(p, [call |-> "new", chunk |-> c])
        /\ [call |-> "new", chunk |-> c] # [call |-> "gone"]
    BY <1>6 DEF NewChunk
  <2> QED
    BY <1>1, <1>2, <1>3, <1>6, <2>1 DEF NewChunk, CanCall
<1>7. ASSUME NEW c \in Chunks, GetChunk(p, c)
      PROVE  /\ thread[p] = Idle /\ p \in tables /\ UNCHANGED <<tables, server, inviting>>
             /\ \A x \in Processes \ {p} : thread'[x] = thread[x]
             /\ \A x \in Processes : Gone(x)' <=> Gone(x)
  <2>1. /\ Call(p, [call |-> "get", chunk |-> c])
        /\ [call |-> "get", chunk |-> c] # [call |-> "gone"]
    BY <1>7 DEF GetChunk
  <2> QED
    BY <1>1, <1>2, <1>3, <1>7, <2>1 DEF GetChunk, CanCall
<1>8. ASSUME NEW q \in Processes, Follow(p, q)
      PROVE  /\ thread[p] = Idle /\ p \in tables /\ UNCHANGED <<tables, server, inviting>>
             /\ \A x \in Processes \ {p} : thread'[x] = thread[x]
             /\ \A x \in Processes : Gone(x)' <=> Gone(x)
  <2>1. /\ Call(p, [call |-> "follow", peer |-> q])
        /\ [call |-> "follow", peer |-> q] # [call |-> "gone"]
    BY <1>8 DEF Follow
  <2> QED
    BY <1>1, <1>2, <1>3, <1>8, <2>1 DEF Follow, CanCall
<1> QED
  BY <1>4, <1>5, <1>6, <1>7, <1>8 DEF Begin

\* ... and a listenThread or one that is detached: at most a thread returns, or
\* is done with a peer.
LEMMA OtherShape ==
  ASSUME IInv, NEW x \in Processes,
         \/ \E p \in Processes : ServerStep(p) \/ \E q \in Processes : DetachedStep(p, q)
         \/ \E c \in Chunks : ChunkStep(c)
  PROVE  /\ UNCHANGED <<tables, todo, definition, heard>>
         /\ \/ thread'[x] = thread[x]
            \/ (thread'[x] = Idle /\ thread[x].at = "listen")
            \/ \E q : thread'[x] = Without(thread[x], q)
<1>. USE DEF metaVars, chunkVars, listenVars, triggerVars
<1>. ThreadType
  BY DEF IInv, TypeInv
<1>1. ASSUME NEW p, NEW q, NEW c, NEW by, Invited(p, q, c, by)
      PROVE  thread'[x] = thread[x] \/ thread'[x] = Without(thread[x], q)
  BY <1>1 DEF Invited, Without, ThreadType
<1>2. ASSUME NEW p \in Processes, HandleInit(p) \/ HandleInitEnd(p) \/ ListChunks(p)
      PROVE  UNCHANGED <<tables, todo, definition, heard, thread>>
  BY <1>2 DEF HandleInit, HandleInitEnd, ListChunks
<1>3. ASSUME NEW p \in Processes, AddListener(p)
      PROVE  /\ UNCHANGED <<tables, todo, definition, heard>>
             /\ thread'[x] = thread[x] \/ (thread'[x] = Idle /\ thread[x].at = "listen")
  BY <1>3 DEF AddListener, Returns, Goes, ThreadType
<1>4. ASSUME NEW p \in Processes, NEW q \in Processes, RequestChunks(p, q)
      PROVE  UNCHANGED <<tables, todo, definition, heard, thread>>
  BY <1>4 DEF RequestChunks
<1>5. ASSUME NEW p \in Processes, NEW q \in Processes, NEW c \in Chunks, NEW by,
             Skip(p, q, c, by) \/ Invite(p, q, c, by)
      PROVE  /\ UNCHANGED <<tables, todo, definition, heard>>
             /\ thread'[x] = thread[x] \/ thread'[x] = Without(thread[x], q)
  BY <1>1, <1>5 DEF Skip, Invite
<1>6. ASSUME NEW c \in Chunks, Added(c)
      PROVE  /\ UNCHANGED <<tables, todo, definition, heard>>
             /\ \/ thread'[x] = thread[x]
                \/ thread'[x] = Without(thread[x], inviting[c].to)
  BY <1>1, <1>6 DEF Added
<1>7. ASSUME NEW p \in Processes, NEW c \in Chunks, RegisterInvited(p, c)
      PROVE  UNCHANGED <<tables, todo, definition, heard, thread>>
  BY <1>7 DEF RegisterInvited
<1> QED
  BY <1>2, <1>3, <1>4, <1>5, <1>6, <1>7 DEF ServerStep, DetachedStep, ChunkStep

\* A process that is in a call has the table, and one that has left has not: always.
LEMMA PresentKept ==
  ASSUME IInv, BaseInv, [Next]_vars, NEW x \in Processes
  PROVE  PresentFits(x)'
<1>. ThreadType /\ PresentFits(x) /\ OtherTypes
  BY DEF IInv, TypeInv, BaseInv
<1>1. ASSUME UNCHANGED tables, Gone(x)' <=> Gone(x),
             thread'[x].at # "idle" => thread[x].at # "idle" \/ x \in tables
      PROVE  PresentFits(x)'
  BY <1>1 DEF PresentFits
<1>2. UNCHANGED todo => (Gone(x)' <=> Gone(x))
  BY DEF Gone
<1>3. CASE UNCHANGED vars
  BY <1>1, <1>2, <1>3 DEF vars
<1>4. ASSUME NEW p \in Processes, AddTable(p) PROVE PresentFits(x)'
  BY <1>4 DEF AddTable, Goes, ThreadType, PresentFits, Gone
<1>5. ASSUME NEW p \in Processes, Kill(p) PROVE PresentFits(x)'
  BY <1>5 DEF Kill, CanCall, Idle, OtherTypes, PresentFits, Gone
<1>6. ASSUME NEW p \in Processes, Begin(p), ~AddTable(p), ~Kill(p) PROVE PresentFits(x)'
  BY <1>1, <1>6, CallShape
<1>7. ASSUME NEW p \in Processes, ThreadStep(p) PROVE PresentFits(x)'
  BY <1>1, <1>2, <1>7, ThreadStepShape DEF PresentFits
<1>8. ASSUME \/ \E p \in Processes : ServerStep(p) \/ \E q \in Processes : DetachedStep(p, q)
             \/ \E c \in Chunks : ChunkStep(c)
      PROVE  PresentFits(x)'
  <2>1. \A q : Without(thread[x], q).at = thread[x].at
    BY PlaceRest DEF ThreadType
  <2> QED
    BY <1>1, <1>2, <1>8, <2>1, OtherShape DEF Idle
<1> QED
  BY <1>3, <1>4, <1>5, <1>6, <1>7, <1>8 DEF Next, Step

\* An invitation is kept if the peer has not answered and the thread that pushes waits.
LEMMA InvitationStays ==
  ASSUME OtherTypes, NEW c \in Chunks, InvitationFits(c), inviting'[c] = inviting[c],
         \A q \in Processes : Arriving(q, c)' <=> Arriving(q, c),
         \A x \in Processes :
           inviting[c].to \in thread[x].rest /\ thread[x].at = "push" /\ thread[x].chunk = c
             => thread'[x] = thread[x]
  PROVE  InvitationFits(c)'
<1>1. CASE inviting[c] = NoInvitation
  BY <1>1 DEF InvitationFits
<1>2. CASE inviting[c] # NoInvitation
  <2>1. inviting[c].of \in Processes /\ inviting[c].to \in Processes
    BY <1>2 DEF OtherTypes, Invitations
  <2>2. Arriving(inviting[c].to, c)' <=> Arriving(inviting[c].to, c)
    BY <2>1
  <2> QED
    BY <1>2, <2>1, <2>2 DEF InvitationFits
<1> QED
  BY <1>1, <1>2

\* addPeer: whoever is done with a peer, is so for the chunk that it pushes.
LEMMA InvitedThreads ==
  ASSUME IInv, NEW p \in Processes, NEW q, NEW c, NEW by, Invited(p, q, c, by),
         by = "push" => thread[p].at = "push" /\ thread[p].chunk = c,
         NEW x \in Processes
  PROVE  \/ thread'[x] = thread[x]
         \/ /\ x = p /\ by = "push" /\ thread[p].at = "push" /\ thread[p].chunk = c
            /\ thread'[x] = Without(thread[x], q)
BY DEF Invited, Without, IInv, TypeInv, ThreadType

\* The peer is asked.
LEMMA InviteInvites ==
  ASSUME IInv, BaseInv, NEW c \in Chunks, NEW p \in Processes, NEW q \in Processes,
         NEW d \in Chunks, NEW by \in {"push", "share", "connect"}, Invite(p, q, d, by)
  PROVE  InvitationFits(c)'
<1>1. /\ server[q] = NoRequest /\ inviting[d] = NoInvitation /\ thread' = thread
      /\ Invites(p, q, d, by)
  BY DEF Invite
<1>2. /\ server'[q] = [type |-> "init", chunk |-> d]
      /\ \A x \in Processes \ {q} : server'[x] = server[x]
      /\ inviting'[d] = [of |-> p, to |-> q, by |-> by, accepted |-> FALSE]
      /\ \A e \in Chunks \ {d} : inviting'[e] = inviting[e]
  BY DEF Invite, IInv, TypeInv, ServerType, BaseInv, OtherTypes
<1>3. OtherTypes /\ InvitationFits(c) /\ InvitationFits(d)
  BY DEF BaseInv
<1>4. CASE c = d
  <2>1. ASSUME NEW x \in Processes, Arriving(x, d)' PROVE x = q
    <3>1. CASE x # q
      <4>1. inviting[d].to = x
        BY <1>2, <1>3, <2>1, <3>1 DEF Arriving, InvitationFits
      <4> QED
        BY <1>1, <4>1, TablesAssumption DEF NoInvitation
    <3> QED
      BY <3>1
  <2>2. Arriving(q, d)'
    BY <1>2 DEF Arriving
  <2>3. by = "push" => thread[p].at = "push" /\ thread[p].chunk = d /\ q \in thread[p].rest
    BY <1>1 DEF Invites
  <2> QED
    BY <1>1, <1>2, <1>4, <2>1, <2>2, <2>3 DEF InvitationFits
<1>5. CASE c # d
  <2>1. \A x \in Processes : Arriving(x, c)' <=> Arriving(x, c)
    BY <1>1, <1>2, <1>5 DEF Arriving, NoRequest
  <2> QED
    BY <1>1, <1>2, <1>3, <1>5, <2>1, InvitationStays
<1> QED
  BY <1>4, <1>5

\* The peer accepts.
LEMMA HandleInitEndInvites ==
  ASSUME IInv, BaseInv, NEW c \in Chunks, NEW q \in Processes, HandleInitEnd(q)
  PROVE  InvitationFits(c)'
<1>0. server[q].chunk \in Chunks
  BY DEF HandleInitEnd, IInv, TypeInv, ServerType, Requests, NoRequest
<1>. PICK d \in Chunks : d = server[q].chunk
  BY <1>0
<1>1. server[q].type = "emplaced" /\ Arriving(q, d) /\ thread' = thread
  BY DEF HandleInitEnd, Arriving
<1>2. /\ server'[q] = NoRequest /\ \A x \in Processes \ {q} : server'[x] = server[x]
      /\ inviting'[d] = [inviting[d] EXCEPT !.accepted = TRUE]
      /\ \A e \in Chunks \ {d} : inviting'[e] = inviting[e]
  BY <1>1 DEF HandleInitEnd, IInv, TypeInv, ServerType, BaseInv, OtherTypes
<1>3. OtherTypes /\ InvitationFits(c) /\ InvitationFits(d)
  BY <1>1 DEF BaseInv
<1>4. CASE c = d
  <2>1. inviting[d].to = q /\ inviting[d] # NoInvitation
    BY <1>1, <1>3, TablesAssumption DEF InvitationFits, NoInvitation
  <2>2. /\ inviting'[d].to = inviting[d].to /\ inviting'[d].of = inviting[d].of
        /\ inviting'[d].by = inviting[d].by /\ inviting'[d].accepted
    BY <1>1, <1>2, <1>3, <2>1 DEF OtherTypes, Invitations
  <2>3. ASSUME NEW x \in Processes PROVE ~Arriving(x, d)'
    <3>1. CASE x = q
      BY <1>2, <3>1 DEF Arriving, NoRequest
    <3>2. CASE x # q
      BY <1>2, <1>3, <2>1, <3>2 DEF Arriving, InvitationFits
    <3> QED
      BY <3>1, <3>2
  <2> QED
    BY <1>1, <1>3, <1>4, <2>1, <2>2, <2>3 DEF InvitationFits
<1>5. CASE c # d
  <2>1. \A x \in Processes : Arriving(x, c)' <=> Arriving(x, c)
    BY <1>1, <1>2, <1>5 DEF Arriving, NoRequest
  <2> QED
    BY <1>1, <1>2, <1>3, <1>5, <2>1, InvitationStays
<1> QED
  BY <1>4, <1>5

\* The lock is released.
LEMMA AddedInvites ==
  ASSUME IInv, BaseInv, NEW c \in Chunks, NEW d \in Chunks, Added(d)
  PROVE  InvitationFits(c)'
<1>1. /\ inviting[d] # NoInvitation /\ inviting[d].accepted /\ server' = server
      /\ inviting'[d] = NoInvitation /\ \A e \in Chunks \ {d} : inviting'[e] = inviting[e]
      /\ Invited(inviting[d].of, inviting[d].to, d, inviting[d].by)
  BY DEF Added, BaseInv, OtherTypes
<1>2. OtherTypes /\ InvitationFits(c) /\ InvitationFits(d)
  BY DEF BaseInv
<1>3. CASE c = d
  BY <1>1, <1>2, <1>3 DEF InvitationFits, Arriving
<1>4. CASE c # d
  <2>1. /\ inviting[d].of \in Processes
        /\ inviting[d].by = "push" =>
             thread[inviting[d].of].at = "push" /\ thread[inviting[d].of].chunk = d
    BY <1>1, <1>2 DEF OtherTypes, Invitations, InvitationFits
  <2>2. ASSUME NEW x \in Processes, thread[x].chunk = c PROVE thread'[x] = thread[x]
    BY <1>1, <1>4, <2>1, <2>2, InvitedThreads
  <2>3. \A x \in Processes : Arriving(x, c)' <=> Arriving(x, c)
    BY <1>1 DEF Arriving
  <2> QED
    BY <1>1, <1>2, <1>4, <2>2, <2>3, InvitationStays
<1> QED
  BY <1>3, <1>4

\* A peer that was in the swarm already is not waited for.
LEMMA SkipInvites ==
  ASSUME IInv, BaseInv, NEW c \in Chunks, NEW p \in Processes, NEW q \in Processes,
         NEW d \in Chunks, NEW by \in {"push", "share", "connect"}, Skip(p, q, d, by)
  PROVE  InvitationFits(c)'
<1>1. /\ inviting[d] = NoInvitation /\ server' = server /\ inviting' = inviting
      /\ Invited(p, q, d, by) /\ Invites(p, q, d, by)
  BY DEF Skip
<1>2. OtherTypes /\ InvitationFits(c)
  BY DEF BaseInv
<1>3. \A x \in Processes : Arriving(x, c)' <=> Arriving(x, c)
  BY <1>1 DEF Arriving
<1>4. by = "push" => thread[p].at = "push" /\ thread[p].chunk = d
  BY <1>1 DEF Invites
<1>5. CASE c = d
  BY <1>1, <1>2, <1>3, <1>5 DEF InvitationFits
<1>6. CASE c # d
  <2>1. ASSUME NEW x \in Processes, thread[x].chunk = c PROVE thread'[x] = thread[x]
    BY <1>1, <1>4, <1>6, <2>1, InvitedThreads
  <2> QED
    BY <1>1, <1>2, <1>3, <2>1, InvitationStays
<1> QED
  BY <1>5, <1>6

\* The listenThread does something else than to accept.
LEMMA RequestInvites ==
  ASSUME IInv, BaseInv, NEW c \in Chunks, NEW p \in Processes,
         \/ HandleInit(p) \/ ListChunks(p) \/ AddListener(p)
         \/ \E l \in Processes : RequestChunks(l, p)
  PROVE  InvitationFits(c)'
<1>1. OtherTypes /\ InvitationFits(c) /\ ServerType /\ ThreadType
  BY DEF BaseInv, IInv, TypeInv
<1>2. inviting' = inviting
  BY DEF HandleInit, ListChunks, AddListener, RequestChunks
<1>3. ASSUME NEW x \in Processes PROVE Arriving(x, c)' <=> Arriving(x, c)
  <2>1. CASE HandleInit(p)
    <3>1. server'[x] = IF x = p THEN [server[p] EXCEPT !.type = "emplaced"] ELSE server[x]
      BY <1>1, <2>1 DEF HandleInit, ServerType
    <3>2. server[p] \in Requests /\ server[p].type = "init"
      BY <1>1, <2>1 DEF HandleInit, ServerType
    <3> QED
      BY <3>1, <3>2 DEF Requests, NoRequest, Arriving
  <2>2. CASE ListChunks(p) \/ AddListener(p) \/ \E l \in Processes : RequestChunks(l, p)
    <3>1. server[p].type \notin {"init", "emplaced"}
      <4>1. CASE ListChunks(p)
        BY <4>1 DEF ListChunks
      <4>2. CASE AddListener(p)
        BY <4>2 DEF AddListener
      <4>3. CASE \E l \in Processes : RequestChunks(l, p)
        BY <4>3 DEF RequestChunks, NoRequest
      <4> QED
        BY <2>2, <4>1, <4>2, <4>3
    <3>2. ListChunks(p) => server'[p].type = "listed"
      BY <1>1 DEF ListChunks, ServerType
    <3>3. AddListener(p) => server'[p].type = "none"
      BY <1>1 DEF AddListener, ServerType, NoRequest
    <3>4. ASSUME NEW l \in Processes, RequestChunks(l, p) PROVE server'[p].type = "listen"
      BY <1>1, <3>4 DEF RequestChunks, ServerType
    <3>5. x # p => server'[x] = server[x]
      BY <1>1, <2>2 DEF ListChunks, AddListener, RequestChunks, ServerType
    <3> QED
      BY <2>2, <3>1, <3>2, <3>3, <3>4, <3>5 DEF Arriving
  <2> QED
    BY <2>1, <2>2
<1>4. ASSUME NEW x \in Processes PROVE thread[x].at = "push" => thread'[x] = thread[x]
  <2>1. CASE AddListener(p)
    BY <1>1, <2>1 DEF AddListener, Returns, Goes, ThreadType
  <2> QED
    BY <2>1 DEF HandleInit, ListChunks, RequestChunks, listenVars, triggerVars
<1> QED
  BY <1>1, <1>2, <1>3, <1>4, InvitationStays

\* Whoever adds a peer waits for it: always.
LEMMA InvitationKept ==
  ASSUME IInv, BaseInv, [Next]_vars, NEW c \in Chunks
  PROVE  InvitationFits(c)'
<1>1. OtherTypes /\ InvitationFits(c) /\ ThreadType
  BY DEF BaseInv, IInv, TypeInv
<1>2. ASSUME UNCHANGED <<server, inviting>>,
             \A x \in Processes : thread[x].at = "push" /\ thread[x].rest # {}
                                    => thread'[x] = thread[x]
      PROVE  InvitationFits(c)'
  <2>1. \A q \in Processes : Arriving(q, c)' <=> Arriving(q, c)
    BY <1>2 DEF Arriving
  <2> QED
    BY <1>1, <1>2, <2>1, InvitationStays
<1>3. CASE UNCHANGED vars
  BY <1>2, <1>3 DEF vars
<1>4. ASSUME NEW p \in Processes, Begin(p) PROVE InvitationFits(c)'
  <2>1. CASE AddTable(p) \/ Kill(p)
    BY <1>1, <1>2, <2>1 DEF AddTable, Kill, CanCall, Idle, Goes, ThreadType
  <2>2. CASE ~AddTable(p) /\ ~Kill(p)
    BY <1>2, <1>4, <2>2, CallShape DEF Idle
  <2> QED
    BY <2>1, <2>2
<1>5. ASSUME NEW p \in Processes, ThreadStep(p) PROVE InvitationFits(c)'
  BY <1>1, <1>2, <1>5, ThreadStepShape
<1>6. ASSUME NEW p \in Processes, ServerStep(p) PROVE InvitationFits(c)'
  BY <1>6, HandleInitEndInvites, RequestInvites DEF ServerStep
<1>7. ASSUME NEW p \in Processes, NEW q \in Processes, DetachedStep(p, q)
      PROVE  InvitationFits(c)'
  BY <1>7, RequestInvites, InviteInvites, SkipInvites DEF DetachedStep
<1>8. ASSUME NEW d \in Chunks, ChunkStep(d) PROVE InvitationFits(c)'
  BY <1>2, <1>8, AddedInvites DEF ChunkStep, RegisterInvited, listenVars, triggerVars, metaVars
<1> QED
  BY <1>3, <1>4, <1>5, <1>6, <1>7, <1>8 DEF Next, Step

\* So the rest holds always, too.
LEMMA BaseKeeps == IInv /\ BaseInv /\ [Next]_vars => BaseInv'
BY OtherTypesKept, PresentKept, InvitationKept DEF BaseInv

\* ... as it does at first.
LEMMA InitBase == Init => BaseInv
<1> SUFFICES ASSUME Init PROVE BaseInv
  OBVIOUS
<1>1. OtherTypes
  <2>1. Calls \in [Processes -> SUBSET AllCalls]
    BY TablesAssumption DEF AllCalls
  <2>2. NoInvitation \in Invitations
    BY DEF Invitations
  <2> QED
    BY <2>1, <2>2 DEF Init, OtherTypes
<1>2. ASSUME NEW p \in Processes PROVE PresentFits(p)
  BY <1>2 DEF Init, Idle, PresentFits
<1>3. ASSUME NEW c \in Chunks PROVE InvitationFits(c)
  BY <1>3 DEF Init, InvitationFits, Arriving, NoRequest
<1> QED
  BY <1>1, <1>2, <1>3 DEF BaseInv

--------------------------------------------------------------------------------
(* Peers that join the table. *)

HasListened(p) == [call |-> "listen"] \in Calls[p] \ todo[p]

\* Those that listen to peers that join are in the definition of the table, or about to be.
ListenerFits(p) ==
  /\ HasListened(p) => \/ p \in definition.listeners \/ Gone(p)
                       \/ thread[p].at \in {"update", "retry"}
  /\ p \in definition.listeners => Known(p)

\* A listener hears of the peer, or is about to.
Hears(l, p) ==
  \/ l \in listening[p] \/ Gone(l)
  \/ thread[p].at \in {"join", "announce"} /\ l \in thread[p].rest
  \/ ListenJob(l, p) \in detached
  \/ server[p].type \in {"listen", "listed"} /\ server[p].by = l

HeardFits(l, p) == <<l, p>> \in heard => Known(l) /\ Hears(l, p)

JoinInv == \A p \in Processes : ListenerFits(p) /\ \A l \in Processes : HeardFits(l, p)

\* Whoever has had the table once has it, or has left for good.
LEMMA KnownStays ==
  ASSUME IInv, BaseInv, [Next]_vars, NEW x \in Processes
  PROVE  (Gone(x) => Gone(x)') /\ (Known(x) => Known(x)')
<1>. OtherTypes /\ PresentFits(x) /\ ThreadType
  BY DEF BaseInv, IInv, TypeInv
<1>1. UNCHANGED <<todo, tables>> => (Gone(x) => Gone(x)') /\ (Known(x) => Known(x)')
  BY DEF Gone, Known
<1>2. ASSUME NEW p \in Processes, Begin(p) PROVE (Gone(x) => Gone(x)') /\ (Known(x) => Known(x)')
  <2>1. CASE AddTable(p)
    BY <2>1 DEF AddTable, Gone, Known
  <2>2. CASE Kill(p)
    BY <2>2 DEF Kill, OtherTypes, Gone, Known
  <2>3. CASE ~AddTable(p) /\ ~Kill(p)
    BY <1>2, <2>3, CallShape DEF Known
  <2> QED
    BY <2>1, <2>2, <2>3
<1>3. ASSUME NEW p \in Processes, ThreadStep(p) PROVE UNCHANGED <<todo, tables>>
  BY <1>3, ThreadStepShape
<1>4. ASSUME \/ \E p \in Processes : ServerStep(p) \/ \E q \in Processes : DetachedStep(p, q)
             \/ \E c \in Chunks : ChunkStep(c)
      PROVE  UNCHANGED <<todo, tables>>
  BY <1>4, OtherShape
<1>5. CASE UNCHANGED vars
  BY <1>1, <1>5 DEF vars
<1> QED
  BY <1>1, <1>2, <1>3, <1>4, <1>5 DEF Next, Step

\* What a call or what follows it does to the listeners in the definition of the table.
LEMMA ListenersChange ==
  ASSUME IInv, NEW p \in Processes, ThreadStep(p)
  PROVE  \/ UNCHANGED definition
         \/ definition = Undefined /\ definition'.listeners = {} /\ thread[p].at = "sync"
         \/ /\ UpdateListeners(p)
            /\ definition'.listeners = definition.listeners \cup {p}
<1>. USE DEF metaVars, chunkVars, listenVars, triggerVars
<1>1. CASE SyncTableDefinition(p)
  BY <1>1 DEF SyncTableDefinition, TryInsert
<1>2. CASE UpdateListeners(p)
  <2>1. CASE CommitListener(p)
    <3>1. definition' = [definition EXCEPT !.listeners = @ \cup {p}]
      BY <1>2, <2>1 DEF UpdateListeners, CommitListener
    <3>2. definition \in Definitions
      BY DEF IInv, TypeInv, SharedTypes
    <3> QED
      BY <1>2, <3>1, <3>2 DEF Definitions
  <2> QED
    BY <1>2, <2>1 DEF UpdateListeners
<1>3. CASE CreateIndex(p) \/ ReadDefinition(p) \/ JoinIndex(p) \/ Announce(p) \/ ReadListeners(p)
  BY <1>3 DEF CreateIndex, ReadDefinition, JoinIndex, Announce, ReadListeners
<1>4. CASE AttachToNew(p) \/ RegisterNew(p) \/ BeginPush(p) \/ EndPush(p)
  BY <1>4 DEF AttachToNew, RegisterNew, BeginPush, EndPush
<1>5. CASE Seek(p) \/ Connect(p) \/ Connected(p) \/ AttachToCurrent(p)
  BY <1>5 DEF Seek, Connect, Connected, AttachToCurrent
<1> QED
  BY <1>1, <1>2, <1>3, <1>4, <1>5 DEF ThreadStep

\* Only the call that listens counts as one.
LEMMA OtherCallsListen ==
  ASSUME IInv, BaseInv, NEW p \in Processes, Begin(p), ~AddTable(p), ~Kill(p), NEW x \in Processes
  PROVE  /\ UNCHANGED definition
         /\ HasListened(x)' => HasListened(x) \/ thread'[x].at = "update"
<1>. USE DEF metaVars, chunkVars, listenVars, triggerVars
<1>. OtherTypes /\ ThreadType
  BY DEF BaseInv, IInv, TypeInv
<1>1. ASSUME NEW call, Call(p, call), call.call # "listen" PROVE HasListened(x)' => HasListened(x)
  <2>1. call # [call |-> "listen"]
    BY <1>1
  <2> QED
    BY <1>1, <2>1, CallsMade DEF HasListened
<1>2. CASE thread[p] = Idle /\ ReadListeners(p)
  <2>1. Call(p, [call |-> "listen"]) /\ thread'[p].at = "update" /\ UNCHANGED definition
    BY <1>2 DEF ReadListeners, Idle, Goes, ThreadType
  <2>2. x # p => todo'[x] = todo[x]
    BY <2>1, CallsMade
  <2> QED
    BY <2>1, <2>2 DEF HasListened
<1>3. CASE AttachToFuture(p)
  BY <1>1, <1>3 DEF AttachToFuture
<1>4. ASSUME NEW c \in Chunks, NewChunk(p, c)
      PROVE  UNCHANGED definition /\ (HasListened(x)' => HasListened(x))
  BY <1>1, <1>4 DEF NewChunk
<1>5. ASSUME NEW c \in Chunks, GetChunk(p, c)
      PROVE  UNCHANGED definition /\ (HasListened(x)' => HasListened(x))
  BY <1>1, <1>5 DEF GetChunk
<1>6. ASSUME NEW q \in Processes, Follow(p, q)
      PROVE  UNCHANGED definition /\ (HasListened(x)' => HasListened(x))
  BY <1>1, <1>6 DEF Follow
<1> QED
  BY <1>2, <1>3, <1>4, <1>5, <1>6 DEF Begin

\* No commit to the definition is lost, nor a listener that commits.
LEMMA ListenerKept ==
  ASSUME IInv, BaseInv, [Next]_vars, NEW x \in Processes, ListenerFits(x)
  PROVE  ListenerFits(x)'
<1>. OtherTypes /\ PresentFits(x) /\ ThreadType
  BY DEF BaseInv, IInv, TypeInv
<1>1. (Gone(x) => Gone(x)') /\ (Known(x) => Known(x)')
  BY KnownStays
<1>2. ASSUME UNCHANGED definition, HasListened(x)' => HasListened(x) \/ thread'[x].at = "update",
             thread[x].at \in {"update", "retry"} => thread'[x].at \in {"update", "retry"}
      PROVE  ListenerFits(x)'
  BY <1>1, <1>2 DEF ListenerFits
<1>3. UNCHANGED todo => (HasListened(x)' <=> HasListened(x))
  BY DEF HasListened
<1>4. CASE UNCHANGED vars
  BY <1>2, <1>3, <1>4 DEF vars
<1>5. ASSUME NEW p \in Processes, Begin(p) PROVE ListenerFits(x)'
  <2>1. CASE AddTable(p)
    BY <1>2, <1>3, <2>1 DEF AddTable, Idle, Goes, ThreadType
  <2>2. CASE Kill(p)
    <3>1. thread' = thread /\ definition' = definition
      BY <2>2 DEF Kill
    <3>2. x = p => Gone(x)'
      BY <2>2 DEF Kill, OtherTypes, Gone
    <3>3. x # p => todo'[x] = todo[x]
      BY <2>2 DEF Kill, OtherTypes
    <3> QED
      BY <1>1, <3>1, <3>2, <3>3 DEF ListenerFits, HasListened
  <2>3. CASE ~AddTable(p) /\ ~Kill(p)
    <3>1. thread[x].at \in {"update", "retry"} => thread'[x] = thread[x]
      BY <1>5, <2>3, CallShape DEF Idle
    <3>2. UNCHANGED definition /\ (HasListened(x)' => HasListened(x) \/ thread'[x].at = "update")
      BY <1>5, <2>3, OtherCallsListen
    <3> QED
      BY <1>2, <3>1, <3>2
  <2> QED
    BY <2>1, <2>2, <2>3
<1>6. ASSUME NEW p \in Processes, ThreadStep(p) PROVE ListenerFits(x)'
  <2>1. /\ UNCHANGED <<tables, todo>> /\ thread[p].at # "idle"
        /\ \A y \in Processes \ {p} : thread'[y] = thread[y]
    BY <1>6, ThreadStepShape
  <2>2. p \in tables
    BY <2>1 DEF BaseInv, PresentFits
  <2>3. definition.listeners \subseteq definition'.listeners
    BY <1>6, ListenersChange DEF Undefined
  <2>4. x \in definition'.listeners => x \in definition.listeners \/ (x = p /\ x \in tables)
    BY <1>6, <2>2, ListenersChange
  <2>5. thread[x].at \in {"update", "retry"} =>
          thread'[x].at \in {"update", "retry"} \/ x \in definition'.listeners
    <3>1. CASE x # p
      BY <2>1, <3>1
    <3>2. CASE x = p
      <4>1. CASE UpdateListeners(p)
        <5>1. CASE CommitListener(p)
          <6>1. definition' = [definition EXCEPT !.listeners = @ \cup {p}]
            BY <4>1, <5>1 DEF UpdateListeners, CommitListener
          <6> QED
            BY <3>2, <6>1 DEF IInv, TypeInv, SharedTypes, Definitions
        <5>2. CASE ~CommitListener(p)
          BY <3>2, <4>1, <5>2 DEF UpdateListeners, Goes, ThreadType
        <5> QED
          BY <5>1, <5>2
      <4>2. CASE ReadListeners(p)
        BY <3>2, <4>2 DEF ReadListeners, Goes, ThreadType
      <4>3. CASE thread[p].at \notin {"update", "retry"}
        BY <3>2, <4>3
      <4> QED
        BY <1>6, <4>1, <4>2, <4>3
           DEF ThreadStep, SyncTableDefinition, CreateIndex, ReadDefinition, JoinIndex, Announce,
               AttachToNew, RegisterNew, BeginPush, EndPush, Seek, Connect, Connected,
               AttachToCurrent
    <3> QED
      BY <3>1, <3>2
  <2> QED
    BY <1>1, <1>3, <2>1, <2>3, <2>4, <2>5 DEF ListenerFits, Known
<1>7. ASSUME \/ \E p \in Processes : ServerStep(p) \/ \E q \in Processes : DetachedStep(p, q)
             \/ \E c \in Chunks : ChunkStep(c)
      PROVE  ListenerFits(x)'
  <2>1. \A q : Without(thread[x], q).at = thread[x].at
    BY PlaceRest DEF ThreadType
  <2> QED
    BY <1>2, <1>3, <1>7, <2>1, OtherShape
<1> QED
  BY <1>4, <1>5, <1>6, <1>7 DEF Next, Step

\* A listener that hears of the peer still does if nothing on the way is lost.
LEMMA HearingStays ==
  ASSUME NEW l, NEW x, HeardFits(l, x), Known(l) => Known(l)', Gone(l) => Gone(l)',
         UNCHANGED heard, listening[x] \subseteq listening'[x], detached \subseteq detached',
         server[x].type \in {"listen", "listed"} => server'[x] = server[x],
         thread[x].at \in {"join", "announce"} => thread'[x] = thread[x]
  PROVE  HeardFits(l, x)'
<1>1. Hears(l, x) => Hears(l, x)'
  BY DEF Hears, ListenJob
<1> QED
  BY <1>1 DEF HeardFits

\* addTable: the listeners that are read are all announced to.
LEMMA AnnounceHeard ==
  ASSUME IInv, BaseInv, JoinInv, NEW p \in Processes, NEW x \in Processes, NEW l \in Processes,
         ReadDefinition(p) \/ JoinIndex(p) \/ Announce(p)
  PROVE  HeardFits(l, x)'
<1>. USE DEF metaVars, chunkVars, listenVars, triggerVars
<1>0. PresentFits(l) /\ HeardFits(l, x) /\ ListenerFits(l) /\ ThreadType /\ thread[p] \in Places
  BY DEF IInv, TypeInv, ThreadType, BaseInv, JoinInv
<1>1. /\ UNCHANGED <<tables, todo, listening, server>>
      /\ Known(l)' <=> Known(l)
      /\ Gone(l)' <=> Gone(l)
  BY DEF ReadDefinition, JoinIndex, Announce, Known, Gone
<1>2. CASE ReadDefinition(p)
  <2>1. /\ UNCHANGED detached /\ thread[p].at = "read"
        /\ thread'[p] = [at |-> "join", rest |-> definition.listeners]
        /\ \A y \in Processes \ {p} : thread'[y] = thread[y]
        /\ heard' = heard \cup {<<k, p>> : k \in definition.listeners}
    BY <1>0, <1>2 DEF ReadDefinition, Goes, ThreadType
  <2>2. CASE x = p /\ l \in definition.listeners
    BY <1>0, <1>1, <2>1, <2>2 DEF ListenerFits, HeardFits, Hears
  <2>3. CASE ~(x = p /\ l \in definition.listeners)
    <3>1. <<l, x>> \in heard' => <<l, x>> \in heard
      BY <2>1, <2>3
    <3>2. Hears(l, x) => Hears(l, x)'
      BY <1>1, <2>1 DEF Hears
    <3> QED
      BY <1>0, <1>1, <3>1, <3>2 DEF HeardFits
  <2> QED
    BY <2>2, <2>3
<1>3. CASE JoinIndex(p)
  <2>1. thread[p].at = "join" => [thread[p] EXCEPT !.at = "announce"].at = "announce"
                                 /\ [thread[p] EXCEPT !.at = "announce"].rest = thread[p].rest
    BY <1>0 DEF Places
  <2>2. /\ UNCHANGED <<heard, detached>> /\ thread[p].at = "join"
        /\ \/ thread' = thread
           \/ /\ thread'[p].at = "announce" /\ thread'[p].rest = thread[p].rest
              /\ \A y \in Processes \ {p} : thread'[y] = thread[y]
    BY <1>0, <1>3, <2>1 DEF JoinIndex, Goes, ThreadType
  <2>3. Hears(l, x) => Hears(l, x)'
    BY <1>1, <2>2 DEF Hears
  <2> QED
    BY <1>0, <1>1, <2>2, <2>3 DEF HeardFits
<1>4. CASE Announce(p) /\ thread[p].rest = {}
  <2>1. /\ UNCHANGED <<heard, detached>>
        /\ \A y \in Processes \ {p} : thread'[y] = thread[y]
    BY <1>0, <1>4 DEF Announce, Returns, Goes, ThreadType
  <2>2. Hears(l, x) => Hears(l, x)'
    BY <1>1, <1>4, <2>1 DEF Hears
  <2> QED
    BY <1>0, <1>1, <2>1, <2>2 DEF HeardFits
<1>5. CASE Announce(p) /\ thread[p].rest # {}
  <2>1. PICK k \in thread[p].rest :
          /\ Goes(p, Without(thread[p], k))
          /\ detached' = IF k \in tables THEN handleAnnounceToListeners(k, p) ELSE detached
    BY <1>5 DEF Announce, Without
  <2>2. /\ Without(thread[p], k).at = thread[p].at
        /\ thread[p].at = "announce" => Without(thread[p], k).rest = thread[p].rest \ {k}
    BY <1>0, PlaceRest DEF Places, Without
  <2>3. /\ UNCHANGED heard /\ thread[p].at = "announce" /\ detached \subseteq detached'
        /\ thread'[p].at = "announce" /\ thread'[p].rest = thread[p].rest \ {k}
        /\ \A y \in Processes \ {p} : thread'[y] = thread[y]
        /\ k \in tables => ListenJob(k, p) \in detached'
    BY <1>0, <1>5, <2>1, <2>2
       DEF Announce, Goes, ThreadType, handleAnnounceToListeners, ListenJob
  <2>4. <<l, x>> \in heard /\ Known(l) /\ Hears(l, x) => Hears(l, x)'
    <3>1. CASE x = p /\ l = k
      BY <1>1, <2>3, <3>1 DEF Hears, Known
    <3>2. CASE x = p /\ l # k
      BY <1>1, <2>3, <3>2 DEF Hears, ListenJob
    <3>3. CASE x # p
      BY <1>1, <2>3, <3>3 DEF Hears, ListenJob
    <3> QED
      BY <3>1, <3>2, <3>3
  <2> QED
    BY <1>0, <1>1, <2>3, <2>4 DEF HeardFits
<1> QED
  BY <1>2, <1>3, <1>4, <1>5

\* listenToChunksFromPeer and its handler: who asks to be a listener becomes one.
LEMMA ListenHeard ==
  ASSUME IInv, BaseInv, JoinInv, NEW p \in Processes, NEW x \in Processes, NEW l \in Processes,
         ListChunks(p) \/ AddListener(p) \/ \E k \in Processes : RequestChunks(k, p)
  PROVE  HeardFits(l, x)'
<1>. USE DEF metaVars, chunkVars, listenVars, triggerVars
<1>0. HeardFits(l, x) /\ ThreadType /\ ServerType /\ listening \in [Processes -> SUBSET Processes]
  BY DEF IInv, TypeInv, SharedTypes, JoinInv
<1>1. UNCHANGED <<tables, todo, heard>>
  BY DEF ListChunks, AddListener, RequestChunks
<1>2. (Known(l) => Known(l)') /\ (Gone(l) => Gone(l)')
  BY <1>1 DEF Known, Gone
<1>3. CASE ListChunks(p)
  <2>1. /\ UNCHANGED <<thread, listening, detached>>
        /\ server'[p].type = "listed" /\ server'[p].by = server[p].by
        /\ \A y \in Processes \ {p} : server'[y] = server[y]
    BY <1>0, <1>3 DEF ListChunks, ServerType
  <2>2. Hears(l, x) => Hears(l, x)'
    BY <1>2, <2>1 DEF Hears
  <2> QED
    BY <1>0, <1>1, <1>2, <2>2 DEF HeardFits
<1>4. CASE AddListener(p)
  <2>1. /\ server[p].type = "listed"
        /\ listening'[p] = listening[p] \cup {server[p].by}
        /\ \A y \in Processes \ {p} : listening'[y] = listening[y] /\ server'[y] = server[y]
    BY <1>0, <1>4 DEF AddListener, ServerType
  <2>2. \A y \in Processes : thread[y].at \in {"join", "announce"} => thread'[y] = thread[y]
    BY <1>0, <1>4 DEF AddListener, Returns, Goes, ThreadType
  <2>3. detached \ {ListenJob(server[p].by, p)} \subseteq detached'
    BY <1>4 DEF AddListener, ListenJob
  <2>4. Hears(l, x) => Hears(l, x)'
    <3>1. CASE x = p /\ l = server[p].by
      BY <2>1, <3>1 DEF Hears
    <3>2. CASE ~(x = p /\ l = server[p].by)
      <4>1. ListenJob(l, x) # ListenJob(server[p].by, p)
        BY <3>2 DEF ListenJob
      <4>2. ListenJob(l, x)' = ListenJob(l, x)
        BY DEF ListenJob
      <4>3. x = p => ~(server[x].by = l)
        BY <3>2
      <4> QED
        BY <1>2, <2>1, <2>2, <2>3, <4>1, <4>2, <4>3 DEF Hears
    <3> QED
      BY <3>1, <3>2
  <2> QED
    BY <1>0, <1>1, <1>2, <2>4 DEF HeardFits
<1>5. ASSUME NEW k \in Processes, RequestChunks(k, p) PROVE HeardFits(l, x)'
  <2>1. /\ UNCHANGED <<thread, listening, detached>> /\ server[p] = NoRequest
        /\ \A y \in Processes \ {p} : server'[y] = server[y]
    BY <1>0, <1>5 DEF RequestChunks, ServerType
  <2> QED
    BY <1>0, <1>1, <1>2, <2>1, HearingStays DEF NoRequest
<1> QED
  BY <1>3, <1>4, <1>5

\* Adding a peer to a chunk has nothing to do with it.
LEMMA InviteHeard ==
  ASSUME IInv, BaseInv, JoinInv, NEW x \in Processes, NEW l \in Processes,
         \/ \E p \in Processes : HandleInit(p) \/ HandleInitEnd(p)
         \/ \E p \in Processes, q \in Processes, c \in Chunks, by \in {"push", "share", "connect"} :
              Skip(p, q, c, by) \/ Invite(p, q, c, by)
         \/ \E c \in Chunks : ChunkStep(c)
  PROVE  HeardFits(l, x)'
<1>. USE DEF metaVars, chunkVars, listenVars, triggerVars
<1>0. HeardFits(l, x) /\ ThreadType /\ ServerType /\ OtherTypes
  BY DEF IInv, TypeInv, JoinInv, BaseInv
<1>1. ASSUME UNCHANGED <<tables, todo, heard, listening>>,
             ListenJob(l, x) \in detached => ListenJob(l, x) \in detached',
             server[x].type \in {"listen", "listed"} => server'[x] = server[x],
             thread[x].at \in {"join", "announce"} => thread'[x] = thread[x]
      PROVE  HeardFits(l, x)'
  <2>1. (Known(l) => Known(l)') /\ (Gone(l) => Gone(l)') /\ ListenJob(l, x)' = ListenJob(l, x)
    BY <1>1 DEF Known, Gone, ListenJob
  <2>2. Hears(l, x) => Hears(l, x)'
    BY <1>1, <2>1 DEF Hears
  <2> QED
    BY <1>0, <1>1, <2>1, <2>2 DEF HeardFits
<1>2. ASSUME NEW p \in Processes, NEW q, NEW c, NEW by \in {"push", "share", "connect"},
             Invited(p, q, c, by), by = "push" => thread[p].at = "push" /\ thread[p].chunk = c
      PROVE  /\ ListenJob(l, x) \in detached => ListenJob(l, x) \in detached'
             /\ thread[x].at \in {"join", "announce"} => thread'[x] = thread[x]
  <2>1. thread[x].at \in {"join", "announce"} => thread'[x] = thread[x]
    BY <1>2, InvitedThreads
  <2>2. ListenJob(l, x) # [at |-> by, of |-> p, to |-> q, chunk |-> c]
    BY <1>2 DEF ListenJob
  <2> QED
    BY <1>2, <2>1, <2>2 DEF Invited
<1>3. ASSUME NEW p \in Processes, HandleInit(p) PROVE HeardFits(l, x)'
  BY <1>0, <1>1, <1>3 DEF HandleInit, ServerType
<1>4. ASSUME NEW p \in Processes, HandleInitEnd(p) PROVE HeardFits(l, x)'
  BY <1>0, <1>1, <1>4 DEF HandleInitEnd, ServerType
<1>5. ASSUME NEW p \in Processes, NEW q \in Processes, NEW c \in Chunks,
             NEW by \in {"push", "share", "connect"}, Skip(p, q, c, by)
      PROVE  HeardFits(l, x)'
  <2>1. /\ UNCHANGED <<tables, todo, heard, listening, server>> /\ Invited(p, q, c, by)
        /\ by = "push" => thread[p].at = "push" /\ thread[p].chunk = c
    BY <1>5 DEF Skip, Invites
  <2> QED
    BY <1>1, <1>2, <2>1
<1>6. ASSUME NEW p \in Processes, NEW q \in Processes, NEW c \in Chunks,
             NEW by \in {"push", "share", "connect"}, Invite(p, q, c, by)
      PROVE  HeardFits(l, x)'
  BY <1>0, <1>1, <1>6 DEF Invite, NoRequest, ServerType
<1>7. ASSUME NEW c \in Chunks, Added(c) PROVE HeardFits(l, x)'
  <2>1. /\ UNCHANGED <<tables, todo, heard, listening, server>> /\ inviting[c] # NoInvitation
        /\ Invited(inviting[c].of, inviting[c].to, c, inviting[c].by)
    BY <1>7 DEF Added
  <2>2. inviting[c].of \in Processes /\ inviting[c].by \in {"push", "share", "connect"}
    BY <1>0, <2>1 DEF OtherTypes, Invitations
  <2>3. inviting[c].by = "push" =>
          thread[inviting[c].of].at = "push" /\ thread[inviting[c].of].chunk = c
    BY <2>1 DEF BaseInv, InvitationFits
  <2>4. /\ ListenJob(l, x) \in detached => ListenJob(l, x) \in detached'
        /\ thread[x].at \in {"join", "announce"} => thread'[x] = thread[x]
    BY <1>2, <2>1, <2>2, <2>3
  <2> QED
    BY <1>1, <2>1, <2>4
<1>8. ASSUME NEW c \in Chunks, NEW p \in Processes, RegisterInvited(p, c) PROVE HeardFits(l, x)'
  <2>1. ListenJob(l, x) # HoldJob(p, c)
    BY DEF ListenJob, HoldJob
  <2>2. detached' = detached \ {HoldJob(p, c)}
    BY <1>8 DEF RegisterInvited, HoldJob
  <2> QED
    BY <1>1, <1>8, <2>1, <2>2 DEF RegisterInvited
<1> QED
  BY <1>3, <1>4, <1>5, <1>6, <1>7, <1>8 DEF ChunkStep

\* A listener hears of every process that has read that it is one: always.
LEMMA HeardKept ==
  ASSUME IInv, BaseInv, JoinInv, [Next]_vars, NEW x \in Processes, NEW l \in Processes
  PROVE  HeardFits(l, x)'
<1>. USE DEF metaVars, chunkVars, listenVars, triggerVars
<1>0. HeardFits(l, x) /\ ThreadType
  BY DEF IInv, TypeInv, JoinInv
<1>1. (Known(l) => Known(l)') /\ (Gone(l) => Gone(l)')
  BY KnownStays
<1>2. ASSUME UNCHANGED <<heard, listening, server>>, detached \subseteq detached',
             thread[x].at \in {"join", "announce"} => thread'[x] = thread[x]
      PROVE  HeardFits(l, x)'
  BY <1>0, <1>1, <1>2, HearingStays
<1>3. CASE UNCHANGED vars
  BY <1>2, <1>3 DEF vars
<1>4. ASSUME NEW p \in Processes, Begin(p) PROVE HeardFits(l, x)'
  <2>1. UNCHANGED <<heard, listening, server, detached>>
    BY <1>4 DEF Begin, AddTable, ReadListeners, AttachToFuture, Kill, NewChunk, GetChunk, Follow
  <2>2. CASE AddTable(p) \/ Kill(p)
    BY <1>0, <1>2, <2>1, <2>2 DEF AddTable, Kill, Idle, Goes, ThreadType
  <2>3. CASE ~AddTable(p) /\ ~Kill(p)
    BY <1>2, <1>4, <2>1, <2>3, CallShape DEF Idle
  <2> QED
    BY <2>2, <2>3
<1>5. ASSUME NEW p \in Processes, ThreadStep(p) PROVE HeardFits(l, x)'
  <2>1. CASE ReadDefinition(p) \/ JoinIndex(p) \/ Announce(p)
    BY <2>1, AnnounceHeard
  <2>2. CASE ~(ReadDefinition(p) \/ JoinIndex(p) \/ Announce(p))
    <3>1. thread[p].at \notin {"join", "announce"} /\ UNCHANGED <<heard, listening, server>>
      <4>1. CASE SyncTableDefinition(p) \/ CreateIndex(p) \/ UpdateListeners(p)
        BY <4>1 DEF SyncTableDefinition, CreateIndex, UpdateListeners
      <4>2. CASE thread[p].at = "retry" /\ ReadListeners(p)
        BY <4>2 DEF ReadListeners
      <4>3. CASE AttachToNew(p) \/ RegisterNew(p) \/ BeginPush(p) \/ EndPush(p)
        BY <4>3 DEF AttachToNew, RegisterNew, BeginPush, EndPush
      <4>4. CASE Seek(p) \/ Connect(p) \/ Connected(p) \/ AttachToCurrent(p)
        BY <4>4 DEF Seek, Connect, Connected, AttachToCurrent
      <4> QED
        BY <1>5, <2>2, <4>1, <4>2, <4>3, <4>4 DEF ThreadStep
    <3>2. detached \subseteq detached'
      <4>1. CASE Connect(p)
        BY <4>1 DEF Connect
      <4> QED
        BY <1>5, <2>2, <4>1
           DEF ThreadStep, SyncTableDefinition, CreateIndex, UpdateListeners, ReadListeners,
               AttachToNew, RegisterNew, BeginPush, EndPush, Seek, Connected, AttachToCurrent
    <3>3. x # p => thread'[x] = thread[x]
      BY <1>0, <1>5, ThreadStepShape
    <3> QED
      BY <1>2, <3>1, <3>2, <3>3
  <2> QED
    BY <2>1, <2>2
<1>6. ASSUME NEW p \in Processes, ServerStep(p) PROVE HeardFits(l, x)'
  BY <1>6, ListenHeard, InviteHeard DEF ServerStep
<1>7. ASSUME NEW p \in Processes, NEW q \in Processes, DetachedStep(p, q) PROVE HeardFits(l, x)'
  BY <1>7, ListenHeard, InviteHeard DEF DetachedStep
<1>8. ASSUME NEW c \in Chunks, ChunkStep(c) PROVE HeardFits(l, x)'
  BY <1>8, InviteHeard
<1> QED
  BY <1>3, <1>4, <1>5, <1>6, <1>7, <1>8 DEF Next, Step

\* At first nobody has joined.
LEMMA InitJoins == Init => JoinInv
BY DEF Init, Undefined, JoinInv, ListenerFits, HasListened, HeardFits

\* listenToPeersJoiningTable and announceToListeners: whatever overlaps, neither a listener that
\* another commit may have overwritten is lost, nor an announcement that a thread has yet to act on.
THEOREM JoinersHeard == Spec => []JoinersAreHeard
<1>1. IInv /\ BaseInv /\ JoinInv => JoinersAreHeard
  <2> SUFFICES ASSUME IInv, BaseInv, JoinInv PROVE JoinersAreHeard
    OBVIOUS
  <2>1. ASSUME NEW p \in Processes, p \in index, thread[p] = Idle,
               [call |-> "listen"] \in Calls[p] \ todo[p]
        PROVE  p \in definition.listeners
    <3>1. ~Gone(p) /\ ListenerFits(p)
      BY <2>1 DEF BaseInv, OtherTypes, PresentFits, JoinInv
    <3> QED
      BY <2>1, <3>1 DEF ListenerFits, HasListened, Idle
  <2>2. ASSUME AtRest, NEW h \in heard, h[1] \in tables, h[2] \in index
        PROVE  h[1] \in listening[h[2]]
    <3>1. PICK l \in Processes, p \in Processes : h = <<l, p>>
      BY DEF BaseInv, OtherTypes
    <3>2. ~Gone(l) /\ HeardFits(l, p)
      BY <2>2, <3>1 DEF BaseInv, PresentFits, JoinInv
    <3>3. thread[p] = Idle /\ server[p] = NoRequest /\ detached = {}
      BY <2>2 DEF AtRest, Quiet
    <3> QED
      BY <3>1, <3>2, <3>3 DEF HeardFits, Hears, Idle, NoRequest
  <2> QED
    BY <2>1, <2>2 DEF JoinersAreHeard
<1>2. Init => IInv /\ BaseInv /\ JoinInv
  BY InitKeeps, InitBase, InitJoins
<1>3. IInv /\ BaseInv /\ JoinInv /\ [Next]_vars => (IInv /\ BaseInv /\ JoinInv)'
  <2>1. IInv /\ BaseInv /\ JoinInv /\ [Next]_vars => JoinInv'
    BY ListenerKept, HeardKept DEF JoinInv
  <2> QED
    BY <2>1, NextKeeps, BaseKeeps
<1> QED
  BY <1>1, <1>2, <1>3, PTL DEF Spec

--------------------------------------------------------------------------------
(* Who has a chunk, when departures do not overlap with anything. *)

\* newChunk: no two processes generate the same id (generateId).
FreshIds ==
  \A p, q \in Processes, c \in Chunks :
    [call |-> "new", chunk |-> c] \in Calls[p] \cap Calls[q] => p = q

\* A chunk that is yet to be created is nobody's, one that p has created p has until it leaves.
NewFits(p, c) ==
  /\ [call |-> "new", chunk |-> c] \in todo[p] =>
       [call |-> "new", chunk |-> c] \in Calls[p] /\ \A q \in Processes : c \notin active[q]
  /\ c \in created[p] => c \in active[p] \/ Gone(p)

\* Who has the chunk is in its swarm, or is about to be.
SwarmFits(p, c) ==
  /\ p \in swarm[c] => c \in active[p] /\ inviting[c].to # p
  /\ c \in active[p] =>
       p \in swarm[c] \/ (inviting[c].to = p /\ (inviting[c].accepted \/ Arrived(p, c)))
  /\ inviting[c].to = p => p \in tables /\ (inviting[c].accepted => c \in active[p])

\* Who has the chunk is in the index, or is about to be.
Registers(p, c) ==
  \/ thread[p].at \in {"emplaced", "hold"} /\ thread[p].chunk = c
  \/ HoldJob(p, c) \in detached \/ Arrived(p, c)
HoldersFit(p, c) ==
  /\ p \in holders[c] => c \in active[p]
  /\ c \in active[p] => p \in holders[c] \/ Registers(p, c)
  /\ Registers(p, c) => c \in active[p]

\* Who offers the chunk has it, and who is offered it has the table.
OffersFit(p, c) ==
  /\ thread[p].at \in {"created", "push"} /\ thread[p].chunk = c => c \in active[p]
  /\ \A l \in Processes :
       ShareJob(p, l, c) \in detached \/ ConnectJob(p, l, c) \in detached =>
         c \in active[p] /\ l \in tables
  /\ inviting[c] # NoInvitation /\ inviting[c].of = p => c \in active[p]

\* getChunk finds somebody.
GetFits(p) ==
  /\ thread[p].at = "seek" => holders[thread[p].chunk] \ {p} # {}
  /\ thread[p].at = "connect" => thread[p].to \in holders[thread[p].chunk]

\* The chunks that have been listed are those there are until the listener is added.
RequestFits(p) ==
  /\ server[p].type = "listed" => server[p].chunks = active[p] /\ "server" \in lock[p].readers
  /\ server[p].type \in {"listen", "listed"} => server[p].by \in tables
  /\ \A q \in Processes : ListenJob(p, q) \in detached => p \in tables

\* A chunk of p reaches a listener that has the table, or will.
Reaches(p, l, c) ==
  \/ c \in active[l] \/ inviting[c].to = l
  \/ thread[p].at \in {"emplaced", "hold", "created"} /\ thread[p].chunk = c
  \/ thread[p].at = "push" /\ thread[p].chunk = c /\ l \in thread[p].rest
  \/ ShareJob(p, l, c) \in detached
SharesFit(p, l) ==
  l \in listening[p] =>
    Known(l) /\ (l \in tables => \A c \in created[p] \cap active[p] : Reaches(p, l, c))

Fits(p, c) == SwarmFits(p, c) /\ HoldersFit(p, c) /\ OffersFit(p, c) /\ NewFits(p, c)
AgreeInv ==
  \A p \in Processes :
    /\ GetFits(p) /\ RequestFits(p) /\ \A l \in Processes : SharesFit(p, l)
    /\ \A c \in Chunks : Fits(p, c)

\* What the invariant rests on.
Holds == IInv /\ BaseInv /\ AgreeInv

\* Where a thread has something to do with a chunk.
ChunkPlaces == {"emplaced", "hold", "created", "push", "seek", "connect"}

\* A step that no chunk takes part in.
ChunksStay == UNCHANGED <<holders, swarm, inviting, active, listening, created>>
JobsStay ==
  \A p, q \in Processes, c \in Chunks :
    /\ ShareJob(p, q, c) \in detached' <=> ShareJob(p, q, c) \in detached
    /\ ConnectJob(p, q, c) \in detached' <=> ConnectJob(p, q, c) \in detached
    /\ HoldJob(p, c) \in detached' <=> HoldJob(p, c) \in detached
ThreadStays(p) ==
  thread'[p] = thread[p] \/ (thread[p].at \notin ChunkPlaces /\ thread'[p].at \notin ChunkPlaces)
ServerStays(p) ==
  \/ server'[p] = server[p]
  \/ /\ server[p].type \notin {"init", "emplaced"}
     /\ server'[p].type \notin {"init", "emplaced"}
TodoStays(p) ==
  \A c \in Chunks :
    [call |-> "new", chunk |-> c] \in todo'[p] => [call |-> "new", chunk |-> c] \in todo[p]

\* A chunk still reaches a listener if it did; one that has the table had it.
LEMMA SharesStay ==
  ASSUME IInv, BaseInv, BaseInv', [Next]_vars, NEW p \in Processes, NEW l \in Processes,
         SharesFit(p, l), l \in listening'[p] => l \in listening[p],
         \A c \in Chunks :
           /\ c \in created'[p] \cap active'[p] =>
                c \in created[p] \cap active[p] \/ Reaches(p, l, c)'
           /\ Reaches(p, l, c) /\ l \in listening[p] /\ l \in tables => Reaches(p, l, c)'
  PROVE  SharesFit(p, l)'
<1>1. (Gone(l) => Gone(l)') /\ (Known(l) => Known(l)')
  BY KnownStays
<1>2. Known(l) /\ l \in tables' => l \in tables
  BY <1>1 DEF BaseInv, PresentFits, Known
<1>3. created'[p] \subseteq Chunks
  BY DEF BaseInv, OtherTypes
<1> QED
  BY <1>1, <1>2, <1>3 DEF SharesFit

\* Such a step keeps everything, but for what is asked of a listenThread.
LEMMA PlainFits ==
  ASSUME Holds, BaseInv', [Next]_vars, ChunksStay, JobsStay, tables \subseteq tables',
         \A p \in Processes : ThreadStays(p) /\ ServerStays(p) /\ TodoStays(p),
         NEW p \in Processes
  PROVE  /\ GetFits(p)' /\ \A l \in Processes : SharesFit(p, l)'
         /\ \A c \in Chunks : Fits(p, c)'
<1>0. ThreadStays(p) /\ ServerStays(p) /\ TodoStays(p)
  OBVIOUS
<1>1. GetFits(p) /\ \A l \in Processes : SharesFit(p, l)
  BY DEF Holds, AgreeInv
<1>2. ASSUME NEW c \in Chunks PROVE Arrived(p, c)' <=> Arrived(p, c)
  BY <1>0 DEF ServerStays, Arrived
<1>3. GetFits(p)'
  BY <1>0, <1>1 DEF GetFits, ThreadStays, ChunkPlaces, ChunksStay
<1>4. ASSUME NEW l \in Processes PROVE SharesFit(p, l)'
  <2>1. ASSUME NEW c \in Chunks, Reaches(p, l, c) PROVE Reaches(p, l, c)'
    <3>1. ShareJob(p, l, c)' \in detached' <=> ShareJob(p, l, c) \in detached
      BY DEF JobsStay, ShareJob
    <3> QED
      BY <1>0, <2>1, <3>1 DEF Reaches, ThreadStays, ChunkPlaces, ChunksStay
  <2> QED
    BY <1>1, <2>1, SharesStay DEF Holds, ChunksStay
<1>5. ASSUME NEW c \in Chunks PROVE Fits(p, c)'
  <2>1. Fits(p, c)
    BY DEF Holds, AgreeInv
  <2>2. SwarmFits(p, c)'
    BY <1>2, <2>1 DEF Fits, SwarmFits, ChunksStay
  <2>3. HoldersFit(p, c)'
    <3>1. HoldJob(p, c)' \in detached' <=> HoldJob(p, c) \in detached
      BY DEF JobsStay, HoldJob
    <3>2. Registers(p, c)' <=> Registers(p, c)
      BY <1>0, <1>2, <3>1 DEF Registers, ThreadStays, ChunkPlaces
    <3> QED
      BY <2>1, <3>2 DEF Fits, HoldersFit, ChunksStay
  <2>4. OffersFit(p, c)'
    <3>1. thread'[p].at \in {"created", "push"} => thread'[p] = thread[p]
      BY <1>0 DEF ThreadStays, ChunkPlaces
    <3>2. ASSUME NEW l \in Processes
          PROVE  /\ ShareJob(p, l, c)' \in detached' <=> ShareJob(p, l, c) \in detached
                 /\ ConnectJob(p, l, c)' \in detached' <=> ConnectJob(p, l, c) \in detached
      BY DEF JobsStay, ShareJob, ConnectJob
    <3> QED
      BY <2>1, <3>1, <3>2 DEF Fits, OffersFit, ChunksStay
  <2>5. NewFits(p, c)'
    BY <1>0, <2>1, KnownStays DEF Holds, Fits, NewFits, TodoStays, ChunksStay
  <2> QED
    BY <2>2, <2>3, <2>4, <2>5 DEF Fits
<1> QED
  BY <1>3, <1>4, <1>5

\* The steps that no chunk takes part in.
PlainSteps ==
  \/ \E p \in Processes :
       \/ AddTable(p) \/ SyncTableDefinition(p) \/ CreateIndex(p) \/ ReadDefinition(p)
       \/ JoinIndex(p) \/ Announce(p) \/ UpdateListeners(p)
       \/ (thread[p] = Idle \/ thread[p].at = "retry") /\ ReadListeners(p)
       \/ AttachToFuture(p) \/ AttachToCurrent(p) \/ Connected(p) \/ ListChunks(p)
  \/ \E p, q \in Processes : Follow(p, q) \/ RequestChunks(p, q)
  \/ UNCHANGED vars
PlainShape ==
  /\ ChunksStay /\ JobsStay /\ tables \subseteq tables'
  /\ \A p \in Processes : ThreadStays(p) /\ ServerStays(p) /\ TodoStays(p)

\* They are such steps: addTable and what follows it, ...
LEMMA AddTableIsPlain ==
  ASSUME IInv, BaseInv, NEW p \in Processes,
         \/ AddTable(p) \/ SyncTableDefinition(p) \/ CreateIndex(p) \/ ReadDefinition(p)
         \/ JoinIndex(p) \/ Announce(p)
  PROVE  PlainShape
<1>. USE DEF metaVars, chunkVars, listenVars, triggerVars
<1>0. ThreadType /\ thread[p] \in Places
  BY DEF IInv, TypeInv, ThreadType
<1>1. ChunksStay /\ tables \subseteq tables' /\ UNCHANGED <<server, todo>>
  BY DEF AddTable, SyncTableDefinition, CreateIndex, ReadDefinition, JoinIndex, Announce, ChunksStay
<1>2. JobsStay
  <2>1. UNCHANGED detached \/ \E l : detached' = detached \cup {ListenJob(l, p)}
    BY DEF AddTable, SyncTableDefinition, CreateIndex, ReadDefinition, JoinIndex, Announce,
           handleAnnounceToListeners, ListenJob
  <2> QED
    BY <2>1 DEF JobsStay, ListenJob, ShareJob, ConnectJob, HoldJob
<1>3. \A x \in Processes \ {p} : thread'[x] = thread[x]
  BY <1>0 DEF AddTable, SyncTableDefinition, CreateIndex, ReadDefinition, JoinIndex, Announce,
              Returns, Goes, ThreadType
<1>4. ThreadStays(p)
  <2>1. CASE AddTable(p)
    BY <1>0, <2>1 DEF AddTable, Idle, Goes, ThreadType, ThreadStays, ChunkPlaces
  <2>2. CASE SyncTableDefinition(p) \/ CreateIndex(p) \/ ReadDefinition(p)
    BY <1>0, <2>2 DEF SyncTableDefinition, CreateIndex, ReadDefinition, Returns, Idle, Goes,
                      ThreadType, ThreadStays, ChunkPlaces
  <2>3. CASE JoinIndex(p)
    <3>1. thread[p].at = "join" => [thread[p] EXCEPT !.at = "announce"].at = "announce"
      BY <1>0 DEF Places
    <3> QED
      BY <1>0, <2>3, <3>1 DEF JoinIndex, Goes, ThreadType, ThreadStays, ChunkPlaces
  <2>4. CASE Announce(p)
    <3>1. \A l : Without(thread[p], l).at = thread[p].at
      BY <1>0, PlaceRest
    <3>2. Returns(p) \/ \E l : Goes(p, Without(thread[p], l))
      BY <2>4 DEF Announce, Without
    <3> QED
      BY <1>0, <2>4, <3>1, <3>2
         DEF Announce, Returns, Idle, Goes, ThreadType, ThreadStays, ChunkPlaces
  <2> QED
    BY <2>1, <2>2, <2>3, <2>4
<1> QED
  BY <1>1, <1>2, <1>3, <1>4 DEF PlainShape, ThreadStays, ServerStays, TodoStays

\* ... the calls about listeners and triggers, and the end of getChunk, ...
LEMMA CallsArePlain ==
  ASSUME IInv, BaseInv, NEW p \in Processes,
         \/ (thread[p] = Idle \/ thread[p].at = "retry") /\ ReadListeners(p)
         \/ UpdateListeners(p) \/ AttachToFuture(p) \/ AttachToCurrent(p) \/ Connected(p)
         \/ \E q \in Processes : Follow(p, q)
  PROVE  PlainShape
<1>. USE DEF metaVars, chunkVars, listenVars, triggerVars
<1>0. ThreadType /\ OtherTypes
  BY DEF IInv, TypeInv, BaseInv
<1>1. ChunksStay /\ UNCHANGED <<tables, server, detached>>
  BY DEF ReadListeners, UpdateListeners, AttachToFuture, AttachToCurrent, Connected, Follow, ChunksStay
<1>2. JobsStay
  BY <1>1 DEF JobsStay, ShareJob, ConnectJob, HoldJob
<1>3. \A x \in Processes : TodoStays(x)
  <2>1. UNCHANGED todo \/ \E call : Call(p, call)
    BY DEF ReadListeners, UpdateListeners, AttachToFuture, AttachToCurrent, Connected, Follow
  <2> QED
    BY <1>0, <2>1, CallsMade DEF TodoStays
<1>4. \A x \in Processes \ {p} : thread'[x] = thread[x]
  BY <1>0 DEF ReadListeners, UpdateListeners, AttachToFuture, AttachToCurrent, Connected, Follow,
              Returns, Goes, ThreadType
<1>5. ThreadStays(p)
  <2>1. ASSUME thread[p].at \notin ChunkPlaces,
               NEW place, Goes(p, place), place.at \notin ChunkPlaces
        PROVE  ThreadStays(p)
    BY <1>0, <2>1 DEF Goes, ThreadType, ThreadStays
  <2>2. CASE (thread[p] = Idle \/ thread[p].at = "retry") /\ ReadListeners(p)
    BY <2>1, <2>2 DEF ReadListeners, Idle, ChunkPlaces
  <2>3. CASE UpdateListeners(p)
    BY <2>1, <2>3 DEF UpdateListeners, Returns, Idle, ChunkPlaces
  <2>4. CASE AttachToFuture(p)
    BY <2>1, <2>4 DEF AttachToFuture, CanCall, Idle, ChunkPlaces
  <2>5. CASE AttachToCurrent(p) \/ Connected(p)
    BY <2>1, <2>5 DEF AttachToCurrent, Connected, Returns, Idle, ChunkPlaces
  <2>6. ASSUME NEW q \in Processes, Follow(p, q) PROVE ThreadStays(p)
    BY <2>1, <2>6 DEF Follow, CanCall, Idle, ChunkPlaces
  <2> QED
    BY <2>2, <2>3, <2>4, <2>5, <2>6
<1> QED
  BY <1>1, <1>2, <1>3, <1>4, <1>5 DEF PlainShape, ThreadStays, ServerStays

\* ... and a process asking another one to list its chunks.
LEMMA RequestsArePlain ==
  ASSUME IInv, BaseInv, NEW p \in Processes,
         ListChunks(p) \/ \E l \in Processes : RequestChunks(l, p)
  PROVE  PlainShape
<1>. USE DEF metaVars, chunkVars, listenVars, triggerVars
<1>0. ServerType
  BY DEF IInv, TypeInv
<1>1. ChunksStay /\ UNCHANGED <<tables, thread, todo, detached>>
  BY DEF ListChunks, RequestChunks, ChunksStay
<1>2. JobsStay
  BY <1>1 DEF JobsStay, ShareJob, ConnectJob, HoldJob
<1>3. ASSUME NEW x \in Processes PROVE ServerStays(x)
  <2>1. CASE ListChunks(p)
    BY <1>0, <2>1 DEF ListChunks, ServerType, ServerStays
  <2>2. ASSUME NEW l \in Processes, RequestChunks(l, p) PROVE ServerStays(x)
    BY <1>0, <2>2 DEF RequestChunks, NoRequest, ServerType, ServerStays
  <2> QED
    BY <2>1, <2>2
<1> QED
  BY <1>1, <1>2, <1>3 DEF PlainShape, ThreadStays, TodoStays

\* So all of them are.
LEMMA PlainStepsArePlain ==
  ASSUME IInv, BaseInv, PlainSteps
  PROVE  PlainShape
<1>1. CASE UNCHANGED vars
  BY <1>1 DEF vars, PlainShape, ChunksStay, JobsStay, ThreadStays, ServerStays, TodoStays,
              ShareJob, ConnectJob, HoldJob
<1> QED
  BY <1>1, AddTableIsPlain, CallsArePlain, RequestsArePlain DEF PlainSteps

--------------------------------------------------------------------------------
(* What a thread does with a chunk. *)

\* A swarm that stays as it is fits.
LEMMA SwarmStays ==
  ASSUME Holds, [Next]_vars, UNCHANGED <<swarm, active, inviting, created>>,
         tables \subseteq tables', NEW p \in Processes, NEW c \in Chunks,
         Arrived(p, c)' <=> Arrived(p, c), TodoStays(p)
  PROVE  SwarmFits(p, c)' /\ NewFits(p, c)'
<1>1. SwarmFits(p, c) /\ NewFits(p, c)
  BY DEF Holds, AgreeInv, Fits
<1> QED
  BY <1>1, KnownStays DEF Holds, SwarmFits, NewFits, TodoStays

\* A step of the thread of p alone.
OneThread(p) ==
  /\ UNCHANGED <<swarm, inviting, active, listening, created, tables, server>>
  /\ \A q \in Processes : TodoStays(q) /\ (q # p => thread'[q] = thread[q])

\* At most it is asked to be added to a chunk that the other one has.
JobsGrow ==
  \A q, l \in Processes, c \in Chunks :
    /\ ShareJob(q, l, c) \in detached' <=> ShareJob(q, l, c) \in detached
    /\ HoldJob(q, c) \in detached' <=> HoldJob(q, c) \in detached
    /\ ConnectJob(q, l, c) \in detached' =>
         ConnectJob(q, l, c) \in detached \/ (c \in active[q] /\ l \in tables)

\* The steps of newChunk and getChunk are of the thread alone.
LEMMA ThreadsAlone ==
  ASSUME Holds, NEW p \in Processes,
         \/ AttachToNew(p) \/ RegisterNew(p) \/ BeginPush(p) \/ EndPush(p) \/ Seek(p) \/ Connect(p)
         \/ \E c \in Chunks : GetChunk(p, c)
  PROVE  OneThread(p)
<1>. USE DEF metaVars, chunkVars, listenVars, triggerVars
<1>0. ThreadType /\ OtherTypes
  BY DEF Holds, IInv, TypeInv, BaseInv
<1>1. CASE \E c \in Chunks : GetChunk(p, c)
  <2>1. PICK c \in Chunks : GetChunk(p, c)
    BY <1>1
  <2>2. \A q \in Processes : TodoStays(q)
    <3>1. Call(p, [call |-> "get", chunk |-> c])
      BY <2>1 DEF GetChunk
    <3> QED
      BY <1>0, <3>1, CallsMade DEF TodoStays
  <2>3. \A q \in Processes : q # p => thread'[q] = thread[q]
    BY <1>0, <2>1 DEF GetChunk, Goes, ThreadType
  <2> QED
    BY <2>1, <2>2, <2>3 DEF GetChunk, OneThread
<1>2. ASSUME ThreadStep(p), UNCHANGED <<swarm, active, listening, created>>
      PROVE  OneThread(p)
  BY <1>0, <1>2, ThreadStepShape DEF OneThread, TodoStays
<1>3. CASE AttachToNew(p) \/ RegisterNew(p) \/ BeginPush(p) \/ EndPush(p)
  BY <1>2, <1>3 DEF ThreadStep, AttachToNew, RegisterNew, BeginPush, EndPush
<1>4. CASE Seek(p) \/ Connect(p)
  BY <1>2, <1>4 DEF ThreadStep, Seek, Connect
<1> QED
  BY <1>1, <1>3, <1>4

\* So the swarms fit, and everything of the other processes does.
LEMMA OneThreadFits ==
  ASSUME Holds, BaseInv', [Next]_vars, NEW p \in Processes, OneThread(p),
         \A c \in Chunks : holders[c] \subseteq holders'[c],
         \A c \in Chunks : holders'[c] \subseteq holders[c] \cup {p},
         JobsGrow, NEW x \in Processes
  PROVE  /\ \A c \in Chunks : SwarmFits(x, c)' /\ NewFits(x, c)'
         /\ x # p => /\ GetFits(x)' /\ \A l \in Processes : SharesFit(x, l)'
                     /\ \A c \in Chunks : Fits(x, c)'
<1>0. TodoStays(x)
  BY DEF OneThread
<1>1. ASSUME NEW c \in Chunks PROVE SwarmFits(x, c)' /\ NewFits(x, c)'
  BY <1>0, SwarmStays DEF OneThread, Arrived
<1>2. ASSUME x # p PROVE GetFits(x)'
  <2>1. GetFits(x) /\ thread[x] \in Places /\ thread'[x] = thread[x]
    BY <1>2 DEF Holds, AgreeInv, IInv, TypeInv, ThreadType, OneThread
  <2>2. thread[x].at \in {"seek", "connect"} => thread[x].chunk \in Chunks
    BY <2>1, PlaceAtChunk
  <2> QED
    BY <2>1, <2>2 DEF GetFits
<1>3. ASSUME x # p, NEW l \in Processes PROVE SharesFit(x, l)'
  <2>1. SharesFit(x, l) /\ thread'[x] = thread[x]
    BY <1>3 DEF Holds, AgreeInv, OneThread
  <2>2. ASSUME NEW c \in Chunks PROVE Reaches(x, l, c)' <=> Reaches(x, l, c)
    <3>1. ShareJob(x, l, c)' \in detached' <=> ShareJob(x, l, c) \in detached
      BY DEF JobsGrow, ShareJob
    <3> QED
      BY <2>1, <3>1 DEF Reaches, OneThread
  <2> QED
    BY <2>1, <2>2, SharesStay DEF Holds, OneThread
<1>4. ASSUME x # p, NEW c \in Chunks PROVE Fits(x, c)'
  <2>1. Fits(x, c) /\ thread'[x] = thread[x]
    BY <1>4 DEF Holds, AgreeInv, OneThread
  <2>2. HoldersFit(x, c)'
    <3>1. HoldJob(x, c)' \in detached' <=> HoldJob(x, c) \in detached
      BY DEF JobsGrow, HoldJob
    <3> QED
      BY <1>4, <2>1, <3>1 DEF Fits, HoldersFit, Registers, Arrived, OneThread
  <2>3. OffersFit(x, c)'
    <3>1. ASSUME NEW l \in Processes
          PROVE  /\ ShareJob(x, l, c)' \in detached' <=> ShareJob(x, l, c) \in detached
                 /\ ConnectJob(x, l, c)' \in detached' =>
                      ConnectJob(x, l, c) \in detached \/ (c \in active[x] /\ l \in tables)
      BY DEF JobsGrow, ShareJob, ConnectJob
    <3> QED
      BY <1>4, <2>1, <3>1 DEF Fits, OffersFit, OneThread
  <2> QED
    BY <1>1, <2>2, <2>3 DEF Fits
<1> QED
  BY <1>1, <1>2, <1>3, <1>4

\* newChunk registers the process in the index and pushes the chunk.
LEMMA NewChunkFits ==
  ASSUME Holds, BaseInv', [Next]_vars, NEW p \in Processes,
         AttachToNew(p) \/ RegisterNew(p) \/ BeginPush(p) \/ EndPush(p), NEW x \in Processes
  PROVE  /\ GetFits(x)' /\ \A l \in Processes : SharesFit(x, l)'
         /\ \A c \in Chunks : Fits(x, c)'
<1>. USE DEF metaVars, chunkVars, listenVars, triggerVars
<1>0. /\ thread[p] \in Places /\ ThreadType /\ OneThread(p) /\ UNCHANGED detached
      /\ holders \in [Chunks -> SUBSET Processes]
      /\ \A l \in Processes : SharesFit(p, l)
      /\ \A c \in Chunks : Fits(p, c)
  BY ThreadsAlone DEF AttachToNew, RegisterNew, BeginPush, EndPush, Holds, IInv, TypeInv, SharedTypes,
                      ThreadType, AgreeInv
<1>1. PICK d \in Chunks : d = thread[p].chunk
  BY <1>0, PlaceAtChunk DEF AttachToNew, RegisterNew, BeginPush, EndPush
<1>2. /\ \A c \in Chunks :
           holders'[c] = IF RegisterNew(p) /\ c = d THEN holders[c] \cup {p} ELSE holders[c]
      /\ \/ /\ thread[p].at = "emplaced" /\ thread'[p].at = "hold" /\ thread'[p].chunk = d
            /\ ~RegisterNew(p)
         \/ /\ thread[p].at = "hold" /\ thread'[p].at = "created" /\ thread'[p].chunk = d
            /\ RegisterNew(p)
         \/ /\ thread[p].at = "created" /\ ~RegisterNew(p)
            /\ thread'[p] = [at |-> "push", chunk |-> d, rest |-> listening[p]]
         \/ thread[p].at = "push" /\ thread[p].rest = {} /\ thread'[p] = Idle /\ ~RegisterNew(p)
  <2>1. CASE AttachToNew(p)
    <3>1. thread'[p] = [at |-> "hold", chunk |-> d] /\ holders' = holders /\ thread[p].at = "emplaced"
      BY <1>0, <1>1, <2>1, PlaceAtChunk DEF AttachToNew, Goes, ThreadType
    <3> QED
      BY <3>1 DEF RegisterNew
  <2>2. CASE RegisterNew(p)
    <3>1. thread'[p] = [at |-> "created", chunk |-> d] /\ thread[p].at = "hold"
      BY <1>0, <1>1, <2>2, PlaceAtChunk DEF RegisterNew, Goes, ThreadType
    <3>2. holders' = [holders EXCEPT ![d] = @ \cup {p}]
      BY <1>1, <2>2 DEF RegisterNew, JoinHolders
    <3>3. \A c \in Chunks : holders'[c] = IF c = d THEN holders[c] \cup {p} ELSE holders[c]
      BY <1>0, <3>2
    <3> QED
      BY <2>2, <3>1, <3>3
  <2>3. CASE BeginPush(p)
    BY <1>0, <1>1, <2>3 DEF BeginPush, RegisterNew, Goes, ThreadType
  <2>4. CASE EndPush(p)
    BY <1>0, <1>1, <2>4 DEF EndPush, RegisterNew, Returns, Goes, ThreadType
  <2> QED
    BY <2>1, <2>2, <2>3, <2>4
<1>3. /\ \A c \in Chunks : SwarmFits(x, c)' /\ NewFits(x, c)'
      /\ x # p => /\ GetFits(x)' /\ \A l \in Processes : SharesFit(x, l)'
                  /\ \A c \in Chunks : Fits(x, c)'
  <2>1. /\ \A c \in Chunks : holders[c] \subseteq holders'[c]
        /\ \A c \in Chunks : holders'[c] \subseteq holders[c] \cup {p}
    BY <1>2
  <2>2. JobsGrow
    BY <1>0 DEF JobsGrow, ShareJob, HoldJob, ConnectJob
  <2> QED
    BY <1>0, <2>1, <2>2, OneThreadFits
<1>4. GetFits(p)'
  BY <1>2 DEF GetFits, Idle
<1>5. ASSUME NEW l \in Processes PROVE SharesFit(p, l)'
  <2>1. ASSUME NEW c \in Chunks, l \in listening[p], Reaches(p, l, c) PROVE Reaches(p, l, c)'
    <3>1. c \in active'[l] <=> c \in active[l]
      BY <1>0 DEF OneThread
    <3>2. inviting' = inviting /\ listening' = listening
      BY <1>0 DEF OneThread
    <3> QED
      BY <1>0, <1>1, <1>2, <2>1, <3>1, <3>2 DEF Reaches, ShareJob
  <2> QED
    BY <1>0, <2>1, SharesStay DEF Holds, OneThread
<1>6. ASSUME NEW c \in Chunks PROVE Fits(p, c)'
  <2>0. active' = active /\ tables' = tables /\ inviting' = inviting
    BY <1>0 DEF OneThread
  <2>1. Arrived(p, c)' <=> Arrived(p, c)
    BY <1>0 DEF OneThread, Arrived
  <2>2. HoldJob(p, c)' \in detached' <=> HoldJob(p, c) \in detached
    BY <1>0 DEF HoldJob
  <2>3. HoldersFit(p, c)'
    <3>1. HoldersFit(p, c)
      BY <1>0 DEF Fits
    <3>2. CASE c # d
      <4>1. Registers(p, c)' <=> Registers(p, c)
        BY <1>1, <1>2, <2>1, <2>2, <3>2 DEF Registers, Idle
      <4> QED
        BY <1>2, <2>0, <3>1, <3>2, <4>1 DEF HoldersFit
    <3>3. CASE c = d /\ RegisterNew(p)
      <4>1. Registers(p, c) /\ p \in holders'[c]
        BY <1>1, <1>2, <3>3 DEF Registers
      <4>2. c \in active'[p]
        BY <2>0, <3>1, <4>1 DEF HoldersFit
      <4> QED
        BY <4>1, <4>2 DEF HoldersFit
    <3>4. CASE c = d /\ ~RegisterNew(p)
      <4>1. (Registers(p, c)' <=> Registers(p, c)) /\ holders'[c] = holders[c]
        BY <1>1, <1>2, <2>1, <2>2, <3>4 DEF Registers, Idle
      <4> QED
        BY <2>0, <3>1, <4>1 DEF HoldersFit
    <3> QED
      BY <3>2, <3>3, <3>4
  <2>4. OffersFit(p, c)'
    BY <1>0, <1>1, <1>2, <2>0 DEF Fits, OffersFit, HoldersFit, Registers, ShareJob, ConnectJob, Idle
  <2>5. SwarmFits(p, c)' /\ NewFits(p, c)'
    BY <1>0, <2>1, SwarmStays DEF OneThread
  <2> QED
    BY <2>3, <2>4, <2>5 DEF Fits
<1> QED
  BY <1>3, <1>4, <1>5, <1>6

\* getChunk finds another process that has the chunk, and asks it.
LEMMA GetChunkFits ==
  ASSUME Holds, BaseInv', [Next]_vars, NEW p \in Processes,
         Seek(p) \/ Connect(p) \/ \E c \in Chunks : GetChunk(p, c), NEW x \in Processes
  PROVE  /\ GetFits(x)' /\ \A l \in Processes : SharesFit(x, l)'
         /\ \A c \in Chunks : Fits(x, c)'
<1>. USE DEF metaVars, chunkVars, listenVars, triggerVars
<1>0. /\ thread[p] \in Places /\ ThreadType /\ OneThread(p) /\ UNCHANGED holders
      /\ holders \in [Chunks -> SUBSET Processes]
      /\ GetFits(p) /\ (\A l \in Processes : SharesFit(p, l)) /\ (\A c \in Chunks : Fits(p, c))
  BY ThreadsAlone DEF Seek, Connect, GetChunk, Holds, IInv, TypeInv, SharedTypes, ThreadType, AgreeInv
<1>1. JobsGrow
  <2>1. CASE Connect(p)
    <3>1. thread[p].to \in Processes /\ thread[p].chunk \in Chunks /\ p \in tables
      BY <1>0, <2>1, PlaceFields, PlaceAtChunk DEF Connect, Holds, BaseInv, PresentFits
    <3>2. \/ UNCHANGED detached
          \/ /\ detached' = detached \cup {ConnectJob(thread[p].to, p, thread[p].chunk)}
             /\ thread[p].chunk \in active[thread[p].to]
      BY <2>1 DEF Connect, ConnectJob
    <3> QED
      BY <3>1, <3>2 DEF JobsGrow, ShareJob, HoldJob, ConnectJob
  <2>2. CASE ~Connect(p)
    <3>1. UNCHANGED detached
      BY <2>2 DEF Seek, GetChunk
    <3> QED
      BY <3>1 DEF JobsGrow, ShareJob, HoldJob, ConnectJob
  <2> QED
    BY <2>1, <2>2
<1>2. /\ \A c \in Chunks : SwarmFits(x, c)' /\ NewFits(x, c)'
      /\ x # p => /\ GetFits(x)' /\ \A l \in Processes : SharesFit(x, l)'
                  /\ \A c \in Chunks : Fits(x, c)'
  BY <1>0, <1>1, OneThreadFits
<1>3. /\ thread'[p] = thread[p] \/ thread[p].at \in {"idle", "seek", "connect"}
      /\ thread'[p] = thread[p] \/ thread'[p].at \in {"seek", "connect", "await"}
      /\ GetFits(p)'
  <2>1. ASSUME NEW c \in Chunks, GetChunk(p, c)
        PROVE  /\ thread[p].at = "idle" /\ (thread'[p] = thread[p] \/ thread'[p].at = "seek")
               /\ GetFits(p)'
    <3>1. CASE UNCHANGED thread
      BY <1>0, <2>1, <3>1 DEF GetChunk, CanCall, Idle, GetFits
    <3>2. CASE ~UNCHANGED thread
      <4>1. /\ thread[p] = Idle /\ c \notin active[p] /\ holders[c] # {}
            /\ thread'[p] = [at |-> "seek", chunk |-> c]
        BY <1>0, <2>1, <3>2 DEF GetChunk, CanCall, Goes, ThreadType
      <4>2. p \notin holders[c]
        BY <1>0, <4>1 DEF Fits, HoldersFit
      <4> QED
        BY <1>0, <4>1, <4>2 DEF Idle, GetFits
    <3> QED
      BY <3>1, <3>2
  <2>2. CASE Seek(p)
    <3>1. thread[p].at = "seek" /\ thread[p].chunk \in Chunks
      BY <1>0, <2>2, PlaceAtChunk DEF Seek
    <3>2. CASE UNCHANGED thread
      BY <1>0, <3>1, <3>2 DEF GetFits
    <3>3. ASSUME NEW h \in holders[thread[p].chunk] \ {p},
                 Goes(p, [at |-> "connect", chunk |-> thread[p].chunk, to |-> h])
          PROVE  thread'[p].at = "connect" /\ GetFits(p)'
      BY <1>0, <3>3 DEF Goes, ThreadType, GetFits
    <3> QED
      BY <2>2, <3>1, <3>2, <3>3 DEF Seek
  <2>3. CASE Connect(p)
    BY <1>0, <2>3 DEF Connect, Goes, ThreadType, GetFits
  <2> QED
    BY <2>1, <2>2, <2>3
<1>4. ASSUME NEW l \in Processes PROVE SharesFit(p, l)'
  <2>1. ASSUME NEW c \in Chunks PROVE Reaches(p, l, c) => Reaches(p, l, c)'
    <3>1. ShareJob(p, l, c)' \in detached' <=> ShareJob(p, l, c) \in detached
      BY <1>1 DEF JobsGrow, ShareJob
    <3>2. active' = active /\ inviting' = inviting
      BY <1>0 DEF OneThread
    <3> QED
      BY <1>3, <3>1, <3>2 DEF Reaches
  <2> QED
    BY <1>0, <2>1, SharesStay DEF Holds, OneThread
<1>5. ASSUME NEW c \in Chunks PROVE Fits(p, c)'
  <2>0. UNCHANGED <<active, tables, inviting, server>>
    BY <1>0 DEF OneThread
  <2>1. HoldersFit(p, c)'
    <3>1. HoldJob(p, c)' \in detached' <=> HoldJob(p, c) \in detached
      BY <1>1 DEF JobsGrow, HoldJob
    <3>2. Registers(p, c)' <=> Registers(p, c)
      BY <1>3, <2>0, <3>1 DEF Registers, Arrived
    <3> QED
      BY <1>0, <2>0, <3>2 DEF Fits, HoldersFit
  <2>2. OffersFit(p, c)'
    <3>1. ASSUME NEW l \in Processes
          PROVE  /\ ShareJob(p, l, c)' \in detached' <=> ShareJob(p, l, c) \in detached
                 /\ ConnectJob(p, l, c)' \in detached' =>
                      ConnectJob(p, l, c) \in detached \/ (c \in active[p] /\ l \in tables)
      BY <1>1 DEF JobsGrow, ShareJob, ConnectJob
    <3> QED
      BY <1>0, <1>3, <2>0, <3>1 DEF Fits, OffersFit
  <2>3. Arrived(p, c)' <=> Arrived(p, c)
    BY <2>0 DEF Arrived
  <2>4. SwarmFits(p, c)' /\ NewFits(p, c)'
    BY <1>0, <2>3, SwarmStays DEF OneThread
  <2> QED
    BY <2>1, <2>2, <2>4 DEF Fits
<1> QED
  BY <1>2, <1>3, <1>4, <1>5

--------------------------------------------------------------------------------
(* Who has a chunk changes. *)

\* newChunk: nobody else has the chunk, nor is about to.
LEMMA CreationFits ==
  ASSUME FreshIds, Holds, BaseInv', [Next]_vars, NEW p \in Processes, NEW c \in Chunks,
         NewChunk(p, c), NEW x \in Processes
  PROVE  /\ GetFits(x)' /\ \A l \in Processes : SharesFit(x, l)'
         /\ \A d \in Chunks : Fits(x, d)'
<1>. USE DEF metaVars, chunkVars, listenVars, triggerVars
<1>0. /\ ThreadType /\ OtherTypes /\ active \in [Processes -> SUBSET Chunks]
      /\ GetFits(x) /\ (\A l \in Processes : SharesFit(x, l))
      /\ \A y \in Processes, d \in Chunks : Fits(y, d)
  BY DEF Holds, IInv, TypeInv, TriggerTypes, BaseInv, AgreeInv
<1>1. /\ UNCHANGED <<holders, inviting, listening, tables, server, detached>>
      /\ thread[p] = Idle /\ thread'[p] = [at |-> "emplaced", chunk |-> c]
      /\ \A y \in Processes \ {p} : thread'[y] = thread[y]
  BY <1>0 DEF NewChunk, CanCall, Goes, ThreadType
<1>2. /\ swarm'[c] = {p} /\ \A d \in Chunks \ {c} : swarm'[d] = swarm[d]
      /\ created'[p] = created[p] \cup {c} /\ active'[p] = active[p] \cup {c}
      /\ \A y \in Processes \ {p} : created'[y] = created[y] /\ active'[y] = active[y]
  BY <1>0 DEF NewChunk, Emplace, OtherTypes
<1>3. /\ [call |-> "new", chunk |-> c] \in todo[p] /\ [call |-> "new", chunk |-> c] \notin todo'[p]
      /\ \A y \in Processes : todo'[y] \subseteq todo[y]
  <2>1. Call(p, [call |-> "new", chunk |-> c])
    BY DEF NewChunk
  <2> QED
    BY <1>0, <2>1, CallsMade
<1>4. [call |-> "new", chunk |-> c] \in Calls[p] /\ \A y \in Processes : c \notin active[y]
  BY <1>0, <1>3 DEF Fits, NewFits
<1>5. inviting[c] = NoInvitation
  <2>1. inviting[c] # NoInvitation => inviting[c].of \in Processes
    BY <1>0 DEF OtherTypes, Invitations
  <2> QED
    BY <1>0, <1>4, <2>1 DEF Fits, OffersFit
<1>6. ASSUME NEW y \in Processes PROVE inviting[c].to # y
  BY <1>5, <1>6, TablesAssumption DEF NoInvitation
<1>7. GetFits(x)'
  BY <1>0, <1>1 DEF GetFits
<1>8. ASSUME NEW l \in Processes PROVE SharesFit(x, l)'
  <2>1. ASSUME NEW d \in Chunks, Reaches(x, l, d) PROVE Reaches(x, l, d)'
    <3>1. d \in active[l] => d \in active'[l]
      BY <1>2
    <3> QED
      BY <1>1, <2>1, <3>1 DEF Reaches, ShareJob, Idle
  <2>2. ASSUME NEW d \in Chunks, d \in created'[x] \cap active'[x]
        PROVE  d \in created[x] \cap active[x] \/ Reaches(x, l, d)'
    <3>1. CASE d = c
      <4>1. x = p
        BY <1>2, <1>4, <2>2, <3>1
      <4> QED
        BY <1>1, <3>1, <4>1 DEF Reaches
    <3>2. CASE d # c
      BY <1>2, <2>2, <3>2
    <3> QED
      BY <3>1, <3>2
  <2> QED
    BY <1>0, <1>1, <2>1, <2>2, SharesStay DEF Holds
<1>9. ASSUME NEW d \in Chunks PROVE Fits(x, d)'
  <2>0. Fits(x, d) /\ (Arrived(x, d)' <=> Arrived(x, d)) /\ (Gone(x) => Gone(x)')
    BY <1>0, <1>1, KnownStays DEF Arrived, Holds
  <2>1. SwarmFits(x, d)'
    <3>1. CASE d = c
      BY <1>1, <1>2, <1>4, <1>6, <3>1 DEF SwarmFits
    <3>2. CASE d # c
      BY <1>1, <1>2, <2>0, <3>2 DEF Fits, SwarmFits
    <3> QED
      BY <3>1, <3>2
  <2>2. HoldersFit(x, d)'
    <3>1. Registers(x, d)' <=> Registers(x, d) \/ (x = p /\ d = c)
      BY <1>1, <2>0 DEF Registers, HoldJob, Idle
    <3>2. d \in active'[x] <=> d \in active[x] \/ (x = p /\ d = c)
      BY <1>2
    <3> QED
      BY <1>1, <2>0, <3>1, <3>2 DEF Fits, HoldersFit
  <2>3. OffersFit(x, d)'
    <3>1. d \in active[x] => d \in active'[x]
      BY <1>2
    <3>2. thread'[x].at \in {"created", "push"} => thread'[x] = thread[x]
      BY <1>1
    <3> QED
      BY <1>1, <2>0, <3>1, <3>2 DEF Fits, OffersFit, ShareJob, ConnectJob
  <2>4. NewFits(x, d)'
    <3>1. [call |-> "new", chunk |-> d] \in todo'[x] => d # c
      <4>1. CASE d = c /\ [call |-> "new", chunk |-> d] \in todo'[x]
        <5>1. x # p /\ [call |-> "new", chunk |-> c] \in Calls[x]
          BY <1>3, <2>0, <4>1 DEF Fits, NewFits
        <5> QED
          BY <1>4, <5>1 DEF FreshIds
      <4> QED
        BY <4>1
    <3>2. d # c => \A y \in Processes : d \in active'[y] <=> d \in active[y]
      BY <1>2
    <3>3. d \in created'[x] => d \in created[x] \/ (x = p /\ d = c)
      BY <1>2
    <3>4. d \in active[x] \/ (x = p /\ d = c) => d \in active'[x]
      BY <1>2
    <3> QED
      BY <1>3, <2>0, <3>1, <3>2, <3>3, <3>4 DEF Fits, NewFits
  <2> QED
    BY <2>1, <2>2, <2>3, <2>4 DEF Fits
<1> QED
  BY <1>7, <1>8, <1>9

\* kill: nothing is on its way to the process or from it.
LEMMA KillFits ==
  ASSUME "departures" \in Apart, Holds, BaseInv', [Next]_vars, NEW p \in Processes, Kill(p),
         NEW x \in Processes
  PROVE  /\ GetFits(x)' /\ \A l \in Processes : SharesFit(x, l)'
         /\ \A d \in Chunks : Fits(x, d)'
<1>0. /\ OtherTypes /\ active \in [Processes -> SUBSET Chunks]
      /\ \A l \in Processes : SharesFit(x, l)
      /\ \A d \in Chunks : Fits(x, d)
  BY DEF Holds, IInv, TypeInv, TriggerTypes, BaseInv, AgreeInv
<1>1. /\ \A y \in Processes : thread[y] = Idle /\ server[y] = NoRequest
      /\ \A d \in Chunks : inviting[d] = NoInvitation
      /\ detached = {}
      /\ UNCHANGED <<inviting, listening, created, thread, server, detached>>
  BY DEF Kill, DeparturesApart, Quiet, listenVars
<1>2. /\ tables' = tables \ {p} /\ active'[p] = {}
      /\ \A y \in Processes \ {p} : active'[y] = active[y] /\ todo'[y] = todo[y]
      /\ todo'[p] = {[call |-> "gone"]}
      /\ \A d \in Chunks : swarm'[d] = swarm[d] \ {p} /\ holders'[d] = holders[d] \ {p}
  BY <1>0 DEF Kill, OtherTypes
<1>3. GetFits(x)'
  BY <1>1 DEF GetFits, Idle
<1>4. ASSUME NEW l \in Processes PROVE SharesFit(x, l)'
  <2>1. (Known(l) => Known(l)') /\ SharesFit(x, l) /\ created[x] \subseteq Chunks
    BY <1>0, KnownStays DEF Holds, OtherTypes
  <2>2. ASSUME l \in listening[x], l \in tables \ {p}, NEW d \in created[x] \cap active'[x]
        PROVE  d \in active'[l]
    <3>1. d \in active[x] /\ d \in Chunks
      BY <1>2, <2>1, <2>2
    <3>2. Reaches(x, l, d)
      BY <2>1, <2>2, <3>1 DEF SharesFit
    <3>3. inviting[d].to # l
      BY <1>1, <3>1, TablesAssumption DEF NoInvitation
    <3>4. d \in active[l]
      BY <1>1, <3>2, <3>3 DEF Reaches, Idle
    <3> QED
      BY <1>2, <2>2, <3>4
  <2> QED
    BY <1>1, <1>2, <2>1, <2>2 DEF SharesFit, Reaches
<1>5. ASSUME NEW d \in Chunks PROVE Fits(x, d)'
  <2>0. Fits(x, d) /\ inviting[d].to # x /\ ~Arrived(x, d) /\ ~Arrived(x, d)'
    BY <1>0, <1>1, TablesAssumption DEF Arrived, NoRequest, NoInvitation
  <2>1. SwarmFits(x, d)'
    BY <1>1, <1>2, <2>0 DEF Fits, SwarmFits
  <2>2. HoldersFit(x, d)'
    BY <1>1, <1>2, <2>0 DEF Fits, HoldersFit, Registers, Idle
  <2>3. OffersFit(x, d)'
    BY <1>1 DEF OffersFit, Idle
  <2>4. NewFits(x, d)'
    <3>1. x = p => [call |-> "new", chunk |-> d] \notin todo'[x] /\ Gone(x)'
      BY <1>2 DEF Gone
    <3>2. \A y \in Processes : active'[y] \subseteq active[y]
      BY <1>2
    <3> QED
      BY <1>1, <1>2, <2>0, <3>1, <3>2 DEF Fits, NewFits, Gone
  <2> QED
    BY <2>1, <2>2, <2>3, <2>4 DEF Fits
<1> QED
  BY <1>3, <1>4, <1>5

\* addPeer: whoever has the chunk asks a peer that has it not.
LEMMA InviteFits ==
  ASSUME Holds, BaseInv', [Next]_vars, NEW p \in Processes, NEW q \in Processes, NEW c \in Chunks,
         NEW by \in {"push", "share", "connect"}, Invite(p, q, c, by), NEW x \in Processes
  PROVE  /\ GetFits(x)' /\ \A l \in Processes : SharesFit(x, l)'
         /\ \A d \in Chunks : Fits(x, d)'
<1>. USE DEF metaVars, chunkVars, listenVars, triggerVars
<1>0. /\ ServerType /\ OtherTypes
      /\ GetFits(x) /\ (\A l \in Processes : SharesFit(x, l))
      /\ \A y \in Processes, d \in Chunks : Fits(y, d)
  BY DEF Holds, IInv, TypeInv, BaseInv, AgreeInv
<1>1. /\ UNCHANGED <<holders, swarm, active, created, listening, tables, todo, thread, detached>>
      /\ server[q] = NoRequest /\ server'[q] = [type |-> "init", chunk |-> c]
      /\ \A y \in Processes \ {q} : server'[y] = server[y]
      /\ inviting[c] = NoInvitation /\ q \in tables /\ q \notin swarm[c]
      /\ inviting'[c] = [of |-> p, to |-> q, by |-> by, accepted |-> FALSE]
      /\ \A d \in Chunks \ {c} : inviting'[d] = inviting[d]
  BY <1>0 DEF Invite, IsNew, OtherTypes, ServerType
<1>2. c \in active[p]
  <2>1. Invites(p, q, c, by)
    BY DEF Invite
  <2> QED
    BY <1>0, <2>1 DEF Invites, Fits, OffersFit, ShareJob, ConnectJob
<1>3. \A y \in Processes : inviting[c].to # y
  BY <1>1, TablesAssumption DEF NoInvitation
<1>4. ASSUME NEW y \in Processes, NEW d \in Chunks PROVE Arrived(y, d)' <=> Arrived(y, d)
  BY <1>1 DEF Arrived, NoRequest
<1>5. GetFits(x)'
  BY <1>0, <1>1 DEF GetFits
<1>6. ASSUME NEW l \in Processes PROVE SharesFit(x, l)'
  <2>1. ASSUME NEW d \in Chunks, Reaches(x, l, d) PROVE Reaches(x, l, d)'
    BY <1>1, <1>3, <2>1 DEF Reaches, ShareJob
  <2> QED
    BY <1>0, <1>1, <2>1, SharesStay DEF Holds
<1>7. ASSUME NEW d \in Chunks PROVE Fits(x, d)'
  <2>0. Fits(x, d)
    BY <1>0
  <2>1. SwarmFits(x, d)'
    <3>1. CASE d = c
      BY <1>1, <1>3, <2>0, <3>1 DEF Fits, SwarmFits
    <3>2. CASE d # c
      BY <1>1, <1>4, <2>0, <3>2 DEF Fits, SwarmFits
    <3> QED
      BY <3>1, <3>2
  <2>2. HoldersFit(x, d)'
    <3>1. Registers(x, d)' <=> Registers(x, d)
      BY <1>1, <1>4 DEF Registers, HoldJob
    <3> QED
      BY <1>1, <2>0, <3>1 DEF Fits, HoldersFit
  <2>3. OffersFit(x, d)'
    BY <1>1, <1>2, <2>0 DEF Fits, OffersFit, ShareJob, ConnectJob
  <2>4. NewFits(x, d)'
    BY <1>1, <2>0 DEF Fits, NewFits, Gone
  <2> QED
    BY <2>1, <2>2, <2>3, <2>4 DEF Fits
<1> QED
  BY <1>5, <1>6, <1>7

\* handleInitRequest: the peer gets the chunk, which it has not had, nor created ...
LEMMA HandleInitFits ==
  ASSUME Holds, BaseInv', [Next]_vars, NEW q \in Processes, HandleInit(q), NEW x \in Processes
  PROVE  /\ GetFits(x)' /\ \A l \in Processes : SharesFit(x, l)'
         /\ \A d \in Chunks : Fits(x, d)'
<1>. USE DEF metaVars, chunkVars, listenVars, triggerVars
<1>0. /\ ServerType /\ OtherTypes /\ active \in [Processes -> SUBSET Chunks]
      /\ GetFits(x) /\ (\A l \in Processes : SharesFit(x, l))
      /\ \A y \in Processes, d \in Chunks : Fits(y, d)
  BY DEF Holds, IInv, TypeInv, TriggerTypes, BaseInv, AgreeInv
<1>. PICK c \in Chunks : c = server[q].chunk
  BY <1>0 DEF HandleInit, ServerType, Requests, NoRequest
<1>1. /\ UNCHANGED <<holders, swarm, inviting, created, listening, tables, todo, thread, detached>>
      /\ server[q].type = "init" /\ server'[q].type = "emplaced" /\ server'[q].chunk = c
      /\ \A y \in Processes \ {q} : server'[y] = server[y] /\ active'[y] = active[y]
      /\ active'[q] = active[q] \cup {c}
  <2>1. server[q] \in Requests /\ server[q].type = "init"
    BY <1>0 DEF HandleInit, ServerType
  <2>2. [server[q] EXCEPT !.type = "emplaced"].type = "emplaced"
        /\ [server[q] EXCEPT !.type = "emplaced"].chunk = server[q].chunk
    BY <2>1 DEF Requests, NoRequest
  <2> QED
    BY <1>0, <2>1, <2>2 DEF HandleInit, Emplace, ServerType
<1>2. /\ inviting[c].to = q /\ ~inviting[c].accepted /\ inviting[c] # NoInvitation
      /\ inviting[c].of \in Processes
  <2>1. Arriving(q, c) /\ InvitationFits(c)
    BY <1>1 DEF Arriving, Holds, BaseInv
  <2> QED
    BY <1>0, <2>1, TablesAssumption DEF InvitationFits, NoInvitation, OtherTypes, Invitations
<1>3. c \in active[inviting[c].of]
  BY <1>0, <1>2 DEF Fits, OffersFit
<1>4. ASSUME NEW y \in Processes, NEW d \in Chunks
      PROVE  /\ Arrived(y, d)' <=> Arrived(y, d) \/ (y = q /\ d = c)
             /\ d \in active'[y] <=> d \in active[y] \/ (y = q /\ d = c)
             /\ ~Arrived(q, d)
  BY <1>1 DEF Arrived
<1>5. q \in tables /\ c \notin active[q] /\ c \notin created[q] /\ q \notin swarm[c]
  <2>1. q \in tables /\ c \notin active[q] /\ q \notin swarm[c]
    BY <1>0, <1>2, <1>4 DEF Fits, SwarmFits
  <2>2. ~Gone(q)
    BY <2>1 DEF Holds, BaseInv, PresentFits
  <2> QED
    BY <1>0, <2>1, <2>2 DEF Fits, NewFits
<1>6. GetFits(x)'
  BY <1>0, <1>1 DEF GetFits
<1>7. ASSUME NEW l \in Processes PROVE SharesFit(x, l)'
  <2>1. ASSUME NEW d \in Chunks, Reaches(x, l, d) PROVE Reaches(x, l, d)'
    BY <1>1, <1>4, <2>1 DEF Reaches, ShareJob
  <2>2. ASSUME NEW d \in Chunks, d \in created'[x] \cap active'[x]
        PROVE  d \in created[x] \cap active[x]
    BY <1>1, <1>4, <1>5, <2>2
  <2> QED
    BY <1>0, <1>1, <2>1, <2>2, SharesStay DEF Holds
<1>8. ASSUME NEW d \in Chunks PROVE Fits(x, d)'
  <2>0. Fits(x, d)
    BY <1>0
  <2>1. SwarmFits(x, d)'
    BY <1>1, <1>2, <1>4, <1>5, <2>0 DEF Fits, SwarmFits
  <2>2. HoldersFit(x, d)'
    <3>1. Registers(x, d)' <=> Registers(x, d) \/ (x = q /\ d = c)
      BY <1>1, <1>4 DEF Registers, HoldJob
    <3> QED
      BY <1>1, <1>4, <2>0, <3>1 DEF Fits, HoldersFit
  <2>3. OffersFit(x, d)'
    BY <1>1, <1>4, <2>0 DEF Fits, OffersFit, ShareJob, ConnectJob
  <2>4. NewFits(x, d)'
    BY <1>1, <1>2, <1>3, <1>4, <2>0 DEF Fits, NewFits, Gone
  <2> QED
    BY <2>1, <2>2, <2>3, <2>4 DEF Fits
<1> QED
  BY <1>6, <1>7, <1>8

\* ... and replies; a thread will register it.
LEMMA HandleInitEndFits ==
  ASSUME Holds, BaseInv', [Next]_vars, NEW q \in Processes, HandleInitEnd(q), NEW x \in Processes
  PROVE  /\ GetFits(x)' /\ \A l \in Processes : SharesFit(x, l)'
         /\ \A d \in Chunks : Fits(x, d)'
<1>. USE DEF metaVars, chunkVars, listenVars, triggerVars
<1>0. /\ ServerType /\ OtherTypes
      /\ GetFits(x) /\ (\A l \in Processes : SharesFit(x, l))
      /\ \A y \in Processes, d \in Chunks : Fits(y, d)
  BY DEF Holds, IInv, TypeInv, BaseInv, AgreeInv
<1>. PICK c \in Chunks : c = server[q].chunk
  BY <1>0 DEF HandleInitEnd, ServerType, Requests, NoRequest
<1>1. /\ UNCHANGED <<holders, swarm, active, created, listening, tables, todo, thread>>
      /\ server[q].type = "emplaced" /\ server'[q] = NoRequest
      /\ \A y \in Processes \ {q} : server'[y] = server[y]
      /\ inviting'[c] = [inviting[c] EXCEPT !.accepted = TRUE]
      /\ \A d \in Chunks \ {c} : inviting'[d] = inviting[d]
      /\ detached' = detached \cup {HoldJob(q, c)}
  BY <1>0 DEF HandleInitEnd, ServerType, OtherTypes, HoldJob
<1>2. inviting[c].to = q /\ inviting[c] # NoInvitation
  <2>1. Arriving(q, c) /\ InvitationFits(c)
    BY <1>1 DEF Arriving, Holds, BaseInv
  <2> QED
    BY <1>0, <2>1, TablesAssumption DEF InvitationFits, NoInvitation
<1>3. inviting'[c].to = q /\ inviting'[c].of = inviting[c].of /\ inviting'[c].accepted
  BY <1>0, <1>1, <1>2 DEF OtherTypes, Invitations
<1>4. Arrived(q, c) /\ c \in active[q]
  <2>1. Arrived(q, c)
    BY <1>1 DEF Arrived
  <2> QED
    BY <1>0, <2>1 DEF Fits, HoldersFit, Registers
<1>5. ASSUME NEW y \in Processes, NEW d \in Chunks
      PROVE  Arrived(y, d)' <=> Arrived(y, d) /\ ~(y = q /\ d = c)
  BY <1>1 DEF Arrived, NoRequest
<1>6. GetFits(x)'
  BY <1>0, <1>1 DEF GetFits
<1>7. ASSUME NEW l \in Processes PROVE SharesFit(x, l)'
  <2>1. ASSUME NEW d \in Chunks, Reaches(x, l, d) PROVE Reaches(x, l, d)'
    <3>1. inviting'[d].to = inviting[d].to
      <4>1. CASE d = c
        BY <1>2, <1>3, <4>1
      <4>2. CASE d # c
        BY <1>1, <4>2
      <4> QED
        BY <4>1, <4>2
    <3>2. ShareJob(x, l, d) \in detached => ShareJob(x, l, d)' \in detached'
      BY <1>1 DEF ShareJob
    <3> QED
      BY <1>1, <2>1, <3>1, <3>2 DEF Reaches
  <2> QED
    BY <1>0, <1>1, <2>1, SharesStay DEF Holds
<1>8. ASSUME NEW d \in Chunks PROVE Fits(x, d)'
  <2>0. Fits(x, d)
    BY <1>0
  <2>1. SwarmFits(x, d)'
    <3>1. CASE d = c
      BY <1>1, <1>2, <1>3, <1>4, <1>5, <2>0, <3>1 DEF Fits, SwarmFits
    <3>2. CASE d # c
      BY <1>1, <1>5, <2>0, <3>2 DEF Fits, SwarmFits
    <3> QED
      BY <3>1, <3>2
  <2>2. HoldersFit(x, d)'
    <3>1. HoldJob(x, d)' \in detached' <=> HoldJob(x, d) \in detached \/ (x = q /\ d = c)
      BY <1>1 DEF HoldJob
    <3>2. Registers(x, d)' <=> Registers(x, d)
      BY <1>1, <1>4, <1>5, <3>1 DEF Registers
    <3> QED
      BY <1>1, <2>0, <3>2 DEF Fits, HoldersFit
  <2>3. OffersFit(x, d)'
    <3>1. \A l \in Processes :
            /\ ShareJob(x, l, d)' \in detached' <=> ShareJob(x, l, d) \in detached
            /\ ConnectJob(x, l, d)' \in detached' <=> ConnectJob(x, l, d) \in detached
      BY <1>1 DEF HoldJob, ShareJob, ConnectJob
    <3>2. inviting'[d] # NoInvitation /\ inviting'[d].of = x =>
            inviting[d] # NoInvitation /\ inviting[d].of = x
      BY <1>1, <1>2, <1>3
    <3> QED
      BY <1>1, <2>0, <3>1, <3>2 DEF Fits, OffersFit
  <2>4. NewFits(x, d)'
    BY <1>1, <2>0 DEF Fits, NewFits, Gone
  <2> QED
    BY <2>1, <2>2, <2>3, <2>4 DEF Fits
<1> QED
  BY <1>6, <1>7, <1>8

\* The thread of handleInitRequest.
LEMMA RegisterInvitedFits ==
  ASSUME Holds, BaseInv', [Next]_vars, NEW q \in Processes, NEW c \in Chunks,
         RegisterInvited(q, c), NEW x \in Processes
  PROVE  /\ GetFits(x)' /\ \A l \in Processes : SharesFit(x, l)'
         /\ \A d \in Chunks : Fits(x, d)'
<1>. USE DEF metaVars, chunkVars, listenVars, triggerVars
<1>0. /\ thread[x] \in Places /\ holders \in [Chunks -> SUBSET Processes]
      /\ GetFits(x) /\ (\A l \in Processes : SharesFit(x, l))
      /\ \A y \in Processes, d \in Chunks : Fits(y, d)
  BY DEF Holds, IInv, TypeInv, ThreadType, SharedTypes, AgreeInv
<1>1. /\ UNCHANGED <<swarm, inviting, active, created, listening, tables, todo, thread, server>>
      /\ HoldJob(q, c) \in detached /\ detached' = detached \ {HoldJob(q, c)}
      /\ \A d \in Chunks : holders'[d] = IF d = c THEN holders[d] \cup {q} ELSE holders[d]
  BY <1>0 DEF RegisterInvited, JoinHolders, HoldJob
<1>2. c \in active[q]
  BY <1>0, <1>1 DEF Fits, HoldersFit, Registers
<1>3. GetFits(x)'
  <2>1. thread[x].at \in {"seek", "connect"} => thread[x].chunk \in Chunks
    BY <1>0, PlaceAtChunk
  <2>2. \A d \in Chunks : holders[d] \subseteq holders'[d]
    BY <1>1
  <2> QED
    BY <1>0, <1>1, <2>1, <2>2 DEF GetFits
<1>4. ASSUME NEW l \in Processes PROVE SharesFit(x, l)'
  <2>1. ASSUME NEW d \in Chunks, Reaches(x, l, d) PROVE Reaches(x, l, d)'
    BY <1>1, <2>1 DEF Reaches, ShareJob, HoldJob
  <2> QED
    BY <1>0, <1>1, <2>1, SharesStay DEF Holds
<1>5. ASSUME NEW d \in Chunks PROVE Fits(x, d)'
  <2>0. Fits(x, d)
    BY <1>0
  <2>1. SwarmFits(x, d)' /\ NewFits(x, d)'
    BY <1>1, SwarmStays DEF Arrived, TodoStays
  <2>2. HoldersFit(x, d)'
    <3>1. CASE x = q /\ d = c
      BY <1>1, <1>2, <3>1 DEF HoldersFit
    <3>2. CASE ~(x = q /\ d = c)
      <4>1. HoldJob(x, d)' \in detached' <=> HoldJob(x, d) \in detached
        BY <1>1, <3>2 DEF HoldJob
      <4>2. Registers(x, d)' <=> Registers(x, d)
        BY <1>1, <4>1 DEF Registers, Arrived
      <4>3. x \in holders'[d] <=> x \in holders[d]
        BY <1>1, <3>2
      <4> QED
        BY <1>1, <2>0, <4>2, <4>3 DEF Fits, HoldersFit
    <3> QED
      BY <3>1, <3>2
  <2>3. OffersFit(x, d)'
    BY <1>1, <2>0 DEF Fits, OffersFit, ShareJob, ConnectJob
  <2> QED
    BY <2>1, <2>2, <2>3 DEF Fits
<1> QED
  BY <1>3, <1>4, <1>5

\* Whoever is done with a peer: the peer has the chunk, or the table no longer.
LEMMA InvitedFits ==
  ASSUME Holds, BaseInv', [Next]_vars, NEW p \in Processes, NEW q \in Processes, NEW c \in Chunks,
         NEW by \in {"push", "share", "connect"}, Invited(p, q, c, by),
         by = "push" => thread[p].at = "push" /\ thread[p].chunk = c,
         UNCHANGED <<holders, active, listening, created, tables, todo, server>>,
         q \in tables => c \in active[q],
         \A d \in Chunks \ {c} : inviting'[d] = inviting[d] /\ swarm'[d] = swarm[d],
         inviting'[c] = inviting[c] \/ (inviting'[c] = NoInvitation /\ inviting[c].to = q),
         \A y \in Processes : SwarmFits(y, c)', NEW x \in Processes
  PROVE  /\ GetFits(x)' /\ \A l \in Processes : SharesFit(x, l)'
         /\ \A d \in Chunks : Fits(x, d)'
<1>0. /\ thread[x] \in Places /\ GetFits(x) /\ (\A l \in Processes : SharesFit(x, l))
      /\ \A d \in Chunks : Fits(x, d)
  BY DEF Holds, IInv, TypeInv, ThreadType, AgreeInv
<1>1. \/ thread'[x] = thread[x]
      \/ /\ thread[x].at = "push" /\ thread'[x].at = "push" /\ thread'[x].chunk = thread[x].chunk
         /\ thread[x].chunk = c /\ thread'[x].rest = thread[x].rest \ {q}
  <2>1. thread[x].at = "push" =>
          /\ Without(thread[x], q).at = "push" /\ Without(thread[x], q).chunk = thread[x].chunk
          /\ Without(thread[x], q).rest = thread[x].rest \ {q}
    BY <1>0 DEF Places, Without
  <2> QED
    BY <2>1, InvitedThreads DEF Holds
<1>2. ASSUME NEW l \in Processes, NEW d \in Chunks
      PROVE  /\ ShareJob(x, l, d)' \in detached' => ShareJob(x, l, d) \in detached
             /\ ConnectJob(x, l, d)' \in detached' => ConnectJob(x, l, d) \in detached
             /\ HoldJob(x, d)' \in detached' <=> HoldJob(x, d) \in detached
             /\ (l # q \/ d # c) /\ ShareJob(x, l, d) \in detached => ShareJob(x, l, d)' \in detached'
  BY DEF Invited, ShareJob, ConnectJob, HoldJob
<1>3. GetFits(x)'
  BY <1>0, <1>1 DEF GetFits
<1>4. ASSUME NEW l \in Processes PROVE SharesFit(x, l)'
  <2>1. ASSUME NEW d \in Chunks, Reaches(x, l, d), l \in tables PROVE Reaches(x, l, d)'
    <3>1. CASE l = q /\ d = c
      BY <2>1, <3>1 DEF Reaches
    <3>2. CASE l # q \/ d # c
      <4>1. inviting[d].to = l => inviting'[d].to = l
        BY <3>2
      <4>2. thread[x].at = "push" /\ thread[x].chunk = d /\ l \in thread[x].rest =>
              thread'[x].at = "push" /\ thread'[x].chunk = d /\ l \in thread'[x].rest
        BY <1>1, <3>2
      <4> QED
        BY <1>1, <1>2, <2>1, <3>2, <4>1, <4>2 DEF Reaches
    <3> QED
      BY <3>1, <3>2
  <2> QED
    BY <1>0, <2>1, SharesStay DEF Holds
<1>5. ASSUME NEW d \in Chunks PROVE Fits(x, d)'
  <2>0. Fits(x, d)
    BY <1>0
  <2>1. SwarmFits(x, d)'
    <3>1. CASE d = c
      BY <3>1
    <3>2. CASE d # c
      BY <2>0, <3>2 DEF Fits, SwarmFits, Arrived
    <3> QED
      BY <3>1, <3>2
  <2>2. HoldersFit(x, d)'
    <3>1. Registers(x, d)' <=> Registers(x, d)
      BY <1>1, <1>2 DEF Registers, Arrived
    <3> QED
      BY <2>0, <3>1 DEF Fits, HoldersFit
  <2>3. OffersFit(x, d)'
    BY <1>1, <1>2, <2>0 DEF Fits, OffersFit
  <2>4. NewFits(x, d)'
    BY <2>0 DEF Fits, NewFits, Gone
  <2> QED
    BY <2>1, <2>2, <2>3, <2>4 DEF Fits
<1> QED
  BY <1>3, <1>4, <1>5

\* addPeer: a peer that is in the swarm has the chunk.
LEMMA SkipFits ==
  ASSUME Holds, BaseInv', [Next]_vars, NEW p \in Processes, NEW q \in Processes, NEW c \in Chunks,
         NEW by \in {"push", "share", "connect"}, Skip(p, q, c, by), NEW x \in Processes
  PROVE  /\ GetFits(x)' /\ \A l \in Processes : SharesFit(x, l)'
         /\ \A d \in Chunks : Fits(x, d)'
<1>. USE DEF metaVars, chunkVars, listenVars, triggerVars
<1>1. /\ UNCHANGED <<holders, swarm, inviting, active, listening, created, tables, todo, server>>
      /\ Invited(p, q, c, by) /\ (q \in swarm[c] \/ q \notin tables)
      /\ by = "push" => thread[p].at = "push" /\ thread[p].chunk = c
  BY DEF Skip, Invites
<1>2. q \in tables => c \in active[q]
  BY <1>1 DEF Holds, AgreeInv, Fits, SwarmFits
<1>3. ASSUME NEW y \in Processes PROVE SwarmFits(y, c)'
  BY <1>1, SwarmStays DEF Arrived, TodoStays
<1> QED
  BY <1>1, <1>2, <1>3, InvitedFits

\* The peer that has accepted has the chunk and gets into the swarm.
LEMMA AddedFits ==
  ASSUME Holds, BaseInv', [Next]_vars, NEW c \in Chunks, Added(c), NEW x \in Processes
  PROVE  /\ GetFits(x)' /\ \A l \in Processes : SharesFit(x, l)'
         /\ \A d \in Chunks : Fits(x, d)'
<1>. USE DEF metaVars, chunkVars, listenVars, triggerVars
<1>0. /\ OtherTypes /\ InvitationFits(c) /\ \A y \in Processes, d \in Chunks : Fits(y, d)
  BY DEF Holds, BaseInv, AgreeInv
<1>1. inviting[c] # NoInvitation /\ inviting[c].accepted
  BY DEF Added
<1>2. /\ inviting[c].of \in Processes /\ inviting[c].to \in Processes
      /\ inviting[c].by \in {"push", "share", "connect"}
  BY <1>0, <1>1 DEF OtherTypes, Invitations
<1>. PICK p \in Processes, q \in Processes, by \in {"push", "share", "connect"} :
       p = inviting[c].of /\ q = inviting[c].to /\ by = inviting[c].by
  BY <1>2
<1>3. /\ UNCHANGED <<holders, active, listening, created, tables, todo, server>>
      /\ Invited(p, q, c, by)
      /\ swarm'[c] = swarm[c] \cup {q} /\ inviting'[c] = NoInvitation
      /\ \A d \in Chunks \ {c} : inviting'[d] = inviting[d] /\ swarm'[d] = swarm[d]
  BY <1>0 DEF Added, OtherTypes
<1>4. by = "push" => thread[p].at = "push" /\ thread[p].chunk = c
  BY <1>0, <1>1 DEF InvitationFits
<1>5. c \in active[q]
  BY <1>0, <1>1 DEF Fits, SwarmFits
<1>6. ASSUME NEW y \in Processes PROVE SwarmFits(y, c)'
  <2>1. inviting'[c].to # y
    BY <1>3, TablesAssumption DEF NoInvitation
  <2>2. SwarmFits(y, c)
    BY <1>0 DEF Fits
  <2> QED
    BY <1>3, <1>5, <2>1, <2>2 DEF SwarmFits
<1> QED
  BY <1>3, <1>4, <1>5, <1>6, InvitedFits

\* handleListenToChunksFromPeer: a thread will share all chunks there are with the listener.
LEMMA AddListenerFits ==
  ASSUME Holds, BaseInv', [Next]_vars, NEW p \in Processes, AddListener(p), NEW x \in Processes
  PROVE  /\ GetFits(x)' /\ \A l \in Processes : SharesFit(x, l)'
         /\ \A d \in Chunks : Fits(x, d)'
<1>. USE DEF metaVars, chunkVars, listenVars, triggerVars
<1>0. /\ ThreadType /\ ServerType /\ OtherTypes /\ listening \in [Processes -> SUBSET Processes]
      /\ GetFits(x) /\ (\A l \in Processes : SharesFit(x, l)) /\ RequestFits(p)
      /\ \A d \in Chunks : Fits(x, d)
  BY DEF Holds, IInv, TypeInv, SharedTypes, BaseInv, AgreeInv
<1>1. server[p].type = "listed" /\ server[p].by \in tables /\ server[p].chunks = active[p]
  BY <1>0 DEF AddListener, RequestFits
<1>. PICK k \in Processes : k = server[p].by
  BY <1>0, <1>1 DEF OtherTypes
<1>2. /\ UNCHANGED <<holders, swarm, inviting, active, created, tables, todo>>
      /\ listening'[p] = listening[p] \cup {k}
      /\ \A y \in Processes \ {p} : listening'[y] = listening[y]
      /\ detached' = (detached \ {ListenJob(k, p)}) \cup {ShareJob(p, k, d) : d \in active[p]}
  BY <1>0, <1>1 DEF AddListener, ListenJob, ShareJob
<1>3. ThreadStays(x)
  BY <1>0 DEF AddListener, Returns, Goes, ThreadType, Idle, ThreadStays, ChunkPlaces
<1>4. ASSUME NEW d \in Chunks PROVE Arrived(x, d)' <=> Arrived(x, d)
  <2>1. server'[x] = IF x = p THEN NoRequest ELSE server[x]
    BY <1>0 DEF AddListener, ServerType
  <2> QED
    BY <1>1, <2>1 DEF Arrived, NoRequest
<1>5. ASSUME NEW l \in Processes, NEW d \in Chunks
      PROVE  /\ ShareJob(x, l, d)' \in detached' <=>
                  ShareJob(x, l, d) \in detached \/ (x = p /\ l = k /\ d \in active[p])
             /\ ConnectJob(x, l, d)' \in detached' <=> ConnectJob(x, l, d) \in detached
             /\ HoldJob(x, d)' \in detached' <=> HoldJob(x, d) \in detached
  BY <1>2 DEF ListenJob, ShareJob, ConnectJob, HoldJob
<1>6. GetFits(x)'
  BY <1>0, <1>2, <1>3 DEF GetFits, ThreadStays, ChunkPlaces
<1>7. ASSUME NEW l \in Processes PROVE SharesFit(x, l)'
  <2>1. CASE x = p /\ l = k
    <3>1. Known(l)' /\ created[x] \subseteq Chunks
      BY <1>0, <1>1, <1>2, <2>1 DEF Known, OtherTypes
    <3>2. ASSUME NEW d \in created'[x] \cap active'[x] PROVE Reaches(x, l, d)'
      BY <1>2, <1>5, <2>1, <3>1, <3>2 DEF Reaches
    <3> QED
      BY <3>1, <3>2 DEF SharesFit
  <2>2. CASE ~(x = p /\ l = k)
    <3>1. ASSUME NEW d \in Chunks, Reaches(x, l, d) PROVE Reaches(x, l, d)'
      BY <1>2, <1>3, <1>5, <3>1 DEF Reaches, ThreadStays, ChunkPlaces
    <3>2. l \in listening'[x] => l \in listening[x]
      BY <1>2, <2>2
    <3> QED
      BY <1>0, <1>2, <3>1, <3>2, SharesStay DEF Holds
  <2> QED
    BY <2>1, <2>2
<1>8. ASSUME NEW d \in Chunks PROVE Fits(x, d)'
  <2>0. Fits(x, d) /\ (Arrived(x, d)' <=> Arrived(x, d))
    BY <1>0, <1>4
  <2>1. SwarmFits(x, d)' /\ NewFits(x, d)'
    BY <1>2, <2>0, SwarmStays DEF TodoStays
  <2>2. HoldersFit(x, d)'
    <3>1. Registers(x, d)' <=> Registers(x, d)
      BY <1>3, <1>5, <2>0 DEF Registers, ThreadStays, ChunkPlaces
    <3> QED
      BY <1>2, <2>0, <3>1 DEF Fits, HoldersFit
  <2>3. OffersFit(x, d)'
    <3>1. thread'[x].at \in {"created", "push"} => thread'[x] = thread[x]
      BY <1>3 DEF ThreadStays, ChunkPlaces
    <3> QED
      BY <1>1, <1>2, <1>5, <2>0, <3>1 DEF Fits, OffersFit
  <2> QED
    BY <2>1, <2>2, <2>3 DEF Fits
<1> QED
  BY <1>6, <1>7, <1>8

--------------------------------------------------------------------------------
(* What is asked of a listenThread, and that all of this holds always. *)

\* A request stays as it is while its listenThread reads the chunks.
LEMMA RequestStays ==
  ASSUME NEW x \in Processes, RequestFits(x), tables \subseteq tables', server'[x] = server[x],
         server[x].type = "listed" => active'[x] = active[x] /\ "server" \in lock'[x].readers,
         \A q \in Processes :
           ListenJob(x, q) \in detached' => ListenJob(x, q) \in detached \/ x \in tables
  PROVE  RequestFits(x)'
BY DEF RequestFits, ListenJob

\* newChunk does not add a chunk to those that are listed, getChunk and the triggers let go of
\* the lock for themselves only.
LEMMA ThreadRequests ==
  ASSUME Holds, NEW p \in Processes, ~Kill(p), ThreadStep(p) \/ Begin(p), NEW x \in Processes
  PROVE  RequestFits(x)'
<1>. USE DEF metaVars, chunkVars, listenVars, triggerVars
<1>0. /\ ThreadType /\ LockType /\ OtherTypes /\ RequestFits(x) /\ PresentFits(p)
      /\ active \in [Processes -> SUBSET Chunks]
  BY DEF Holds, IInv, TypeInv, TriggerTypes, BaseInv, AgreeInv
<1>2. ASSUME tables \subseteq tables', UNCHANGED <<server, active, lock, detached>>
      PROVE  RequestFits(x)'
  BY <1>0, <1>2, RequestStays DEF RequestFits
<1>3. ASSUME UNCHANGED <<tables, server, active, detached>>, LockType,
             ReadLocks(p, "thread") \/ ReadUnlocks(p, "thread") \/ WriteUnlocks(p)
      PROVE  RequestFits(x)'
  <2>1. "server" \in lock[x].readers => "server" \in lock'[x].readers
    BY <1>3, ReadLocking, ReadUnlocking, WriteUnlocking DEF Threads
  <2> QED
    BY <1>0, <1>3, <2>1, RequestStays DEF RequestFits
<1>4. CASE AddTable(p) \/ SyncTableDefinition(p) \/ CreateIndex(p) \/ ReadDefinition(p) \/ JoinIndex(p)
  BY <1>2, <1>4 DEF AddTable, SyncTableDefinition, CreateIndex, ReadDefinition, JoinIndex
<1>5. CASE Announce(p)
  <2>1. UNCHANGED <<tables, server, active, lock>>
    BY <1>5 DEF Announce
  <2>2. UNCHANGED detached \/ \E l \in tables : detached' = detached \cup {ListenJob(l, p)}
    BY <1>5 DEF Announce, handleAnnounceToListeners, ListenJob
  <2>3. \A q \in Processes :
          ListenJob(x, q) \in detached' => ListenJob(x, q) \in detached \/ x \in tables
    BY <2>2 DEF ListenJob
  <2> QED
    BY <1>0, <2>1, <2>3, RequestStays DEF RequestFits
<1>6. CASE UpdateListeners(p) \/ ReadListeners(p) \/ \E q \in Processes : Follow(p, q)
  BY <1>2, <1>6 DEF UpdateListeners, ReadListeners, Follow
<1>7. CASE RegisterNew(p) \/ BeginPush(p) \/ EndPush(p) \/ Connected(p)
  BY <1>2, <1>7 DEF RegisterNew, BeginPush, EndPush, Connected
<1>8. CASE AttachToNew(p)
  BY <1>0, <1>3, <1>8 DEF AttachToNew, AttachTriggers
<1>9. CASE Seek(p) \/ AttachToCurrent(p)
  BY <1>0, <1>3, <1>9 DEF Seek, AttachToCurrent
<1>10. CASE Connect(p)
  <2>1. UNCHANGED <<tables, server, active, lock>>
    BY <1>10 DEF Connect
  <2>2. \A q \in Processes : ListenJob(x, q) \in detached' => ListenJob(x, q) \in detached
    BY <1>10 DEF Connect, ListenJob
  <2> QED
    BY <1>0, <2>1, <2>2, RequestStays DEF RequestFits
<1>11. CASE AttachToFuture(p)
  BY <1>0, <1>3, <1>11 DEF AttachToFuture, TriggerLocks
<1>12. ASSUME NEW c \in Chunks, GetChunk(p, c) PROVE RequestFits(x)'
  BY <1>0, <1>2, <1>3, <1>12 DEF GetChunk
<1>13. ASSUME NEW c \in Chunks, NewChunk(p, c) PROVE RequestFits(x)'
  <2>1. /\ UNCHANGED <<tables, server, detached>> /\ lock[p].readers = {}
        /\ x # p => active'[x] = active[x] /\ lock'[x] = lock[x]
    BY <1>0, <1>13 DEF NewChunk, Emplace, CanWrite, WriteLocks, LockType
  <2>2. server[x].type = "listed" => x # p
    BY <1>0, <2>1 DEF RequestFits
  <2> QED
    BY <1>0, <2>1, <2>2, RequestStays DEF RequestFits
<1> QED
  BY <1>4, <1>5, <1>6, <1>7, <1>8, <1>9, <1>10, <1>11, <1>12, <1>13 DEF ThreadStep, Begin

\* handleListenToChunksFromPeer lists the chunks under the lock; the listener has the table.
LEMMA ServerRequests ==
  ASSUME Holds, NEW p \in Processes, ServerStep(p) \/ \E l \in Processes : RequestChunks(l, p),
         NEW x \in Processes
  PROVE  RequestFits(x)'
<1>. USE DEF metaVars, chunkVars, listenVars, triggerVars
<1>0. /\ ServerType /\ LockType /\ RequestFits(x) /\ RequestFits(p)
      /\ active \in [Processes -> SUBSET Chunks]
  BY DEF Holds, IInv, TypeInv, TriggerTypes, AgreeInv
<1>1. ASSUME UNCHANGED tables,
             x # p => server'[x] = server[x] /\ active'[x] = active[x] /\ lock'[x] = lock[x],
             \A q \in Processes : ListenJob(x, q) \in detached' => ListenJob(x, q) \in detached,
             server'[p].type \notin {"listen", "listed"}
      PROVE  RequestFits(x)'
  <2>1. CASE x = p
    BY <1>0, <1>1, <2>1 DEF RequestFits, ListenJob
  <2>2. CASE x # p
    BY <1>0, <1>1, <2>2, RequestStays DEF RequestFits
  <2> QED
    BY <2>1, <2>2
<1>2. CASE HandleInit(p)
  <2>1. server[p] \in Requests /\ server[p].type = "init"
    BY <1>0, <1>2 DEF HandleInit, ServerType
  <2>2. [server[p] EXCEPT !.type = "emplaced"].type = "emplaced"
    BY <2>1 DEF Requests, NoRequest
  <2> QED
    BY <1>0, <1>1, <1>2, <2>2 DEF HandleInit, Emplace, WriteLocks, ServerType, LockType
<1>3. CASE HandleInitEnd(p)
  <2>1. \A q \in Processes : ListenJob(x, q) \in detached' => ListenJob(x, q) \in detached
    BY <1>3 DEF HandleInitEnd, ListenJob
  <2> QED
    BY <1>0, <1>1, <1>3, <2>1
       DEF HandleInitEnd, AttachTriggers, WriteUnlocks, NoRequest, ServerType, LockType
<1>4. CASE AddListener(p)
  <2>1. \A q \in Processes : ListenJob(x, q) \in detached' => ListenJob(x, q) \in detached
    BY <1>4 DEF AddListener, ListenJob
  <2> QED
    BY <1>0, <1>1, <1>4, <2>1
       DEF AddListener, ReadUnlocks, NoRequest, ServerType, LockType
<1>5. CASE ListChunks(p)
  <2>1. /\ UNCHANGED <<tables, active, detached>> /\ server[p].type = "listen"
        /\ server'[p] = [type |-> "listed", by |-> server[p].by, chunks |-> active[p]]
        /\ \A y \in Processes \ {p} : server'[y] = server[y]
    BY <1>0, <1>5 DEF ListChunks, ServerType
  <2>2. /\ "server" \in lock'[p].readers
        /\ \A y \in Processes \ {p} : lock'[y] = lock[y]
    BY <1>0, <1>5, ReadLocking DEF ListChunks, ListLocks, Threads
  <2>3. CASE x = p
    BY <1>0, <2>1, <2>2, <2>3 DEF RequestFits, ListenJob
  <2>4. CASE x # p
    BY <1>0, <2>1, <2>2, <2>4, RequestStays DEF RequestFits
  <2> QED
    BY <2>3, <2>4
<1>6. ASSUME NEW l \in Processes, RequestChunks(l, p) PROVE RequestFits(x)'
  <2>1. /\ UNCHANGED <<tables, active, detached, lock>>
        /\ server'[p] = [type |-> "listen", by |-> l]
        /\ \A y \in Processes \ {p} : server'[y] = server[y]
        /\ thread[l] = [at |-> "listen", to |-> p] \/ ListenJob(l, p) \in detached
    BY <1>0, <1>6 DEF RequestChunks, ServerType, ListenJob
  <2>2. l \in tables
    BY <2>1 DEF Holds, BaseInv, PresentFits, AgreeInv, RequestFits
  <2>3. CASE x = p
    BY <1>0, <2>1, <2>2, <2>3 DEF RequestFits, ListenJob
  <2>4. CASE x # p
    BY <1>0, <2>1, <2>4, RequestStays DEF RequestFits
  <2> QED
    BY <2>3, <2>4
<1> QED
  BY <1>2, <1>3, <1>4, <1>5, <1>6 DEF ServerStep

\* Adding a peer to a chunk asks for no more than that.
LEMMA InviteRequests ==
  ASSUME Holds, NEW x \in Processes,
         \/ \E p \in Processes, q \in Processes, c \in Chunks, by \in {"push", "share", "connect"} :
              Skip(p, q, c, by) \/ Invite(p, q, c, by)
         \/ \E c \in Chunks : ChunkStep(c)
  PROVE  RequestFits(x)'
<1>. USE DEF metaVars, chunkVars, listenVars, triggerVars
<1>0. ServerType /\ RequestFits(x)
  BY DEF Holds, IInv, TypeInv, AgreeInv
<1>1. ASSUME UNCHANGED <<tables, server, active, lock>>, detached' \subseteq detached
      PROVE  RequestFits(x)'
  BY <1>0, <1>1, RequestStays DEF RequestFits
<1>2. ASSUME NEW p, NEW q, NEW c, NEW by, Skip(p, q, c, by) PROVE RequestFits(x)'
  BY <1>1, <1>2 DEF Skip, Invited
<1>3. ASSUME NEW p \in Processes, NEW q \in Processes, NEW c \in Chunks, NEW by, Invite(p, q, c, by)
      PROVE  RequestFits(x)'
  <2>1. /\ UNCHANGED <<tables, active, lock, detached>>
        /\ server'[q] = [type |-> "init", chunk |-> c]
        /\ \A y \in Processes \ {q} : server'[y] = server[y]
    BY <1>0, <1>3 DEF Invite, ServerType
  <2> QED
    BY <1>0, <2>1 DEF RequestFits, ListenJob
<1>4. ASSUME NEW c \in Chunks, Added(c) PROVE RequestFits(x)'
  BY <1>1, <1>4 DEF Added, Invited
<1>5. ASSUME NEW c \in Chunks, NEW q \in Processes, RegisterInvited(q, c) PROVE RequestFits(x)'
  BY <1>1, <1>5 DEF RegisterInvited
<1> QED
  BY <1>2, <1>3, <1>4, <1>5 DEF ChunkStep

\* Every step keeps it.
LEMMA RequestKept ==
  ASSUME "departures" \in Apart, Holds, [Next]_vars, NEW x \in Processes
  PROVE  RequestFits(x)'
<1>1. CASE UNCHANGED vars
  BY <1>1 DEF vars, Holds, AgreeInv, RequestFits, ListenJob
<1>2. ASSUME NEW p \in Processes, Kill(p) PROVE RequestFits(x)'
  <2>1. detached' = {} /\ server'[x] = NoRequest
    BY <1>2 DEF Kill, DeparturesApart, Quiet
  <2> QED
    BY <2>1 DEF RequestFits, NoRequest
<1> QED
  BY <1>1, <1>2, ThreadRequests, ServerRequests, InviteRequests DEF Next, Step, DetachedStep

\* Every step keeps the rest, too.
LEMMA RestKept ==
  ASSUME FreshIds, "departures" \in Apart, Holds, BaseInv', [Next]_vars, NEW x \in Processes
  PROVE  /\ GetFits(x)' /\ \A l \in Processes : SharesFit(x, l)'
         /\ \A c \in Chunks : Fits(x, c)'
<1>1. CASE PlainSteps
  <2>1. PlainShape
    BY <1>1, PlainStepsArePlain DEF Holds
  <2> QED
    BY <2>1, PlainFits DEF PlainShape
<1>2. ASSUME NEW p \in Processes, Begin(p), ~PlainSteps
      PROVE  Kill(p) \/ \E c \in Chunks : NewChunk(p, c) \/ GetChunk(p, c)
  BY <1>2 DEF Begin, PlainSteps
<1>3. ASSUME NEW p \in Processes, Step(p), ~PlainSteps
      PROVE  \/ AttachToNew(p) \/ RegisterNew(p) \/ BeginPush(p) \/ EndPush(p)
             \/ Seek(p) \/ Connect(p)
             \/ HandleInit(p) \/ HandleInitEnd(p) \/ AddListener(p)
  BY <1>3 DEF Step, ThreadStep, ServerStep, PlainSteps
<1>4. ASSUME NEW p \in Processes, NEW q \in Processes, DetachedStep(p, q), ~PlainSteps
      PROVE  \E c \in Chunks, by \in {"push", "share", "connect"} :
               Skip(p, q, c, by) \/ Invite(p, q, c, by)
  BY <1>4 DEF DetachedStep, PlainSteps
<1>5. CASE \E p \in Processes : Begin(p) /\ ~PlainSteps
  BY <1>2, <1>5, KillFits, CreationFits, GetChunkFits
<1>6. CASE \E p \in Processes : Step(p) /\ ~PlainSteps
  BY <1>3, <1>6, NewChunkFits, GetChunkFits, HandleInitFits, HandleInitEndFits, AddListenerFits
<1>7. CASE \E p, q \in Processes : DetachedStep(p, q) /\ ~PlainSteps
  BY <1>4, <1>7, SkipFits, InviteFits
<1>8. CASE \E c \in Chunks : ChunkStep(c)
  BY <1>8, AddedFits, RegisterInvitedFits DEF ChunkStep
<1>9. UNCHANGED vars => PlainSteps
  BY DEF PlainSteps
<1> QED
  BY <1>1, <1>5, <1>6, <1>7, <1>8, <1>9 DEF Next

\* At first nobody has a chunk.
LEMMA InitAgree == Init => AgreeInv
<1> SUFFICES ASSUME Init, NEW p \in Processes
             PROVE  /\ GetFits(p) /\ RequestFits(p) /\ \A l \in Processes : SharesFit(p, l)
                    /\ \A c \in Chunks : Fits(p, c)
  BY DEF AgreeInv
<1>1. GetFits(p) /\ RequestFits(p) /\ \A l \in Processes : SharesFit(p, l)
  BY DEF Init, Idle, NoRequest, GetFits, RequestFits, SharesFit
<1>2. ASSUME NEW c \in Chunks PROVE Fits(p, c)
  <2>1. inviting[c].to # p
    BY TablesAssumption DEF Init, NoInvitation
  <2>2. SwarmFits(p, c)
    BY <2>1 DEF Init, SwarmFits
  <2>3. HoldersFit(p, c)
    BY DEF Init, Idle, NoRequest, HoldersFit, Registers, Arrived
  <2>4. OffersFit(p, c)
    BY DEF Init, Idle, OffersFit
  <2>5. NewFits(p, c)
    BY DEF Init, NewFits
  <2> QED
    BY <2>2, <2>3, <2>4, <2>5 DEF Fits
<1> QED
  BY <1>1, <1>2

\* All of it holds always.
LEMMA HoldsAlways ==
  ASSUME FreshIds, "departures" \in Apart
  PROVE  Spec => []Holds
<1>1. Init => Holds
  BY InitKeeps, InitBase, InitAgree DEF Holds
<1>2. Holds /\ [Next]_vars => Holds'
  <2> SUFFICES ASSUME Holds, [Next]_vars PROVE Holds'
    OBVIOUS
  <2>1. IInv' /\ BaseInv'
    BY NextKeeps, BaseKeeps DEF Holds
  <2>2. AgreeInv'
    BY <2>1, RequestKept, RestKept DEF AgreeInv
  <2> QED
    BY <2>1, <2>2 DEF Holds
<1> QED
  BY <1>1, <1>2, PTL DEF Spec

\* joinChunkHolders, the swarm of a chunk and active_chunks_: when ids are fresh (generateId) and
\* nobody leaves while something goes on, the three agree whenever nothing does.
THEOREM HoldersAgreed ==
  ASSUME FreshIds, "departures" \in Apart
  PROVE  Spec => []HoldersAgree
<1>1. Holds => HoldersAgree
  <2> SUFFICES ASSUME Holds, AtRest, NEW p \in Processes, NEW c \in Chunks
               PROVE  (c \in active[p] <=> p \in holders[c]) /\ (c \in active[p] <=> p \in swarm[c])
    BY DEF HoldersAgree
  <2>1. Fits(p, c)
    BY DEF Holds, AgreeInv
  <2>2. thread[p] = Idle /\ server[p] = NoRequest /\ detached = {} /\ inviting[c] = NoInvitation
    BY DEF AtRest, Quiet
  <2>3. inviting[c].to # p /\ ~Registers(p, c)
    BY <2>2, TablesAssumption DEF NoInvitation, Registers, Idle, Arrived, NoRequest
  <2> QED
    BY <2>1, <2>3 DEF Fits, SwarmFits, HoldersFit
<1> QED
  BY <1>1, HoldsAlways, PTL

\* newChunk against handleListenToChunksFromPeer: every chunk that a process has created, before
\* it had the listener, after or in between, is there at the listener when nothing goes on.
THEOREM ListenersGet ==
  ASSUME FreshIds, "departures" \in Apart
  PROVE  Spec => []ListenersGetChunks
<1>1. Holds => ListenersGetChunks
  <2> SUFFICES ASSUME Holds, AtRest, NEW p \in tables, NEW l \in tables, l \in listening[p],
                      NEW c \in created[p] \cap active[p]
               PROVE  c \in active[l]
    BY DEF ListenersGetChunks
  <2>1. p \in Processes /\ l \in Processes /\ c \in Chunks
    BY DEF Holds, BaseInv, OtherTypes
  <2>2. Reaches(p, l, c)
    BY <2>1 DEF Holds, AgreeInv, SharesFit
  <2>3. thread[p] = Idle /\ detached = {} /\ inviting[c] = NoInvitation
    BY <2>1 DEF AtRest, Quiet
  <2>4. inviting[c].to # l
    BY <2>1, <2>3, TablesAssumption DEF NoInvitation
  <2> QED
    BY <2>2, <2>3, <2>4 DEF Reaches, Idle
<1> QED
  BY <1>1, HoldsAlways, PTL

--------------------------------------------------------------------------------
(* No CHECK fails. *)

\* A call or what follows it ends no process: a chunk that is created is not there yet, one that
\* is looked up has a holder, which has it.
LEMMA CallChecks ==
  ASSUME "entries" \in Apart, Holds, NEW p \in Processes, ThreadStep(p) \/ Begin(p)
  PROVE  aborted' = aborted
<1>. USE DEF metaVars, chunkVars, listenVars, triggerVars
<1>0. /\ thread[p] \in Places /\ OtherTypes /\ GetFits(p)
      /\ \A y \in Processes, d \in Chunks : Fits(y, d)
  BY DEF Holds, IInv, TypeInv, ThreadType, BaseInv, AgreeInv
<1>1. CASE JoinIndex(p)
  BY <1>1 DEF JoinIndex, EntriesApart
<1>2. ASSUME NEW c \in Chunks, NewChunk(p, c) PROVE aborted' = aborted
  <2>1. Call(p, [call |-> "new", chunk |-> c])
    BY <1>2 DEF NewChunk
  <2>2. c \notin active[p]
    BY <1>0, <2>1, CallsMade DEF Fits, NewFits
  <2> QED
    BY <1>2, <2>2 DEF NewChunk, Emplace
<1>3. CASE Seek(p)
  BY <1>0, <1>3 DEF Seek, GetFits
<1>4. CASE Connect(p)
  <2>1. thread[p].at = "connect" /\ thread[p].chunk \in Chunks /\ thread[p].to \in Processes
    BY <1>0, <1>4, PlaceAtChunk, PlaceFields DEF Connect
  <2>2. thread[p].chunk \in active[thread[p].to]
    BY <1>0, <2>1 DEF GetFits, Fits, HoldersFit
  <2> QED
    BY <1>4, <2>2 DEF Connect
<1>5. CASE \/ AddTable(p) \/ SyncTableDefinition(p) \/ CreateIndex(p) \/ ReadDefinition(p)
           \/ Announce(p) \/ UpdateListeners(p) \/ ReadListeners(p) \/ \E q \in Processes : Follow(p, q)
  BY <1>5 DEF AddTable, SyncTableDefinition, CreateIndex, ReadDefinition, Announce, UpdateListeners,
              ReadListeners, Follow
<1>6. CASE \/ AttachToNew(p) \/ RegisterNew(p) \/ BeginPush(p) \/ EndPush(p) \/ Connected(p)
           \/ AttachToFuture(p) \/ AttachToCurrent(p) \/ Kill(p) \/ \E c \in Chunks : GetChunk(p, c)
  BY <1>6 DEF AttachToNew, RegisterNew, BeginPush, EndPush, Connected, AttachToFuture,
              AttachToCurrent, Kill, GetChunk
<1> QED
  BY <1>1, <1>2, <1>3, <1>4, <1>5, <1>6 DEF ThreadStep, Begin

\* Nor does a request, or a thread that is detached: a peer that is invited has not the chunk,
\* one that shares are for still has the table.
LEMMA RequestChecks ==
  ASSUME Holds,
         \/ \E p \in Processes : ServerStep(p) \/ \E q \in Processes : DetachedStep(p, q)
         \/ \E c \in Chunks : ChunkStep(c)
  PROVE  aborted' = aborted
<1>. USE DEF metaVars, chunkVars, listenVars, triggerVars
<1>0. ServerType /\ \A y \in Processes, d \in Chunks : Fits(y, d)
  BY DEF Holds, IInv, TypeInv, AgreeInv
<1>1. ASSUME NEW q \in Processes, HandleInit(q) PROVE aborted' = aborted
  <2>1. PICK c \in Chunks : c = server[q].chunk
    BY <1>0, <1>1 DEF HandleInit, ServerType, Requests, NoRequest
  <2>2. inviting[c].to = q /\ ~inviting[c].accepted /\ ~Arrived(q, c)
    BY <1>1, <2>1 DEF HandleInit, Holds, BaseInv, InvitationFits, Arriving, Arrived
  <2>3. c \notin active[q]
    BY <1>0, <2>2 DEF Fits, SwarmFits
  <2>4. Emplace(q, c, "server")
    BY <1>1, <2>1 DEF HandleInit
  <2> QED
    BY <2>3, <2>4 DEF Emplace
<1>2. ASSUME NEW p \in Processes, HandleInitEnd(p) \/ ListChunks(p) \/ AddListener(p)
      PROVE  aborted' = aborted
  BY <1>2 DEF HandleInitEnd, ListChunks, AddListener
<1>3. ASSUME NEW p \in Processes, NEW q \in Processes, RequestChunks(p, q) PROVE aborted' = aborted
  BY <1>3 DEF RequestChunks
<1>4. ASSUME NEW p \in Processes, NEW q \in Processes, NEW c \in Chunks,
             NEW by \in {"push", "share", "connect"}, Skip(p, q, c, by)
      PROVE  aborted' = aborted
  <2>1. by # "push" => q \in tables
    BY <1>0, <1>4 DEF Skip, Invites, Fits, OffersFit, ShareJob, ConnectJob
  <2> QED
    BY <1>4, <2>1 DEF Skip
<1>5. ASSUME NEW p \in Processes, NEW q \in Processes, NEW c \in Chunks, NEW by, Invite(p, q, c, by)
      PROVE  aborted' = aborted
  BY <1>5 DEF Invite
<1>6. ASSUME NEW c \in Chunks, ChunkStep(c) PROVE aborted' = aborted
  BY <1>6 DEF ChunkStep, Added, RegisterInvited
<1> QED
  BY <1>1, <1>2, <1>3, <1>4, <1>5, <1>6 DEF ServerStep, DetachedStep

\* The CHECKs of NetTableManager and NetTable: when, besides, the process that has defined a table
\* has created its index before another one asks for the way in, none fails in any process.
THEOREM ChecksHold ==
  ASSUME FreshIds, "departures" \in Apart, "entries" \in Apart
  PROVE  Spec => []TableChecks
<1>1. Holds => (aborted = {} => TableChecks)
  BY DEF Holds, IInv, TypeInv, SharedTypes, Definitions, LockType, Locks, TriggerTypes, BaseInv,
         OtherTypes, TableChecks, TablesTypes
<1>2. Init => aborted = {}
  BY DEF Init
<1>3. aborted = {} /\ Holds /\ [Next]_vars => (aborted = {})'
  <2> SUFFICES ASSUME Holds, [Next]_vars PROVE aborted' = aborted
    OBVIOUS
  <2>1. CASE UNCHANGED vars
    BY <2>1 DEF vars
  <2> QED
    BY <2>1, CallChecks, RequestChecks DEF Next, Step
<1> QED
  BY <1>1, <1>2, <1>3, HoldsAlways, PTL DEF Spec
================================================================================
