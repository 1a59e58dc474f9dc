--------------------------------- MODULE Tables --------------------------------
(***************************************************************************)
(* A table that several processes use (map-api/src/net-table-manager.cc,   *)
(* net-table.cc): how they agree on who creates its index, how a process   *)
(* gets the chunks of others or creates its own, and how the others hear   *)
(* of them.                                                                *)
(*                                                                         *)
(* A process has a thread that calls, a listenThread that serves one       *)
(* request at a time (hub.cc), and the threads that handlers detach        *)
(* because an RPC handler must not make RPCs.  A handler that waits for a  *)
(* lock keeps the listenThread, and whoever has a request for it.          *)
(*                                                                         *)
(* What other modules describe is one step here: the ring and its entries  *)
(* (ChordIndex), the distributed lock of a chunk and its swarm             *)
(* (LegacyChunk), commits to the metatable (Transactions).                 *)
(***************************************************************************)
EXTENDS Naturals, FiniteSets

CONSTANTS Processes, NoProcess, Chunks,
          OwnerOf,  \* the process whose part of the ring a chunk's id falls in
          Calls,    \* what each process does with the table, besides addTable
          Apart     \* what is taken not to overlap, see below

ASSUME TablesAssumption ==
  /\ NoProcess \notin Processes
  /\ OwnerOf \in [Chunks -> Processes]
  /\ Calls \in [Processes -> SUBSET ([call : {"new", "get"}, chunk : Chunks]
                                       \cup [call : {"listen", "trigger", "kill"}]
                                       \cup [call : {"follow"}, peer : Processes])]
  /\ Apart \subseteq {"entries", "departures", "pushes"}

VARIABLES
  definition,  \* the revision of the table in the metatable: participant and listeners
  tables,      \* the processes that have the table in tables_
  index,       \* the processes that have joined index_
  holders,     \* what the index says of each chunk
  swarm,       \* the peers of each chunk
  inviting,    \* the thread that has the lock of a chunk to add a peer
  active,      \* active_chunks_
  lock,        \* who reads and who writes under active_chunks_lock_
  listening,   \* new_chunk_listeners_
  m_listeners, \* who has m_new_chunk_listeners_
  future,      \* triggers_to_attach_to_future_chunks_: how many
  triggers,    \* the triggers of each chunk of each process: how many
  thread,      \* the thread that calls: where it is and what with
  todo,        \* the calls it has yet to make
  server,      \* the request that the listenThread handles
  detached,    \* the threads detached by handlers
  created,     \* history: who has created which chunks
  heard,       \* history: <<l, p>>: l was a listener when p joined the table
  aborted

metaVars == <<definition, tables, index, heard>>
chunkVars == <<holders, swarm, active>>
listenVars == <<listening, m_listeners>>
triggerVars == <<future, triggers>>
vars == <<definition, tables, index, holders, swarm, inviting, active, lock, listening,
          m_listeners, future, triggers, thread, todo, server, detached, created, heard, aborted>>

Undefined == [participant |-> NoProcess, listeners |-> {}]
Idle == [at |-> "idle"]
NoRequest == [type |-> "none"]
NoInvitation == [to |-> NoProcess]

Goes(p, place) == thread' = [thread EXCEPT ![p] = place]
Returns(p) == Goes(p, Idle)
Aborts(p) == aborted' = aborted \cup {p}

\* A request to q can be handled now; a process asks itself without one.
Serves(q, p) == p = q \/ server[q] = NoRequest

--------------------------------------------------------------------------------
(* What is taken not to overlap; each is a hazard that the code leaves to its *)
(* users.                                                                     *)

\* "entries": the process that defines a table creates its index before
\* another one asks it for the way in.
EntriesApart == "entries" \in Apart => definition.participant \in index

\* "departures": a process leaves when nothing goes on, and others call again
\* when it has; the one that has defined the table does not leave.
Quiet ==
  /\ \A p \in Processes : thread[p] = Idle /\ server[p] = NoRequest
  /\ \A c \in Chunks : inviting[c] = NoInvitation
  /\ detached = {}
DeparturesApart(p) == "departures" \in Apart => Quiet /\ p # definition.participant

\* "pushes": while a process pushes a chunk to its listeners, no other process
\* does, and nobody asks it to be one.
PushesApart(p) ==
  "pushes" \in Apart =>
    /\ \A q \in Processes \ {p} : thread[q].at # "push"
    /\ listening[p] = {} \/ server[p].type \notin {"listen", "listed"}
RequestsApart(p) == "pushes" \in Apart => thread[p].at # "push"

--------------------------------------------------------------------------------
(* active_chunks_lock_: readers go first, a process has it at most twice, by *)
(* its thread and by its listenThread.                                       *)

CanRead(p) == lock[p].writer = "none"
CanWrite(p) == lock[p] = [readers |-> {}, writer |-> "none"]
ReadLocks(p, who) == lock' = [lock EXCEPT ![p].readers = @ \cup {who}]

\* mutant: the lock is kept, e.g. by getChunk while it connects to a holder.
ReadUnlocks_Not(p, who) == UNCHANGED lock

ReadUnlocks(p, who) == lock' = [lock EXCEPT ![p].readers = @ \ {who}]
WriteLocks(p, who) == lock' = [lock EXCEPT ![p].writer = who]
WriteUnlocks(p) == lock' = [lock EXCEPT ![p].writer = "none"]

\* mutant: the chunks are listed and the listener is added without the lock.
ListLocks_Not(p) == UNCHANGED lock

\* handleListenToChunksFromPeer keeps chunks from being added while it lists them.
ListLocks(p) == ReadLocks(p, "server")

\* mutant: triggers are attached without the lock.
TriggerLocks_Not(p) == UNCHANGED lock

\* attachTriggerToCurrentAndFutureChunks "Make sure no chunks are added ...".
TriggerLocks(p) == ReadLocks(p, "thread")

--------------------------------------------------------------------------------
(* NetTableManager::addTable. *)

\* The table is put into tables_.
AddTable(p) ==
  /\ thread[p] = Idle /\ p \notin tables /\ [call |-> "gone"] \notin todo[p]
  /\ tables' = tables \cup {p}
  /\ Goes(p, [at |-> "sync"])
  /\ UNCHANGED <<definition, index, heard, chunkVars, inviting, lock, listenVars, triggerVars,
                 todo, server, detached, created, aborted>>

\* The definition that a commit under the condition that there is none leaves.
TryInsert(p) == IF definition = Undefined THEN [participant |-> p, listeners |-> {}] ELSE definition

\* syncTableDefinition: the commit.
SyncTableDefinition(p) ==
  /\ thread[p].at = "sync"
  /\ definition' = TryInsert(p)
  /\ Goes(p, [at |-> IF definition = Undefined THEN "create" ELSE "read"])
  /\ UNCHANGED <<tables, index, heard, chunkVars, inviting, lock, listenVars, triggerVars, todo,
                 server, detached, created, aborted>>

\* The first one creates the index.
CreateIndex(p) ==
  /\ thread[p].at = "create"
  /\ index' = index \cup {p}
  /\ Returns(p)
  /\ UNCHANGED <<definition, tables, heard, chunkVars, inviting, lock, listenVars, triggerVars,
                 todo, server, detached, created, aborted>>

\* The others read the entry point and the listeners.
ReadDefinition(p) ==
  /\ thread[p].at = "read"
  /\ heard' = heard \cup {<<l, p>> : l \in definition.listeners}
  /\ Goes(p, [at |-> "join", rest |-> definition.listeners])
  /\ UNCHANGED <<definition, tables, index, chunkVars, inviting, lock, listenVars, triggerVars,
                 todo, server, detached, created, aborted>>

\* joinIndex by the entry point, which declines when it has no index.
JoinIndex(p) ==
  /\ thread[p].at = "join" /\ EntriesApart
  /\ Serves(definition.participant, p)
  /\ IF definition.participant \in index
     THEN /\ index' = index \cup {p}
          /\ Goes(p, [thread[p] EXCEPT !.at = "announce"])
          /\ UNCHANGED aborted
     ELSE Aborts(p) /\ UNCHANGED <<index, thread>>
  /\ UNCHANGED <<definition, tables, heard, chunkVars, inviting, lock, listenVars, triggerVars,
                 todo, server, detached, created>>

\* handleAnnounceToListeners at l: a thread will listen to p.
handleAnnounceToListeners(l, p) == detached \cup {[at |-> "listen", of |-> l, to |-> p]}

\* announceToListeners; one that is not there any more is left out.
Announce(p) ==
  /\ thread[p].at = "announce"
  /\ IF thread[p].rest = {}
     THEN Returns(p) /\ UNCHANGED <<detached, aborted>>
     ELSE \E l \in thread[p].rest :
            /\ Serves(l, p)
            /\ Goes(p, [thread[p] EXCEPT !.rest = @ \ {l}])
            /\ detached' = IF l \in tables THEN handleAnnounceToListeners(l, p) ELSE detached
            /\ UNCHANGED aborted
  /\ UNCHANGED <<metaVars, chunkVars, inviting, lock, listenVars, triggerVars, todo, server,
                 created>>

--------------------------------------------------------------------------------
(* The calls of a process that has the table. *)

CanCall(p) == thread[p] = Idle /\ p \in index
Call(p, call) == call \in todo[p] /\ todo' = [todo EXCEPT ![p] = @ \ {call}]

\* listenToPeersJoiningTable: the definition is read ...
ReadListeners(p) ==
  /\ \/ CanCall(p) /\ Call(p, [call |-> "listen"])
     \/ thread[p].at = "retry" /\ UNCHANGED todo
  /\ Goes(p, [at |-> "update", read |-> definition])
  /\ UNCHANGED <<metaVars, chunkVars, inviting, lock, listenVars, triggerVars, server, detached,
                 created, aborted>>

\* mutant: the commit goes through whatever has changed.
CommitListener_Blind(p) == TRUE

\* Nobody else has committed since.
CommitListener(p) == definition = thread[p].read

\* ... and updated, again if another process has updated it in between.
UpdateListeners(p) ==
  /\ thread[p].at = "update"
  /\ IF CommitListener(p)
     THEN /\ definition' = [thread[p].read EXCEPT !.listeners = @ \cup {p}]
          /\ Returns(p)
     ELSE Goes(p, [at |-> "retry"]) /\ UNCHANGED definition
  /\ UNCHANGED <<tables, index, heard, chunkVars, inviting, lock, listenVars, triggerVars, todo,
                 server, detached, created, aborted>>

\* addInitializedChunk, under the lock: the chunk is emplaced ...
Emplace(p, c, who) ==
  /\ CanWrite(p) /\ WriteLocks(p, who)
  /\ active' = [active EXCEPT ![p] = @ \cup {c}]
  /\ IF c \in active[p] THEN Aborts(p) ELSE UNCHANGED aborted

\* ... and gets the triggers of future chunks.
AttachTriggers(p, c) ==
  /\ triggers' = [triggers EXCEPT ![p][c] = @ + future[p]]
  /\ WriteUnlocks(p)

\* newChunk.
NewChunk(p, c) ==
  /\ CanCall(p) /\ Call(p, [call |-> "new", chunk |-> c])
  /\ Emplace(p, c, "thread")
  /\ swarm' = [swarm EXCEPT ![c] = {p}]
  /\ created' = [created EXCEPT ![p] = @ \cup {c}]
  /\ Goes(p, [at |-> "emplaced", chunk |-> c])
  /\ UNCHANGED <<metaVars, holders, inviting, listenVars, triggerVars, server, detached>>

AttachToNew(p) ==
  /\ thread[p].at = "emplaced"
  /\ AttachTriggers(p, thread[p].chunk)
  /\ Goes(p, [thread[p] EXCEPT !.at = "hold"])
  /\ UNCHANGED <<metaVars, chunkVars, inviting, listenVars, future, todo, server, detached,
                 created, aborted>>

\* The part of the ring belongs to the process that has defined the table until its owner joins.
Owner(c) == IF OwnerOf[c] \in index THEN OwnerOf[c] ELSE definition.participant

\* mutant: the entry of the chunk is written without the others in it.
JoinHolders_Replaces(p, c) == Serves(Owner(c), p) /\ holders' = [holders EXCEPT ![c] = {p}]

\* joinChunkHolders.
JoinHolders(p, c) ==
  /\ Serves(Owner(c), p)
  /\ holders' = [holders EXCEPT ![c] = @ \cup {p}]

RegisterNew(p) ==
  /\ thread[p].at = "hold"
  /\ JoinHolders(p, thread[p].chunk)
  /\ Goes(p, [thread[p] EXCEPT !.at = "created"])
  /\ UNCHANGED <<metaVars, swarm, active, inviting, lock, listenVars, triggerVars, todo, server,
                 detached, created, aborted>>

\* The chunk is pushed to the listeners, with m_new_chunk_listeners_ locked.
BeginPush(p) ==
  /\ thread[p].at = "created" /\ PushesApart(p)
  /\ m_listeners' = [m_listeners EXCEPT ![p] = "thread"]
  /\ Goes(p, [at |-> "push", chunk |-> thread[p].chunk, rest |-> listening[p]])
  /\ UNCHANGED <<metaVars, chunkVars, inviting, lock, listening, triggerVars, todo, server,
                 detached, created, aborted>>

EndPush(p) ==
  /\ thread[p].at = "push" /\ thread[p].rest = {}
  /\ m_listeners' = [m_listeners EXCEPT ![p] = "none"]
  /\ Returns(p)
  /\ UNCHANGED <<metaVars, chunkVars, inviting, lock, listening, triggerVars, todo, server,
                 detached, created, aborted>>

\* getChunk: a chunk that is not active is looked up with the lock held ...
GetChunk(p, c) ==
  /\ CanCall(p) /\ Call(p, [call |-> "get", chunk |-> c])
  /\ CanRead(p) /\ holders[c] # {}
  /\ IF c \in active[p]
     THEN UNCHANGED <<lock, thread>>
     ELSE ReadLocks(p, "thread") /\ Goes(p, [at |-> "seek", chunk |-> c])
  /\ UNCHANGED <<metaVars, chunkVars, inviting, listenVars, triggerVars, server, detached,
                 created, aborted>>

\* ... in the index ...
Seek(p) ==
  /\ thread[p].at = "seek" /\ Serves(Owner(thread[p].chunk), p)
  /\ ReadUnlocks(p, "thread")
  /\ IF holders[thread[p].chunk] \ {p} = {}
     THEN Aborts(p) /\ UNCHANGED thread
     ELSE \E h \in holders[thread[p].chunk] \ {p} :
            /\ Goes(p, [at |-> "connect", chunk |-> thread[p].chunk, to |-> h])
            /\ UNCHANGED aborted
  /\ UNCHANGED <<metaVars, chunkVars, inviting, listenVars, triggerVars, todo, server, detached,
                 created>>

\* ... and one of the holders is asked, which has a thread add the process.
Connect(p) ==
  LET h == thread[p].to
      c == thread[p].chunk
  IN
  /\ thread[p].at = "connect" /\ Serves(h, p) /\ CanRead(h)
  /\ IF c \in active[h]
     THEN /\ detached' = detached \cup {[at |-> "connect", of |-> h, to |-> p, chunk |-> c]}
          /\ Goes(p, [at |-> "await", chunk |-> c])
          /\ UNCHANGED aborted
     ELSE Aborts(p) /\ UNCHANGED <<detached, thread>>
  /\ UNCHANGED <<metaVars, chunkVars, inviting, lock, listenVars, triggerVars, todo, server,
                 created>>

\* connectTo looks for the chunk every millisecond.
Connected(p) ==
  /\ thread[p].at = "await" /\ CanRead(p) /\ thread[p].chunk \in active[p]
  /\ Returns(p)
  /\ UNCHANGED <<metaVars, chunkVars, inviting, lock, listenVars, triggerVars, todo, server,
                 detached, created, aborted>>

\* attachTriggerToCurrentAndFutureChunks: to the future ones ...
AttachToFuture(p) ==
  /\ CanCall(p) /\ Call(p, [call |-> "trigger"])
  /\ CanRead(p) /\ TriggerLocks(p)
  /\ future' = [future EXCEPT ![p] = @ + 1]
  /\ Goes(p, [at |-> "attach"])
  /\ UNCHANGED <<metaVars, chunkVars, inviting, listenVars, triggers, server, detached, created,
                 aborted>>

\* ... and to those there are.
AttachToCurrent(p) ==
  /\ thread[p].at = "attach"
  /\ triggers' = [triggers EXCEPT ![p] =
                    [c \in Chunks |-> IF c \in active[p] THEN @[c] + 1 ELSE @[c]]]
  /\ ReadUnlocks(p, "thread")
  /\ Returns(p)
  /\ UNCHANGED <<metaVars, chunkVars, inviting, listenVars, future, todo, server, detached,
                 created, aborted>>

\* kill: the process leaves its chunks, their holders and the index; the chunks
\* go, with their triggers, when nobody uses active_chunks_.
Kill(p) ==
  /\ CanCall(p) /\ [call |-> "kill"] \in todo[p] /\ DeparturesApart(p)
  /\ CanWrite(p)
  /\ swarm' = [c \in Chunks |-> swarm[c] \ {p}]
  /\ holders' = [c \in Chunks |-> holders[c] \ {p}]
  /\ active' = [active EXCEPT ![p] = {}]
  /\ triggers' = [triggers EXCEPT ![p] = [c \in Chunks |-> 0]]
  /\ index' = index \ {p} /\ tables' = tables \ {p}
  /\ todo' = [todo EXCEPT ![p] = {[call |-> "gone"]}]
  /\ UNCHANGED <<definition, heard, inviting, lock, listenVars, future, thread, server,
                 detached, created, aborted>>

--------------------------------------------------------------------------------
(* Adding a peer to a chunk: requestParticipation(peer), by newChunk or by a   *)
(* thread that shares what there is with a listener, and                       *)
(* handleConnectRequestThread.                                                 *)

\* The servers of the other peers of the chunk take part in its lock.
SwarmServes(c, p) == \A q \in swarm[c] \ {p} : server[q] = NoRequest

\* Who may add q to chunk c for p: the thread that pushes, or a detached one.
Invites(p, q, c, by) ==
  \/ by = "push" /\ thread[p].at = "push" /\ thread[p].chunk = c /\ q \in thread[p].rest
  \/ /\ by \in {"share", "connect"}
     /\ [at |-> by, of |-> p, to |-> q, chunk |-> c] \in detached
     /\ by = "share" =>
          \A d \in Chunks : inviting[d] # NoInvitation =>
            ~(inviting[d].of = p /\ inviting[d].to = q /\ inviting[d].by = by)

\* The thread goes on with the next one.
Invited(p, q, c, by) ==
  IF by = "push"
  THEN /\ thread' = [thread EXCEPT ![p].rest = @ \ {q}]
       /\ UNCHANGED detached
  ELSE /\ detached' = detached \ {[at |-> by, of |-> p, to |-> q, chunk |-> c]}
       /\ UNCHANGED thread

\* With the lock: a peer that is in the swarm is not added again, one that has
\* left is not added by a push.
Skip(p, q, c, by) ==
  /\ Invites(p, q, c, by) /\ inviting[c] = NoInvitation
  /\ SwarmServes(c, p)
  /\ q \in swarm[c] \/ q \notin tables
  /\ IF q \notin swarm[c] /\ by # "push" THEN Aborts(p) ELSE UNCHANGED aborted
  /\ Invited(p, q, c, by)
  /\ UNCHANGED <<metaVars, chunkVars, inviting, lock, listenVars, triggerVars, todo, server,
                 created>>

\* mutant: whether the peer is in the swarm is not looked at under the lock.
IsNew_Always(q, c) == TRUE

IsNew(q, c) == q \notin swarm[c]

\* addPeer: the init request is sent.
Invite(p, q, c, by) ==
  /\ Invites(p, q, c, by) /\ inviting[c] = NoInvitation
  /\ SwarmServes(c, p)
  /\ q \in tables /\ IsNew(q, c) /\ server[q] = NoRequest
  /\ inviting' = [inviting EXCEPT ![c] = [of |-> p, to |-> q, by |-> by, accepted |-> FALSE]]
  /\ server' = [server EXCEPT ![q] = [type |-> "init", chunk |-> c]]
  /\ UNCHANGED <<metaVars, chunkVars, lock, listenVars, triggerVars, thread, todo, detached,
                 created, aborted>>

\* handleInitRequest: addInitializedChunk ...
HandleInit(q) ==
  /\ server[q].type = "init"
  /\ Emplace(q, server[q].chunk, "server")
  /\ server' = [server EXCEPT ![q].type = "emplaced"]
  /\ UNCHANGED <<metaVars, holders, swarm, inviting, listenVars, triggerVars, thread, todo,
                 detached, created>>

\* ... which attaches triggers; a thread will register the process in the index; the reply.
HandleInitEnd(q) ==
  /\ server[q].type = "emplaced"
  /\ AttachTriggers(q, server[q].chunk)
  /\ detached' = detached \cup {[at |-> "hold", of |-> q, chunk |-> server[q].chunk]}
  /\ inviting' = [inviting EXCEPT ![server[q].chunk] = [@ EXCEPT !.accepted = TRUE]]
  /\ server' = [server EXCEPT ![q] = NoRequest]
  /\ UNCHANGED <<metaVars, chunkVars, listenVars, future, thread, todo, created, aborted>>

\* The swarm is told, and the lock released.
Added(c) ==
  LET i == inviting[c] IN
  /\ i # NoInvitation /\ i.accepted /\ SwarmServes(c, i.of)
  /\ swarm' = [swarm EXCEPT ![c] = @ \cup {i.to}]
  /\ inviting' = [inviting EXCEPT ![c] = NoInvitation]
  /\ Invited(i.of, i.to, c, i.by)
  /\ UNCHANGED <<metaVars, holders, active, lock, listenVars, triggerVars, todo, server, created,
                 aborted>>

\* The thread of handleInitRequest.
RegisterInvited(q, c) ==
  /\ [at |-> "hold", of |-> q, chunk |-> c] \in detached
  /\ JoinHolders(q, c)
  /\ detached' = detached \ {[at |-> "hold", of |-> q, chunk |-> c]}
  /\ UNCHANGED <<metaVars, swarm, active, inviting, lock, listenVars, triggerVars, thread, todo,
                 server, created, aborted>>

--------------------------------------------------------------------------------
(* Listening to the chunks of a peer. *)

\* listenToChunksFromPeer, called for a peer that has the table.
Follow(l, p) ==
  /\ CanCall(l) /\ p \in index \ {l} /\ Call(l, [call |-> "follow", peer |-> p])
  /\ Goes(l, [at |-> "listen", to |-> p])
  /\ UNCHANGED <<metaVars, chunkVars, inviting, lock, listenVars, triggerVars, server, detached,
                 created, aborted>>

\* The thread that calls, or the one that handleAnnounceToListeners has
\* detached, makes the request ...
RequestChunks(l, p) ==
  /\ thread[l] = [at |-> "listen", to |-> p] \/ [at |-> "listen", of |-> l, to |-> p] \in detached
  /\ server[p] = NoRequest /\ RequestsApart(p)
  /\ server' = [server EXCEPT ![p] = [type |-> "listen", by |-> l]]
  /\ UNCHANGED <<metaVars, chunkVars, inviting, lock, listenVars, triggerVars, thread, todo,
                 detached, created, aborted>>

\* ... p lists its chunks, with active_chunks_lock_ ...
ListChunks(p) ==
  /\ server[p].type = "listen" /\ CanRead(p)
  /\ ListLocks(p)
  /\ server' = [server EXCEPT ![p] = [type |-> "listed", by |-> @.by, chunks |-> active[p]]]
  /\ UNCHANGED <<metaVars, chunkVars, inviting, listenVars, triggerVars, thread, todo, detached,
                 created, aborted>>

\* ... and adds the listener; a thread will share the chunks with it.
AddListener(p) ==
  LET l == server[p].by IN
  /\ server[p].type = "listed" /\ m_listeners[p] = "none"
  /\ listening' = [listening EXCEPT ![p] = @ \cup {l}]
  /\ ReadUnlocks(p, "server")
  /\ IF thread[l] = [at |-> "listen", to |-> p] THEN Returns(l) ELSE UNCHANGED thread
  /\ detached' = (detached \ {[at |-> "listen", of |-> l, to |-> p]})
                   \cup {[at |-> "share", of |-> p, to |-> l, chunk |-> c] : c \in server[p].chunks}
  /\ server' = [server EXCEPT ![p] = NoRequest]
  /\ UNCHANGED <<metaVars, chunkVars, inviting, m_listeners, triggerVars, todo, created, aborted>>

--------------------------------------------------------------------------------
(* The processes. *)

Init ==
  /\ definition = Undefined
  /\ tables = {} /\ index = {} /\ heard = {}
  /\ holders = [c \in Chunks |-> {}] /\ swarm = holders
  /\ inviting = [c \in Chunks |-> NoInvitation]
  /\ active = [p \in Processes |-> {}] /\ listening = active /\ created = active
  /\ lock = [p \in Processes |-> [readers |-> {}, writer |-> "none"]]
  /\ m_listeners = [p \in Processes |-> "none"]
  /\ future = [p \in Processes |-> 0]
  /\ triggers = [p \in Processes |-> [c \in Chunks |-> 0]]
  /\ thread = [p \in Processes |-> Idle]
  /\ todo = Calls
  /\ server = [p \in Processes |-> NoRequest]
  /\ detached = {} /\ aborted = {}

\* A thread goes on with what it does, or a listenThread.
ThreadStep(p) ==
  \/ SyncTableDefinition(p) \/ CreateIndex(p) \/ ReadDefinition(p) \/ JoinIndex(p) \/ Announce(p)
  \/ UpdateListeners(p) \/ (thread[p].at = "retry" /\ ReadListeners(p))
  \/ AttachToNew(p) \/ RegisterNew(p) \/ BeginPush(p) \/ EndPush(p)
  \/ Seek(p) \/ Connect(p) \/ Connected(p) \/ AttachToCurrent(p)
ServerStep(p) == HandleInit(p) \/ HandleInitEnd(p) \/ ListChunks(p) \/ AddListener(p)
Step(p) == p \notin aborted /\ (ThreadStep(p) \/ ServerStep(p))

\* A thread that is detached goes on.
DetachedStep(p, q) ==
  /\ p \notin aborted
  /\ \/ RequestChunks(p, q)
     \/ \E c \in Chunks, by \in {"push", "share", "connect"} : Skip(p, q, c, by) \/ Invite(p, q, c, by)

ChunkStep(c) == Added(c) \/ \E p \in Processes : RegisterInvited(p, c)

\* A call begins.
Begin(p) ==
  /\ p \notin aborted
  /\ \/ AddTable(p)
     \/ thread[p] = Idle /\ ReadListeners(p)
     \/ AttachToFuture(p) \/ Kill(p)
     \/ \E c \in Chunks : NewChunk(p, c) \/ GetChunk(p, c)
     \/ \E q \in Processes : Follow(p, q)

Next ==
  \/ \E p \in Processes : Begin(p) \/ Step(p) \/ \E q \in Processes : DetachedStep(p, q)
  \/ \E c \in Chunks : ChunkStep(c)

\* Threads run; what is begun need not be.
Fairness ==
  /\ \A p \in Processes : WF_vars(Step(p))
  /\ \A p, q \in Processes : WF_vars(DetachedStep(p, q))
  /\ \A c \in Chunks : WF_vars(ChunkStep(c))

Spec == Init /\ [][Next]_vars /\ Fairness

--------------------------------------------------------------------------------
(* Properties. *)

Threads == {"thread", "server"}

\* Types of the state: NetTableManager, NetTable.
TablesTypes ==
  /\ definition \in [participant : Processes \cup {NoProcess}, listeners : SUBSET Processes]
  /\ tables \subseteq Processes /\ index \subseteq tables
  /\ holders \in [Chunks -> SUBSET Processes] /\ swarm \in [Chunks -> SUBSET Processes]
  /\ active \in [Processes -> SUBSET Chunks] /\ created \in [Processes -> SUBSET Chunks]
  /\ lock \in [Processes -> [readers : SUBSET Threads, writer : {"none"} \cup Threads]]
  /\ listening \in [Processes -> SUBSET Processes]
  /\ m_listeners \in [Processes -> {"none", "thread"}]
  /\ future \in [Processes -> Nat] /\ triggers \in [Processes -> [Chunks -> Nat]]
  /\ heard \subseteq Processes \X Processes /\ aborted \subseteq Processes

\* Nothing is on its way to or from p.
AtRest == Quiet

\* net-table.h: listeners get the chunks.  When nothing goes on, whoever listens to a
\* process has all chunks that one has created, those it has created just
\* while the listener was being added, too (newChunk against
\* handleListenToChunksFromPeer).
ListenersGetChunks ==
  AtRest => \A p, l \in tables : l \in listening[p] => created[p] \cap active[p] \subseteq active[l]

\* Whoever was listening to peers that join the table when a process joined it
\* listens to its chunks (listenToPeersJoiningTable, announceToListeners):
\* neither is a listener lost from the definition, nor an announcement.
JoinersAreHeard ==
  /\ \A p \in Processes : p \in index /\ thread[p] = Idle /\ [call |-> "listen"] \in Calls[p] \ todo[p]
       => p \in definition.listeners
  /\ AtRest => \A h \in heard : h[1] \in tables /\ h[2] \in index => h[1] \in listening[h[2]]

\* attachTriggerToCurrentAndFutureChunks: every chunk that is active has every
\* trigger, and has it once, however chunks come in meanwhile.
TriggersAttachedOnce ==
  \A p \in Processes :
    lock[p] = [readers |-> {}, writer |-> "none"] =>
      \A c \in active[p] : triggers[p][c] = future[p]

\* When nothing goes on, the index, the swarm of a chunk and the processes
\* agree on who has it (getChunk relies on the first two).
HoldersAgree ==
  AtRest => \A p \in Processes, c \in Chunks :
              (c \in active[p] <=> p \in holders[c]) /\ (c \in active[p] <=> p \in swarm[c])

\* No CHECK ends a process: the entry point has an index, a chunk looked up has
\* a holder that has it, a chunk is not put into active_chunks_ twice, and a
\* listener accepts what there is to share.
TableChecks == TablesTypes /\ aborted = {}

\* Every call returns (addTable, getChunk, newChunk, ...), and what has been detached ends.
CallsReturn == <>[]AtRest
================================================================================
