-------------------------------- MODULE Startup --------------------------------
(***************************************************************************)
(* How a process enters and leaves the network (map-api/src/core.cc,       *)
(* hub.cc): it looks the others up in the discovery, tells them of itself, *)
(* and creates the metatable if there is nobody, or joins that of a        *)
(* process that is ready (net-table-manager.cc, initMetatable).            *)
(*                                                                         *)
(* The discovery is a file with a lock file beside it (file-discovery.cc)  *)
(* or a server (server-discovery.cc, discovery-server.cc).  A process that *)
(* crashes leaves its address in the discovery, and the lock if it had it. *)
(* The lock file is then removed by a process that has waited for ten      *)
(* seconds.                                                                *)
(*                                                                         *)
(* A process that starts again has another port: it is another process.    *)
(***************************************************************************)
EXTENDS Naturals, FiniteSets

CONSTANTS Processes, NoProcess,
          Modes,    \* the ways to discover: a subset of {"file", "server"}
          Crashes,  \* a bound: how many processes crash
          Apart     \* what is taken not to overlap, see below

ASSUME StartupAssumption ==
  /\ IsFiniteSet(Processes) /\ NoProcess \notin Processes
  /\ Modes \subseteq {"file", "server"} /\ Crashes \in Nat
  /\ Apart \subseteq {"takeovers", "departures", "timeouts", "holders"}

VARIABLES
  mode,       \* FLAGS_discovery_mode
  listed,     \* the addresses in the discovery
  lockedBy,   \* who has created the lock file, or the locker of the server
  at,         \* where Core::init() or Core::kill() of each process is
  serving,    \* the processes whose listenThread runs
  peers,      \* Hub::peers_
  greeting,   \* those of peers_ still to be told of the new process
  lost,       \* those that did not answer
  first,      \* is_first_peer
  found,      \* hub_peers of initMetatable
  metatable,  \* who has created the metatable the process takes part in
  inserting,  \* <<q, p>>: a thread of q that inserts p into peers_
  late,       \* who has waited for the lock for FLAGS_discovery_timeout_seconds
  forced,     \* force_unlocked_once_
  crashed, aborted

hubVars == <<peers, greeting, lost, first, found, metatable, inserting>>
lockVars == <<lockedBy, late, forced>>
vars == <<mode, listed, lockedBy, at, serving, peers, greeting, lost, first, found,
          metatable, inserting, late, forced, crashed, aborted>>

\* The places where discovery_->lock() is called, and where it leads.
Waiting == {"lock", "look_lock", "leave_lock"}
Entered == [lock |-> "connect", look_lock |-> "look", leave_lock |-> "leave"]
\* "expired", "look_expired", "leave_expired": there, the lock file still existed and the time was up.
Expired == [lock |-> "expired", look_lock |-> "look_expired", leave_lock |-> "leave_expired"]
Waits(p) == at[p] \in Waiting \cup {Expired[w] : w \in Waiting}
\* Between lock() and unlock().
Inside == {"connect", "announce", "greet", "unlock", "look", "look_unlock", "leave", "leave_unlock"}
Joining == {"create", "look_lock", "look_expired", "look", "look_unlock", "choose", "join", "finish"}
Starting == {"connect", "announce", "greet", "unlock"} \cup Joining
Places == Waiting \cup {Expired[w] : w \in Waiting} \cup Inside \cup Joining
            \cup {"down", "ready", "tables_left", "gone", "crashed", "aborted"}

Goes(p, place) == at' = [at EXCEPT ![p] = place]

--------------------------------------------------------------------------------
(* What is taken not to overlap; each is a hazard that the code leaves to its *)
(* users.                                                                     *)

\* "takeovers": one process at most waits for the lock of a process that has
\* crashed, and none comes to wait before that one has got the lock.
Comes(p) == Waits(p) \/ at[p] = "tables_left"
OneWaiter == Cardinality({p \in Processes : Comes(p)}) <= 1

TakeoversApart(p) ==
  ("takeovers" \in Apart /\ (lockedBy \in crashed \/ late # {})) => \A q \in Processes \ {p} : ~Comes(q)

\* "departures": nobody leaves or crashes while another process starts, from
\* when it has the lock until it is ready, nor does one enter meanwhile.
DeparturesApart(p) == "departures" \in Apart => \A q \in Processes \ {p} : at[q] \notin Starting
EntriesApart == "departures" \in Apart => \A q \in Processes : at[q] # "tables_left"
ThreadsApart(p) == "departures" \in Apart => \A i \in inserting : i[1] # p

\* "timeouts": a process that lives answers within FLAGS_discovery_timeout_ms.
InTime == "timeouts" \in Apart

\* "holders": with the server, nobody crashes between lock() and unlock().
HoldersApart(p) == ("holders" \in Apart /\ mode = "server") => at[p] \notin Inside

--------------------------------------------------------------------------------
(* The lock of the discovery. *)

\* mutant: the lock is taken whether or not it is free.
Free_Always == TRUE

\* The lock file does not exist, or the server is not locked.
Free == lockedBy = NoProcess

\* lock() succeeds.
Lock(p) ==
  /\ at[p] \in Waiting /\ Free
  /\ at[p] = "lock" => EntriesApart
  /\ lockedBy' = p
  /\ Goes(p, Entered[at[p]])
  /\ late' = late \ {p}
  /\ UNCHANGED <<mode, listed, serving, hubVars, forced, crashed, aborted>>

\* FileDiscovery::lock: the file exists and the process has waited long enough.
\* Only a crashed process keeps the lock for that long; one that has waited
\* for its lock has waited nearly as long when another removes it.
TimeOut(p) ==
  /\ mode = "file" /\ at[p] \in Waiting /\ lockedBy # NoProcess
  /\ p \in late \/ lockedBy \in crashed
  /\ Goes(p, Expired[at[p]])
  /\ UNCHANGED <<mode, listed, lockVars, serving, hubVars, crashed, aborted>>

\* mutant: the lock file stays.
Unlinked_Not == lockedBy

Unlinked == NoProcess

\* It removes the file, once, and tries again with the time it has used up.
ForceUnlock(p) ==
  \E w \in Waiting :
    /\ at[p] = Expired[w]
    /\ IF p \in forced \/ lockedBy = NoProcess
       THEN /\ aborted' = aborted \cup {p}
            /\ Goes(p, "aborted")
            /\ UNCHANGED <<lockVars, listed, serving>>
       ELSE /\ lockedBy' = Unlinked
            /\ forced' = forced \cup {p}
            /\ late' = late \cup {q \in Processes : Waits(q)}
            /\ Goes(p, w)
            /\ UNCHANGED <<aborted, listed, serving>>
    /\ UNCHANGED <<mode, hubVars, crashed>>

\* unlock() removes the file, whosoever it is; the server checks who asks.
Unlock(p, from, to) ==
  /\ at[p] = from
  /\ IF mode = "server" /\ lockedBy # p
     THEN aborted' = aborted \cup {"server"} /\ UNCHANGED lockedBy
     ELSE lockedBy' = NoProcess /\ UNCHANGED aborted
  /\ Goes(p, to)
  /\ UNCHANGED <<mode, listed, serving, hubVars, late, forced, crashed>>

--------------------------------------------------------------------------------
(* Hub::init. *)

\* The listener is started and bound to a port.
Start(p) ==
  /\ at[p] = "down" /\ TakeoversApart(p)
  /\ serving' = serving \cup {p}
  /\ Goes(p, "lock")
  /\ UNCHANGED <<mode, listed, lockVars, hubVars, crashed, aborted>>

\* getPeers: the addresses in the discovery, but for one's own.
Others(p) == listed \ {p}

Connect(p) ==
  /\ at[p] = "connect"
  /\ peers' = [peers EXCEPT ![p] = @ \cup Others(p)]
  /\ Goes(p, "announce")
  /\ UNCHANGED <<mode, listed, lockVars, serving, greeting, lost, first, found, metatable,
                 inserting, crashed, aborted>>

Announce(p) ==
  /\ at[p] = "announce"
  /\ listed' = listed \cup {p}
  /\ greeting' = [greeting EXCEPT ![p] = peers[p]]
  /\ Goes(p, "greet")
  /\ UNCHANGED <<mode, lockVars, serving, peers, lost, first, found, metatable, inserting,
                 crashed, aborted>>

\* Discovery::remove.
Removed(p, q) == listed \ {q}

\* mutant: the peer is acknowledged, and forgotten.
discoveryHandler_Forgets(q, p) == inserting

\* discoveryHandler at q: a thread will insert p.
discoveryHandler(q, p) == inserting \cup {<<q, p>>}

\* q is told; if it does not answer it is removed from the discovery.
Greet(p, q) ==
  /\ at[p] = "greet" /\ q \in greeting[p]
  /\ greeting' = [greeting EXCEPT ![p] = @ \ {q}]
  /\ \/ /\ q \in serving
        /\ inserting' = discoveryHandler(q, p)
        /\ UNCHANGED <<listed, lost>>
     \/ /\ q \notin serving \/ ~InTime
        /\ listed' = Removed(p, q)
        /\ lost' = [lost EXCEPT ![p] = @ \cup {q}]
        /\ UNCHANGED inserting
  /\ UNCHANGED <<mode, lockVars, at, serving, peers, first, found, metatable, crashed, aborted>>

\* The detached thread of discoveryHandler; context_ is gone after kill().
InsertPeer(q, p) ==
  /\ <<q, p>> \in inserting
  /\ inserting' = inserting \ {<<q, p>>}
  /\ IF at[q] = "gone"
     THEN aborted' = aborted \cup {q} /\ UNCHANGED peers
     ELSE peers' = [peers EXCEPT ![q] = @ \cup {p}] /\ UNCHANGED aborted
  /\ UNCHANGED <<mode, listed, lockVars, at, serving, greeting, lost, first, found, metatable,
                 crashed>>

\* The peers that did not answer are erased.
Greeted(p) ==
  /\ at[p] = "greet" /\ greeting[p] = {}
  /\ peers' = [peers EXCEPT ![p] = @ \ lost[p]]
  /\ first' = [first EXCEPT ![p] = peers'[p] = {}]
  /\ Goes(p, "unlock")
  /\ UNCHANGED <<mode, listed, lockVars, serving, greeting, lost, found, metatable, inserting,
                 crashed, aborted>>

--------------------------------------------------------------------------------
(* NetTableManager::initMetatable. *)

UnlockInit(p) == Unlock(p, "unlock", IF first[p] THEN "create" ELSE "look_lock")

\* createIndex and newChunk.
CreateMetatable(p) ==
  /\ at[p] = "create"
  /\ metatable' = [metatable EXCEPT ![p] = p]
  /\ Goes(p, "finish")
  /\ UNCHANGED <<mode, listed, lockVars, serving, peers, greeting, lost, first, found,
                 inserting, crashed, aborted>>

\* Hub::getPeers.
Look(p) ==
  /\ at[p] = "look"
  /\ found' = [found EXCEPT ![p] = Others(p)]
  /\ Goes(p, "look_unlock")
  /\ UNCHANGED <<mode, listed, lockVars, serving, peers, greeting, lost, first, metatable,
                 inserting, crashed, aborted>>

\* mutant: whoever answers will do.
Initialized_Always(q) == TRUE

\* readyHandler at q: initialized_ is set from the end of init() to that of
\* kill().
Initialized(q) == at[q] \in {"ready", "tables_left", "leave_lock", "leave_expired", "leave", "leave_unlock"}

\* isReady: the process asks them over and over; a request nobody answers
\* ends it.
AskReady(p, q) ==
  /\ at[p] = "choose" /\ q \in found[p]
  /\ q \in serving => Initialized(q)
  /\ IF q \in serving
     THEN /\ found' = [found EXCEPT ![p] = {q}]
          /\ Goes(p, "join")
          /\ UNCHANGED aborted
     ELSE /\ aborted' = aborted \cup {p}
          /\ Goes(p, "aborted")
          /\ UNCHANGED found
  /\ UNCHANGED <<mode, listed, lockVars, serving, peers, greeting, lost, first, metatable,
                 inserting, crashed>>

\* joinIndex and getChunk at the one that is ready.
JoinMetatable(p) ==
  /\ at[p] = "join"
  /\ \E q \in found[p] :
       IF q \in serving /\ metatable[q] # NoProcess
       THEN /\ metatable' = [metatable EXCEPT ![p] = metatable[q]]
            /\ Goes(p, "finish")
            /\ UNCHANGED aborted
       ELSE /\ aborted' = aborted \cup {p}
            /\ Goes(p, "aborted")
            /\ UNCHANGED metatable
  /\ UNCHANGED <<mode, listed, lockVars, serving, peers, greeting, lost, first, found, inserting,
                 crashed>>

\* initialized_ is set and initialized_mutex_ unlocked.
Finish(p) ==
  /\ at[p] = "finish"
  /\ Goes(p, "ready")
  /\ UNCHANGED <<mode, listed, lockVars, serving, hubVars, crashed, aborted>>

--------------------------------------------------------------------------------
(* Core::kill, and what kills a process. *)

\* NetTableManager::kill.
Kill(p) ==
  /\ at[p] = "ready" /\ DeparturesApart(p) /\ ThreadsApart(p) /\ TakeoversApart(p)
  /\ metatable' = [metatable EXCEPT ![p] = NoProcess]
  /\ Goes(p, "tables_left")
  /\ UNCHANGED <<mode, listed, lockVars, serving, peers, greeting, lost, first, found, inserting,
                 crashed, aborted>>

\* Hub::kill: the listener ends and the peers are forgotten.
Terminate(p) ==
  /\ at[p] = "tables_left"
  /\ serving' = serving \ {p}
  /\ peers' = [peers EXCEPT ![p] = {}]
  /\ Goes(p, "leave_lock")
  /\ UNCHANGED <<mode, listed, lockVars, greeting, lost, first, found, metatable, inserting,
                 crashed, aborted>>

Leave(p) ==
  /\ at[p] = "leave"
  /\ listed' = Removed(p, p)
  /\ Goes(p, "leave_unlock")
  /\ UNCHANGED <<mode, lockVars, serving, hubVars, crashed, aborted>>

\* The process dies.
Crash(p) ==
  /\ at[p] \notin {"down", "gone", "crashed", "aborted"} /\ Cardinality(crashed) < Crashes
  /\ DeparturesApart(p) /\ HoldersApart(p)
  /\ ("takeovers" \in Apart /\ lockedBy = p) => OneWaiter
  /\ crashed' = crashed \cup {p}
  /\ serving' = serving \ {p}
  /\ inserting' = {i \in inserting : i[1] # p}
  /\ metatable' = [metatable EXCEPT ![p] = NoProcess]
  /\ Goes(p, "crashed")
  /\ UNCHANGED <<mode, listed, lockVars, peers, greeting, lost, first, found, aborted>>

--------------------------------------------------------------------------------
(* The network. *)

Init ==
  /\ mode \in Modes
  /\ listed = {} /\ lockedBy = NoProcess
  /\ at = [p \in Processes |-> "down"]
  /\ serving = {}
  /\ peers = [p \in Processes |-> {}]
  /\ greeting = peers /\ lost = peers /\ found = peers
  /\ first = [p \in Processes |-> FALSE]
  /\ metatable = [p \in Processes |-> NoProcess]
  /\ inserting = {}
  /\ late = {} /\ forced = {} /\ crashed = {} /\ aborted = {}

HubStep(p) ==
  \/ Lock(p) \/ TimeOut(p) \/ ForceUnlock(p)
  \/ Connect(p) \/ Announce(p) \/ Greeted(p)
  \/ UnlockInit(p) \/ Unlock(p, "look_unlock", "choose") \/ Unlock(p, "leave_unlock", "gone")
  \/ CreateMetatable(p) \/ Look(p) \/ JoinMetatable(p) \/ Finish(p)
  \/ Terminate(p) \/ Leave(p)
  \/ \E q \in Processes : Greet(p, q) \/ AskReady(p, q) \/ InsertPeer(p, q)

Next == \E p \in Processes : Start(p) \/ HubStep(p) \/ Kill(p) \/ Crash(p)

\* The threads and the server run; nobody has to start, leave or crash.
Fairness == \A p \in Processes : WF_vars(HubStep(p))

Spec == Init /\ [][Next]_vars /\ Fairness

--------------------------------------------------------------------------------
(* Properties. *)

\* Types of the state: Hub, Discovery, Core.
StartupTypes ==
  /\ mode \in Modes /\ listed \subseteq Processes
  /\ lockedBy \in Processes \cup {NoProcess}
  /\ at \in [Processes -> Places] /\ serving \subseteq Processes
  /\ \A v \in {peers, greeting, lost, found} : v \in [Processes -> SUBSET Processes]
  /\ first \in [Processes -> BOOLEAN]
  /\ metatable \in [Processes -> Processes \cup {NoProcess}]
  /\ inserting \subseteq Processes \X Processes
  /\ late \subseteq Processes /\ forced \subseteq Processes
  /\ crashed \subseteq Processes /\ aborted \subseteq Processes \cup {"server"}

\* All processes share one metatable, however many start at the same time and
\* whatever the discovery lists: exactly the first creates it (Hub::init, step
\* 5; NetTableManager::initMetatable).
OneMetatable ==
  \A p, q \in Processes :
    metatable[p] # NoProcess /\ metatable[q] # NoProcess => metatable[p] = metatable[q]

\* Processes that are ready find each other: they are in the discovery, however
\* many unreachable ones have been removed from it (Hub::getPeers), and are
\* connected: the one that came first "will not revisit discovery" (Hub::init,
\* step 4; discoveryHandler).
ReadyArePeers ==
  \A p \in Processes : at[p] = "ready" =>
    /\ p \in listed
    /\ \A q \in Processes \ {p} :
         at[q] = "ready" /\ <<p, q>> \notin inserting => q \in peers[p]

\* No CHECK and no LOG(FATAL) ends a process: the lock file is there to be
\* removed and is removed once, the one asked whether it is ready answers and
\* has a metatable to join, the server is told to unlock by the locker, and no thread of
\* discoveryHandler outlives Hub::kill().
StartupChecks == StartupTypes /\ aborted = {}

--------------------------------------------------------------------------------
(* Why.  With "takeovers", "departures" and "timeouts" apart, the lock excludes, *)
(* whoever holds it sees everybody who has been through before, and nobody        *)
(* goes while it starts.                                                          *)

\* The process has been through Hub::init(), and has not left.
Settled(p) == at[p] \in {"unlock", "ready"} \cup Joining
Gone(p) == at[p] \in {"leave_lock", "leave_expired", "leave", "leave_unlock", "gone"}

\* The lock has one holder, and that of a crashed process one that waits for it.
LockKept ==
  /\ \A p \in Processes : at[p] \in Inside => lockedBy = p
  /\ \A p \in Processes : at[p] \in {Expired[w] : w \in Waiting} => lockedBy \in crashed
  /\ lockedBy \in crashed => \A p, q \in Processes : Comes(p) /\ Comes(q) => p = q
  /\ \A p \in late :
       /\ Waits(p) \/ at[p] \in {"crashed", "aborted"}
       /\ Waits(p) => lockedBy = NoProcess /\ \A q \in Processes : Comes(q) => q = p
  /\ \A p \in Processes : at[p] = "crashed" <=> p \in crashed

\* Who answers, and who is found.
ServingFits(p) ==
  /\ at[p] \in {"lock", "expired", "ready", "tables_left"} \cup Starting => p \in serving
  /\ Gone(p) => p \notin serving
  /\ Settled(p) \/ at[p] = "greet" => p \in listed
  /\ at[p] = "tables_left" => \A q \in Processes : at[q] \notin Starting
  /\ at[p] = "tables_left" \/ Gone(p) => \A q \in Processes : <<p, q>> \notin inserting

\* What a process that has the lock knows of the others: of those that are settled, and of
\* those that do not answer any more.
GreetsAll(p) ==
  /\ at[p] \in {"down", "lock", "expired", "connect", "announce"} => lost[p] = {}
  /\ at[p] = "announce" => listed \ {p} \subseteq peers[p]
  /\ at[p] = "greet" => listed \ greeting[p] \subseteq serving
  /\ at[p] \in {"unlock"} \cup Joining => listed \subseteq serving
  /\ at[p] \in {"look_unlock", "choose"} => found[p] \subseteq serving
  /\ at[p] \in {"announce", "greet"} =>
       \A q \in Processes \ {p} : Settled(q) => q \in peers[p] \ lost[p]
  /\ at[p] = "greet" =>
       \A q \in Processes \ {p} : Settled(q) =>
         q \in greeting[p] \/ <<q, p>> \in inserting \/ p \in peers[q]

Connected ==
  \A p, q \in Processes : p # q /\ Settled(p) /\ Settled(q) =>
    q \in peers[p] \/ <<p, q>> \in inserting

\* The first is alone until it has created the metatable; the others join one that is ready.
MayCreate(p) == at[p] = "create" \/ (at[p] = "unlock" /\ first[p])
MetatableFits ==
  /\ \A p, q \in Processes : MayCreate(p) /\ p # q =>
       ~MayCreate(q) /\ at[q] \notin {"join", "finish", "ready"}
  /\ \A p \in Processes : metatable[p] # NoProcess <=> at[p] \in {"finish", "ready"}
  /\ \A p \in Processes : at[p] = "join" => \E q \in Processes : found[p] = {q} /\ at[q] = "ready"

StartInv ==
  /\ StartupTypes /\ LockKept /\ Connected /\ MetatableFits /\ OneMetatable
  /\ \A p \in Processes : ServingFits(p) /\ GreetsAll(p)

\* A process that starts gets ready, or crashes (Core::initializeInstance): the
\* lock of a process that has crashed is taken over, and one of the processes
\* found gets ready itself.
StartsReturn ==
  \A p \in Processes : at[p] = "lock" ~> at[p] \in {"ready", "tables_left", "gone", "crashed"}
================================================================================
