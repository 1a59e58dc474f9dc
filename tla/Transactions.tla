------------------------------ MODULE Transactions -----------------------------
(***************************************************************************)
(* Transactions over the chunks of several tables                          *)
(* (map-api/src/transaction.cc, net-table-transaction.cc,                  *)
(* chunk-transaction.cc and the views of map-api/src/internal).            *)
(*                                                                         *)
(* A transaction sees every chunk as it was when it began, and its own     *)
(* changes on top.  To commit it locks all chunks it has touched, in an    *)
(* order all processes agree on, looks for changes it has not seen, and    *)
(* writes its own with one commit time.                                    *)
(*                                                                         *)
(* The lock of a chunk is the one of module LegacyChunk: granted process   *)
(* by process, lowest first, each grant a message that also carries the    *)
(* logical time there and back.  The replicas of a chunk agree (see        *)
(* ReplicasAgree there), so its data is kept once, as a set of revisions.  *)
(***************************************************************************)
EXTENDS Revisions, FiniteSets

CONSTANTS Procs,      \* processes, totally ordered as their PeerIds are
          Trans,      \* transactions, one thread each
          Host,       \* the process of a transaction
          Chunks,     \* ids of chunks, totally ordered
          TableOf,    \* the table of a chunk, its name a number
          Holders,    \* the processes that have a chunk initially
          Items,      \* ids of items
          HomeOf,     \* the chunk of an item
          Stored,     \* the items that are there initially
          Fresh,      \* the ids that a transaction inserts, no id in two transactions
          TrackerOf,  \* the item that tracks the chunk of an item once it is inserted
          Parallel,   \* the transactions that use commitInParallel
          Futures,    \* those that begin on the commit future of another
          Mergers,    \* those that only take what merge() gives them
          Fetchers,   \* those that fetch the chunks an item tracks
          Reads,      \* the items a transaction may read by id ...
          Updates,    \* ... update
          Removes,    \* ... and remove
          CustomMerge(_, _, _),  \* what the merge policies of a table make of a conflict
          NumberOf,   \* the number a transaction writes into the items it updates
          MaxOps,     \* bound on the operations of a transaction
          MaxCommits, \* bound on its commits
          Starts,     \* the clocks of the processes at the start
          NoTrans, NoItem

ASSUME TransactionsAssumption ==
  /\ Procs \subseteq Int /\ IsFiniteSet(Procs)
  /\ Chunks \subseteq Int /\ IsFiniteSet(Chunks)
  /\ Host \in [Trans -> Procs]
  /\ TableOf \in [Chunks -> Int]
  /\ Holders \in [Chunks -> SUBSET Procs]
  /\ HomeOf \in [Items -> Chunks]
  /\ Stored \subseteq Items
  /\ Fresh \in [Trans -> SUBSET (Items \ Stored)]
  /\ \A t, u \in Trans : t # u => Fresh[t] \cap Fresh[u] = {}
  /\ TrackerOf \in [Items -> Items \cup {NoItem}]
  /\ Starts \subseteq [Procs -> Nat \ {0}]
  /\ NoTrans \notin Trans /\ NoItem \notin Items

Tables == {TableOf[c] : c \in Chunks}

VARIABLES
  \* what the processes share
  data,      \* the revisions of each chunk
  holders,   \* the processes that have a chunk
  owner,     \* the transaction that has or gets the write lock of a chunk ...
  granted,   \* ... and the processes that have granted it
  clock,     \* LogicalTime of each process
  \* one transaction each
  pc,        \* "idle", "open", "locking", "applying", "failed", "merged" or "done"
  beginTime, \* begin_time_
  idMap,     \* item_id_to_chunk_id_map_ of each table, {NoItem} before it is accessed
  chunkTx,   \* chunk_transactions_ of all tables
  inserts, updates, removes,  \* delta_, as revisions
  history,   \* commit_history_: the items this transaction has committed, and when
  future,    \* the views of chunks it got from a commit future: sets of <<chunk, revisions>>
  promised,  \* the CommitFutureTree its commitInParallel has filled
  commitTime,\* commit_time_
  conflicts, \* what merge() could not merge: pairs <<theirs, ours>>
  mergeLeft, \* the chunks merge() has yet to come to, and the transaction it fills
  ops, commits,
  seen       \* what each chunk showed when it was first accessed: for the properties only

shared == <<data, holders, owner, granted, clock>>
deltaVars == <<inserts, updates, removes>>
futureVars == <<future, promised>>
mergeVars == <<conflicts, mergeLeft>>
vars == <<shared, pc, beginTime, idMap, chunkTx, deltaVars, history, futureVars, commitTime,
          mergeVars, ops, commits, seen>>

Max2(m, n) == IF m >= n THEN m ELSE n
Minimum(S) == CHOOSE m \in S : \A n \in S : m <= n
LatestOf(S) == CHOOSE m \in S : \A n \in S : n <= m

--------------------------------------------------------------------------------
(* Views.  A view is the set of the revisions it shows, one per item.       *)

IdsOf(revisions) == {r.id : r \in revisions}

\* ChunkView: the container at a time (module DataContainers, AnswersAreCurrent)
ChunkView(c, time) ==
  {r \in data[c] : /\ r.updateTime <= time
                   /\ ~r.removed
                   /\ ~\E s \in data[c] : /\ s.id = r.id
                                          /\ s.updateTime <= time
                                          /\ s.updateTime > r.updateTime}

\* CommitHistoryView: what this transaction has committed itself, as it committed it
CommittedIds(t, c) == {h[1] : h \in {k \in history[t] : HomeOf[k[1]] = c}}
CommitHistoryView(t, c) ==
  {r \in data[c] : <<r.id, r.updateTime>> \in history[t] /\ ~r.removed}
SuppressedByHistory(t, c) == CommittedIds(t, c) \ IdsOf(CommitHistoryView(t, c))

\* CombinedView::get, has and suppresses: complete and override are views.
CombinedView(complete, override, suppressed) ==
  override \cup {r \in complete : r.id \notin IdsOf(override) \cup suppressed}

\* CombinedView::dump keeps what the complete view shows and only adds to it.
CombinedDump(complete, override, suppressed) ==
  LET kept == {r \in complete : r.id \notin suppressed}
  IN  kept \cup {r \in override : r.id \notin IdsOf(kept)}

FutureChunks(t) == {f[1] : f \in future[t]}

\* original_view_: a commit future, if the transaction was begun on one
OriginalView(t, c) ==
  IF c \in FutureChunks(t) THEN (CHOOSE f \in future[t] : f[1] = c)[2]
  ELSE ChunkView(c, beginTime[t])

ViewBeforeDelta(t, c) ==
  CombinedView(OriginalView(t, c), CommitHistoryView(t, c), SuppressedByHistory(t, c))

OfChunk(revisions, c) == {r \in revisions : r.chunk = c}

\* DeltaView: an update of an inserted item replaces the insertion.
DeltaView(t, c) ==
  {r \in OfChunk(inserts[t] \cup updates[t], c) : r.id \notin IdsOf(removes[t])}

View(t, c) == CombinedView(ViewBeforeDelta(t, c), DeltaView(t, c), IdsOf(removes[t]))

Readable(p, c) == p \in holders[c] /\ p \notin granted[c]

--------------------------------------------------------------------------------
(* Beginning, and the first access to a table                               *)

NewRevision(i, time) ==
  [Template(<<"int32">>) EXCEPT !.id = i, !.chunk = HomeOf[i], !.insertTime = time,
     !.updateTime = time, !.fields[1] = SetField(@, "int32", 0)]

Init ==
  /\ data = [c \in Chunks |-> {NewRevision(i, 1) : i \in {j \in Stored : HomeOf[j] = c}}]
  /\ holders = Holders
  /\ owner = [c \in Chunks |-> NoTrans]
  /\ granted = [c \in Chunks |-> {}]
  /\ clock \in Starts
  /\ pc = [t \in Trans |-> "idle"]
  /\ beginTime = [t \in Trans |-> 0]
  /\ idMap = [t \in Trans |-> [b \in Tables |-> {NoItem}]]
  /\ chunkTx = [t \in Trans |-> {}]
  /\ inserts = [t \in Trans |-> {}]
  /\ updates = [t \in Trans |-> {}]
  /\ removes = [t \in Trans |-> {}]
  /\ history = [t \in Trans |-> {}]
  /\ future = [t \in Trans |-> {}]
  /\ promised = [t \in Trans |-> {}]
  /\ commitTime = [t \in Trans |-> 0]
  /\ conflicts = [t \in Trans |-> {}]
  /\ mergeLeft = [t \in Trans |-> <<NoTrans, {}>>]
  /\ ops = [t \in Trans |-> 0]
  /\ commits = [t \in Trans |-> 0]
  /\ seen = [t \in Trans |-> [c \in Chunks |-> {}]]

Sample(p) == clock' = [clock EXCEPT ![p] = @ + 1]

Begin(t) ==
  /\ t \notin Mergers \cup Futures
  /\ pc[t] = "idle"
  /\ Sample(Host[t])
  /\ pc' = [pc EXCEPT ![t] = "open"]
  /\ beginTime' = [beginTime EXCEPT ![t] = clock'[Host[t]]]
  /\ UNCHANGED <<data, holders, owner, granted, idMap, chunkTx, deltaVars, history,
                 futureVars, commitTime, mergeVars, ops, commits, seen>>

\* The transaction u has promised to commit; t begins on what it will leave behind.
BeginOnFuture(t, u) ==
  /\ t \in Futures
  /\ Host[u] = Host[t]
  /\ promised[u] # {}
  /\ pc[t] = "idle"
  /\ Sample(Host[t])
  /\ pc' = [pc EXCEPT ![t] = "open"]
  /\ beginTime' = [beginTime EXCEPT ![t] = clock'[Host[t]]]
  /\ future' = [future EXCEPT ![t] = promised[u]]
  /\ chunkTx' = [chunkTx EXCEPT ![t] = {f[1] : f \in promised[u]}]
  /\ UNCHANGED <<data, holders, owner, granted, idMap, deltaVars, history, promised,
                 commitTime, mergeVars, ops, commits, seen>>

Opened(t, b) == NoItem \notin idMap[t][b]

ChunksOfTable(p, b) == {c \in Chunks : TableOf[c] = b /\ p \in holders[c]}

\* refreshIdToChunkIdMap; the items the transaction has inserted itself are lost from it.
FreshIdMap(t, b) ==
  UNION {IdsOf(ChunkView(c, beginTime[t])) : c \in ChunksOfTable(Host[t], b)}

\* transactionOf(table): a table's transaction is made at the first access, and reads
\* the ids of the items of each chunk under its read lock.
OpenTable(t, b) ==
  /\ pc[t] = "open"
  /\ ~Opened(t, b)
  /\ \A c \in ChunksOfTable(Host[t], b) : Readable(Host[t], c)
  /\ idMap' = [idMap EXCEPT ![t][b] = FreshIdMap(t, b)]
  /\ seen' = [seen EXCEPT ![t] = [c \in Chunks |->
       IF c \in ChunksOfTable(Host[t], b) THEN {ChunkView(c, beginTime[t])} ELSE @[c]]]
  /\ UNCHANGED <<shared, pc, beginTime, chunkTx, deltaVars, history, futureVars, commitTime,
                 mergeVars, ops, commits>>

\* The constructor opens the tables of the future before anything else is done.
Usable(t) ==
  /\ pc[t] = "open"
  /\ t \notin Mergers
  /\ \A c \in FutureChunks(t) : Opened(t, TableOf[c])

CanChange(t, i) ==
  /\ Usable(t)
  /\ ops[t] < MaxOps[t]
  /\ Opened(t, TableOf[HomeOf[i]])

Knows(t, i) == i \in idMap[t][TableOf[HomeOf[i]]]

\* transactionOf(chunk): whatever touches a chunk, reading it included, enters it here.
Touch(t, c) == chunkTx' = [chunkTx EXCEPT ![t] = @ \cup {c}]

Op(t) ==
  /\ ops' = [ops EXCEPT ![t] = @ + 1]
  /\ UNCHANGED <<shared, pc, beginTime, history, futureVars, commitTime, mergeVars, commits,
                 seen>>

getById(t, i) ==
  /\ CanChange(t, i)
  /\ i \in Reads[t]
  /\ Knows(t, i)
  /\ Readable(Host[t], HomeOf[i])
  /\ HomeOf[i] \notin chunkTx[t]
  /\ Touch(t, HomeOf[i])
  /\ UNCHANGED <<idMap, deltaVars>>
  /\ Op(t)

Insert(t, i) ==
  /\ CanChange(t, i)
  /\ i \in Fresh[t]
  /\ i \notin IdsOf(inserts[t]) \cup {h[1] : h \in history[t]}
  /\ Host[t] \in holders[HomeOf[i]]
  /\ ~Knows(t, i)
  /\ inserts' = [inserts EXCEPT ![t] = @ \cup {NewRevision(i, 0)}]
  /\ idMap' = [idMap EXCEPT ![t][TableOf[HomeOf[i]]] = @ \cup {i}]
  /\ Touch(t, HomeOf[i])
  /\ UNCHANGED <<updates, removes>>
  /\ Op(t)

\* DeltaView::update
PutUpdate(t, r) ==
  IF r.id \in IdsOf(inserts[t])
  THEN /\ inserts' = [inserts EXCEPT ![t] = {s \in @ : s.id # r.id} \cup {r}]
       /\ UNCHANGED updates
  ELSE /\ updates' = [updates EXCEPT ![t] = {s \in @ : s.id # r.id} \cup {r}]
       /\ UNCHANGED inserts

\* The client reads the item, writes its own number into the field, and gives it back.
Update(t, i) ==
  /\ CanChange(t, i)
  /\ i \in Updates[t]
  /\ Knows(t, i)
  /\ Readable(Host[t], HomeOf[i])
  /\ \E r \in View(t, HomeOf[i]) :
        /\ r.id = i
        /\ PutUpdate(t, [r EXCEPT !.fields[1] = SetField(@, "int32", NumberOf[t])])
  /\ Touch(t, HomeOf[i])
  /\ UNCHANGED <<idMap, removes>>
  /\ Op(t)

Erased(changes, i) == {s \in changes : s.id # i}

\* DeltaView::remove: an item inserted by this transaction was never there.
Remove(t, i) ==
  /\ CanChange(t, i)
  /\ i \in Removes[t]
  /\ Knows(t, i)
  /\ Readable(Host[t], HomeOf[i])
  /\ \E r \in View(t, HomeOf[i]) :
        /\ r.id = i
        /\ updates' = [updates EXCEPT ![t] = Erased(@, i)]
        /\ inserts' = [inserts EXCEPT ![t] = Erased(@, i)]
        /\ removes' = [removes EXCEPT
             ![t] = IF i \in IdsOf(inserts[t]) THEN @ ELSE @ \cup {r}]
  /\ Touch(t, HomeOf[i])
  /\ UNCHANGED idMap
  /\ Op(t)

\* fetchAllChunksTrackedBy: the process joins the swarm of each chunk the item tracks,
\* under the lock of that chunk, and the ids are read again.
Fetch(t, i, c) ==
  LET p == Host[t]
      swarm == holders[c] \cup {p}
      latest == LatestOf({clock[q] : q \in swarm})
  IN  /\ t \in Fetchers
      /\ CanChange(t, i)
      /\ Knows(t, i)
      /\ Readable(p, HomeOf[i])
      /\ inserts[t] = {}
      /\ \E r \in View(t, HomeOf[i]) : r.id = i /\ <<TableOf[c], c>> \in r.trackees
      /\ p \notin holders[c]
      /\ owner[c] = NoTrans
      /\ \A d \in UNION {ChunksOfTable(p, b) : b \in {e \in Tables : Opened(t, e)}} : Readable(p, d)
      /\ holders' = [holders EXCEPT ![c] = @ \cup {p}]
      /\ clock' = [q \in Procs |-> IF q \in swarm THEN latest ELSE clock[q]]
      /\ Touch(t, HomeOf[i])
      /\ idMap' = [idMap EXCEPT ![t] = [b \in Tables |->
           IF ~Opened(t, b) THEN @[b]
           ELSE FreshIdMap(t, b) \cup
                  (IF TableOf[c] = b THEN IdsOf(ChunkView(c, beginTime[t])) ELSE {})]]
      /\ seen' = [seen EXCEPT ![t][c] =
           IF Opened(t, TableOf[c]) THEN {ChunkView(c, beginTime[t])} ELSE @]
      /\ ops' = [ops EXCEPT ![t] = @ + 1]
      /\ UNCHANGED <<data, owner, granted, pc, beginTime, deltaVars, history, futureVars,
                     commitTime, mergeVars, commits>>

detachFutures(t) ==
  /\ Usable(t)
  /\ future[t] # {}
  /\ future' = [future EXCEPT ![t] = {}]
  /\ UNCHANGED <<shared, pc, beginTime, idMap, chunkTx, deltaVars, history, promised,
                 commitTime, mergeVars, ops, commits, seen>>

--------------------------------------------------------------------------------
(* Committing                                                               *)

\* getChunkTrackers: tracker items, and the chunks that have new items for them
ToTrack(t, x) ==
  {<<TableOf[r.chunk], r.chunk>> : r \in {s \in inserts[t] : TrackerOf[s.id] = x}}
TrackersOf(t) == {TrackerOf[r.id] : r \in inserts[t]} \ {NoItem}

TrackerRevision(t, x) == CHOOSE r \in View(t, HomeOf[x]) : r.id = x

\* mutant: a tracker that this transaction updates is left as it is
Tracked_UnlessUpdated(t, x) ==
  [TrackerRevision(t, x) EXCEPT
     !.trackees = IF x \in IdsOf(updates[t]) THEN @ ELSE MergeTrackees(@, ToTrack(t, x))]
Tracked(t, x) == [TrackerRevision(t, x) EXCEPT !.trackees = MergeTrackees(@, ToTrack(t, x))]

\* The trackers whose trackees change, with the change
NewTrackerRevisions(t) ==
  {Tracked(t, x) : x \in {y \in TrackersOf(t) :
     ~(ToTrack(t, y) \subseteq TrackerRevision(t, y).trackees)}}

\* commitImpl up to the locks: pushNewChunkIdsToTrackers, which needs the trackers it reads
\* to be there: of a null pointer it would take the revision.
CommitStart(t) ==
  /\ pc[t] = "open"
  /\ commits[t] < MaxCommits[t]
  /\ inserts[t] \cup updates[t] \cup removes[t] # {}
  /\ future[t] = {}
  /\ \A u \in Trans : pc[u] = "merging" => mergeLeft[u][1] # t
  /\ \A x \in TrackersOf(t) : /\ Opened(t, TableOf[HomeOf[x]])
                              /\ Readable(Host[t], HomeOf[x])
                              /\ x \in IdsOf(View(t, HomeOf[x]))
  /\ LET new == NewTrackerRevisions(t)
         atOnce == {r \in new : r.id \in IdsOf(inserts[t])}
     IN  /\ inserts' = [inserts EXCEPT ![t] = {s \in @ : s.id \notin IdsOf(atOnce)} \cup atOnce]
         /\ updates' = [updates EXCEPT
              ![t] = {s \in @ : s.id \notin IdsOf(new)} \cup (new \ atOnce)]
  /\ chunkTx' = [chunkTx EXCEPT ![t] = @ \cup {HomeOf[x] : x \in TrackersOf(t)}]
  /\ pc' = [pc EXCEPT ![t] = "locking"]
  /\ commits' = [commits EXCEPT ![t] = @ + 1]
  /\ UNCHANGED <<shared, beginTime, idMap, removes, history, futureVars, commitTime, mergeVars,
                 ops, seen>>

\* NetTableOrdering and ChunkOrdering: tables by name, the chunks of a table by id
Precedes(c, d) ==
  \/ TableOf[c] < TableOf[d]
  \/ TableOf[c] = TableOf[d] /\ c < d

First(chunks) == CHOOSE c \in chunks : \A d \in chunks \ {c} : Precedes(c, d)

Unlocked(t) == {c \in chunkTx[t] : owner[c] # t \/ granted[c] # holders[c]}

\* mutant: a transaction of the second process starts from the end
NextToLock_FromEnd(t) ==
  LET S == Unlocked(t)
  IN  IF Host[t] = Minimum(Procs) THEN First(S)
      ELSE CHOOSE c \in S : \A d \in S \ {c} : Precedes(d, c)
NextToLock(t) == First(Unlocked(t))

\* mutant: the grant does not bring the time of the process along
GrantTime_Local(t, q) == [clock EXCEPT ![q] = Max2(clock[q], clock[Host[t]])]
\* Messages carry the time of their sender, and nobody's clock is behind afterwards.
GrantTime(t, q) ==
  LET latest == Max2(clock[q], clock[Host[t]])
  IN  [clock EXCEPT ![q] = latest, ![Host[t]] = latest]

\* One more process grants the lock of the next chunk.
Lock(t) ==
  /\ pc[t] = "locking"
  /\ Unlocked(t) # {}
  /\ LET c == NextToLock(t)
         q == Minimum(holders[c] \ granted[c])
     IN  /\ owner[c] \in {NoTrans, t}
         /\ owner' = [owner EXCEPT ![c] = t]
         /\ granted' = [granted EXCEPT ![c] = @ \cup {q}]
         /\ clock' = GrantTime(t, q)
  /\ UNCHANGED <<data, holders, pc, beginTime, idMap, chunkTx, deltaVars, history, futureVars,
                 commitTime, mergeVars, ops, commits, seen>>

\* The newest revisions: no time of one is after the time of a process that has the lock.
Present(c) == ChunkView(c, LatestOf({clock[p] : p \in Procs}))

\* mutant: what others have committed before this transaction's last commit is known too
PotentialConflicts_SinceCommit(t, c) ==
  {r \in Present(c) : r.updateTime > Max2(beginTime[t], commitTime[t])}
\* getUpdateTimes and discardKnownUpdates: the items that are there and were changed by
\* others since this transaction began, or since it committed them itself
PotentialConflicts(t, c) ==
  {r \in Present(c) : /\ r.updateTime > beginTime[t]
                      /\ \A h \in history[t] : h[1] = r.id => r.updateTime > h[2]}

Conflicting(t, i) == {r \in PotentialConflicts(t, HomeOf[i]) : r.id = i}

Original(t, i) == CHOOSE r \in ViewBeforeDelta(t, HomeOf[i]) : r.id = i

\* DeltaView::tryAutoMerge, for an update that conflicts
Merged(t, ours) ==
  LET theirs == CHOOSE r \in Conflicting(t, ours.id) : TRUE
      original == Original(t, ours.id)
  IN  tryAutoMerge(CustomMerge(theirs, original, ours), theirs, original, ours)

Disputed(t) == {r \in updates[t] : Conflicting(t, r.id) # {}}
Mergeable(t) == {r \in Disputed(t) : Merged(t, r) # NoMerge}

\* hasNoConflicts of all chunks
hasNoConflicts(t) ==
  /\ \A r \in inserts[t] \cup removes[t] : Conflicting(t, r.id) = {}
  /\ Mergeable(t) = Disputed(t)

WithMerged(t, some) == (updates[t] \ some) \cup {Merged(t, r) : r \in some}

\* buildCommitFutureTree: the chunks as they will be, dumped before the commit
CommitFuture(t, c, newUpdates) ==
  <<c, CombinedDump(Present(c),
                    {r \in OfChunk(inserts[t] \cup newUpdates, c) : r.id \notin IdsOf(removes[t])},
                    IdsOf(removes[t]))>>

\* All locks are held: the conflicts are looked for and, if there are none, the commit
\* time is set and the outcome promised.
Check(t) ==
  /\ pc[t] = "locking"
  /\ Unlocked(t) = {}
  /\ IF hasNoConflicts(t)
     THEN /\ updates' = [updates EXCEPT ![t] = WithMerged(t, Mergeable(t))]
          /\ promised' = [promised EXCEPT ![t] =
               IF t \in Parallel
               THEN {CommitFuture(t, c, WithMerged(t, Mergeable(t))) : c \in chunkTx[t]} ELSE {}]
          /\ Sample(Host[t])
          /\ commitTime' = [commitTime EXCEPT ![t] = clock'[Host[t]]]
          /\ pc' = [pc EXCEPT ![t] = "applying"]
          /\ UNCHANGED <<owner, granted>>
     ELSE \* some updates may have been merged before the conflict was found
          /\ \E some \in SUBSET Mergeable(t) :
                updates' = [updates EXCEPT ![t] = WithMerged(t, some)]
          /\ owner' = [c \in Chunks |-> IF c \in chunkTx[t] THEN NoTrans ELSE owner[c]]
          /\ granted' = [c \in Chunks |-> IF c \in chunkTx[t] THEN {} ELSE granted[c]]
          /\ pc' = [pc EXCEPT ![t] = "failed"]
          /\ UNCHANGED <<promised, clock, commitTime>>
  /\ UNCHANGED <<data, holders, beginTime, idMap, chunkTx, inserts, removes, history, future,
                 mergeVars, ops, commits, seen>>

\* checkedCommitLocked: what is written to a chunk
Written(t, c) ==
  {[r EXCEPT !.insertTime = commitTime[t], !.updateTime = commitTime[t]] :
     r \in OfChunk(inserts[t], c)}
  \cup {[r EXCEPT !.updateTime = commitTime[t]] : r \in OfChunk(updates[t], c)}
  \cup {[r EXCEPT !.updateTime = commitTime[t], !.removed = TRUE] : r \in OfChunk(removes[t], c)}

Locked(t) == {c \in Chunks : owner[c] = t}

\* Table by table, all changes are written and the locks released.
Apply(t) ==
  /\ pc[t] = "applying"
  /\ LET b == Minimum({TableOf[c] : c \in Locked(t)})
         now == {c \in Locked(t) : TableOf[c] = b}
         written(c) == IF c \in now THEN Written(t, c) ELSE {}
     IN  /\ data' = [c \in Chunks |-> data[c] \cup written(c)]
         /\ history' = [history EXCEPT ![t] =
              {h \in @ : ~\E c \in now : h[1] \in IdsOf(Written(t, c))}
                \cup {<<r.id, commitTime[t]>> : r \in UNION {Written(t, c) : c \in now}}]
         /\ inserts' = [inserts EXCEPT ![t] = {r \in @ : r.chunk \notin now}]
         /\ updates' = [updates EXCEPT ![t] = {r \in @ : r.chunk \notin now}]
         /\ removes' = [removes EXCEPT ![t] = {r \in @ : r.chunk \notin now}]
         /\ owner' = [c \in Chunks |-> IF c \in now THEN NoTrans ELSE owner[c]]
         /\ granted' = [c \in Chunks |-> IF c \in now THEN {} ELSE granted[c]]
         /\ pc' = [pc EXCEPT ![t] =
              IF Locked(t) \ now # {} THEN "applying"
              ELSE IF t \in Parallel THEN "done" ELSE "open"]
  /\ UNCHANGED <<holders, clock, beginTime, idMap, chunkTx, futureVars, commitTime, mergeVars,
                 ops, commits, seen>>

--------------------------------------------------------------------------------
(* Merging a transaction that could not be committed into a new one         *)

\* The client begins the new transaction when the commit has failed.
MergeStart(t, m) ==
  /\ pc[t] = "failed"
  /\ m \in Mergers
  /\ Host[m] = Host[t]
  /\ pc[m] = "idle"
  /\ Sample(Host[t])
  /\ beginTime' = [beginTime EXCEPT ![m] = clock'[Host[t]]]
  /\ pc' = [pc EXCEPT ![t] = "merging", ![m] = "open"]
  /\ mergeLeft' = [mergeLeft EXCEPT ![t] = <<m, chunkTx[t]>>]
  /\ UNCHANGED <<data, holders, owner, granted, idMap, chunkTx, deltaVars, history, futureVars,
                 commitTime, conflicts, ops, commits, seen>>

\* mutant: the insertions are forgotten
ConflictFree_NotInserts(t, changes) ==
  {r \in changes \ inserts[t] : Conflicting(t, r.id) = {}}
ConflictFree(t, changes) == {r \in changes : Conflicting(t, r.id) = {}}

\* prepareManualMerge, under the read lock of the chunk
MergeChunk(t) ==
  LET m == mergeLeft[t][1]
      c == First(mergeLeft[t][2])
      free(changes) == ConflictFree(t, OfChunk(changes, c))
      all == OfChunk(inserts[t] \cup updates[t] \cup removes[t], c)
  IN  /\ pc[t] = "merging"
      /\ mergeLeft[t][2] # {}
      /\ Readable(Host[t], c)
      /\ Opened(m, TableOf[c])
      /\ inserts' = [inserts EXCEPT ![m] = @ \cup free(inserts[t])]
      /\ updates' = [updates EXCEPT ![m] = @ \cup free(updates[t])]
      /\ removes' = [removes EXCEPT ![m] = @ \cup free(removes[t])]
      /\ conflicts' = [conflicts EXCEPT ![t] = @ \cup
           {<<CHOOSE r \in Conflicting(t, ours.id) : TRUE, ours>> :
              ours \in {r \in all : Conflicting(t, r.id) # {}}}]
      /\ chunkTx' = [chunkTx EXCEPT ![m] = IF free(all) = {} THEN @ ELSE @ \cup {c}]
      /\ mergeLeft' = [mergeLeft EXCEPT ![t][2] = @ \ {c}]
      /\ pc' = [pc EXCEPT ![t] = IF mergeLeft[t][2] = {c} THEN "merged" ELSE @]
      /\ UNCHANGED <<shared, beginTime, idMap, history, futureVars, commitTime, ops, commits, seen>>

--------------------------------------------------------------------------------
Commit(t) == Lock(t) \/ Check(t) \/ Apply(t)

Next ==
  \E t \in Trans :
    \/ Begin(t)
    \/ \E u \in Trans : BeginOnFuture(t, u)
    \/ \E b \in Tables : OpenTable(t, b)
    \/ \E i \in Items : getById(t, i) \/ Insert(t, i) \/ Update(t, i) \/ Remove(t, i)
    \/ \E i \in Items, c \in Chunks : Fetch(t, i, c)
    \/ detachFutures(t)
    \/ CommitStart(t)
    \/ Commit(t)
    \/ \E m \in Trans : MergeStart(t, m)
    \/ MergeChunk(t)

\* A thread that commits goes on; the lock of a chunk is given in the end
\* (EveryCallReturns of module LegacyChunk).
Spec == Init /\ [][Next]_vars /\ \A t \in Trans : WF_vars(Commit(t))

--------------------------------------------------------------------------------
(* Properties                                                               *)

\* What a transaction read when it first came to a chunk is what it reads for ever: a commit
\* that comes later has a later time, also where the processes only know each other's
\* clocks from the messages of the lock, and one of several tables is seen in all of them
\* or in none (Transaction::commitImpl, LogicalTime::synchronize, ChunkView).
RepeatableReads ==
  \A t \in Trans, c \in Chunks :
    seen[t][c] # {} /\ Readable(Host[t], c) => seen[t][c] = {ChunkView(c, beginTime[t])}

Newest(c, i) == {r \in data[c] : r.id = i /\ \A s \in data[c] : s.id = i => s.updateTime <= r.updateTime}

\* A transaction that writes an item builds on its newest revision: it knew the fields it
\* replaces, or has been merged with them, and it tracks what was tracked before
\* (ChunkTransaction::hasNoConflicts, DeltaView::tryAutoMerge, Revision::tryAutoMerge).
WritesBuildOnNewest ==
  \A t \in Trans, c \in Chunks :
    \A ours \in (IF Apply(t) THEN data'[c] \ data[c] ELSE {}) :
      \A old \in Newest(c, ours.id) : ~old.removed =>
        /\ old.trackees \subseteq ours.trackees
        /\ \/ Original(t, ours.id).fields = old.fields
           \/ ours.fields = old.fields
           \/ CustomMerge(old, Original(t, ours.id), ours) # NoMerge
NoUpdateLost == [][WritesBuildOnNewest]_vars

\* Once the chunks are unlocked, whoever sees an item also finds its chunk through the item
\* that tracks it, however many transactions insert for the same tracker at once
\* (Transaction::pushNewChunkIdsToTrackers and the merging of trackees).
TrackersComplete ==
  \A c \in Chunks : owner[c] = NoTrans =>
    \A r \in data[c] : TrackerOf[r.id] # NoItem =>
      LET d == HomeOf[TrackerOf[r.id]]
      IN  owner[d] = NoTrans =>
            \A x \in Newest(d, TrackerOf[r.id]) : <<TableOf[c], c>> \in x.trackees

\* A transaction that conflicts neither disappears nor is written twice: what merge() was
\* given is either in the new transaction or among the conflicts (the CHECKs of merge()).
MergeKeepsAll ==
  [][\A t \in Trans : pc[t] = "merging" /\ pc'[t] = "merged" =>
       LET m == mergeLeft[t][1]
       IN  \A r \in inserts[t] \cup updates[t] \cup removes[t] :
             \/ r \in (inserts[m] \cup updates[m] \cup removes[m])'
             \/ \E k \in conflicts'[t] : k[2] = r]_vars

\* Every commit comes to an end: transactions that lock chunks of several tables do not
\* wait for each other (Transaction and NetTableTransaction, "Deadlocks are prevented").
CommitsReturn ==
  \A t \in Trans : pc[t] \in {"locking", "applying"} ~> pc[t] \notin {"locking", "applying"}

\* The transaction that is begun on a commit future shows what is being committed
\* (map-api/test/local_transaction_test.cc:373-386).
FutureIsCommit ==
  \A t \in Trans : pc[t] = "applying" =>
    \A f \in promised[t] : \A r \in OfChunk(updates[t], f[1]) :
      \E s \in f[2] : s.id = r.id /\ s.fields = r.fields
--------------------------------------------------------------------------------
(* Why reads are repeatable.  The lock of a chunk is held where its readers are, *)
(* and whoever grants it brings the clock of the one that commits along.          *)

Changes(t) == inserts[t] \cup updates[t] \cup removes[t]
AreRevisions(S) == \A r \in S : IsRevision(r)
AreChanges(S) == AreRevisions(S) /\ IdsOf(S) \subseteq Items
AreViews(S) == \A f \in S : f[1] \in Chunks /\ AreRevisions(f[2])

\* Types of the state: Transaction, ChunkTransaction, LogicalTime.
TransactionTypes ==
  /\ holders \in [Chunks -> SUBSET Procs] /\ granted \in [Chunks -> SUBSET Procs]
  /\ owner \in [Chunks -> Trans \cup {NoTrans}]
  /\ clock \in [Procs -> Nat] /\ beginTime \in [Trans -> Nat] /\ commitTime \in [Trans -> Nat]
  /\ pc \in [Trans -> {"idle", "open", "locking", "applying", "failed", "merging", "merged", "done"}]
  /\ chunkTx \in [Trans -> SUBSET Chunks]
  /\ mergeLeft \in [Trans -> (Trans \cup {NoTrans}) \X SUBSET Chunks]
  /\ data = [c \in Chunks |-> data[c]]
  /\ inserts = [t \in Trans |-> inserts[t]] /\ updates = [t \in Trans |-> updates[t]]
  /\ removes = [t \in Trans |-> removes[t]]
  /\ future = [t \in Trans |-> future[t]] /\ promised = [t \in Trans |-> promised[t]]
  /\ seen = [t \in Trans |-> [c \in Chunks |-> seen[t][c]]]

\* Whatever policy has merged it, it is a revision.
RevisionsFit ==
  /\ \A c \in Chunks : AreRevisions(data[c])
  /\ \A t \in Trans : AreChanges(Changes(t)) /\ AreViews(future[t]) /\ AreViews(promised[t])

\* Who has a lock has touched the chunk; who writes has been granted it by all that have it.
LockFits(c) ==
  /\ granted[c] \subseteq holders[c]
  /\ owner[c] = NoTrans => granted[c] = {}
  /\ owner[c] # NoTrans => pc[owner[c]] \in {"locking", "applying"} /\ c \in chunkTx[owner[c]]
  /\ owner[c] # NoTrans /\ pc[owner[c]] = "applying" => granted[c] = holders[c]

\* A process has the chunks its transactions have touched, or have been promised.
ChunksAreHeld(t) ==
  /\ \A c \in chunkTx[t] : Host[t] \in holders[c]
  /\ \A f \in promised[t] : Host[t] \in holders[f[1]]
  /\ pc[t] = "merging" => mergeLeft[t][1] \in Trans /\ Host[mergeLeft[t][1]] = Host[t]

\* What a transaction has seen stays, until the lock is released too.
SeenFits(t, c) ==
  seen[t][c] # {} =>
    /\ pc[t] # "idle" /\ Host[t] \in holders[c] /\ seen[t][c] = {ChunkView(c, beginTime[t])}
    /\ owner[c] # NoTrans =>
         /\ Host[t] \in granted[c] => beginTime[t] <= clock[Host[owner[c]]]
         /\ pc[owner[c]] = "applying" => beginTime[t] < commitTime[owner[c]]

SnapshotInv ==
  /\ TransactionTypes /\ RevisionsFit
  /\ \A c \in Chunks : LockFits(c)
  /\ \A t \in Trans : beginTime[t] <= clock[Host[t]] /\ ChunksAreHeld(t)
  /\ \A t \in Trans, c \in Chunks : SeenFits(t, c)
================================================================================
