--------------------------- MODULE TransactionsProofs --------------------------
(***************************************************************************)
(* A transaction sees the chunks as they were when it began, for any       *)
(* number of processes, transactions, chunks and tables: SnapshotInv is    *)
(* inductive.                                                              *)
(***************************************************************************)
EXTENDS Transactions, FiniteSetTheorems, WellFoundedInduction, TLAPS

--------------------------------------------------------------------------------
(* Finite sets have a first and a last element. *)

\* A relation orders all of S.
Total(S, R) == \A x, y \in S : <<x, y>> \in R \/ <<y, x>> \in R
Transitive(S, R) == \A x, y, z \in S : <<x, y>> \in R /\ <<y, z>> \in R => <<x, z>> \in R

\* The subsets that have no least element: none, it turns out.
Leastless(S, R) == {U \in SUBSET S : U # {} /\ ~\E x \in U : \A y \in U : <<x, y>> \in R}

\* A finite set has a least element by a relation that is total and transitive on it.
LEMMA LeastExists ==
  ASSUME NEW S, IsFiniteSet(S), S # {}, NEW R, Total(S, R), Transitive(S, R)
  PROVE  \E x \in S : \A y \in S : <<x, y>> \in R
<1>1. SUFFICES ASSUME Leastless(S, R) # {} PROVE FALSE
  BY DEF Leastless
<1>2. PICK U \in Leastless(S, R) : \A V \in Leastless(S, R) : <<V, U>> \notin StrictSubsetOrdering(S)
  <2>1. IsWellFoundedOn(StrictSubsetOrdering(S), SUBSET S)
    BY FS_StrictSubsetOrderingWellFounded, FS_FiniteSubsetsOfFinite
  <2>2. Leastless(S, R) \subseteq SUBSET S
    BY DEF Leastless
  <2> QED
    BY <1>1, <2>1, <2>2, WFMin
<1> USE DEF Leastless, Total, Transitive
<1>3. PICK x \in U : TRUE
  OBVIOUS
<1>4. U \ {x} # {}
  <2>1. CASE U = {x}
    BY <2>1
  <2> QED
    BY <2>1
<1>5. U \ {x} \notin Leastless(S, R)
  <2>1. <<U \ {x}, U>> \in StrictSubsetOrdering(S)
    BY <1>3 DEF StrictSubsetOrdering
  <2> QED
    BY <1>2, <2>1
<1>6. PICK y \in U \ {x} : \A z \in U \ {x} : <<y, z>> \in R
  BY <1>4, <1>5
<1>7. CASE <<y, x>> \in R
  BY <1>6, <1>7
<1>8. CASE <<x, y>> \in R
  <2>1. \A z \in U : <<x, z>> \in R
    BY <1>6, <1>8
  <2> QED
    BY <2>1
<1> QED
  BY <1>6, <1>7, <1>8

\* The order of numbers, as a relation.
AtMost(S) == {e \in S \X S : e[1] <= e[2]}

\* The lowest of some processes or table names (PeerId order, NetTableOrdering).
LEMMA MinimumOf ==
  ASSUME NEW S, S \subseteq Int, IsFiniteSet(S), S # {}
  PROVE  Minimum(S) \in S /\ \A n \in S : Minimum(S) <= n
<1>1. \A x, y \in S : <<x, y>> \in AtMost(S) <=> x <= y
  BY DEF AtMost
<1>2. \E x \in S : \A y \in S : <<x, y>> \in AtMost(S)
  <2>1. ASSUME NEW x \in S, NEW y \in S PROVE <<x, y>> \in AtMost(S) \/ <<y, x>> \in AtMost(S)
    BY <1>1
  <2>2. Transitive(S, AtMost(S))
    BY <1>1 DEF Transitive
  <2> QED
    BY <2>1, <2>2, LeastExists DEF Total
<1> QED
  BY <1>1, <1>2 DEF Minimum

\* The order in which chunks are locked, as a relation.
Before(S) == {e \in S \X S : e[1] = e[2] \/ Precedes(e[1], e[2])}

\* The first of some chunks, table by table, is one of them (NetTableOrdering, ChunkOrdering).
LEMMA FirstOf ==
  ASSUME NEW S, S \subseteq Chunks, S # {}
  PROVE  First(S) \in S
<1>1. \A x, y \in S : <<x, y>> \in Before(S) <=> x = y \/ Precedes(x, y)
  BY DEF Before
<1>2. \A c \in S : c \in Int /\ TableOf[c] \in Int
  BY TransactionsAssumption
<1>3. IsFiniteSet(S)
  BY TransactionsAssumption, FS_Subset
<1>4. \E x \in S : \A y \in S : <<x, y>> \in Before(S)
  <2>1. ASSUME NEW x \in S, NEW y \in S PROVE <<x, y>> \in Before(S) \/ <<y, x>> \in Before(S)
    BY <1>1, <1>2 DEF Precedes
  <2>2. Transitive(S, Before(S))
    BY <1>1, <1>2 DEF Precedes, Transitive
  <2> QED
    BY <1>3, <2>1, <2>2, LeastExists DEF Total
<1> QED
  BY <1>1, <1>4 DEF First

\* The order of processes by their clocks, latest first.
Later(S) == {e \in S \X S : clock[e[2]] <= clock[e[1]]}

\* The latest time among some processes.
LEMMA LatestTime ==
  ASSUME clock \in [Procs -> Nat], NEW S, S \subseteq Procs, S # {}
  PROVE  LET latest == LatestOf({clock[q] : q \in S})
         IN  latest \in Nat /\ \A q \in S : clock[q] <= latest
<1>1. \A x, y \in S : <<x, y>> \in Later(S) <=> clock[y] <= clock[x]
  BY DEF Later
<1>2. \A q \in S : clock[q] \in Nat
  OBVIOUS
<1>3. IsFiniteSet(S)
  BY TransactionsAssumption, FS_Subset
<1>4. \E x \in S : \A y \in S : <<x, y>> \in Later(S)
  <2>1. ASSUME NEW x \in S, NEW y \in S PROVE <<x, y>> \in Later(S) \/ <<y, x>> \in Later(S)
    BY <1>1, <1>2
  <2>2. Transitive(S, Later(S))
    BY <1>1, <1>2 DEF Transitive
  <2> QED
    BY <1>3, <2>1, <2>2, LeastExists DEF Total
<1> QED
  BY <1>1, <1>2, <1>4 DEF LatestOf

--------------------------------------------------------------------------------
(* Locks and clocks. *)

\* The next grant comes from a process that has the chunk and has not granted it yet.
LEMMA LockMeans ==
  ASSUME TransactionTypes, \A c \in Chunks : LockFits(c), \A t \in Trans : ChunksAreHeld(t),
         NEW t \in Trans, Lock(t)
  PROVE  \E c \in chunkTx[t] : \E q \in holders[c] \ granted[c] :
           /\ owner[c] \in {NoTrans, t} /\ owner' = [owner EXCEPT ![c] = t]
           /\ granted' = [granted EXCEPT ![c] = @ \cup {q}] /\ clock' = GrantTime(t, q)
<1> DEFINE c == NextToLock(t)
           S == holders[c] \ granted[c]
<1>1. Unlocked(t) \subseteq Chunks /\ Unlocked(t) # {}
  BY DEF Lock, Unlocked, TransactionTypes
<1>2. c \in chunkTx[t] /\ (owner[c] # t \/ granted[c] # holders[c])
  BY <1>1, FirstOf DEF NextToLock, Unlocked
<1>3. c \in Chunks
  BY <1>2 DEF TransactionTypes
<1>4. owner[c] \in {NoTrans, t}
  BY DEF Lock
<1>5. S # {}
  <2>1. CASE owner[c] = NoTrans
    BY <1>2, <1>3, <2>1 DEF LockFits, ChunksAreHeld
  <2>2. CASE owner[c] = t
    BY <1>2, <1>3, <2>2 DEF LockFits
  <2> QED
    BY <1>4, <2>1, <2>2
<1>6. S \subseteq Int /\ IsFiniteSet(S)
  <2>1. S \subseteq Procs
    BY <1>3 DEF TransactionTypes
  <2> QED
    BY <2>1, TransactionsAssumption, FS_Subset
<1>7. Minimum(S) \in S
  BY <1>5, <1>6, MinimumOf
<1> QED
  BY <1>2, <1>4, <1>7 DEF Lock

\* Nobody's clock goes back (LogicalTime::sample, LogicalTime::synchronize).
LEMMA ClocksAdvance ==
  ASSUME TransactionTypes, \A c \in Chunks : LockFits(c), \A t \in Trans : ChunksAreHeld(t),
         [Next]_vars
  PROVE  clock' \in [Procs -> Nat] /\ \A p \in Procs : clock[p] <= clock'[p]
<1>1. \A t \in Trans : Host[t] \in Procs
  BY TransactionsAssumption
<1>2. \A p \in Procs : clock[p] \in Nat
  BY DEF TransactionTypes
<1>3. ASSUME NEW p \in Procs, Sample(p)
      PROVE  clock' \in [Procs -> Nat] /\ \A r \in Procs : clock[r] <= clock'[r]
  BY <1>2, <1>3 DEF Sample, TransactionTypes
<1>4. ASSUME UNCHANGED clock
      PROVE  clock' \in [Procs -> Nat] /\ \A r \in Procs : clock[r] <= clock'[r]
  BY <1>2, <1>4 DEF TransactionTypes
<1>5. ASSUME NEW t \in Trans, Lock(t)
      PROVE  clock' \in [Procs -> Nat] /\ \A r \in Procs : clock[r] <= clock'[r]
  <2>1. PICK q \in Procs : clock' = GrantTime(t, q)
    <3>1. \A c \in chunkTx[t] : holders[c] \subseteq Procs
      BY DEF TransactionTypes
    <3> QED
      BY <1>5, <3>1, LockMeans
  <2> DEFINE latest == Max2(clock[q], clock[Host[t]])
  <2>2. latest \in Nat /\ clock[q] <= latest /\ clock[Host[t]] <= latest
    <3>1. clock[q] \in Nat /\ clock[Host[t]] \in Nat
      BY <1>1, <1>2
    <3>2. \A m, n \in Nat : Max2(m, n) \in Nat /\ m <= Max2(m, n) /\ n <= Max2(m, n)
      BY DEF Max2
    <3> QED
      BY <3>1, <3>2
  <2>3. clock' = [clock EXCEPT ![q] = latest, ![Host[t]] = latest]
    BY <2>1 DEF GrantTime
  <2>4. clock' = [r \in Procs |-> IF r \in {q, Host[t]} THEN latest ELSE clock[r]]
    <3> HIDE DEF latest
    <3> QED
      BY <1>1, <2>3 DEF TransactionTypes
  <2> HIDE DEF latest
  <2> QED
    BY <1>1, <1>2, <2>2, <2>4
<1>6. ASSUME NEW t \in Trans, NEW i \in Items, NEW c \in Chunks, Fetch(t, i, c)
      PROVE  clock' \in [Procs -> Nat] /\ \A r \in Procs : clock[r] <= clock'[r]
  <2> DEFINE swarm == holders[c] \cup {Host[t]}
             latest == LatestOf({clock[q] : q \in swarm})
  <2>1. swarm \subseteq Procs /\ swarm # {}
    BY <1>1 DEF TransactionTypes
  <2>2. latest \in Nat /\ \A q \in swarm : clock[q] <= latest
    BY <2>1, LatestTime DEF TransactionTypes
  <2>3. clock' = [q \in Procs |-> IF q \in swarm THEN latest ELSE clock[q]]
    BY <1>6 DEF Fetch
  <2> HIDE DEF latest, swarm
  <2> QED
    BY <1>2, <2>2, <2>3
<1>7. ASSUME NEW t \in Trans, Begin(t) \/ Check(t) \/ \E u \in Trans : BeginOnFuture(t, u) \/ MergeStart(t, u)
      PROVE  Sample(Host[t]) \/ UNCHANGED clock
  BY <1>7 DEF Begin, Check, BeginOnFuture, MergeStart
<1>8. ASSUME NEW t \in Trans,
             \/ \E b \in Tables : OpenTable(t, b)
             \/ \E i \in Items : getById(t, i) \/ Insert(t, i) \/ Update(t, i) \/ Remove(t, i)
             \/ detachFutures(t) \/ CommitStart(t) \/ Apply(t) \/ MergeChunk(t)
      PROVE  UNCHANGED clock
  BY <1>8 DEF OpenTable, getById, Insert, Update, Remove, Op, detachFutures, CommitStart, Apply,
     MergeChunk, shared
<1>9. CASE UNCHANGED vars
  BY <1>4, <1>9 DEF vars, shared
<1> QED
  BY <1>1, <1>3, <1>4, <1>5, <1>6, <1>7, <1>8, <1>9 DEF Next, Commit

--------------------------------------------------------------------------------
(* Types. *)

\* What a check does: it decides, and what it decides shows in pc.
LEMMA CheckMeans ==
  ASSUME NEW t \in Trans, Check(t)
  PROVE  /\ pc[t] = "locking" /\ Unlocked(t) = {}
         /\ UNCHANGED <<data, holders, beginTime, idMap, chunkTx, inserts, removes, history,
                        future, mergeVars, ops, commits, seen>>
         /\ \E some \in SUBSET Mergeable(t) : updates' = [updates EXCEPT ![t] = WithMerged(t, some)]
         /\ \/ /\ pc' = [pc EXCEPT ![t] = "applying"]
               /\ UNCHANGED <<owner, granted>>
               /\ Sample(Host[t]) /\ commitTime' = [commitTime EXCEPT ![t] = clock'[Host[t]]]
               /\ promised' = [promised EXCEPT ![t] =
                    IF t \in Parallel
                    THEN {CommitFuture(t, c, WithMerged(t, Mergeable(t))) : c \in chunkTx[t]} ELSE {}]
            \/ /\ pc' = [pc EXCEPT ![t] = "failed"]
               /\ owner' = [c \in Chunks |-> IF c \in chunkTx[t] THEN NoTrans ELSE owner[c]]
               /\ granted' = [c \in Chunks |-> IF c \in chunkTx[t] THEN {} ELSE granted[c]]
               /\ UNCHANGED <<promised, clock, commitTime>>
<1>1. CASE hasNoConflicts(t)
  <2>1. Mergeable(t) \in SUBSET Mergeable(t)
    OBVIOUS
  <2>2. updates' = [updates EXCEPT ![t] = WithMerged(t, Mergeable(t))]
    BY <1>1 DEF Check
  <2> QED
    BY <1>1, <2>1, <2>2 DEF Check
<1>2. CASE ~hasNoConflicts(t)
  BY <1>2 DEF Check
<1> QED
  BY <1>1, <1>2

\* What is written to the chunks that a step of a commit comes to.
WrittenNow(t, now, c) == IF c \in now THEN Written(t, c) ELSE {}

\* What a step of a commit does: the chunks of one table, all of them locked by it, are
\* written and unlocked.
LEMMA ApplyMeans ==
  ASSUME NEW t \in Trans, Apply(t)
  PROVE  /\ pc[t] = "applying"
         /\ UNCHANGED <<holders, clock, beginTime, idMap, chunkTx, futureVars, commitTime,
                        mergeVars, ops, commits, seen>>
         /\ \E now \in SUBSET Locked(t) :
              /\ data' = [c \in Chunks |-> data[c] \cup WrittenNow(t, now, c)]
              /\ inserts' = [inserts EXCEPT ![t] = {r \in @ : r.chunk \notin now}]
              /\ updates' = [updates EXCEPT ![t] = {r \in @ : r.chunk \notin now}]
              /\ removes' = [removes EXCEPT ![t] = {r \in @ : r.chunk \notin now}]
              /\ owner' = [c \in Chunks |-> IF c \in now THEN NoTrans ELSE owner[c]]
              /\ granted' = [c \in Chunks |-> IF c \in now THEN {} ELSE granted[c]]
              /\ \/ pc' = [pc EXCEPT ![t] = "applying"]
                 \/ Locked(t) \ now = {} /\ \E place \in {"done", "open"} : pc' = [pc EXCEPT ![t] = place]
<1> DEFINE b == Minimum({TableOf[c] : c \in Locked(t)})
           now == {c \in Locked(t) : TableOf[c] = b}
<1>1. now \in SUBSET Locked(t)
  OBVIOUS
<1>2. /\ data' = [c \in Chunks |-> data[c] \cup WrittenNow(t, now, c)]
      /\ inserts' = [inserts EXCEPT ![t] = {r \in @ : r.chunk \notin now}]
      /\ updates' = [updates EXCEPT ![t] = {r \in @ : r.chunk \notin now}]
      /\ removes' = [removes EXCEPT ![t] = {r \in @ : r.chunk \notin now}]
      /\ owner' = [c \in Chunks |-> IF c \in now THEN NoTrans ELSE owner[c]]
      /\ granted' = [c \in Chunks |-> IF c \in now THEN {} ELSE granted[c]]
      /\ pc' = [pc EXCEPT ![t] = IF Locked(t) \ now # {} THEN "applying"
                                 ELSE IF t \in Parallel THEN "done" ELSE "open"]
  BY DEF Apply, WrittenNow
<1> HIDE DEF now
<1>3. \/ pc' = [pc EXCEPT ![t] = "applying"]
      \/ Locked(t) \ now = {} /\ \E place \in {"done", "open"} : pc' = [pc EXCEPT ![t] = place]
  <2>1. CASE Locked(t) \ now # {}
    BY <1>2, <2>1
  <2>2. CASE Locked(t) \ now = {} /\ t \in Parallel
    BY <1>2, <2>2
  <2>3. CASE Locked(t) \ now = {} /\ t \notin Parallel
    BY <1>2, <2>3
  <2> QED
    BY <2>1, <2>2, <2>3
<1>4. /\ pc[t] = "applying"
      /\ UNCHANGED <<holders, clock, beginTime, idMap, chunkTx, futureVars, commitTime,
                     mergeVars, ops, commits, seen>>
  BY DEF Apply
<1> QED
  BY <1>1, <1>2, <1>3, <1>4

\* What merging a chunk does: some changes are handed on as they are, if nobody is in their way.
LEMMA MergeChunkMeans ==
  ASSUME TransactionTypes, NEW t \in Trans, MergeChunk(t)
  PROVE  LET m == mergeLeft[t][1]
         IN  /\ pc[t] = "merging"
             /\ UNCHANGED <<shared, beginTime, idMap, history, futureVars, commitTime, ops, commits, seen>>
             /\ \E c \in mergeLeft[t][2] :
                  /\ Readable(Host[t], c)
                  /\ mergeLeft' = [mergeLeft EXCEPT ![t][2] = @ \ {c}]
                  /\ pc' = [pc EXCEPT ![t] = IF mergeLeft[t][2] = {c} THEN "merged" ELSE @]
                  /\ chunkTx' = chunkTx \/ chunkTx' = [chunkTx EXCEPT ![m] = @ \cup {c}]
             /\ \E some \in SUBSET inserts[t] : inserts' = [inserts EXCEPT ![m] = @ \cup some]
             /\ \E some \in SUBSET updates[t] : updates' = [updates EXCEPT ![m] = @ \cup some]
             /\ \E some \in SUBSET removes[t] : removes' = [removes EXCEPT ![m] = @ \cup some]
<1> DEFINE m == mergeLeft[t][1]
           d == First(mergeLeft[t][2])
           free(changes) == ConflictFree(t, OfChunk(changes, d))
           all == OfChunk(inserts[t] \cup updates[t] \cup removes[t], d)
<1>1. d \in mergeLeft[t][2]
  <2>1. mergeLeft[t][2] \subseteq Chunks /\ mergeLeft[t][2] # {}
    BY DEF MergeChunk, TransactionTypes
  <2> QED
    BY <2>1, FirstOf
<1>2. /\ pc[t] = "merging" /\ Readable(Host[t], d)
      /\ inserts' = [inserts EXCEPT ![m] = @ \cup free(inserts[t])]
      /\ updates' = [updates EXCEPT ![m] = @ \cup free(updates[t])]
      /\ removes' = [removes EXCEPT ![m] = @ \cup free(removes[t])]
      /\ chunkTx' = [chunkTx EXCEPT ![m] = IF free(all) = {} THEN @ ELSE @ \cup {d}]
      /\ mergeLeft' = [mergeLeft EXCEPT ![t][2] = @ \ {d}]
      /\ pc' = [pc EXCEPT ![t] = IF mergeLeft[t][2] = {d} THEN "merged" ELSE @]
      /\ UNCHANGED <<shared, beginTime, idMap, history, futureVars, commitTime, ops, commits, seen>>
  BY DEF MergeChunk
<1>3. \A changes : free(changes) \subseteq changes
  BY DEF ConflictFree, OfChunk
<1> HIDE DEF d, free, all
<1>4. chunkTx' = chunkTx \/ chunkTx' = [chunkTx EXCEPT ![m] = @ \cup {d}]
  <2>1. CASE free(all) = {}
    BY <1>2, <2>1 DEF TransactionTypes
  <2>2. CASE free(all) # {}
    BY <1>2, <2>2
  <2> QED
    BY <2>1, <2>2
<1> QED
  BY <1>1, <1>2, <1>3, <1>4

\* What fetching a chunk does: the process joins its swarm while nobody has the lock.
LEMMA FetchMeans ==
  ASSUME NEW t \in Trans, NEW i \in Items, NEW c \in Chunks, Fetch(t, i, c)
  PROVE  /\ pc[t] = "open" /\ Readable(Host[t], HomeOf[i]) /\ owner[c] = NoTrans
         /\ holders' = [holders EXCEPT ![c] = @ \cup {Host[t]}]
         /\ chunkTx' = [chunkTx EXCEPT ![t] = @ \cup {HomeOf[i]}]
         /\ \/ seen' = [seen EXCEPT ![t][c] = {ChunkView(c, beginTime[t])}]
            \/ seen' = [seen EXCEPT ![t][c] = @]
         /\ UNCHANGED <<data, owner, granted, pc, beginTime, deltaVars, history, futureVars,
                        commitTime, mergeVars, commits>>
<1>1. /\ pc[t] = "open" /\ Readable(Host[t], HomeOf[i]) /\ owner[c] = NoTrans
      /\ holders' = [holders EXCEPT ![c] = @ \cup {Host[t]}]
      /\ chunkTx' = [chunkTx EXCEPT ![t] = @ \cup {HomeOf[i]}]
      /\ seen' = [seen EXCEPT ![t][c] =
           IF Opened(t, TableOf[c]) THEN {ChunkView(c, beginTime[t])} ELSE @]
      /\ UNCHANGED <<data, owner, granted, pc, beginTime, deltaVars, history, futureVars,
                     commitTime, mergeVars, commits>>
  BY DEF Fetch, Touch, CanChange, Usable
<1>2. CASE Opened(t, TableOf[c])
  BY <1>1, <1>2
<1>3. CASE ~Opened(t, TableOf[c])
  BY <1>1, <1>3
<1> QED
  BY <1>1, <1>2, <1>3

\* The items that track new chunks are items.
LEMMA TrackersAreItems ==
  ASSUME RevisionsFit, NEW t \in Trans, NEW x \in TrackersOf(t)
  PROVE  x \in Items /\ HomeOf[x] \in Chunks
BY TransactionsAssumption DEF TrackersOf, RevisionsFit, AreChanges, IdsOf, Changes

\* Every step keeps the types of the state of transactions and locks.
LEMMA TransactionTypesStep ==
  ASSUME TransactionTypes, RevisionsFit, \A c \in Chunks : LockFits(c),
         \A t \in Trans : ChunksAreHeld(t), [Next]_vars
  PROVE  TransactionTypes'
<1>1. /\ \A t \in Trans : Host[t] \in Procs
      /\ \A i \in Items : HomeOf[i] \in Chunks
  BY TransactionsAssumption
<1>2. clock' \in [Procs -> Nat]
  BY ClocksAdvance
<1>3. ASSUME NEW t \in Trans, Begin(t) PROVE TransactionTypes'
  BY <1>1, <1>2, <1>3 DEF Begin, TransactionTypes, deltaVars, futureVars, mergeVars
<1>4. ASSUME NEW t \in Trans, NEW u \in Trans, BeginOnFuture(t, u) PROVE TransactionTypes'
  <2>1. {f[1] : f \in promised[u]} \subseteq Chunks
    BY DEF RevisionsFit, AreViews
  <2>2. chunkTx' \in [Trans -> SUBSET Chunks]
    BY <1>4, <2>1 DEF BeginOnFuture, TransactionTypes
  <2>3. /\ pc' = [pc EXCEPT ![t] = "open"]
        /\ beginTime' = [beginTime EXCEPT ![t] = clock'[Host[t]]]
        /\ future' = [future EXCEPT ![t] = promised[u]]
        /\ UNCHANGED <<data, holders, owner, granted, idMap, deltaVars, history, promised,
                       commitTime, mergeVars, ops, commits, seen>>
    BY <1>4 DEF BeginOnFuture
  <2>4. beginTime' \in [Trans -> Nat] /\ future' = [w \in Trans |-> future'[w]]
    BY <1>1, <1>2, <2>3 DEF TransactionTypes
  <2> QED
    BY <1>2, <2>2, <2>3, <2>4 DEF TransactionTypes, deltaVars, mergeVars
<1>5. ASSUME NEW t \in Trans, NEW b \in Tables, OpenTable(t, b) PROVE TransactionTypes'
  BY <1>5 DEF OpenTable, TransactionTypes, shared, deltaVars, futureVars, mergeVars
<1>6. ASSUME NEW t \in Trans, NEW i \in Items,
             getById(t, i) \/ Insert(t, i) \/ Update(t, i) \/ Remove(t, i)
      PROVE  TransactionTypes'
  <2>1. chunkTx' = [chunkTx EXCEPT ![t] = @ \cup {HomeOf[i]}] /\ Op(t)
    BY <1>6 DEF getById, Insert, Update, Remove, Touch
  <2>2. /\ inserts' = [u \in Trans |-> inserts'[u]] /\ updates' = [u \in Trans |-> updates'[u]]
        /\ removes' = [u \in Trans |-> removes'[u]]
    BY <1>6 DEF getById, Insert, Update, Remove, PutUpdate, deltaVars, TransactionTypes
  <2>3. chunkTx' \in [Trans -> SUBSET Chunks]
    BY <1>1, <2>1 DEF TransactionTypes
  <2>4. UNCHANGED <<shared, pc, beginTime, history, futureVars, commitTime, mergeVars, commits, seen>>
    BY <2>1 DEF Op
  <2> QED
    BY <2>2, <2>3, <2>4 DEF TransactionTypes, shared, futureVars, mergeVars
<1>7. ASSUME NEW t \in Trans, NEW i \in Items, NEW c \in Chunks, Fetch(t, i, c)
      PROVE  TransactionTypes'
  <2>1. /\ holders' \in [Chunks -> SUBSET Procs]
        /\ chunkTx' \in [Trans -> SUBSET Chunks]
        /\ seen' = [u \in Trans |-> [d \in Chunks |-> seen'[u][d]]]
    <3>1. /\ holders \in [Chunks -> SUBSET Procs] /\ chunkTx \in [Trans -> SUBSET Chunks]
          /\ seen = [u \in Trans |-> [d \in Chunks |-> seen[u][d]]]
      BY DEF TransactionTypes
    <3>2. /\ holders' = [holders EXCEPT ![c] = @ \cup {Host[t]}]
          /\ chunkTx' = [chunkTx EXCEPT ![t] = @ \cup {HomeOf[i]}]
      BY <1>7, FetchMeans
    <3>3. PICK view : seen' = [seen EXCEPT ![t][c] = view]
      BY <1>7, FetchMeans
    <3>4. seen' = [u \in Trans |-> [d \in Chunks |-> seen'[u][d]]]
      BY <3>1, <3>3
    <3> QED
      BY <1>1, <3>1, <3>2, <3>4
  <2>2. UNCHANGED <<data, owner, granted, pc, beginTime, deltaVars, futureVars, commitTime, mergeVars>>
    BY <1>7, FetchMeans
  <2> QED
    BY <1>2, <2>1, <2>2 DEF TransactionTypes, deltaVars, futureVars, mergeVars
<1>8. ASSUME NEW t \in Trans, detachFutures(t) PROVE TransactionTypes'
  BY <1>8 DEF detachFutures, TransactionTypes, shared, deltaVars, mergeVars
<1>9. ASSUME NEW t \in Trans, CommitStart(t) PROVE TransactionTypes'
  <2>1. {HomeOf[x] : x \in TrackersOf(t)} \subseteq Chunks
    BY TrackersAreItems
  <2>2. chunkTx' \in [Trans -> SUBSET Chunks]
    BY <1>9, <2>1 DEF CommitStart, TransactionTypes
  <2>3. inserts' = [u \in Trans |-> inserts'[u]] /\ updates' = [u \in Trans |-> updates'[u]]
    BY <1>9 DEF CommitStart, TransactionTypes
  <2>4. pc' = [pc EXCEPT ![t] = "locking"]
        /\ UNCHANGED <<shared, beginTime, removes, futureVars, commitTime, mergeVars, seen>>
    BY <1>9 DEF CommitStart
  <2> QED
    BY <2>2, <2>3, <2>4 DEF TransactionTypes, shared, futureVars, mergeVars
<1>10. ASSUME NEW t \in Trans, Lock(t) PROVE TransactionTypes'
  <2>1. PICK c \in chunkTx[t] : \E q \in holders[c] \ granted[c] :
          /\ owner' = [owner EXCEPT ![c] = t] /\ granted' = [granted EXCEPT ![c] = @ \cup {q}]
    BY <1>10, LockMeans
  <2>2. c \in Chunks /\ holders[c] \subseteq Procs
    BY DEF TransactionTypes
  <2>3. owner' \in [Chunks -> Trans \cup {NoTrans}] /\ granted' \in [Chunks -> SUBSET Procs]
    BY <2>1, <2>2 DEF TransactionTypes
  <2>4. UNCHANGED <<data, holders, pc, beginTime, chunkTx, deltaVars, futureVars, commitTime,
                    mergeVars, seen>>
    BY <1>10 DEF Lock
  <2> QED
    BY <1>2, <2>3, <2>4 DEF TransactionTypes, deltaVars, futureVars, mergeVars
<1>11. ASSUME NEW t \in Trans, Check(t) PROVE TransactionTypes'
  <2>1. PICK some : updates' = [updates EXCEPT ![t] = WithMerged(t, some)]
    BY <1>11, CheckMeans
  <2>2. updates' = [u \in Trans |-> updates'[u]]
    BY <2>1 DEF TransactionTypes
  <2>3. UNCHANGED <<data, holders, beginTime, chunkTx, inserts, removes, future, mergeVars, seen>>
    BY <1>11, CheckMeans
  <2>4. CASE /\ pc' = [pc EXCEPT ![t] = "applying"] /\ UNCHANGED <<owner, granted>>
             /\ commitTime' = [commitTime EXCEPT ![t] = clock'[Host[t]]]
             /\ \E promises : promised' = [promised EXCEPT ![t] = promises]
    <3>1. PICK promises : promised' = [promised EXCEPT ![t] = promises]
      BY <2>4
    <3>2. promised' = [u \in Trans |-> promised'[u]]
      BY <3>1 DEF TransactionTypes
    <3>3. commitTime' \in [Trans -> Nat]
      BY <1>1, <1>2, <2>4 DEF TransactionTypes
    <3> QED
      BY <1>2, <2>2, <2>3, <2>4, <3>2, <3>3 DEF TransactionTypes, mergeVars
  <2>5. CASE /\ pc' = [pc EXCEPT ![t] = "failed"]
             /\ owner' = [c \in Chunks |-> IF c \in chunkTx[t] THEN NoTrans ELSE owner[c]]
             /\ granted' = [c \in Chunks |-> IF c \in chunkTx[t] THEN {} ELSE granted[c]]
             /\ UNCHANGED <<promised, clock, commitTime>>
    <3>1. owner' \in [Chunks -> Trans \cup {NoTrans}] /\ granted' \in [Chunks -> SUBSET Procs]
      BY <2>5 DEF TransactionTypes
    <3> QED
      BY <1>2, <2>2, <2>3, <2>5, <3>1 DEF TransactionTypes, mergeVars
  <2> QED
    BY <1>11, <2>4, <2>5, CheckMeans
<1>12. ASSUME NEW t \in Trans, Apply(t) PROVE TransactionTypes'
  <2>1. PICK now \in SUBSET Locked(t) :
          /\ data' = [c \in Chunks |-> data[c] \cup WrittenNow(t, now, c)]
          /\ inserts' = [inserts EXCEPT ![t] = {r \in @ : r.chunk \notin now}]
          /\ updates' = [updates EXCEPT ![t] = {r \in @ : r.chunk \notin now}]
          /\ removes' = [removes EXCEPT ![t] = {r \in @ : r.chunk \notin now}]
          /\ owner' = [c \in Chunks |-> IF c \in now THEN NoTrans ELSE owner[c]]
          /\ granted' = [c \in Chunks |-> IF c \in now THEN {} ELSE granted[c]]
    BY <1>12, ApplyMeans
  <2>2. data' = [c \in Chunks |-> data'[c]]
    BY <2>1
  <2>3. /\ inserts' = [u \in Trans |-> inserts'[u]] /\ updates' = [u \in Trans |-> updates'[u]]
        /\ removes' = [u \in Trans |-> removes'[u]]
    BY <2>1 DEF TransactionTypes
  <2>4. owner' \in [Chunks -> Trans \cup {NoTrans}] /\ granted' \in [Chunks -> SUBSET Procs]
    BY <2>1 DEF TransactionTypes
  <2>5. PICK place \in {"applying", "done", "open"} : pc' = [pc EXCEPT ![t] = place]
    BY <1>12, ApplyMeans
  <2>6. UNCHANGED <<holders, clock, beginTime, chunkTx, futureVars, commitTime, mergeVars, seen>>
    BY <1>12, ApplyMeans
  <2> QED
    BY <2>2, <2>3, <2>4, <2>5, <2>6 DEF TransactionTypes, futureVars, mergeVars
<1>13. ASSUME NEW t \in Trans, NEW m \in Trans, MergeStart(t, m) PROVE TransactionTypes'
  BY <1>1, <1>2, <1>13 DEF MergeStart, TransactionTypes, deltaVars, futureVars
<1>14. ASSUME NEW t \in Trans, MergeChunk(t) PROVE TransactionTypes'
  <2> DEFINE m == mergeLeft[t][1]
  <2>1. PICK c \in mergeLeft[t][2] :
          /\ mergeLeft' = [mergeLeft EXCEPT ![t][2] = @ \ {c}]
          /\ pc' = [pc EXCEPT ![t] = IF mergeLeft[t][2] = {c} THEN "merged" ELSE @]
          /\ chunkTx' = chunkTx \/ chunkTx' = [chunkTx EXCEPT ![m] = @ \cup {c}]
    BY <1>14, MergeChunkMeans
  <2>2. PICK inserted : inserts' = [inserts EXCEPT ![m] = @ \cup inserted]
    BY <1>14, MergeChunkMeans
  <2>3. PICK updated : updates' = [updates EXCEPT ![m] = @ \cup updated]
    BY <1>14, MergeChunkMeans
  <2>4. PICK removed : removes' = [removes EXCEPT ![m] = @ \cup removed]
    BY <1>14, MergeChunkMeans
  <2>5. /\ inserts' = [u \in Trans |-> inserts'[u]] /\ updates' = [u \in Trans |-> updates'[u]]
        /\ removes' = [u \in Trans |-> removes'[u]]
    BY <2>2, <2>3, <2>4 DEF TransactionTypes
  <2>6. /\ mergeLeft \in [Trans -> (Trans \cup {NoTrans}) \X SUBSET Chunks]
        /\ chunkTx \in [Trans -> SUBSET Chunks]
    BY DEF TransactionTypes
  <2>7. mergeLeft' \in [Trans -> (Trans \cup {NoTrans}) \X SUBSET Chunks]
    <3>1. [mergeLeft[t] EXCEPT ![2] = @ \ {c}] \in (Trans \cup {NoTrans}) \X SUBSET Chunks
      BY <2>6
    <3>2. mergeLeft' = [mergeLeft EXCEPT ![t] = [mergeLeft[t] EXCEPT ![2] = @ \ {c}]]
      BY <2>1
    <3> QED
      BY <2>6, <3>1, <3>2
  <2>8. chunkTx' \in [Trans -> SUBSET Chunks]
    <3>1. c \in Chunks
      BY <2>6
    <3>2. CASE chunkTx' = [chunkTx EXCEPT ![m] = @ \cup {c}]
      BY <2>6, <3>1, <3>2
    <3> QED
      BY <2>1, <2>6, <3>2
  <2>9. UNCHANGED <<shared, beginTime, futureVars, commitTime, seen>>
    BY <1>14, MergeChunkMeans
  <2> QED
    BY <2>1, <2>5, <2>7, <2>8, <2>9 DEF TransactionTypes, shared, futureVars
<1>15. CASE UNCHANGED vars
  BY <1>15 DEF vars, shared, deltaVars, futureVars, mergeVars, TransactionTypes
<1> QED
  BY <1>3, <1>4, <1>5, <1>6, <1>7, <1>8, <1>9, <1>10, <1>11, <1>12, <1>13, <1>14, <1>15
     DEF Next, Commit

--------------------------------------------------------------------------------
(* Revisions. *)

\* What a merge policy makes of a conflict is the revision at hand, with other contents
\* (Revision::AutoMergePolicy).
PoliciesKeepRevisions ==
  \A theirs, original, ours :
    IsRevision(theirs) /\ IsRevision(ours) /\ theirs.id = ours.id =>
      LET merged == CustomMerge(theirs, original, ours)
      IN  merged = NoMerge \/ (IsRevision(merged) /\ merged.id = ours.id)

\* What a transaction inserts is a revision.
LEMMA NewRevisionFits ==
  ASSUME NEW i \in Items, NEW time
  PROVE  IsRevision(NewRevision(i, time)) /\ NewRevision(i, time).id = i
BY DEF NewRevision, Template, IsRevision

\* Views show revisions.
LEMMA ViewsShowRevisions ==
  ASSUME RevisionsFit, NEW t \in Trans, NEW c \in Chunks
  PROVE  AreRevisions(View(t, c)) /\ AreRevisions(Present(c))
<1>1. \A time : AreRevisions(ChunkView(c, time))
  BY DEF RevisionsFit, AreRevisions, ChunkView
<1>2. AreRevisions(OriginalView(t, c))
  <2>1. CASE c \in FutureChunks(t)
    <3>1. PICK f \in future[t] : f[1] = c
      BY <2>1 DEF FutureChunks
    <3>2. (CHOOSE g \in future[t] : g[1] = c) \in future[t]
      BY <3>1
    <3> QED
      BY <2>1, <3>2 DEF OriginalView, RevisionsFit, AreViews
  <2>2. CASE c \notin FutureChunks(t)
    BY <1>1, <2>2 DEF OriginalView
  <2> QED
    BY <2>1, <2>2
<1>3. ASSUME NEW complete, NEW override, NEW suppressed,
             AreRevisions(complete), AreRevisions(override)
      PROVE  AreRevisions(CombinedView(complete, override, suppressed))
  BY <1>3 DEF AreRevisions, CombinedView
<1>4. AreRevisions(CommitHistoryView(t, c)) /\ AreRevisions(DeltaView(t, c))
  BY DEF RevisionsFit, AreRevisions, AreChanges, Changes, CommitHistoryView, DeltaView, OfChunk
<1>5. AreRevisions(ViewBeforeDelta(t, c))
  BY <1>2, <1>3, <1>4 DEF ViewBeforeDelta
<1> QED
  BY <1>1, <1>3, <1>4, <1>5 DEF View, Present

\* What is merged is a revision of the same item (DeltaView::tryAutoMerge).
LEMMA MergedFits ==
  ASSUME PoliciesKeepRevisions, RevisionsFit, NEW t \in Trans, NEW some \in SUBSET Mergeable(t)
  PROVE  AreChanges(WithMerged(t, some))
<1>1. AreChanges(updates[t])
  BY DEF RevisionsFit, AreChanges, AreRevisions, Changes, IdsOf
<1>2. ASSUME NEW ours \in Mergeable(t)
      PROVE  IsRevision(Merged(t, ours)) /\ Merged(t, ours).id \in Items
  <2> DEFINE theirs == CHOOSE r \in Conflicting(t, ours.id) : TRUE
             original == Original(t, ours.id)
             custom == CustomMerge(theirs, original, ours)
  <2>1. ours \in updates[t] /\ Conflicting(t, ours.id) # {} /\ Merged(t, ours) # NoMerge
    BY DEF Mergeable, Disputed
  <2>2. IsRevision(ours) /\ ours.id \in Items
    BY <1>1, <2>1 DEF AreChanges, AreRevisions, IdsOf
  <2>3. theirs \in Conflicting(t, ours.id) /\ theirs.id = ours.id
    BY <2>1 DEF Conflicting
  <2>4. IsRevision(theirs)
    <3>1. HomeOf[ours.id] \in Chunks
      BY <2>2, TransactionsAssumption
    <3>2. AreRevisions(Present(HomeOf[ours.id]))
      BY <3>1, ViewsShowRevisions
    <3> QED
      BY <2>3, <3>2 DEF Conflicting, PotentialConflicts, AreRevisions
  <2>5. Merged(t, ours) = tryAutoMerge(custom, theirs, original, ours)
    BY DEF Merged
  <2>6. custom = NoMerge \/ (IsRevision(custom) /\ custom.id = ours.id)
    BY <2>2, <2>3, <2>4 DEF PoliciesKeepRevisions
  <2> HIDE DEF theirs, original, custom
  <2>7. CASE custom # NoMerge
    BY <2>2, <2>5, <2>6, <2>7 DEF tryAutoMerge
  <2>8. CASE custom = NoMerge
    <3>1. Merged(t, ours) = defaultAutoMergePolicy(theirs, original, ours)
      BY <2>5, <2>8 DEF tryAutoMerge
    <3> DEFINE fields == IF ~areAllCustomFieldsEqual(theirs, original) THEN theirs.fields
                         ELSE ours.fields
               trackees == MergeTrackees(ours.trackees, theirs.trackees)
               both == [ours EXCEPT !.fields = fields, !.trackees = trackees]
    <3>2. defaultAutoMergePolicy(theirs, original, ours) \in {NoMerge, both}
      BY Zenon DEF defaultAutoMergePolicy
    <3> HIDE DEF fields, trackees
    <3>3. IsRevision(both) /\ both.id = ours.id
      BY <2>2 DEF IsRevision
    <3> HIDE DEF both
    <3> QED
      BY <2>1, <2>2, <3>1, <3>2, <3>3
  <2> QED
    BY <2>7, <2>8
<1> QED
  BY <1>1, <1>2 DEF AreChanges, AreRevisions, WithMerged, IdsOf

\* What an operation of the client adds to the changes of its transaction (Transaction::insert,
\* update and remove).
LEMMA OperationsFit ==
  ASSUME TransactionTypes, RevisionsFit, NEW t \in Trans, NEW i \in Items,
         getById(t, i) \/ Insert(t, i) \/ Update(t, i) \/ Remove(t, i)
  PROVE  \E new : AreChanges(new) /\ \A u \in Trans : Changes(u)' \subseteq Changes(u) \cup new
<1>1. CASE getById(t, i)
  <2>1. \A u \in Trans : Changes(u)' = Changes(u)
    BY <1>1 DEF getById, deltaVars, Changes
  <2>2. AreChanges({})
    BY DEF AreChanges, AreRevisions, IdsOf
  <2> QED
    BY <2>1, <2>2
<1>2. CASE Insert(t, i)
  <2> DEFINE r == NewRevision(i, 0)
  <2>1. inserts' = [inserts EXCEPT ![t] = @ \cup {r}] /\ UNCHANGED <<updates, removes>>
    BY <1>2 DEF Insert
  <2>2. AreChanges({r})
    BY NewRevisionFits DEF AreChanges, AreRevisions, IdsOf
  <2> HIDE DEF r
  <2>3. \A u \in Trans : Changes(u)' \subseteq Changes(u) \cup {r}
    BY <2>1 DEF Changes, TransactionTypes
  <2> QED
    BY <2>2, <2>3
<1>3. CASE Update(t, i)
  <2>1. PICK old \in View(t, HomeOf[i]) :
          /\ old.id = i
          /\ PutUpdate(t, [old EXCEPT !.fields[1] = SetField(@, "int32", NumberOf[t])])
    BY <1>3 DEF Update
  <2>2. IsRevision(old)
    BY ViewsShowRevisions, TransactionsAssumption DEF AreRevisions
  <2> DEFINE r == [old EXCEPT !.fields[1] = SetField(@, "int32", NumberOf[t])]
  <2>3. IsRevision(r) /\ r.id = i
    BY <2>1, <2>2 DEF IsRevision
  <2>4. PutUpdate(t, r) /\ UNCHANGED removes
    BY <1>3, <2>1 DEF Update
  <2>5. AreChanges({r})
    BY <2>3 DEF AreChanges, AreRevisions, IdsOf
  <2> HIDE DEF r
  <2>6. \/ inserts' = [inserts EXCEPT ![t] = {s \in @ : s.id # r.id} \cup {r}] /\ UNCHANGED updates
        \/ updates' = [updates EXCEPT ![t] = {s \in @ : s.id # r.id} \cup {r}] /\ UNCHANGED inserts
    BY <2>4 DEF PutUpdate
  <2>7. \A u \in Trans : Changes(u)' \subseteq Changes(u) \cup {r}
    <3> DEFINE keptInserts == {s \in inserts[t] : s.id # r.id}
               keptUpdates == {s \in updates[t] : s.id # r.id}
    <3>1. keptInserts \subseteq inserts[t] /\ keptUpdates \subseteq updates[t]
      OBVIOUS
    <3>2. \/ inserts' = [inserts EXCEPT ![t] = keptInserts \cup {r}] /\ UNCHANGED updates
          \/ updates' = [updates EXCEPT ![t] = keptUpdates \cup {r}] /\ UNCHANGED inserts
      BY <2>6
    <3> HIDE DEF keptInserts, keptUpdates
    <3>3. inserts = [u \in Trans |-> inserts[u]] /\ updates = [u \in Trans |-> updates[u]]
      BY DEF TransactionTypes
    <3>4. CASE inserts' = [inserts EXCEPT ![t] = keptInserts \cup {r}] /\ UNCHANGED updates
      <4>1. \A u \in Trans : inserts'[u] \subseteq inserts[u] \cup {r}
        BY <3>1, <3>3, <3>4
      <4> QED
        BY <2>4, <3>4, <4>1 DEF Changes
    <3>5. CASE updates' = [updates EXCEPT ![t] = keptUpdates \cup {r}] /\ UNCHANGED inserts
      <4>1. \A u \in Trans : updates'[u] \subseteq updates[u] \cup {r}
        BY <3>1, <3>3, <3>5
      <4> QED
        BY <2>4, <3>5, <4>1 DEF Changes
    <3> QED
      BY <3>2, <3>4, <3>5
  <2> QED
    BY <2>5, <2>7
<1>4. CASE Remove(t, i)
  <2>1. PICK r \in View(t, HomeOf[i]) :
          /\ r.id = i
          /\ updates' = [updates EXCEPT ![t] = Erased(@, i)]
          /\ inserts' = [inserts EXCEPT ![t] = Erased(@, i)]
          /\ removes' = [removes EXCEPT ![t] = IF i \in IdsOf(inserts[t]) THEN @ ELSE @ \cup {r}]
    BY <1>4 DEF Remove
  <2>2. AreChanges({r})
    BY <2>1, ViewsShowRevisions, TransactionsAssumption DEF AreChanges, AreRevisions, IdsOf
  <2>3. \A u \in Trans : Changes(u)' \subseteq Changes(u) \cup {r}
    BY <2>1 DEF Erased, Changes, TransactionTypes
  <2> QED
    BY <2>2, <2>3
<1> QED
  BY <1>1, <1>2, <1>3, <1>4

\* What a commit adds before it locks: the trackers of what is inserted
\* (pushNewChunkIdsToTrackers).
LEMMA CommitStartFits ==
  ASSUME TransactionTypes, RevisionsFit, NEW t \in Trans, CommitStart(t)
  PROVE  AreChanges(NewTrackerRevisions(t)) /\
         \A u \in Trans : Changes(u)' \subseteq Changes(u) \cup NewTrackerRevisions(t)
<1> DEFINE new == NewTrackerRevisions(t)
           atOnce == {r \in new : r.id \in IdsOf(inserts[t])}
<1>1. ASSUME NEW x \in TrackersOf(t)
      PROVE  IsRevision(Tracked(t, x)) /\ Tracked(t, x).id \in Items
  <2>1. x \in Items /\ HomeOf[x] \in Chunks
    BY TrackersAreItems
  <2>2. \E r \in View(t, HomeOf[x]) : r.id = x
    BY DEF CommitStart, IdsOf
  <2>3. TrackerRevision(t, x) \in View(t, HomeOf[x]) /\ TrackerRevision(t, x).id = x
    BY <2>2 DEF TrackerRevision
  <2>4. IsRevision(TrackerRevision(t, x))
    BY <2>1, <2>3, ViewsShowRevisions DEF AreRevisions
  <2> QED
    BY <2>1, <2>3, <2>4 DEF Tracked, IsRevision
<1>2. AreChanges(new)
  BY <1>1 DEF AreChanges, AreRevisions, IdsOf, NewTrackerRevisions
<1>3. /\ inserts' = [inserts EXCEPT ![t] = {s \in @ : s.id \notin IdsOf(atOnce)} \cup atOnce]
      /\ updates' = [updates EXCEPT ![t] = {s \in @ : s.id \notin IdsOf(new)} \cup (new \ atOnce)]
      /\ UNCHANGED removes
  BY DEF CommitStart
<1>4. atOnce \subseteq new
  OBVIOUS
<1> HIDE DEF new, atOnce
<1>5. \A u \in Trans : Changes(u)' \subseteq Changes(u) \cup new
  BY <1>3, <1>4 DEF Changes, TransactionTypes
<1> QED
  BY <1>2, <1>5 DEF new

\* What leaves data, changes and promises alone.
Preliminary(t) ==
  \/ Begin(t) \/ Lock(t)
  \/ \E b \in Tables : OpenTable(t, b)
  \/ \E i \in Items, c \in Chunks : Fetch(t, i, c)
  \/ \E m \in Trans : MergeStart(t, m)

\* A transaction that begins, reads or locks writes nothing (Transaction::begin, LegacyChunk::writeLock).
LEMMA PreliminaryMeans ==
  ASSUME NEW t \in Trans, Preliminary(t)
  PROVE  UNCHANGED <<data, deltaVars, futureVars>>
BY DEF Preliminary, Begin, Lock, OpenTable, Fetch, MergeStart, shared

\* Changes stay revisions of items.
LEMMA ChangesFitStep ==
  ASSUME PoliciesKeepRevisions, TransactionTypes, RevisionsFit, [Next]_vars
  PROVE  \A t \in Trans : AreChanges(Changes(t))'
<1>1. SUFFICES \E new : AreChanges(new) /\ \A u \in Trans : Changes(u)' \subseteq Changes(u) \cup new
  BY DEF RevisionsFit, AreChanges, AreRevisions, IdsOf
<1>2. AreChanges({})
  BY DEF AreChanges, AreRevisions, IdsOf
<1>3. CASE UNCHANGED deltaVars
  BY <1>2, <1>3 DEF Changes, deltaVars
<1>4. ASSUME NEW t \in Trans, NEW i \in Items,
             getById(t, i) \/ Insert(t, i) \/ Update(t, i) \/ Remove(t, i)
      PROVE  \E new : AreChanges(new) /\ \A u \in Trans : Changes(u)' \subseteq Changes(u) \cup new
  BY <1>4, OperationsFit
<1>5. ASSUME NEW t \in Trans, CommitStart(t)
      PROVE  \E new : AreChanges(new) /\ \A u \in Trans : Changes(u)' \subseteq Changes(u) \cup new
  BY <1>5, CommitStartFits
<1>6. ASSUME NEW t \in Trans, Check(t)
      PROVE  \E new : AreChanges(new) /\ \A u \in Trans : Changes(u)' \subseteq Changes(u) \cup new
  <2>1. PICK some \in SUBSET Mergeable(t) : updates' = [updates EXCEPT ![t] = WithMerged(t, some)]
    BY <1>6, CheckMeans
  <2>2. AreChanges(WithMerged(t, some))
    BY MergedFits
  <2>3. UNCHANGED <<inserts, removes>>
    BY <1>6, CheckMeans
  <2>4. \A u \in Trans : Changes(u)' \subseteq Changes(u) \cup WithMerged(t, some)
    BY <2>1, <2>3 DEF Changes, TransactionTypes
  <2> QED
    BY <2>2, <2>4
<1>7. ASSUME NEW t \in Trans, Apply(t)
      PROVE  \A u \in Trans : Changes(u)' \subseteq Changes(u) \cup {}
  <2>1. PICK now \in SUBSET Locked(t) :
          /\ inserts' = [inserts EXCEPT ![t] = {r \in @ : r.chunk \notin now}]
          /\ updates' = [updates EXCEPT ![t] = {r \in @ : r.chunk \notin now}]
          /\ removes' = [removes EXCEPT ![t] = {r \in @ : r.chunk \notin now}]
    BY <1>7, ApplyMeans
  <2>2. /\ \A u \in Trans : inserts'[u] \subseteq inserts[u]
        /\ \A u \in Trans : updates'[u] \subseteq updates[u]
        /\ \A u \in Trans : removes'[u] \subseteq removes[u]
    BY <2>1 DEF TransactionTypes
  <2> QED
    BY <2>2 DEF Changes
<1>8. ASSUME NEW t \in Trans, MergeChunk(t)
      PROVE  \E new : AreChanges(new) /\ \A u \in Trans : Changes(u)' \subseteq Changes(u) \cup new
  <2> DEFINE m == mergeLeft[t][1]
  <2>1. PICK more \in SUBSET inserts[t] : inserts' = [inserts EXCEPT ![m] = @ \cup more]
    BY <1>8, MergeChunkMeans
  <2>2. PICK also \in SUBSET updates[t] : updates' = [updates EXCEPT ![m] = @ \cup also]
    BY <1>8, MergeChunkMeans
  <2>3. PICK less \in SUBSET removes[t] : removes' = [removes EXCEPT ![m] = @ \cup less]
    BY <1>8, MergeChunkMeans
  <2>4. /\ \A u \in Trans : inserts'[u] \subseteq inserts[u] \cup inserts[t]
        /\ \A u \in Trans : updates'[u] \subseteq updates[u] \cup updates[t]
        /\ \A u \in Trans : removes'[u] \subseteq removes[u] \cup removes[t]
    BY <2>1, <2>2, <2>3 DEF TransactionTypes
  <2>5. \A u \in Trans : Changes(u)' \subseteq Changes(u) \cup Changes(t)
    BY <2>4 DEF Changes
  <2> QED
    BY <2>5 DEF RevisionsFit
<1>9. ASSUME NEW t \in Trans,
             Preliminary(t) \/ detachFutures(t) \/ \E u \in Trans : BeginOnFuture(t, u)
      PROVE  UNCHANGED deltaVars
  BY <1>9, PreliminaryMeans DEF detachFutures, BeginOnFuture
<1>10. CASE UNCHANGED vars
  BY <1>3, <1>10 DEF vars
<1> QED
  BY <1>2, <1>3, <1>4, <1>5, <1>6, <1>7, <1>8, <1>9, <1>10 DEF Next, Commit, Preliminary

\* What a commit promises are revisions (buildCommitFutureTree).
LEMMA PromisesFit ==
  ASSUME RevisionsFit, NEW t \in Trans, NEW c \in Chunks, NEW new, AreChanges(new)
  PROVE  AreViews({CommitFuture(t, c, new)})
<1> DEFINE own == {r \in OfChunk(inserts[t] \cup new, c) : r.id \notin IdsOf(removes[t])}
<1>1. AreRevisions(own)
  BY DEF RevisionsFit, AreChanges, AreRevisions, Changes, OfChunk
<1>2. AreRevisions(Present(c))
  BY ViewsShowRevisions
<1>3. CommitFuture(t, c, new) = <<c, CombinedDump(Present(c), own, IdsOf(removes[t]))>>
  BY DEF CommitFuture
<1> HIDE DEF own
<1>4. AreRevisions(CombinedDump(Present(c), own, IdsOf(removes[t])))
  BY <1>1, <1>2 DEF CombinedDump, AreRevisions
<1> QED
  BY <1>3, <1>4 DEF AreViews

\* Promises stay views of chunks.
LEMMA PromisesFitStep ==
  ASSUME PoliciesKeepRevisions, TransactionTypes, RevisionsFit, [Next]_vars
  PROVE  \A t \in Trans : AreViews(future[t])' /\ AreViews(promised[t])'
<1> DEFINE Kept == \A t \in Trans : AreViews(future[t])' /\ AreViews(promised[t])'
<1>1. AreViews({})
  BY DEF AreViews
<1>2. ASSUME UNCHANGED futureVars PROVE Kept
  BY <1>2 DEF futureVars, RevisionsFit, AreViews, AreRevisions
<1>3. ASSUME NEW t \in Trans, NEW u \in Trans, BeginOnFuture(t, u) PROVE Kept
  <2>1. future' = [future EXCEPT ![t] = promised[u]] /\ UNCHANGED promised
    BY <1>3 DEF BeginOnFuture
  <2>2. \A w \in Trans : future'[w] \in {future[w], promised[u]}
    BY <2>1 DEF TransactionTypes
  <2> QED
    BY <2>1, <2>2 DEF RevisionsFit, AreViews, AreRevisions
<1>4. ASSUME NEW t \in Trans, detachFutures(t) PROVE Kept
  <2>1. future' = [future EXCEPT ![t] = {}] /\ UNCHANGED promised
    BY <1>4 DEF detachFutures
  <2>2. \A w \in Trans : future'[w] \in {future[w], {}}
    BY <2>1 DEF TransactionTypes
  <2> QED
    BY <1>1, <2>1, <2>2 DEF RevisionsFit, AreViews, AreRevisions
<1>5. ASSUME NEW t \in Trans, Check(t) PROVE Kept
  <2> DEFINE new == WithMerged(t, Mergeable(t))
             promises == IF t \in Parallel THEN {CommitFuture(t, c, new) : c \in chunkTx[t]} ELSE {}
  <2>1. UNCHANGED future /\ (UNCHANGED promised \/ promised' = [promised EXCEPT ![t] = promises])
    BY <1>5, CheckMeans
  <2>2. AreViews(promises)
    <3>1. AreChanges(new)
      BY MergedFits
    <3>2. chunkTx[t] \subseteq Chunks
      BY DEF TransactionTypes
    <3> HIDE DEF new
    <3>3. \A c \in chunkTx[t] : AreViews({CommitFuture(t, c, new)})
      BY <3>1, <3>2, PromisesFit
    <3> QED
      BY <1>1, <3>3 DEF AreViews
  <2> HIDE DEF promises
  <2>3. \A w \in Trans : promised'[w] \in {promised[w], promises}
    BY <2>1 DEF TransactionTypes
  <2> QED
    BY <2>1, <2>2, <2>3 DEF RevisionsFit, AreViews, AreRevisions
<1>6. ASSUME NEW t \in Trans, Preliminary(t) PROVE Kept
  BY <1>2, <1>6, PreliminaryMeans
<1>7. ASSUME NEW t \in Trans, CommitStart(t) \/ Apply(t) \/ MergeChunk(t) PROVE Kept
  BY <1>2, <1>7 DEF CommitStart, Apply, MergeChunk
<1>8. ASSUME NEW t \in Trans, NEW i \in Items,
             getById(t, i) \/ Insert(t, i) \/ Update(t, i) \/ Remove(t, i)
      PROVE  Kept
  BY <1>2, <1>8 DEF getById, Insert, Update, Remove, Op
<1>9. ASSUME UNCHANGED vars PROVE Kept
  BY <1>2, <1>9 DEF vars
<1> HIDE DEF Kept
<1>10. Kept
  BY <1>3, <1>4, <1>5, <1>6, <1>7, <1>8, <1>9 DEF Next, Commit, Preliminary
<1> QED
  BY <1>10 DEF Kept

\* What is written has the commit time (checkedCommitLocked, LegacyChunk::bulkInsertLocked,
\* updateLocked, removeLocked).
LEMMA WrittenFits ==
  ASSUME RevisionsFit, NEW t \in Trans, NEW c, NEW r \in Written(t, c)
  PROVE  IsRevision(r) /\ r.updateTime = commitTime[t]
<1>1. \A s \in Changes(t) : IsRevision(s)
  BY DEF RevisionsFit, AreChanges, AreRevisions
<1>2. CASE \E s \in OfChunk(inserts[t], c) : r = [s EXCEPT !.insertTime = commitTime[t], !.updateTime = commitTime[t]]
  BY <1>1, <1>2 DEF OfChunk, Changes, IsRevision
<1>3. CASE \E s \in OfChunk(updates[t], c) : r = [s EXCEPT !.updateTime = commitTime[t]]
  BY <1>1, <1>3 DEF OfChunk, Changes, IsRevision
<1>4. CASE \E s \in OfChunk(removes[t], c) : r = [s EXCEPT !.updateTime = commitTime[t], !.removed = TRUE]
  BY <1>1, <1>4 DEF OfChunk, Changes, IsRevision
<1> QED
  BY <1>2, <1>3, <1>4 DEF Written

\* The data of a chunk only changes by a commit that has locked it.
LEMMA DataChanges ==
  ASSUME TransactionTypes, RevisionsFit, [Next]_vars, NEW c \in Chunks
  PROVE  \/ data'[c] = data[c]
         \/ \E t \in Trans : /\ owner[c] = t /\ pc[t] = "applying"
                             /\ data'[c] = data[c] \cup Written(t, c)
<1>1. ASSUME NEW t \in Trans, Apply(t)
      PROVE  data'[c] = data[c] \/ /\ owner[c] = t /\ pc[t] = "applying"
                                   /\ data'[c] = data[c] \cup Written(t, c)
  <2>1. PICK now \in SUBSET Locked(t) : data' = [d \in Chunks |-> data[d] \cup WrittenNow(t, now, d)]
    BY <1>1, ApplyMeans
  <2>2. data'[c] = data[c] \cup WrittenNow(t, now, c)
    BY <2>1
  <2>3. CASE c \in now
    BY <1>1, <2>2, <2>3, ApplyMeans DEF WrittenNow, Locked
  <2>4. CASE c \notin now
    BY <2>2, <2>4 DEF WrittenNow
  <2> QED
    BY <2>3, <2>4
<1>2. ASSUME NEW t \in Trans,
             \/ Preliminary(t) \/ detachFutures(t) \/ CommitStart(t) \/ Check(t) \/ MergeChunk(t)
             \/ \E u \in Trans : BeginOnFuture(t, u)
             \/ \E i \in Items : getById(t, i) \/ Insert(t, i) \/ Update(t, i) \/ Remove(t, i)
      PROVE  UNCHANGED data
  BY <1>2, PreliminaryMeans DEF detachFutures, CommitStart, Check, MergeChunk, BeginOnFuture,
     getById, Insert, Update, Remove, Op, shared
<1>3. CASE UNCHANGED vars
  BY <1>3 DEF vars, shared
<1> QED
  BY <1>1, <1>2, <1>3 DEF Next, Commit, Preliminary

\* Data, changes and promises stay revisions (Revision, DeltaView, CommitFutureTree).
LEMMA RevisionsFitStep ==
  ASSUME PoliciesKeepRevisions, TransactionTypes, RevisionsFit, [Next]_vars
  PROVE  RevisionsFit'
<1>1. ASSUME NEW c \in Chunks PROVE AreRevisions(data[c])'
  BY DataChanges, WrittenFits DEF RevisionsFit, AreRevisions
<1> QED
  BY <1>1, ChangesFitStep, PromisesFitStep DEF RevisionsFit

--------------------------------------------------------------------------------
(* Locks. *)

\* No commit that is on its way is touched.
QuietFor(u) ==
  pc[u] \in {"locking", "applying"} => pc'[u] = pc[u] /\ chunkTx[u] \subseteq chunkTx'[u]

\* What the client does, or a merge, disturbs no commit that is on its way.
LEMMA ClientsAreQuiet ==
  ASSUME TransactionTypes, NEW t \in Trans,
         \/ Begin(t) \/ detachFutures(t) \/ CommitStart(t) \/ MergeChunk(t)
         \/ \E u \in Trans : BeginOnFuture(t, u) \/ MergeStart(t, u)
         \/ \E b \in Tables : OpenTable(t, b)
         \/ \E i \in Items : getById(t, i) \/ Insert(t, i) \/ Update(t, i) \/ Remove(t, i)
  PROVE  UNCHANGED <<holders, owner, granted>> /\ \A u \in Trans : QuietFor(u)
<1>1. pc \in [Trans -> {"idle", "open", "locking", "applying", "failed", "merging", "merged", "done"}]
      /\ chunkTx \in [Trans -> SUBSET Chunks]
  BY DEF TransactionTypes
<1>2. CASE Begin(t)
  <2>1. pc[t] = "idle" /\ pc' = [pc EXCEPT ![t] = "open"]
        /\ UNCHANGED <<holders, owner, granted, chunkTx>>
    BY <1>2 DEF Begin
  <2> QED
    BY <1>1, <2>1 DEF QuietFor
<1>3. ASSUME NEW u \in Trans, BeginOnFuture(t, u)
      PROVE  UNCHANGED <<holders, owner, granted>> /\ \A v \in Trans : QuietFor(v)
  <2>1. pc[t] = "idle" /\ pc' = [pc EXCEPT ![t] = "open"]
        /\ UNCHANGED <<holders, owner, granted>>
    BY <1>3 DEF BeginOnFuture
  <2>2. PICK new : chunkTx' = [chunkTx EXCEPT ![t] = new]
    BY <1>3 DEF BeginOnFuture
  <2> QED
    BY <1>1, <2>1, <2>2 DEF QuietFor
<1>4. CASE detachFutures(t) \/ \E b \in Tables : OpenTable(t, b)
  <2>1. UNCHANGED <<holders, owner, granted, pc, chunkTx>>
    BY <1>4 DEF detachFutures, OpenTable, shared
  <2> QED
    BY <2>1 DEF QuietFor
<1>5. CASE CommitStart(t)
  <2>1. pc[t] = "open" /\ pc' = [pc EXCEPT ![t] = "locking"]
        /\ UNCHANGED <<holders, owner, granted>>
    BY <1>5 DEF CommitStart, shared
  <2>2. PICK more : chunkTx' = [chunkTx EXCEPT ![t] = @ \cup more]
    BY <1>5 DEF CommitStart
  <2> QED
    BY <1>1, <2>1, <2>2 DEF QuietFor
<1>6. ASSUME NEW i \in Items, getById(t, i) \/ Insert(t, i) \/ Update(t, i) \/ Remove(t, i)
      PROVE  UNCHANGED <<holders, owner, granted>> /\ \A v \in Trans : QuietFor(v)
  <2>1. chunkTx' = [chunkTx EXCEPT ![t] = @ \cup {HomeOf[i]}] /\ Op(t)
    BY <1>6 DEF getById, Insert, Update, Remove, Touch
  <2>2. UNCHANGED <<holders, owner, granted, pc>>
    BY <2>1 DEF Op, shared
  <2> QED
    BY <1>1, <2>1, <2>2 DEF QuietFor
<1>7. ASSUME NEW m \in Trans, MergeStart(t, m)
      PROVE  UNCHANGED <<holders, owner, granted>> /\ \A v \in Trans : QuietFor(v)
  <2>1. pc[t] = "failed" /\ pc[m] = "idle" /\ pc' = [pc EXCEPT ![t] = "merging", ![m] = "open"]
        /\ UNCHANGED <<holders, owner, granted, chunkTx>>
    BY <1>7 DEF MergeStart
  <2> QED
    BY <1>1, <2>1 DEF QuietFor
<1>8. CASE MergeChunk(t)
  <2>1. UNCHANGED <<holders, owner, granted>>
    BY <1>8, MergeChunkMeans DEF shared
  <2> DEFINE m == mergeLeft[t][1]
  <2>2. PICK c \in mergeLeft[t][2] : chunkTx' = chunkTx \/ chunkTx' = [chunkTx EXCEPT ![m] = @ \cup {c}]
    BY <1>8, MergeChunkMeans
  <2>3. pc[t] = "merging" /\ \E place : pc' = [pc EXCEPT ![t] = place]
    BY <1>8, MergeChunkMeans
  <2>4. \A u \in Trans : chunkTx[u] \subseteq chunkTx'[u]
    BY <1>1, <2>2
  <2> QED
    BY <1>1, <2>1, <2>3, <2>4 DEF QuietFor
<1> QED
  BY <1>2, <1>3, <1>4, <1>5, <1>6, <1>7, <1>8

\* Whoever leaves the locks and the commits on their way alone, leaves LockFits alone.
LEMMA QuietLocks ==
  ASSUME TransactionTypes, NEW c \in Chunks, LockFits(c), owner'[c] = owner[c],
         granted'[c] = granted[c], holders'[c] = holders[c],
         \A u \in Trans : owner[c] = u => QuietFor(u)
  PROVE  LockFits(c)'
<1>1. owner[c] # NoTrans => owner[c] \in Trans
  BY DEF TransactionTypes
<1> QED
  BY <1>1 DEF LockFits, QuietFor

\* A lock is with a commit on its way, and used when all that have the chunk have granted it
\* (NetTableTransaction::lock, ChunkTransaction::hasNoConflicts).
LEMMA LockFitsStep ==
  ASSUME TransactionTypes, \A d \in Chunks : LockFits(d), \A t \in Trans : ChunksAreHeld(t),
         [Next]_vars, NEW c \in Chunks
  PROVE  LockFits(c)'
<1>1. /\ \A d \in Chunks : owner[d] # NoTrans => owner[d] \in Trans
      /\ pc \in [Trans -> {"idle", "open", "locking", "applying", "failed", "merging", "merged", "done"}]
      /\ owner \in [Chunks -> Trans \cup {NoTrans}] /\ granted \in [Chunks -> SUBSET Procs]
      /\ holders \in [Chunks -> SUBSET Procs] /\ NoTrans \notin Trans
  BY TransactionsAssumption DEF TransactionTypes
<1>2. LockFits(c)
  OBVIOUS
<1>3. ASSUME NEW t \in Trans,
             \/ Begin(t) \/ detachFutures(t) \/ CommitStart(t) \/ MergeChunk(t)
             \/ \E u \in Trans : BeginOnFuture(t, u) \/ MergeStart(t, u)
             \/ \E b \in Tables : OpenTable(t, b)
             \/ \E i \in Items : getById(t, i) \/ Insert(t, i) \/ Update(t, i) \/ Remove(t, i)
      PROVE  LockFits(c)'
  <2>1. UNCHANGED <<holders, owner, granted>> /\ \A u \in Trans : QuietFor(u)
    BY <1>3, ClientsAreQuiet
  <2> QED
    BY <2>1, QuietLocks
<1>4. ASSUME NEW t \in Trans, NEW i \in Items, NEW d \in Chunks, Fetch(t, i, d)
      PROVE  LockFits(c)'
  <2>1. /\ owner[d] = NoTrans /\ pc[t] = "open" /\ UNCHANGED <<owner, granted, pc>>
        /\ holders' = [holders EXCEPT ![d] = @ \cup {Host[t]}]
        /\ chunkTx' = [chunkTx EXCEPT ![t] = @ \cup {HomeOf[i]}]
    BY <1>4, FetchMeans
  <2>2. \A u \in Trans : QuietFor(u)
    BY <2>1 DEF QuietFor, TransactionTypes
  <2>3. CASE c # d
    BY <1>1, <2>1, <2>2, <2>3, QuietLocks
  <2>4. CASE c = d
    BY <1>1, <1>2, <2>1, <2>4 DEF LockFits
  <2> QED
    BY <2>3, <2>4
<1>5. ASSUME NEW t \in Trans, Lock(t) PROVE LockFits(c)'
  <2>1. PICK d \in chunkTx[t] : \E q \in holders[d] \ granted[d] :
          /\ owner[d] \in {NoTrans, t} /\ owner' = [owner EXCEPT ![d] = t]
          /\ granted' = [granted EXCEPT ![d] = @ \cup {q}]
    BY <1>5, LockMeans
  <2>2. pc[t] = "locking" /\ UNCHANGED <<holders, pc, chunkTx>>
    BY <1>5 DEF Lock
  <2>3. d \in Chunks
    BY DEF TransactionTypes
  <2>4. CASE c # d
    BY <1>1, <1>2, <2>1, <2>2, <2>3, <2>4 DEF LockFits
  <2>5. CASE c = d
    BY <1>1, <1>2, <2>1, <2>2, <2>3, <2>5 DEF LockFits
  <2> QED
    BY <2>4, <2>5
<1>6. ASSUME NEW t \in Trans, Check(t) PROVE LockFits(c)'
  <2>1. pc[t] = "locking" /\ Unlocked(t) = {} /\ UNCHANGED <<holders, chunkTx>>
    BY <1>6, CheckMeans
  <2>2. \A d \in chunkTx[t] : owner[d] = t /\ granted[d] = holders[d]
    BY <2>1 DEF Unlocked
  <2>3. CASE pc' = [pc EXCEPT ![t] = "applying"] /\ UNCHANGED <<owner, granted>>
    BY <1>1, <1>2, <2>1, <2>2, <2>3 DEF LockFits
  <2>4. CASE /\ pc' = [pc EXCEPT ![t] = "failed"]
             /\ owner' = [d \in Chunks |-> IF d \in chunkTx[t] THEN NoTrans ELSE owner[d]]
             /\ granted' = [d \in Chunks |-> IF d \in chunkTx[t] THEN {} ELSE granted[d]]
    <3>1. CASE c \in chunkTx[t]
      <4>1. owner'[c] = NoTrans /\ granted'[c] = {}
        BY <2>4, <3>1
      <4> QED
        BY <4>1 DEF LockFits
    <3>2. CASE c \notin chunkTx[t]
      <4>1. owner'[c] = owner[c] /\ granted'[c] = granted[c] /\ owner[c] # t
        BY <1>1, <1>2, <2>4, <3>2 DEF LockFits
      <4> QED
        BY <1>1, <1>2, <2>1, <2>4, <4>1 DEF LockFits
    <3> QED
      BY <3>1, <3>2
  <2> QED
    BY <1>6, <2>3, <2>4, CheckMeans
<1>7. ASSUME NEW t \in Trans, Apply(t) PROVE LockFits(c)'
  <2>1. PICK now \in SUBSET Locked(t) :
          /\ owner' = [d \in Chunks |-> IF d \in now THEN NoTrans ELSE owner[d]]
          /\ granted' = [d \in Chunks |-> IF d \in now THEN {} ELSE granted[d]]
          /\ \/ pc' = [pc EXCEPT ![t] = "applying"]
             \/ Locked(t) \ now = {} /\ \E place : pc' = [pc EXCEPT ![t] = place]
    BY <1>7, ApplyMeans
  <2>2. pc[t] = "applying" /\ UNCHANGED <<holders, chunkTx>>
    BY <1>7, ApplyMeans
  <2>3. CASE c \in now
    <3>1. owner'[c] = NoTrans /\ granted'[c] = {}
      BY <2>1, <2>3
    <3> QED
      BY <3>1 DEF LockFits
  <2>4. CASE c \notin now
    <3>1. owner'[c] = owner[c] /\ granted'[c] = granted[c]
      BY <2>1, <2>4
    <3>2. owner[c] = t => pc'[t] = "applying"
      BY <1>1, <2>1, <2>4 DEF Locked
    <3>3. \A u \in Trans : u # t => pc'[u] = pc[u]
      BY <1>1, <2>1
    <3> QED
      BY <1>1, <1>2, <2>2, <3>1, <3>2, <3>3 DEF LockFits
  <2> QED
    BY <2>3, <2>4
<1>8. CASE UNCHANGED vars
  BY <1>2, <1>8 DEF LockFits, vars, shared
<1> QED
  BY <1>3, <1>4, <1>5, <1>6, <1>7, <1>8 DEF Next, Commit

--------------------------------------------------------------------------------
(* Swarms. *)

\* Nobody leaves the swarm of a chunk.
LEMMA HoldersGrow ==
  ASSUME TransactionTypes, [Next]_vars, NEW c \in Chunks
  PROVE  holders[c] \subseteq holders'[c]
<1>1. ASSUME NEW t \in Trans, NEW i \in Items, NEW d \in Chunks, Fetch(t, i, d)
      PROVE  holders[c] \subseteq holders'[c]
  <2>1. holders' = [holders EXCEPT ![d] = @ \cup {Host[t]}]
    BY <1>1, FetchMeans
  <2> QED
    BY <2>1 DEF TransactionTypes
<1>2. ASSUME NEW t \in Trans,
             \/ Begin(t) \/ detachFutures(t) \/ CommitStart(t) \/ MergeChunk(t)
             \/ \E u \in Trans : BeginOnFuture(t, u) \/ MergeStart(t, u)
             \/ \E b \in Tables : OpenTable(t, b)
             \/ \E i \in Items : getById(t, i) \/ Insert(t, i) \/ Update(t, i) \/ Remove(t, i)
      PROVE  UNCHANGED holders
  BY <1>2, ClientsAreQuiet
<1>3. ASSUME NEW t \in Trans, Commit(t) PROVE UNCHANGED holders
  BY <1>3, CheckMeans, ApplyMeans DEF Commit, Lock
<1>4. CASE UNCHANGED vars
  BY <1>4 DEF vars, shared
<1> QED
  BY <1>1, <1>2, <1>3, <1>4 DEF Next

\* What a transaction touches is held by its process (transactionOf, getChunkTrackers).
LEMMA TouchedAreHeld ==
  ASSUME TransactionTypes, RevisionsFit, \A u \in Trans : ChunksAreHeld(u), [Next]_vars,
         NEW t \in Trans, NEW c \in chunkTx'[t] \ chunkTx[t]
  PROVE  Host[t] \in holders[c]
<1> DEFINE Held == Host[t] \in holders[c]
<1>1. chunkTx \in [Trans -> SUBSET Chunks]
  BY DEF TransactionTypes
<1>2. ASSUME NEW u \in Trans, NEW w \in Trans, BeginOnFuture(u, w) PROVE Held
  <2>1. Host[w] = Host[u] /\ chunkTx' = [chunkTx EXCEPT ![u] = {f[1] : f \in promised[w]}]
    BY <1>2 DEF BeginOnFuture
  <2>2. t = u /\ c \in {f[1] : f \in promised[w]}
    BY <1>1, <2>1
  <2> QED
    BY <2>1, <2>2 DEF ChunksAreHeld
<1>3. ASSUME NEW u \in Trans, NEW i \in Items,
             getById(u, i) \/ Insert(u, i) \/ Update(u, i) \/ Remove(u, i)
      PROVE  Held
  <2>1. chunkTx' = [chunkTx EXCEPT ![u] = @ \cup {HomeOf[i]}] /\ Host[u] \in holders[HomeOf[i]]
    BY <1>3 DEF getById, Insert, Update, Remove, Touch, Readable
  <2>2. t = u /\ c = HomeOf[i]
    BY <1>1, <2>1
  <2> QED
    BY <2>1, <2>2
<1>4. ASSUME NEW u \in Trans, NEW i \in Items, NEW d \in Chunks, Fetch(u, i, d) PROVE Held
  <2>1. chunkTx' = [chunkTx EXCEPT ![u] = @ \cup {HomeOf[i]}] /\ Host[u] \in holders[HomeOf[i]]
    BY <1>4, FetchMeans DEF Readable
  <2>2. t = u /\ c = HomeOf[i]
    BY <1>1, <2>1
  <2> QED
    BY <2>1, <2>2
<1>5. ASSUME NEW u \in Trans, CommitStart(u) PROVE Held
  <2>1. chunkTx' = [chunkTx EXCEPT ![u] = @ \cup {HomeOf[x] : x \in TrackersOf(u)}]
    BY <1>5 DEF CommitStart
  <2>2. t = u /\ c \in {HomeOf[x] : x \in TrackersOf(u)}
    BY <1>1, <2>1
  <2>3. \A x \in TrackersOf(u) : Host[u] \in holders[HomeOf[x]]
    BY <1>5 DEF CommitStart, Readable
  <2> QED
    BY <2>2, <2>3
<1>6. ASSUME NEW u \in Trans, MergeChunk(u) PROVE Held
  <2> DEFINE m == mergeLeft[u][1]
  <2>1. PICK d \in mergeLeft[u][2] :
          /\ Readable(Host[u], d)
          /\ chunkTx' = chunkTx \/ chunkTx' = [chunkTx EXCEPT ![m] = @ \cup {d}]
    BY <1>6, MergeChunkMeans
  <2>2. t = m /\ c = d
    BY <1>1, <2>1
  <2>3. pc[u] = "merging"
    BY <1>6, MergeChunkMeans
  <2> QED
    BY <2>1, <2>2, <2>3 DEF ChunksAreHeld, Readable
<1>7. ASSUME NEW u \in Trans,
             \/ Begin(u) \/ detachFutures(u) \/ Commit(u)
             \/ \E m \in Trans : MergeStart(u, m)
             \/ \E b \in Tables : OpenTable(u, b)
      PROVE  Held
  <2>1. UNCHANGED chunkTx
    BY <1>7, CheckMeans, ApplyMeans DEF Begin, detachFutures, MergeStart, OpenTable, Commit, Lock
  <2> QED
    BY <2>1
<1>8. ASSUME UNCHANGED vars PROVE Held
  BY <1>8 DEF vars
<1> HIDE DEF Held
<1>9. Held
  BY <1>2, <1>3, <1>4, <1>5, <1>6, <1>7, <1>8 DEF Next
<1> QED
  BY <1>9 DEF Held

\* What is promised is held (Transaction::commitInParallel).
LEMMA PromisedAreHeld ==
  ASSUME TransactionTypes, \A u \in Trans : ChunksAreHeld(u), [Next]_vars,
         NEW t \in Trans, NEW f \in promised'[t] \ promised[t]
  PROVE  f[1] \in chunkTx[t]
<1> DEFINE Touched == f[1] \in chunkTx[t]
<1>1. ASSUME NEW u \in Trans, Check(u) PROVE Touched
  <2> DEFINE new == WithMerged(u, Mergeable(u))
             promises == IF u \in Parallel THEN {CommitFuture(u, c, new) : c \in chunkTx[u]} ELSE {}
  <2>1. UNCHANGED promised \/ promised' = [promised EXCEPT ![u] = promises]
    BY <1>1, CheckMeans
  <2>2. \A g \in promises : g[1] \in chunkTx[u]
    <3>1. \A c \in chunkTx[u] : CommitFuture(u, c, new)[1] = c
      BY Zenon DEF CommitFuture
    <3> HIDE DEF new
    <3> QED
      BY <3>1
  <2> HIDE DEF promises
  <2>3. t = u /\ f \in promises
    BY <2>1 DEF TransactionTypes
  <2> QED
    BY <2>2, <2>3
<1>2. ASSUME NEW u \in Trans,
             \/ Preliminary(u) \/ detachFutures(u) \/ CommitStart(u) \/ Apply(u) \/ MergeChunk(u)
             \/ \E w \in Trans : BeginOnFuture(u, w)
             \/ \E i \in Items : getById(u, i) \/ Insert(u, i) \/ Update(u, i) \/ Remove(u, i)
      PROVE  Touched
  <2>1. UNCHANGED promised
    BY <1>2, PreliminaryMeans DEF detachFutures, CommitStart, Apply, MergeChunk, BeginOnFuture,
       getById, Insert, Update, Remove, Op, futureVars
  <2> QED
    BY <2>1
<1>3. ASSUME UNCHANGED vars PROVE Touched
  BY <1>3 DEF vars, futureVars
<1> HIDE DEF Touched
<1>4. Touched
  BY <1>1, <1>2, <1>3 DEF Next, Commit, Preliminary
<1> QED
  BY <1>4 DEF Touched

\* A transaction only begins once, and has the time of its process then.
LEMMA BeginsOnce ==
  ASSUME TransactionTypes, [Next]_vars, NEW t \in Trans
  PROVE  /\ pc[t] # "idle" => pc'[t] # "idle" /\ beginTime'[t] = beginTime[t]
         /\ beginTime'[t] = beginTime[t] \/ beginTime'[t] = clock'[Host[t]]
         /\ pc'[t] = "merging" =>
              \/ pc[t] = "merging" /\ mergeLeft'[t][1] = mergeLeft[t][1]
              \/ mergeLeft'[t][1] \in Trans /\ Host[mergeLeft'[t][1]] = Host[t]
<1> DEFINE Once ==
      /\ pc[t] # "idle" => pc'[t] # "idle" /\ beginTime'[t] = beginTime[t]
      /\ beginTime'[t] = beginTime[t] \/ beginTime'[t] = clock'[Host[t]]
      /\ pc'[t] = "merging" =>
           \/ pc[t] = "merging" /\ mergeLeft'[t][1] = mergeLeft[t][1]
           \/ mergeLeft'[t][1] \in Trans /\ Host[mergeLeft'[t][1]] = Host[t]
<1>1. /\ pc \in [Trans -> {"idle", "open", "locking", "applying", "failed", "merging", "merged", "done"}]
      /\ beginTime \in [Trans -> Nat]
      /\ mergeLeft \in [Trans -> (Trans \cup {NoTrans}) \X SUBSET Chunks]
  BY DEF TransactionTypes
<1>2. ASSUME NEW u \in Trans, Begin(u) \/ \E w \in Trans : BeginOnFuture(u, w) PROVE Once
  <2>1. /\ pc[u] = "idle" /\ pc' = [pc EXCEPT ![u] = "open"]
        /\ beginTime' = [beginTime EXCEPT ![u] = clock'[Host[u]]] /\ UNCHANGED mergeLeft
    BY <1>2 DEF Begin, BeginOnFuture, mergeVars
  <2> QED
    BY <1>1, <2>1
<1>3. ASSUME NEW u \in Trans, NEW m \in Trans, MergeStart(u, m) PROVE Once
  <2>1. /\ pc[u] = "failed" /\ pc[m] = "idle" /\ pc' = [pc EXCEPT ![u] = "merging", ![m] = "open"]
        /\ beginTime' = [beginTime EXCEPT ![m] = clock'[Host[u]]] /\ Host[m] = Host[u]
        /\ mergeLeft' = [mergeLeft EXCEPT ![u] = <<m, chunkTx[u]>>]
    BY <1>3 DEF MergeStart
  <2>2. CASE t = u
    BY <1>1, <2>1, <2>2
  <2>3. CASE t = m
    BY <1>1, <2>1, <2>3
  <2>4. CASE t \notin {u, m}
    BY <1>1, <2>1, <2>4
  <2> QED
    BY <2>2, <2>3, <2>4
<1>4. ASSUME NEW u \in Trans, MergeChunk(u) PROVE Once
  <2>1. PICK c : /\ mergeLeft' = [mergeLeft EXCEPT ![u][2] = @ \ {c}]
                 /\ pc' = [pc EXCEPT ![u] = IF mergeLeft[u][2] = {c} THEN "merged" ELSE @]
    BY <1>4, MergeChunkMeans
  <2>2. pc[u] = "merging" /\ UNCHANGED beginTime
    BY <1>4, MergeChunkMeans
  <2>3. mergeLeft'[t][1] = mergeLeft[t][1]
    BY <1>1, <2>1
  <2> QED
    BY <1>1, <2>1, <2>2, <2>3
<1>5. ASSUME NEW u \in Trans, CommitStart(u) \/ Check(u) \/ Apply(u) PROVE Once
  <2>1. \E place \in {"locking", "applying", "failed", "done", "open"} : pc' = [pc EXCEPT ![u] = place]
    BY <1>5, CheckMeans, ApplyMeans DEF CommitStart
  <2>2. UNCHANGED <<beginTime, mergeLeft>>
    BY <1>5, CheckMeans, ApplyMeans DEF CommitStart, mergeVars
  <2> QED
    BY <1>1, <2>1, <2>2
<1>6. ASSUME NEW u \in Trans,
             \/ detachFutures(u) \/ Lock(u)
             \/ \E b \in Tables : OpenTable(u, b)
             \/ \E i \in Items : getById(u, i) \/ Insert(u, i) \/ Update(u, i) \/ Remove(u, i)
             \/ \E i \in Items, c \in Chunks : Fetch(u, i, c)
      PROVE  Once
  <2>1. UNCHANGED <<pc, beginTime, mergeLeft>>
    BY <1>6 DEF detachFutures, Lock, OpenTable, getById, Insert, Update, Remove, Op, Fetch, mergeVars
  <2> QED
    BY <1>1, <2>1
<1>7. ASSUME UNCHANGED vars PROVE Once
  BY <1>1, <1>7 DEF vars, mergeVars
<1> HIDE DEF Once
<1>8. Once
  BY <1>2, <1>3, <1>4, <1>5, <1>6, <1>7 DEF Next, Commit
<1> QED
  BY <1>8 DEF Once

\* A process has the chunks of its transactions, of its promises and of its merges.
LEMMA ChunksAreHeldStep ==
  ASSUME TransactionTypes, TransactionTypes', RevisionsFit, RevisionsFit',
         \A u \in Trans : ChunksAreHeld(u), [Next]_vars, NEW t \in Trans
  PROVE  ChunksAreHeld(t)'
<1>1. /\ chunkTx[t] \subseteq Chunks /\ chunkTx'[t] \subseteq Chunks
      /\ \A f \in promised'[t] : f[1] \in Chunks
  BY DEF TransactionTypes, RevisionsFit, AreViews
<1>2. \A c \in Chunks : holders[c] \subseteq holders'[c]
  BY HoldersGrow
<1>3. \A c \in chunkTx'[t] : Host[t] \in holders'[c]
  BY <1>1, <1>2, TouchedAreHeld DEF ChunksAreHeld
<1>4. \A f \in promised'[t] : Host[t] \in holders'[f[1]]
  BY <1>1, <1>2, PromisedAreHeld DEF ChunksAreHeld
<1>5. pc'[t] = "merging" => mergeLeft'[t][1] \in Trans /\ Host[mergeLeft'[t][1]] = Host[t]
  BY BeginsOnce DEF ChunksAreHeld
<1> QED
  BY <1>3, <1>4, <1>5 DEF ChunksAreHeld

--------------------------------------------------------------------------------
(* What has been seen. *)

\* A commit that writes to what a transaction has seen has a later time.
LEMMA ViewStays ==
  ASSUME SnapshotInv, [Next]_vars, NEW t \in Trans, NEW c \in Chunks, seen[t][c] # {}
  PROVE  ChunkView(c, beginTime[t])' = ChunkView(c, beginTime[t])
<1> DEFINE time == beginTime[t]
<1>1. time \in Nat /\ beginTime'[t] = time
  BY BeginsOnce DEF SnapshotInv, SeenFits, TransactionTypes
<1>2. CASE data'[c] = data[c]
  BY <1>1, <1>2 DEF ChunkView
<1>3. ASSUME NEW u \in Trans, owner[c] = u, pc[u] = "applying", data'[c] = data[c] \cup Written(u, c)
      PROVE  ChunkView(c, beginTime[t])' = ChunkView(c, beginTime[t])
  <2>1. commitTime[u] \in Nat /\ time < commitTime[u]
    <3>1. u # NoTrans
      BY TransactionsAssumption
    <3> QED
      BY <1>3, <3>1 DEF SnapshotInv, SeenFits, TransactionTypes
  <2>2. \A r \in Written(u, c) : ~(r.updateTime <= time)
    <3>1. \A r \in Written(u, c) : r.updateTime = commitTime[u]
      BY WrittenFits DEF SnapshotInv
    <3> QED
      BY <1>1, <2>1, <3>1
  <2> HIDE DEF time
  <2>3. ChunkView(c, beginTime[t])' =
          {r \in data'[c] : /\ r.updateTime <= time
                            /\ ~r.removed
                            /\ ~\E s \in data'[c] : /\ s.id = r.id
                                                    /\ s.updateTime <= time
                                                    /\ s.updateTime > r.updateTime}
    BY <1>1 DEF ChunkView
  <2>4. ChunkView(c, beginTime[t]) =
          {r \in data[c] : /\ r.updateTime <= time
                           /\ ~r.removed
                           /\ ~\E s \in data[c] : /\ s.id = r.id
                                                  /\ s.updateTime <= time
                                                  /\ s.updateTime > r.updateTime}
    BY DEF ChunkView, time
  <2> QED
    BY <1>3, <2>2, <2>3, <2>4
<1> QED
  BY <1>2, <1>3, DataChanges DEF SnapshotInv

\* What is seen for the first time is what the chunk shows, and nobody is writing to it.
LEMMA FirstSeen ==
  ASSUME TransactionTypes, [Next]_vars, NEW t \in Trans, NEW c \in Chunks
  PROVE  \/ seen'[t][c] = seen[t][c]
         \/ /\ seen'[t][c] = {ChunkView(c, beginTime[t])} /\ pc[t] = "open"
            /\ Host[t] \in holders'[c] /\ (Readable(Host[t], c) \/ owner[c] = NoTrans)
            /\ UNCHANGED <<data, owner, granted, pc, beginTime, commitTime>>
<1> DEFINE Seen ==
      \/ seen'[t][c] = seen[t][c]
      \/ /\ seen'[t][c] = {ChunkView(c, beginTime[t])} /\ pc[t] = "open"
         /\ Host[t] \in holders'[c] /\ (Readable(Host[t], c) \/ owner[c] = NoTrans)
         /\ UNCHANGED <<data, owner, granted, pc, beginTime, commitTime>>
<1>1. seen = [u \in Trans |-> [d \in Chunks |-> seen[u][d]]] /\ holders \in [Chunks -> SUBSET Procs]
  BY DEF TransactionTypes
<1>2. ASSUME NEW u \in Trans, NEW b \in Tables, OpenTable(u, b) PROVE Seen
  <2> DEFINE mine == ChunksOfTable(Host[u], b)
  <2>1. /\ pc[u] = "open" /\ \A d \in mine : Readable(Host[u], d)
        /\ seen' = [seen EXCEPT ![u] = [d \in Chunks |->
             IF d \in mine THEN {ChunkView(d, beginTime[u])} ELSE @[d]]]
        /\ UNCHANGED <<shared, pc, beginTime, commitTime>>
    BY <1>2 DEF OpenTable
  <2> HIDE DEF mine
  <2>2. CASE t = u /\ c \in mine
    BY <1>1, <2>1, <2>2 DEF shared, Readable
  <2>3. CASE ~(t = u /\ c \in mine)
    BY <1>1, <2>1, <2>3
  <2> QED
    BY <2>2, <2>3
<1>3. ASSUME NEW u \in Trans, NEW i \in Items, NEW d \in Chunks, Fetch(u, i, d) PROVE Seen
  <2>1. /\ pc[u] = "open" /\ owner[d] = NoTrans
        /\ holders' = [holders EXCEPT ![d] = @ \cup {Host[u]}]
        /\ \/ seen' = [seen EXCEPT ![u][d] = {ChunkView(d, beginTime[u])}]
           \/ seen' = [seen EXCEPT ![u][d] = @]
        /\ UNCHANGED <<data, owner, granted, pc, beginTime, commitTime>>
    BY <1>3, FetchMeans
  <2>2. CASE t = u /\ c = d
    BY <1>1, <2>1, <2>2
  <2>3. CASE ~(t = u /\ c = d)
    BY <1>1, <2>1, <2>3
  <2> QED
    BY <2>2, <2>3
<1>4. ASSUME NEW u \in Trans,
             \/ Begin(u) \/ detachFutures(u) \/ CommitStart(u) \/ Commit(u) \/ MergeChunk(u)
             \/ \E w \in Trans : BeginOnFuture(u, w) \/ MergeStart(u, w)
             \/ \E i \in Items : getById(u, i) \/ Insert(u, i) \/ Update(u, i) \/ Remove(u, i)
      PROVE  Seen
  <2>1. UNCHANGED seen
    BY <1>4, CheckMeans, ApplyMeans DEF Begin, detachFutures, CommitStart, Commit, Lock, MergeChunk,
       BeginOnFuture, MergeStart, getById, Insert, Update, Remove, Op
  <2> QED
    BY <2>1
<1>5. ASSUME UNCHANGED vars PROVE Seen
  BY <1>5 DEF vars
<1> HIDE DEF Seen
<1>6. Seen
  BY <1>2, <1>3, <1>4, <1>5 DEF Next
<1> QED
  BY <1>6 DEF Seen

\* The lock of a chunk stays with whom it is, is granted by one more process, is used for a
\* commit, or is given back.
LockStays(c) ==
  /\ owner'[c] = owner[c] /\ granted'[c] = granted[c]
  /\ owner[c] # NoTrans => pc'[owner[c]] = pc[owner[c]] /\ commitTime'[owner[c]] = commitTime[owner[c]]
LockGrows(c) ==
  /\ owner'[c] \in Trans /\ owner[c] \in {NoTrans, owner'[c]} /\ pc'[owner'[c]] = "locking"
  /\ \E q \in Procs : granted'[c] = granted[c] \cup {q} /\ clock[q] <= clock'[Host[owner'[c]]]
LockIsUsed(c) ==
  /\ owner'[c] = owner[c] /\ owner[c] \in Trans /\ granted[c] = holders[c] /\ granted'[c] = granted[c]
  /\ commitTime'[owner[c]] = clock[Host[owner[c]]] + 1

\* What a step can do to the lock of one chunk.
LEMMA OwnerSteps ==
  ASSUME SnapshotInv, [Next]_vars, NEW c \in Chunks
  PROVE  owner'[c] = NoTrans \/ LockStays(c) \/ LockGrows(c) \/ LockIsUsed(c)
<1> DEFINE Steps == owner'[c] = NoTrans \/ LockStays(c) \/ LockGrows(c) \/ LockIsUsed(c)
<1>1. /\ TransactionTypes /\ LockFits(c) /\ \A d \in Chunks : LockFits(d)
      /\ \A u \in Trans : ChunksAreHeld(u)
  BY DEF SnapshotInv
<1>2. /\ owner[c] # NoTrans => owner[c] \in Trans
      /\ owner \in [Chunks -> Trans \cup {NoTrans}] /\ granted \in [Chunks -> SUBSET Procs]
      /\ holders \in [Chunks -> SUBSET Procs] /\ clock \in [Procs -> Nat]
      /\ pc \in [Trans -> {"idle", "open", "locking", "applying", "failed", "merging", "merged", "done"}]
      /\ commitTime \in [Trans -> Nat] /\ \A u \in Trans : Host[u] \in Procs
  BY <1>1, TransactionsAssumption DEF TransactionTypes
<1>3. ASSUME NEW t \in Trans,
             \/ Begin(t) \/ detachFutures(t) \/ CommitStart(t) \/ MergeChunk(t)
             \/ \E u \in Trans : BeginOnFuture(t, u) \/ MergeStart(t, u)
             \/ \E b \in Tables : OpenTable(t, b)
             \/ \E i \in Items : getById(t, i) \/ Insert(t, i) \/ Update(t, i) \/ Remove(t, i)
      PROVE  Steps
  <2>1. UNCHANGED <<holders, owner, granted>> /\ \A u \in Trans : QuietFor(u)
    BY <1>1, <1>3, ClientsAreQuiet
  <2>2. UNCHANGED commitTime
    BY <1>3 DEF Begin, detachFutures, CommitStart, MergeChunk, BeginOnFuture, MergeStart, OpenTable,
       getById, Insert, Update, Remove, Op
  <2> QED
    BY <1>1, <1>2, <2>1, <2>2 DEF LockFits, LockStays, QuietFor
<1>4. ASSUME NEW t \in Trans, NEW i \in Items, NEW d \in Chunks, Fetch(t, i, d) PROVE Steps
  BY <1>4, FetchMeans DEF LockStays
<1>5. ASSUME NEW t \in Trans, Lock(t) PROVE Steps
  <2>1. PICK d \in chunkTx[t] : \E q \in holders[d] \ granted[d] :
          /\ owner[d] \in {NoTrans, t} /\ owner' = [owner EXCEPT ![d] = t]
          /\ granted' = [granted EXCEPT ![d] = @ \cup {q}] /\ clock' = GrantTime(t, q)
    BY <1>1, <1>5, LockMeans
  <2>2. PICK q \in holders[d] \ granted[d] :
          granted' = [granted EXCEPT ![d] = @ \cup {q}] /\ clock' = GrantTime(t, q)
    BY <2>1
  <2>3. pc[t] = "locking" /\ UNCHANGED <<pc, commitTime>>
    BY <1>5 DEF Lock
  <2>4. d \in Chunks
    BY <1>1 DEF TransactionTypes
  <2>5. CASE c # d
    BY <1>2, <2>1, <2>2, <2>3, <2>4, <2>5 DEF LockStays
  <2>6. CASE c = d
    <3>1. q \in Procs
      BY <1>2, <2>4
    <3>2. clock[q] <= clock'[Host[t]]
      <4> DEFINE latest == Max2(clock[q], clock[Host[t]])
      <4>1. clock[q] <= latest
        BY <1>2, <3>1 DEF Max2
      <4>2. clock' = [clock EXCEPT ![q] = latest, ![Host[t]] = latest]
        BY <2>2 DEF GrantTime
      <4> HIDE DEF latest
      <4>3. clock'[Host[t]] = latest
        BY <1>2, <4>2
      <4> QED
        BY <4>1, <4>3
    <3>3. owner'[c] = t /\ granted'[c] = granted[c] \cup {q}
      BY <1>2, <2>1, <2>2, <2>6
    <3> QED
      BY <2>1, <2>3, <2>6, <3>1, <3>2, <3>3 DEF LockGrows
  <2> QED
    BY <2>5, <2>6
<1>6. ASSUME NEW t \in Trans, Check(t) PROVE Steps
  <2>1. pc[t] = "locking" /\ Unlocked(t) = {}
    BY <1>6, CheckMeans
  <2>2. owner[c] = t => c \in chunkTx[t] /\ granted[c] = holders[c]
    BY <1>1, <2>1, TransactionsAssumption DEF LockFits, Unlocked
  <2>3. CASE /\ pc' = [pc EXCEPT ![t] = "applying"] /\ UNCHANGED <<owner, granted>>
             /\ Sample(Host[t]) /\ commitTime' = [commitTime EXCEPT ![t] = clock'[Host[t]]]
    <3>1. clock'[Host[t]] = clock[Host[t]] + 1
      BY <1>2, <2>3 DEF Sample
    <3>2. CASE owner[c] = t
      BY <1>2, <2>2, <2>3, <3>1, <3>2 DEF LockIsUsed
    <3>3. CASE owner[c] # t
      BY <1>2, <2>3, <3>3 DEF LockStays
    <3> QED
      BY <3>2, <3>3
  <2>4. CASE /\ pc' = [pc EXCEPT ![t] = "failed"] /\ UNCHANGED commitTime
             /\ owner' = [d \in Chunks |-> IF d \in chunkTx[t] THEN NoTrans ELSE owner[d]]
             /\ granted' = [d \in Chunks |-> IF d \in chunkTx[t] THEN {} ELSE granted[d]]
    <3>1. CASE c \in chunkTx[t]
      BY <2>4, <3>1
    <3>2. CASE c \notin chunkTx[t]
      BY <1>2, <2>2, <2>4, <3>2 DEF LockStays
    <3> QED
      BY <3>1, <3>2
  <2> QED
    BY <1>6, <2>3, <2>4, CheckMeans
<1>7. ASSUME NEW t \in Trans, Apply(t) PROVE Steps
  <2>1. PICK now \in SUBSET Locked(t) :
          /\ owner' = [d \in Chunks |-> IF d \in now THEN NoTrans ELSE owner[d]]
          /\ granted' = [d \in Chunks |-> IF d \in now THEN {} ELSE granted[d]]
          /\ \/ pc' = [pc EXCEPT ![t] = "applying"]
             \/ Locked(t) \ now = {} /\ \E place : pc' = [pc EXCEPT ![t] = place]
    BY <1>7, ApplyMeans
  <2>2. pc[t] = "applying" /\ UNCHANGED commitTime
    BY <1>7, ApplyMeans
  <2>3. CASE c \in now
    BY <2>1, <2>3
  <2>4. CASE c \notin now
    <3>1. owner'[c] = owner[c] /\ granted'[c] = granted[c]
      BY <2>1, <2>4
    <3>2. owner[c] = t => pc'[t] = "applying"
      BY <1>2, <2>1, <2>4 DEF Locked
    <3>3. \A u \in Trans : u # t => pc'[u] = pc[u]
      BY <1>2, <2>1
    <3> QED
      BY <1>2, <2>2, <3>1, <3>2, <3>3 DEF LockStays
  <2> QED
    BY <2>3, <2>4
<1>8. ASSUME UNCHANGED vars PROVE Steps
  BY <1>8 DEF vars, shared, LockStays
<1> HIDE DEF Steps
<1>9. Steps
  BY <1>3, <1>4, <1>5, <1>6, <1>7, <1>8 DEF Next, Commit
<1> QED
  BY <1>9 DEF Steps

\* What a transaction has seen of a chunk, no step changes: the clock of who commits has gone past
\* the time the reader began (LogicalTime::synchronize, Transaction::commitImpl).
LEMMA SeenFitsStep ==
  ASSUME SnapshotInv, TransactionTypes', [Next]_vars, NEW t \in Trans, NEW c \in Chunks
  PROVE  SeenFits(t, c)'
<1>1. SUFFICES ASSUME seen'[t][c] # {} PROVE SeenFits(t, c)'
  BY DEF SeenFits
<1>2. /\ TransactionTypes /\ LockFits(c) /\ SeenFits(t, c) /\ beginTime[t] <= clock[Host[t]]
      /\ \A d \in Chunks : LockFits(d)
      /\ \A u \in Trans : ChunksAreHeld(u)
  BY DEF SnapshotInv
<1>3. /\ beginTime[t] \in Nat /\ Host[t] \in Procs /\ NoTrans \notin Trans
      /\ owner[c] \in Trans \cup {NoTrans} /\ owner'[c] \in Trans \cup {NoTrans}
      /\ holders[c] \subseteq Procs
      /\ \A u \in Trans : Host[u] \in Procs /\ commitTime[u] \in Nat
      /\ \A p \in Procs : clock[p] \in Nat
  BY <1>2, TransactionsAssumption DEF TransactionTypes
<1>4. \A p \in Procs : clock'[p] \in Nat /\ clock[p] <= clock'[p]
  BY <1>2, ClocksAdvance
<1>5. CASE seen'[t][c] = seen[t][c]
  <2>1. seen[t][c] # {}
    BY <1>1, <1>5
  <2>2. /\ pc[t] # "idle" /\ Host[t] \in holders[c] /\ seen[t][c] = {ChunkView(c, beginTime[t])}
        /\ owner[c] # NoTrans =>
             /\ Host[t] \in granted[c] => beginTime[t] <= clock[Host[owner[c]]]
             /\ pc[owner[c]] = "applying" => beginTime[t] < commitTime[owner[c]]
    BY <1>2, <2>1 DEF SeenFits
  <2>3. pc'[t] # "idle" /\ beginTime'[t] = beginTime[t]
    BY <1>2, <2>2, BeginsOnce
  <2>4. Host[t] \in holders'[c]
    BY <1>2, <2>2, HoldersGrow
  <2>5. seen'[t][c] = {ChunkView(c, beginTime[t])}'
    BY <1>5, <2>1, <2>2, ViewStays
  <2>6. owner'[c] # NoTrans =>
          /\ Host[t] \in granted'[c] => beginTime[t] <= clock'[Host[owner'[c]]]
          /\ pc'[owner'[c]] = "applying" => beginTime[t] < commitTime'[owner'[c]]
    <3>1. CASE LockStays(c)
      BY <1>3, <1>4, <2>2, <3>1 DEF LockStays
    <3>2. CASE LockGrows(c)
      <4> DEFINE u == owner'[c]
      <4>1. u \in Trans /\ owner[c] \in {NoTrans, u} /\ pc'[u] = "locking"
        BY <3>2 DEF LockGrows
      <4>2. PICK q \in Procs : granted'[c] = granted[c] \cup {q} /\ clock[q] <= clock'[Host[u]]
        BY <3>2 DEF LockGrows
      <4> HIDE DEF u
      <4>3. CASE Host[t] \in granted[c]
        <5>1. owner[c] = u
          BY <1>2, <4>1, <4>3 DEF LockFits
        <5>2. beginTime[t] <= clock[Host[u]]
          BY <1>3, <2>2, <4>1, <4>3, <5>1
        <5>3. Host[u] \in Procs
          BY <1>3, <4>1
        <5>4. beginTime[t] <= clock'[Host[u]]
          BY <1>3, <1>4, <5>2, <5>3
        <5> QED
          BY <4>1, <5>4 DEF u
      <4>4. CASE Host[t] = q
        <5>1. beginTime[t] <= clock[q] /\ clock[q] \in Nat
          BY <1>2, <1>3, <4>4
        <5>2. clock'[Host[u]] \in Nat
          BY <1>3, <1>4, <4>1
        <5>3. beginTime[t] <= clock'[Host[u]]
          BY <1>3, <4>2, <5>1, <5>2
        <5> QED
          BY <4>1, <5>3 DEF u
      <4> QED
        BY <4>1, <4>2, <4>3, <4>4 DEF u
    <3>3. CASE LockIsUsed(c)
      <4> DEFINE u == owner[c]
      <4>1. /\ u \in Trans /\ owner'[c] = u /\ granted[c] = holders[c] /\ granted'[c] = granted[c]
            /\ commitTime'[u] = clock[Host[u]] + 1
        BY <3>3 DEF LockIsUsed
      <4>2. beginTime[t] <= clock[Host[u]]
        BY <1>3, <2>2, <4>1
      <4> HIDE DEF u
      <4>3. clock[Host[u]] \in Nat /\ clock'[Host[u]] \in Nat /\ clock[Host[u]] <= clock'[Host[u]]
        BY <1>3, <1>4, <4>1
      <4> QED
        BY <1>3, <4>1, <4>2, <4>3
    <3> QED
      BY <3>1, <3>2, <3>3, OwnerSteps
  <2> QED
    BY <2>3, <2>4, <2>5, <2>6 DEF SeenFits
<1>6. CASE /\ seen'[t][c] = {ChunkView(c, beginTime[t])} /\ pc[t] = "open"
           /\ Host[t] \in holders'[c] /\ (Readable(Host[t], c) \/ owner[c] = NoTrans)
           /\ UNCHANGED <<data, owner, granted, pc, beginTime, commitTime>>
  <2>1. ChunkView(c, beginTime[t])' = ChunkView(c, beginTime[t])
    BY <1>6 DEF ChunkView
  <2>2. owner[c] # NoTrans => Host[t] \notin granted[c] /\ pc[owner[c]] # "applying"
    BY <1>2, <1>6 DEF LockFits, Readable
  <2> QED
    BY <1>6, <2>1, <2>2 DEF SeenFits
<1> QED
  BY <1>2, <1>5, <1>6, FirstSeen

--------------------------------------------------------------------------------
(* Theorems. *)

\* Nothing is seen, locked or changed at first.
LEMMA SnapshotInit == Init => SnapshotInv
<1> SUFFICES ASSUME Init PROVE SnapshotInv
  OBVIOUS
<1>1. TransactionTypes
  <2>1. /\ holders \in [Chunks -> SUBSET Procs] /\ clock \in [Procs -> Nat]
    BY TransactionsAssumption DEF Init
  <2>2. /\ granted \in [Chunks -> SUBSET Procs] /\ owner \in [Chunks -> Trans \cup {NoTrans}]
        /\ beginTime \in [Trans -> Nat] /\ commitTime \in [Trans -> Nat]
        /\ pc \in [Trans -> {"idle", "open", "locking", "applying", "failed", "merging", "merged", "done"}]
        /\ chunkTx \in [Trans -> SUBSET Chunks]
        /\ mergeLeft \in [Trans -> (Trans \cup {NoTrans}) \X SUBSET Chunks]
    BY DEF Init
  <2>3. /\ data = [c \in Chunks |-> data[c]]
        /\ inserts = [t \in Trans |-> inserts[t]] /\ updates = [t \in Trans |-> updates[t]]
        /\ removes = [t \in Trans |-> removes[t]]
        /\ future = [t \in Trans |-> future[t]] /\ promised = [t \in Trans |-> promised[t]]
    BY DEF Init
  <2>4. seen = [t \in Trans |-> [c \in Chunks |-> seen[t][c]]]
    BY DEF Init
  <2> QED
    BY <2>1, <2>2, <2>3, <2>4 DEF TransactionTypes
<1>2. RevisionsFit
  <2>1. ASSUME NEW c \in Chunks PROVE AreRevisions(data[c])
    <3>1. data[c] = {NewRevision(i, 1) : i \in {j \in Stored : HomeOf[j] = c}}
      BY DEF Init
    <3>2. \A i \in Stored : IsRevision(NewRevision(i, 1))
      BY NewRevisionFits, TransactionsAssumption
    <3> QED
      BY <3>1, <3>2 DEF AreRevisions
  <2>2. ASSUME NEW t \in Trans PROVE Changes(t) = {} /\ future[t] = {} /\ promised[t] = {}
    BY DEF Init, Changes
  <2> QED
    BY <2>1, <2>2 DEF RevisionsFit, AreChanges, AreRevisions, AreViews, IdsOf
<1>3. \A c \in Chunks : LockFits(c)
  BY DEF Init, LockFits
<1>4. \A t \in Trans : beginTime[t] <= clock[Host[t]] /\ ChunksAreHeld(t)
  <2>1. \A t \in Trans : clock[Host[t]] \in Nat
    <3>1. \A t \in Trans : Host[t] \in Procs
      BY TransactionsAssumption
    <3> QED
      BY <1>1, <3>1 DEF TransactionTypes
  <2> QED
    BY <2>1 DEF Init, ChunksAreHeld
<1>5. \A t \in Trans, c \in Chunks : SeenFits(t, c)
  BY DEF Init, SeenFits
<1> QED
  BY <1>1, <1>2, <1>3, <1>4, <1>5 DEF SnapshotInv

\* SnapshotInv is inductive.
LEMMA SnapshotStep ==
  ASSUME PoliciesKeepRevisions, SnapshotInv, [Next]_vars
  PROVE  SnapshotInv'
<1>1. /\ TransactionTypes /\ RevisionsFit /\ \A c \in Chunks : LockFits(c)
      /\ \A t \in Trans : ChunksAreHeld(t)
  BY DEF SnapshotInv
<1>2. TransactionTypes' /\ RevisionsFit'
  BY <1>1, TransactionTypesStep, RevisionsFitStep
<1>3. ASSUME NEW t \in Trans PROVE (beginTime[t] <= clock[Host[t]])'
  <2>1. /\ beginTime[t] <= clock[Host[t]] /\ beginTime[t] \in Nat /\ Host[t] \in Procs
        /\ clock[Host[t]] \in Nat /\ clock'[Host[t]] \in Nat
    BY <1>1, <1>2, TransactionsAssumption DEF SnapshotInv, TransactionTypes
  <2>2. clock[Host[t]] <= clock'[Host[t]]
    BY <1>1, <2>1, ClocksAdvance
  <2>3. beginTime'[t] = beginTime[t] \/ beginTime'[t] = clock'[Host[t]]
    BY <1>1, BeginsOnce
  <2> QED
    BY <2>1, <2>2, <2>3
<1>4. \A c \in Chunks : LockFits(c)'
  BY <1>1, LockFitsStep
<1>5. \A t \in Trans : ChunksAreHeld(t)'
  BY <1>1, <1>2, ChunksAreHeldStep
<1>6. \A t \in Trans, c \in Chunks : SeenFits(t, c)'
  BY <1>2, SeenFitsStep
<1> QED
  BY <1>2, <1>3, <1>4, <1>5, <1>6 DEF SnapshotInv

\* Locks, clocks and commits keep to each other, however many processes, transactions, chunks
\* and tables there are.
THEOREM SnapshotInvariant ==
  ASSUME PoliciesKeepRevisions
  PROVE  Spec => []SnapshotInv
<1>1. SnapshotInv /\ [Next]_vars => SnapshotInv'
  BY SnapshotStep
<1> QED
  BY <1>1, SnapshotInit, PTL DEF Spec

\* What a transaction read when it first came to a chunk is what it reads for ever.
THEOREM ReadsAreRepeatable ==
  ASSUME PoliciesKeepRevisions
  PROVE  Spec => []RepeatableReads
<1>1. SnapshotInv => RepeatableReads
  BY DEF SnapshotInv, SeenFits, RepeatableReads
<1> QED
  BY <1>1, SnapshotInvariant, PTL

================================================================================
