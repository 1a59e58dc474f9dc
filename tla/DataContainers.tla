----------------------------- MODULE DataContainers ----------------------------
(***************************************************************************)
(* The two containers a chunk may keep its items in, given the same calls: *)
(* one holds the revisions in memory                                       *)
(* (map-api/src/legacy-chunk-data-ram-container.cc), the other writes them *)
(* to a pool of blocks in external memory and keeps an address and what is *)
(* asked for most (map-api/src/legacy-chunk-data-stxxl-container.cc).  The *)
(* history of an item is newest first in both.                             *)
(*                                                                         *)
(* Besides its own calls a container is given patches: the revisions of    *)
(* another replica, one by one and in any order, as when a peer joins.     *)
(***************************************************************************)
EXTENDS Revisions, MemoryPool, FiniteSets, SequencesExt

CONSTANTS Ids,         \* ids of items
          Chunks,      \* ids of chunks
          Values,      \* values of the field of an item
          FieldType,   \* its C++ type
          SizeOf(_),   \* the bytes of a serialized revision
          MaxTime,     \* bound on the clock
          MaxStored    \* bound on the revisions of all items

ASSUME SizesAssumption == \A v \in Values : SizeOf(v) \in Nat \ {0}

VARIABLES ram,      \* data_ of LegacyChunkDataRamContainer: id -> history
          stxxl,    \* data_ of LegacyChunkDataStxxlContainer: id -> history of addresses
          pool,     \* its revision_store_
          clock,    \* LogicalTime
          foreign,  \* revisions of the other replica that are still to be patched in
          written   \* every revision since the last clear(): for the properties only

vars == <<ram, stxxl, pool, clock, foreign, written>>

Times == 1..MaxTime

Revision(id, chunk, inserted, updated, removed, v) ==
  [Template(<<FieldType>>) EXCEPT
     !.id = id, !.chunk = chunk, !.insertTime = inserted, !.updateTime = updated,
     !.removed = removed, !.fields[1] = SetField(@, FieldType, v)]

Value(r) == GetField(r.fields[1], FieldType)

--------------------------------------------------------------------------------
(* LegacyChunkDataRamContainer: data is a function from ids to histories,   *)
(* the empty one standing for an id that is not there.                      *)

Has(data, id) == data[id] # <<>>

NothingHas(data, ids) == \A id \in ids : ~Has(data, id)

RamInsert(data, r) == [data EXCEPT ![r.id] = <<r>>]

RamBulkInsert(data, rs) ==
  [id \in Ids |-> IF \E r \in rs : r.id = id THEN <<CHOOSE r \in rs : r.id = id>> ELSE data[id]]

\* mutant: the newest revision is the one patched last
PatchAt_Front(history, time) == 1
\* Where a revision of this time goes in a history
PatchAt(history, time) ==
  LET older == {k \in DOMAIN history : history[k].updateTime <= time}
  IN  IF older = {} THEN Len(history) + 1 ELSE CHOOSE k \in older : \A j \in older : k <= j

\* The CHECK_NE of patchImpl
PatchCheck(history, time) == \A k \in DOMAIN history : history[k].updateTime # time

RamPatch(data, r) ==
  [data EXCEPT ![r.id] = InsertAt(@, PatchAt(@, r.updateTime), r)]

\* History::latestAt: an item that was removed by then is not found.
RamLatestAt(history, time) ==
  LET older == {k \in DOMAIN history : history[k].updateTime <= time}
      latest == CHOOSE k \in older : \A j \in older : k <= j
  IN  IF older = {} THEN {} ELSE IF history[latest].removed THEN {} ELSE {history[latest]}

RamGetById(data, id, time) == RamLatestAt(data[id], time)

\* forEachItemFoundAtTime: key 0 stands for -1, no filter.
RamFind(data, key, holder, time) ==
  {r \in UNION {RamLatestAt(data[id], time) : id \in Ids} : key = 0 \/ fieldMatch(holder, r, key)}

RamCount(data, key, holder, time) ==
  Cardinality({id \in Ids : \E r \in RamLatestAt(data[id], time) :
                               key = 0 \/ fieldMatch(holder, r, key)})

RamAvailableIds(data, time) == {id \in Ids : RamLatestAt(data[id], time) # {}}

RamTrimToTime(history, time) == SelectSeq(history, LAMBDA r : r.updateTime <= time)

\* The newest revision decides whether a history is wanted.
RamFindHistory(data, key, holder, time) ==
  [id \in {i \in Ids : Has(data, i) /\ (key = 0 \/ fieldMatch(holder, data[i][1], key))}
     |-> RamTrimToTime(data[id], time)]

RamChunkHistory(data, chunk, time) ==
  [id \in {i \in Ids : Has(data, i) /\ data[i][1].chunk = chunk}
     |-> RamTrimToTime(data[id], time)]

RamItemHistory(data, id, time) == RamTrimToTime(data[id], time)

--------------------------------------------------------------------------------
(* STXXLRevisionStore and LegacyChunkDataStxxlContainer                     *)

Serialized(r) == [i \in 1..SizeOf(Value(r)) |-> <<"data", r, i>>]

\* The revision of a message, and whether every byte of it is there
Parsed(bytes) == bytes[1][2]
IsWhole(bytes) == bytes # <<>> /\ bytes[1][1] = "data" /\ bytes = Serialized(bytes[1][2])

\* CRURevisionInformation::SetFromRevision and storeRevision
Information(r, address) ==
  [address |-> address, insertTime |-> r.insertTime, chunk |-> r.chunk,
   updateTime |-> r.updateTime, removed |-> r.removed]

storeRevision(p, r) ==
  LET stored == WriteMessage(p, Serialized(r))
  IN  [pool |-> stored.pool, info |-> Information(r, stored.address)]

retrieveRevision(p, info) == Parsed(ReadMessage(p, info.address))

StxxlInsert(data, p, r) ==
  LET stored == storeRevision(p, r)
  IN  [data |-> [data EXCEPT ![r.id] = <<stored.info>>], pool |-> stored.pool]

\* One after the other, in an order the code leaves open
StxxlBulkInsert(data, p, rs) ==
  FoldLeft(LAMBDA state, r : StxxlInsert(state.data, state.pool, r),
           [data |-> data, pool |-> p], rs)

StxxlPatch(data, p, r) ==
  LET stored == storeRevision(p, r)
  IN  [data |-> [data EXCEPT
                   ![r.id] = InsertAt(@, PatchAt(@, r.updateTime), stored.info)],
       pool |-> stored.pool]

\* STXXLHistory::latestAt: finds a removed item too.
StxxlLatestAt(history, time) ==
  LET older == {k \in DOMAIN history : history[k].updateTime <= time}
  IN  IF older = {} THEN {} ELSE {history[CHOOSE k \in older : \A j \in older : k <= j]}

StxxlGetById(data, p, id, time) ==
  {retrieveRevision(p, info) : info \in StxxlLatestAt(data[id], time)}

\* mutant: shows items that were removed
StxxlFind_Removed(data, p, key, holder, time) ==
  {r \in UNION {StxxlGetById(data, p, id, time) : id \in Ids} :
     key = 0 \/ fieldMatch(holder, r, key)}
StxxlFind(data, p, key, holder, time) ==
  {r \in UNION {StxxlGetById(data, p, id, time) : id \in Ids} :
     (key = 0 \/ fieldMatch(holder, r, key)) /\ ~r.removed}

StxxlCount(data, p, key, holder, time) ==
  Cardinality({id \in Ids : \E r \in StxxlGetById(data, p, id, time) :
                 (key = 0 \/ fieldMatch(holder, r, key)) /\ ~r.removed})

StxxlAvailableIds(data, time) ==
  {id \in Ids : \E info \in StxxlLatestAt(data[id], time) : ~info.removed}

StxxlHistory(data, p, id) == [k \in DOMAIN data[id] |-> retrieveRevision(p, data[id][k])]

StxxlFindHistory(data, p, key, holder, time) ==
  [id \in {i \in Ids : /\ Has(data, i)
                       /\ \/ key = 0
                          \/ fieldMatch(holder, retrieveRevision(p, data[i][1]), key)}
     |-> RamTrimToTime(StxxlHistory(data, p, id), time)]

StxxlChunkHistory(data, p, chunk, time) ==
  [id \in {i \in Ids : Has(data, i) /\ data[i][1].chunk = chunk}
     |-> RamTrimToTime(StxxlHistory(data, p, id), time)]

StxxlItemHistory(data, p, id, time) ==
  SelectSeq(StxxlHistory(data, p, id), LAMBDA r : r.updateTime <= time)

--------------------------------------------------------------------------------
(* The calls.  Every write is made at a newly sampled time.                 *)

Init ==
  /\ ram = [id \in Ids |-> <<>>]
  /\ stxxl = [id \in Ids |-> <<>>]
  /\ pool = EmptyPool
  /\ clock = 0
  /\ foreign = {}
  /\ written = {}

Sample ==
  /\ clock < MaxTime
  /\ clock' = clock + 1

Room(n) == Cardinality(written \cup foreign) + n <= MaxStored

\* insertUpdatedImpl is patchImpl in both containers.
StorePatch(r) ==
  /\ PatchCheck(ram[r.id], r.updateTime)
  /\ ram' = RamPatch(ram, r)
  /\ stxxl' = StxxlPatch(stxxl, pool, r).data
  /\ pool' = StxxlPatch(stxxl, pool, r).pool
  /\ written' = written \cup {r}

\* An id the container has is refused.
insert(id, chunk, v) ==
  /\ Sample
  /\ Room(1)
  /\ IF Has(ram, id) THEN UNCHANGED <<ram, stxxl, pool, written>>
     ELSE LET r == Revision(id, chunk, clock', clock', FALSE, v)
          IN  /\ ram' = RamInsert(ram, r)
              /\ stxxl' = StxxlInsert(stxxl, pool, r).data
              /\ pool' = StxxlInsert(stxxl, pool, r).pool
              /\ written' = written \cup {r}
  /\ UNCHANGED foreign

\* values is a function from the ids to insert to their values; if one is there, none is.
bulkInsert(values, chunk) ==
  /\ Sample
  /\ Room(Cardinality(DOMAIN values))
  /\ IF NothingHas(ram, DOMAIN values)
     THEN LET rs == {Revision(id, chunk, clock', clock', FALSE, values[id]) : id \in DOMAIN values}
              stored == StxxlBulkInsert(stxxl, pool, SetToSeq(rs))
          IN  /\ ram' = RamBulkInsert(ram, rs)
              /\ stxxl' = stored.data
              /\ pool' = stored.pool
              /\ written' = written \cup rs
     ELSE UNCHANGED <<ram, stxxl, pool, written>>
  /\ UNCHANGED foreign

\* The client changes a copy of what it has read; the update time is set anew.
update(id, v) ==
  /\ Sample
  /\ Room(1)
  /\ \E r \in RamGetById(ram, id, clock) :
        StorePatch([r EXCEPT !.updateTime = clock', !.fields[1] = SetField(@, FieldType, v)])
  /\ UNCHANGED foreign

remove(id) ==
  /\ Sample
  /\ Room(1)
  /\ \E r \in RamGetById(ram, id, clock) :
        StorePatch([r EXCEPT !.updateTime = clock', !.removed = TRUE])
  /\ UNCHANGED foreign

\* The other replica has an item of its own: inserted, changed, and perhaps removed.
ForeignItem(id, chunk, v, w, removed) ==
  /\ foreign = {}
  /\ ~Has(ram, id)
  /\ Room(2)
  /\ clock + 2 <= MaxTime
  /\ clock' = clock + 2
  /\ foreign' = {Revision(id, chunk, clock + 1, clock + 1, FALSE, v),
                 Revision(id, chunk, clock + 1, clock + 2, removed, w)}
  /\ UNCHANGED <<ram, stxxl, pool, written>>

patch(r) ==
  /\ r \in foreign
  /\ StorePatch(r)
  /\ foreign' = foreign \ {r}
  /\ UNCHANGED clock

clear ==
  /\ written # {}
  /\ foreign = {}
  /\ ram' = [id \in Ids |-> <<>>]
  /\ stxxl' = [id \in Ids |-> <<>>]
  /\ pool' = EmptyPool
  /\ written' = {}
  /\ UNCHANGED <<clock, foreign>>

Stop == clock = MaxTime /\ UNCHANGED vars

Next ==
  \/ \E id \in Ids, chunk \in Chunks, v \in Values : insert(id, chunk, v)
  \/ \E ids \in {s \in SUBSET Ids : Cardinality(s) > 1}, chunk \in Chunks :
        \E values \in [ids -> Values] : bulkInsert(values, chunk)
  \/ \E id \in Ids, v \in Values : update(id, v)
  \/ \E id \in Ids : remove(id)
  \/ \E id \in Ids, chunk \in Chunks, v, w \in Values, removed \in BOOLEAN :
        ForeignItem(id, chunk, v, w, removed)
  \/ \E r \in foreign : patch(r)
  \/ clear
  \/ Stop

Spec == Init /\ [][Next]_vars

--------------------------------------------------------------------------------
(* Properties                                                               *)

Holders == {Revision(CHOOSE id \in Ids : TRUE, CHOOSE c \in Chunks : TRUE, 0, 0, FALSE, v) :
              v \in Values}

\* Every revision that is referred to can be read back from the blocks, whole: no
\* later message overwrites it, and the CHECKs of ReadMessage and retrieveRevision
\* hold.  (proto-stl-stream.h, stxxl-revision-store.h)
StoredIsReadable ==
  \A id \in Ids : \A k \in DOMAIN stxxl[id] :
    LET info == stxxl[id][k]
    IN  /\ Readable(pool, info.address)
        /\ IsWhole(ReadMessage(pool, info.address))
        /\ retrieveRevision(pool, info).insertTime = info.insertTime

\* Whichever container a process was started with, its peers and its clients get
\* the same answers about any time: the flag use_external_memory is local to a
\* process, so two replicas of a chunk may differ in it.  So are the histories,
\* which a process sends to one that joins.
\* (legacy-chunk-data-ram-container.cc and legacy-chunk-data-stxxl-container.cc)
SameAnswers ==
  StoredIsReadable /\ \A time \in 0..clock :
    /\ RamAvailableIds(ram, time) = StxxlAvailableIds(stxxl, time)
    /\ \A id \in Ids :
         RamGetById(ram, id, time) = {r \in StxxlGetById(stxxl, pool, id, time) : ~r.removed}
    /\ \A key \in {0, 1}, holder \in Holders :
         /\ RamFind(ram, key, holder, time) = StxxlFind(stxxl, pool, key, holder, time)
         /\ RamCount(ram, key, holder, time) = StxxlCount(stxxl, pool, key, holder, time)
         /\ RamFindHistory(ram, key, holder, time) = StxxlFindHistory(stxxl, pool, key, holder, time)
    /\ \A id \in Ids : RamItemHistory(ram, id, time) = StxxlItemHistory(stxxl, pool, id, time)
    /\ \A chunk \in Chunks :
         RamChunkHistory(ram, chunk, time) = StxxlChunkHistory(stxxl, pool, chunk, time)

\* What was current at a time is the revision with the greatest update time up to
\* then, in whatever order the revisions arrived; an item that was removed is not
\* there.  (patchImpl and latestAt; the client finds it by the value it was given.)
AnswersAreCurrent ==
  \A time \in 0..clock :
    LET current == {r \in written : r.updateTime <= time /\
                      ~\E s \in written : s.id = r.id /\ s.updateTime <= time /\ s.updateTime > r.updateTime}
        there == {r \in current : ~r.removed}
    IN  /\ RamFind(ram, 0, CHOOSE h \in Holders : TRUE, time) = there
        /\ \A holder \in Holders :
             RamFind(ram, 1, holder, time) = {r \in there : Value(r) = Value(holder)}

================================================================================
