----------------------- MODULE ReaderWriterMutexProofs ------------------------
(***************************************************************************)
(* For any number of threads, the process-local lock in both of its forms  *)
(* counts its readers and pending writers right, and is a lock for any     *)
(* number of readers or one writer whose only reader may upgrade.          *)
(***************************************************************************)
EXTENDS ReaderWriterMutex, FiniteSetTheorems, TLAPS

Types ==
  /\ kind \in {"writer_first", "reader_first"}
  /\ num_readers_ \in Nat /\ num_pending_writers_ \in Nat
  /\ current_writer_ \in BOOLEAN /\ pending_upgrade_ \in BOOLEAN
  /\ cv_readers \subseteq Threads /\ m_writerFinished \subseteq Threads
  /\ pc \in [Threads -> Places]

\* The fields count the threads ...
Counts ==
  /\ num_readers_ = Cardinality(Readers)
  /\ num_pending_writers_ = Cardinality(PendingWriters)

\* ... and the flags tell what some thread is.
Flags ==
  /\ current_writer_ = (\E t \in Threads : pc[t] = "writing")
  /\ pending_upgrade_ = (\E t \in Threads : pc[t] = "upgrade")

\* A thread waits on a condition variable only where the code calls wait.
Waiting ==
  /\ \A t \in cv_readers : pc[t] \in {"first", "upgrade"}
  /\ \A t \in m_writerFinished : pc[t] \in {"enter", "second"}

\* A writer is alone, and at most one thread upgrades.
Alone ==
  /\ \A t, u \in Threads : pc[t] = "writing" /\ pc[u] \in {"reading", "upgrade", "writing"} => t = u
  /\ \A t, u \in Threads : pc[t] = "upgrade" /\ pc[u] = "upgrade" => t = u

\* A writer that waits in its second loop and keeps new readers away does not look at
\* num_readers_ again: nobody reads any more, but for the thread that upgrades.
ReadersAreGone ==
  kind = "writer_first" =>
    \A t, u \in Threads : pc[t] = "second" => pc[u] # "reading"

MutexInv == Types /\ Counts /\ Flags /\ Waiting /\ Alone /\ ReadersAreGone

--------------------------------------------------------------------------------
(* Counting. *)

IsReader(place) == place \in {"reading", "upgrade"}
IsPending(place) == kind = "writer_first" /\ place \in {"first", "second"}

\* The two sets the lock counts are finite.
LEMMA FiniteSets ==
  IsFiniteSet(Readers) /\ IsFiniteSet(PendingWriters)
<1>1. Readers \in SUBSET Threads /\ PendingWriters \in SUBSET Threads
  BY DEF Readers, PendingWriters
<1> QED
  BY <1>1, FS_Subset, ReaderWriterMutexAssumption

\* How a thread that moves changes a number of threads.
LEMMA Recount ==
  ASSUME Types, NEW t \in Threads, NEW place \in Places,
         pc' = [pc EXCEPT ![t] = place], kind' = kind
  PROVE  /\ Cardinality(Readers') = IF (IsReader(place) <=> IsReader(pc[t])) THEN Cardinality(Readers)
                                    ELSE IF IsReader(place) THEN Cardinality(Readers) + 1
                                    ELSE Cardinality(Readers) - 1
         /\ Cardinality(PendingWriters') =
              IF (IsPending(place) <=> IsPending(pc[t])) THEN Cardinality(PendingWriters)
              ELSE IF IsPending(place) THEN Cardinality(PendingWriters) + 1
              ELSE Cardinality(PendingWriters) - 1
<1>1. Readers' = IF IsReader(place) THEN Readers \cup {t} ELSE Readers \ {t}
  BY DEF Readers, IsReader, Types
<1>2. PendingWriters' = IF IsPending(place) THEN PendingWriters \cup {t} ELSE PendingWriters \ {t}
  BY DEF PendingWriters, IsPending, Types
<1>3. (t \in Readers <=> IsReader(pc[t])) /\ (t \in PendingWriters <=> IsPending(pc[t]))
  BY DEF Readers, PendingWriters, IsReader, IsPending
<1>4. /\ Cardinality(Readers \cup {t})
            = IF t \in Readers THEN Cardinality(Readers) ELSE Cardinality(Readers) + 1
      /\ Cardinality(Readers \ {t})
            = IF t \in Readers THEN Cardinality(Readers) - 1 ELSE Cardinality(Readers)
  BY FiniteSets, FS_AddElement, FS_RemoveElement
<1>5. /\ Cardinality(PendingWriters \cup {t})
            = IF t \in PendingWriters THEN Cardinality(PendingWriters) ELSE Cardinality(PendingWriters) + 1
      /\ Cardinality(PendingWriters \ {t})
            = IF t \in PendingWriters THEN Cardinality(PendingWriters) - 1 ELSE Cardinality(PendingWriters)
  BY FiniteSets, FS_AddElement, FS_RemoveElement
<1>6. CASE IsReader(place)
  <2>1. Readers' = Readers \cup {t}
    BY <1>1, <1>6
  <2> QED
    BY <2>1, <1>2, <1>3, <1>4, <1>5, <1>6
<1>7. CASE ~IsReader(place)
  <2>1. Readers' = Readers \ {t}
    BY <1>1, <1>7
  <2> QED
    BY <2>1, <1>2, <1>3, <1>4, <1>5, <1>7
<1> QED
  BY <1>6, <1>7

\* Who is counted, can be taken off: no counter goes below 0.
LEMMA CountedOnes ==
  ASSUME MutexInv, NEW t \in Threads
  PROVE  /\ IsReader(pc[t]) => num_readers_ - 1 \in Nat
         /\ IsPending(pc[t]) => num_pending_writers_ - 1 \in Nat
<1>1. IsReader(pc[t]) => Cardinality(Readers) # 0
  BY FiniteSets, FS_EmptySet DEF Readers, IsReader
<1>2. IsPending(pc[t]) => Cardinality(PendingWriters) # 0
  BY FiniteSets, FS_EmptySet DEF PendingWriters, IsPending
<1> QED
  BY <1>1, <1>2 DEF MutexInv, Types, Counts

\* Whoever counts one reader and is one is the only one.
LEMMA OnlyReader ==
  ASSUME MutexInv, num_readers_ = 1, NEW t \in Threads, IsReader(pc[t])
  PROVE  \A u \in Threads : IsReader(pc[u]) => u = t
<1>1. t \in Readers /\ Cardinality(Readers) = 1
  BY DEF MutexInv, Counts, Readers, IsReader
<1>2. PICK x : Readers = {x}
  BY <1>1, FiniteSets, FS_Singleton
<1> QED
  BY <1>1, <1>2 DEF Readers, IsReader

\* Whoever counts no reader but the one that upgrades sees nobody read.
LEMMA NobodyReads ==
  ASSUME MutexInv, ~(num_readers_ > Upgrading)
  PROVE  \A u \in Threads : pc[u] # "reading"
<1>1. CASE pending_upgrade_
  <2>1. PICK t \in Threads : pc[t] = "upgrade"
    BY <1>1 DEF MutexInv, Flags
  <2>2. t \in Readers /\ Cardinality(Readers) = num_readers_
    BY <2>1 DEF Readers, MutexInv, Counts
  <2>3. Cardinality(Readers) # 0
    BY <2>2, FiniteSets, FS_EmptySet
  <2>4. num_readers_ = 1
    BY <1>1, <2>2, <2>3 DEF Upgrading, MutexInv, Types
  <2> QED
    BY <2>1, <2>4, OnlyReader DEF IsReader
<1>2. CASE ~pending_upgrade_
  <2>1. Cardinality(Readers) = 0
    BY <1>2 DEF Upgrading, MutexInv, Types, Counts
  <2>2. Readers = {}
    BY <2>1, FiniteSets, FS_EmptySet
  <2> QED
    BY <2>2 DEF Readers
<1> QED
  BY <1>1, <1>2

\* Without pending writers, none waits in the second loop.
LEMMA NobodyPends ==
  ASSUME MutexInv, num_pending_writers_ = 0, kind = "writer_first"
  PROVE  \A u \in Threads : pc[u] # "second"
<1>1. PendingWriters = {}
  BY FiniteSets, FS_EmptySet DEF MutexInv, Counts
<1> QED
  BY <1>1 DEF PendingWriters

--------------------------------------------------------------------------------
(* The invariant is inductive. *)

\* The lock starts free, with nobody at it.
LEMMA MutexInvInit == Init => MutexInv
<1> SUFFICES ASSUME Init PROVE MutexInv
  OBVIOUS
<1>1. Readers = {} /\ PendingWriters = {}
  BY DEF Init, Readers, PendingWriters
<1>2. Types
  BY ReaderWriterMutexAssumption DEF Init, Types, Places
<1>3. Counts
  BY <1>1, FS_EmptySet DEF Init, Counts
<1> QED
  BY <1>2, <1>3 DEF Init, MutexInv, Flags, Waiting, Alone, ReadersAreGone

\* A reader that enters finds no writer, and none in the second loop.
LEMMA AcquireReadKeeps ==
  ASSUME MutexInv, NEW t \in Threads, acquireReadLock(t)
  PROVE  MutexInv'
<1> USE DEF MutexInv
<1>1. CASE ReaderWaits
  <2>1. pc[t] = "enter" /\ m_writerFinished' = m_writerFinished \cup {t}
        /\ UNCHANGED <<kind, num_readers_, num_pending_writers_, current_writer_, pending_upgrade_, cv_readers, pc>>
    BY <1>1 DEF acquireReadLock, WaitForWriter
  <2>2. Counts'
    BY <2>1 DEF Counts, Readers, PendingWriters
  <2> QED
    BY <2>1, <2>2 DEF Types, Flags, Waiting, Alone, ReadersAreGone
<1>2. CASE ~ReaderWaits
  <2>1. /\ pc[t] = "enter" /\ t \notin cv_readers \cup m_writerFinished
        /\ num_readers_' = num_readers_ + 1 /\ pc' = [pc EXCEPT ![t] = "reading"]
        /\ UNCHANGED <<kind, num_pending_writers_, current_writer_, pending_upgrade_, waits>>
    BY <1>2 DEF acquireReadLock, Awake
  <2>2. ~current_writer_ /\ (kind = "writer_first" => num_pending_writers_ = 0)
    BY <1>2 DEF ReaderWaits, Types
  <2>3. Types'
    BY <2>1 DEF Types, Places, waits
  <2>4. Counts'
    BY <2>1, Recount DEF Types, Counts, IsReader, IsPending, Places
  <2>5. Flags' /\ Waiting' /\ Alone'
    BY <2>1, <2>2 DEF Types, Flags, Waiting, Alone, waits
  <2>6. ReadersAreGone'
    BY <2>1, <2>2, NobodyPends DEF Types, ReadersAreGone
  <2> QED
    BY <2>3, <2>4, <2>5, <2>6
<1> QED
  BY <1>1, <1>2

\* A reader that goes only makes room.
LEMMA ReleaseReadKeeps ==
  ASSUME MutexInv, NEW t \in Threads, releaseReadLock(t)
  PROVE  MutexInv'
<1> USE DEF MutexInv
<1>1. /\ pc[t] = "reading" /\ cv_readers' \subseteq cv_readers
      /\ num_readers_' = num_readers_ - 1 /\ pc' = [pc EXCEPT ![t] = "out"]
      /\ UNCHANGED <<kind, num_pending_writers_, current_writer_, pending_upgrade_, m_writerFinished>>
  BY DEF releaseReadLock, Notify
<1>2. Counts'
  BY <1>1, Recount DEF Types, Counts, IsReader, IsPending, Places
<1>3. num_readers_' \in Nat
  BY <1>1, CountedOnes DEF IsReader
<1>4. Types'
  BY <1>1, <1>3 DEF Types, Places
<1> QED
  BY <1>1, <1>2, <1>4 DEF Types, Flags, Waiting, Alone, ReadersAreGone

\* Whoever gets to write finds nobody else who reads or writes.
LEMMA HasWrittenKeeps ==
  ASSUME MutexInv, NEW t \in Threads, HasWritten(t), kind' = kind,
         cv_readers' \subseteq cv_readers, UNCHANGED m_writerFinished,
         t \notin cv_readers \cup m_writerFinished,
         ~current_writer_, pending_upgrade_' = FALSE,
         \A u \in Threads : IsReader(pc[u]) => u = t,
         num_readers_' \in Nat, num_pending_writers_' \in Nat, Counts'
  PROVE  MutexInv'
<1>1. pc' = [pc EXCEPT ![t] = "writing"] /\ current_writer_' = TRUE
  BY DEF HasWritten
<1>2. Types'
  BY <1>1 DEF MutexInv, Types, Places
<1>3. \A u \in Threads : u # t => pc'[u] = pc[u] /\ pc[u] \notin {"reading", "upgrade", "writing"}
  BY <1>1 DEF MutexInv, Types, Flags, IsReader
<1>4. pc'[t] = "writing"
  BY <1>1 DEF MutexInv, Types
<1>5. Flags'
  BY <1>1, <1>3, <1>4 DEF Flags
<1>6. Waiting'
  BY <1>1, <1>3, <1>4 DEF MutexInv, Types, Waiting
<1>7. Alone' /\ ReadersAreGone'
  BY <1>3, <1>4 DEF Alone, ReadersAreGone
<1> QED
  BY <1>2, <1>5, <1>6, <1>7 DEF MutexInv

\* What acquireWriteLock looks at, and how many writers are pending after its first step.
LooksAtReaders(t) == pc[t] # "second" \/ (kind = "reader_first" /\ ~WriterWaits)
Pending(t) == num_pending_writers_ + (IF kind = "writer_first" /\ pc[t] = "enter" THEN 1 ELSE 0)

\* A writer waits, first for the readers and then for the writer, or has the lock.
LEMMA AcquireWriteKeeps ==
  ASSUME MutexInv, NEW t \in Threads, acquireWriteLock(t)
  PROVE  MutexInv'
<1> USE DEF MutexInv
<1>1. /\ pc[t] \in {"enter", "first", "second"} /\ t \notin cv_readers \cup m_writerFinished
      /\ UNCHANGED <<kind, num_readers_, pending_upgrade_>>
  BY DEF acquireWriteLock, Awake
<1>2. Pending(t) \in Nat
  BY DEF Pending, Types
<1>3. \/ LooksAtReaders(t) /\ num_readers_ > Upgrading
      \/ \A u \in Threads : pc[u] # "reading"
      \/ kind = "reader_first" /\ WriterWaits
  BY NobodyReads, <1>1 DEF LooksAtReaders, ReadersAreGone, Types
<1>4. CASE LooksAtReaders(t) /\ num_readers_ > Upgrading
  <2>1. /\ cv_readers' = cv_readers \cup {t} /\ pc' = [pc EXCEPT ![t] = "first"]
        /\ num_pending_writers_' = Pending(t)
        /\ UNCHANGED <<current_writer_, m_writerFinished>>
    BY <1>4 DEF acquireWriteLock, LooksAtReaders, Pending, WaitForReaders
  <2>2. Types'
    BY <1>1, <1>2, <2>1 DEF Types, Places
  <2>3. Counts'
    <3>0. /\ Types /\ kind' = kind /\ pc' = [pc EXCEPT ![t] = "first"]
          /\ Cardinality(PendingWriters) \in Nat
      BY <1>1, <2>1 DEF Types, Counts
    <3>1. ~IsReader("first") /\ ~IsReader(pc[t]) /\ "first" \in Places
      BY <1>1 DEF IsReader, Places
    <3>2. (IsPending("first") <=> kind = "writer_first")
          /\ (IsPending(pc[t]) <=> kind = "writer_first" /\ pc[t] # "enter")
      BY <1>1 DEF IsPending
    <3>3. Cardinality(Readers') = Cardinality(Readers)
      BY <3>0, <3>1, Recount
    <3>4. kind = "writer_first" /\ pc[t] = "enter" =>
            Cardinality(PendingWriters') = Cardinality(PendingWriters) + 1
      BY <3>0, <3>1, <3>2, Recount
    <3>5. ~(kind = "writer_first" /\ pc[t] = "enter") =>
            Cardinality(PendingWriters') = Cardinality(PendingWriters)
      BY <3>0, <3>1, <3>2, Recount
    <3> QED
      BY <1>1, <2>1, <3>3, <3>4, <3>5 DEF Types, Counts, Pending
  <2> QED
    BY <1>1, <2>1, <2>2, <2>3 DEF Types, Flags, Waiting, Alone, ReadersAreGone
<1>5. CASE ~(LooksAtReaders(t) /\ num_readers_ > Upgrading) /\ WriterWaits
  <2>1. /\ m_writerFinished' = m_writerFinished \cup {t} /\ pc' = [pc EXCEPT ![t] = "second"]
        /\ num_pending_writers_' = Pending(t)
        /\ UNCHANGED <<current_writer_, cv_readers>>
    BY <1>5 DEF acquireWriteLock, LooksAtReaders, Pending, WaitForWriter
  <2>2. Types'
    BY <1>1, <1>2, <2>1 DEF Types, Places
  <2>3. Counts'
    <3>0. /\ Types /\ kind' = kind /\ pc' = [pc EXCEPT ![t] = "second"]
          /\ Cardinality(PendingWriters) \in Nat
      BY <1>1, <2>1 DEF Types, Counts
    <3>1. ~IsReader("second") /\ ~IsReader(pc[t]) /\ "second" \in Places
      BY <1>1 DEF IsReader, Places
    <3>2. (IsPending("second") <=> kind = "writer_first")
          /\ (IsPending(pc[t]) <=> kind = "writer_first" /\ pc[t] # "enter")
      BY <1>1 DEF IsPending
    <3>3. Cardinality(Readers') = Cardinality(Readers)
      BY <3>0, <3>1, Recount
    <3>4. kind = "writer_first" /\ pc[t] = "enter" =>
            Cardinality(PendingWriters') = Cardinality(PendingWriters) + 1
      BY <3>0, <3>1, <3>2, Recount
    <3>5. ~(kind = "writer_first" /\ pc[t] = "enter") =>
            Cardinality(PendingWriters') = Cardinality(PendingWriters)
      BY <3>0, <3>1, <3>2, Recount
    <3> QED
      BY <1>1, <2>1, <3>3, <3>4, <3>5 DEF Types, Counts, Pending
  <2>4. ReadersAreGone'
    BY <1>1, <1>3, <1>5, <2>1 DEF Types, ReadersAreGone
  <2> QED
    BY <1>1, <2>1, <2>2, <2>3, <2>4 DEF Types, Flags, Waiting, Alone
<1>6. CASE ~(LooksAtReaders(t) /\ num_readers_ > Upgrading) /\ ~WriterWaits
  <2>1. /\ HasWritten(t) /\ UNCHANGED waits
        /\ num_pending_writers_' = IF kind = "writer_first" THEN Pending(t) - 1 ELSE Pending(t)
    BY <1>6 DEF acquireWriteLock, LooksAtReaders, Pending
  <2>2. pc' = [pc EXCEPT ![t] = "writing"] /\ ~current_writer_ /\ ~pending_upgrade_
    BY <1>6, <2>1 DEF HasWritten, WriterWaits, Types
  <2>3. num_pending_writers_' \in Nat
    BY <1>1, <1>2, <2>1, CountedOnes DEF Pending, IsPending, Types
  <2>4. Counts'
    <3>0. /\ Types /\ kind' = kind /\ pc' = [pc EXCEPT ![t] = "writing"]
          /\ Cardinality(PendingWriters) \in Nat
      BY <1>1, <2>2 DEF Types, Counts
    <3>1. ~IsReader("writing") /\ ~IsReader(pc[t]) /\ "writing" \in Places
      BY <1>1 DEF IsReader, Places
    <3>2. ~IsPending("writing") /\ (IsPending(pc[t]) <=> kind = "writer_first" /\ pc[t] # "enter")
      BY <1>1 DEF IsPending
    <3>3. Cardinality(Readers') = Cardinality(Readers)
      BY <3>0, <3>1, Recount
    <3>4. kind = "writer_first" /\ pc[t] # "enter" =>
            Cardinality(PendingWriters') = Cardinality(PendingWriters) - 1
      BY <3>0, <3>1, <3>2, Recount
    <3>5. ~(kind = "writer_first" /\ pc[t] # "enter") =>
            Cardinality(PendingWriters') = Cardinality(PendingWriters)
      BY <3>0, <3>1, <3>2, Recount
    <3> QED
      BY <1>1, <2>1, <3>3, <3>4, <3>5 DEF Types, Counts, Pending
  <2>5. \A u \in Threads : ~IsReader(pc[u])
    BY <1>3, <1>6, <2>2 DEF IsReader, Flags
  <2> QED
    BY <1>1, <2>1, <2>2, <2>3, <2>4, <2>5, HasWrittenKeeps DEF Types, waits
<1> QED
  BY <1>4, <1>5, <1>6

\* A writer that ends leaves nobody who writes.
LEMMA ReleaseWriteKeeps ==
  ASSUME MutexInv, NEW t \in Threads, releaseWriteLock(t)
  PROVE  MutexInv'
<1> USE DEF MutexInv
<1>1. /\ pc[t] = "writing" /\ current_writer_' = FALSE /\ pc' = [pc EXCEPT ![t] = "notify"]
      /\ UNCHANGED <<kind, num_readers_, num_pending_writers_, pending_upgrade_, waits>>
  BY DEF releaseWriteLock
<1>2. Counts'
  BY <1>1, Recount DEF Types, Counts, IsReader, IsPending, Places
<1>3. Flags'
  BY <1>1 DEF Types, Flags, Alone
<1> QED
  BY <1>1, <1>2, <1>3 DEF Types, Places, waits, Waiting, Alone, ReadersAreGone

\* The notification of a writer that has ended moves nobody.
LEMMA NotifyKeeps ==
  ASSUME MutexInv, NEW t \in Threads, NotifyWriterFinished(t)
  PROVE  MutexInv'
<1> USE DEF MutexInv
<1>1. /\ pc[t] = "notify" /\ m_writerFinished' = {} /\ pc' = [pc EXCEPT ![t] = "out"]
      /\ UNCHANGED <<kind, num_readers_, num_pending_writers_, current_writer_, pending_upgrade_, cv_readers>>
  BY DEF NotifyWriterFinished
<1>2. Counts'
  BY <1>1, Recount DEF Types, Counts, IsReader, IsPending, Places
<1> QED
  BY <1>1, <1>2 DEF Types, Places, Flags, Waiting, Alone, ReadersAreGone

\* The upgrade of the only reader.
LEMMA UpgradeKeeps ==
  ASSUME MutexInv, NEW t \in Threads, Upgrade(t), num_readers_ = 1, IsReader(pc[t]),
         t \notin cv_readers \cup m_writerFinished, UNCHANGED <<kind, num_pending_writers_>>
  PROVE  MutexInv'
<1> USE DEF MutexInv
<1>1. /\ HasWritten(t) /\ pc' = [pc EXCEPT ![t] = "writing"]
      /\ pending_upgrade_' = FALSE /\ num_readers_' = 0
      /\ cv_readers' \subseteq cv_readers /\ UNCHANGED m_writerFinished
  BY DEF Upgrade, HasWritten, Notify
<1>2. ~current_writer_
  BY DEF Flags, Alone, IsReader, Types
<1>3. Counts'
  <2>1. /\ IsReader(pc[t]) /\ ~IsReader("writing") /\ "writing" \in Places
        /\ ~IsPending(pc[t]) /\ ~IsPending("writing")
    BY DEF IsReader, IsPending, Places
  <2>2. Types /\ kind' = kind /\ Cardinality(Readers) = 1
    BY DEF Counts
  <2>3. Cardinality(PendingWriters') = Cardinality(PendingWriters)
    BY <1>1, <2>1, <2>2, Recount
  <2>4. Cardinality(Readers') = Cardinality(Readers) - 1
    BY <1>1, <2>1, <2>2, Recount
  <2> QED
    BY <1>1, <2>2, <2>3, <2>4 DEF Counts
<1>4. \A u \in Threads : IsReader(pc[u]) => u = t
  BY OnlyReader
<1> QED
  BY <1>1, <1>2, <1>3, <1>4, HasWrittenKeeps DEF Types

\* Of two threads that upgrade the second gives up; the first waits for the readers.
LEMMA UpgradeToWriteKeeps ==
  ASSUME MutexInv, NEW t \in Threads, upgradeToWriteLock(t)
  PROVE  MutexInv'
<1> USE DEF MutexInv
<1>1. pc[t] = "reading" /\ t \notin cv_readers \cup m_writerFinished
      /\ UNCHANGED <<kind, num_pending_writers_>>
  BY DEF upgradeToWriteLock, Waiting
<1>2. CASE SecondUpgrade
  <2>1. /\ num_readers_' = num_readers_ - 1 /\ cv_readers' \subseteq cv_readers
        /\ pc' = [pc EXCEPT ![t] = "out"]
        /\ UNCHANGED <<pending_upgrade_, current_writer_, m_writerFinished>>
    BY <1>2 DEF upgradeToWriteLock, Notify
  <2>2. Counts'
    BY <1>1, <2>1, Recount DEF Types, Counts, IsReader, IsPending, Places
  <2>3. num_readers_' \in Nat
    BY <1>1, <2>1, CountedOnes DEF IsReader
  <2> QED
    BY <1>1, <2>1, <2>2, <2>3 DEF Types, Places, Flags, Waiting, Alone, ReadersAreGone
<1>3. CASE ~SecondUpgrade /\ num_readers_ > 1
  <2>1. /\ pending_upgrade_' = TRUE /\ cv_readers' = cv_readers \cup {t}
        /\ pc' = [pc EXCEPT ![t] = "upgrade"]
        /\ UNCHANGED <<num_readers_, current_writer_, m_writerFinished>>
    BY <1>3 DEF upgradeToWriteLock, WaitForReaders, Types
  <2>2. Counts'
    BY <1>1, <2>1, Recount DEF Types, Counts, IsReader, IsPending, Places
  <2>3. \A u \in Threads : pc[u] # "upgrade"
    BY <1>3 DEF SecondUpgrade, Flags
  <2>4. Types' /\ Flags' /\ Waiting'
    BY <1>1, <2>1 DEF Types, Places, Flags, Waiting
  <2>5. Alone' /\ ReadersAreGone'
    BY <1>1, <2>1, <2>3 DEF Types, Alone, ReadersAreGone
  <2> QED
    BY <2>2, <2>4, <2>5
<1>4. CASE ~SecondUpgrade /\ num_readers_ = 1
  <2>1. Upgrade(t)
    BY <1>4 DEF upgradeToWriteLock
  <2> QED
    BY <1>1, <1>4, <2>1, UpgradeKeeps DEF IsReader
<1> QED
  BY <1>2, <1>3, <1>4 DEF upgradeToWriteLock

\* A thread that has waited to upgrade waits again or is the writer.
LEMMA FinishUpgradeKeeps ==
  ASSUME MutexInv, NEW t \in Threads, FinishUpgrade(t)
  PROVE  MutexInv'
<1> USE DEF MutexInv
<1>1. /\ pc[t] = "upgrade" /\ t \notin cv_readers \cup m_writerFinished
      /\ UNCHANGED <<kind, num_pending_writers_>>
  BY DEF FinishUpgrade, Awake
<1>2. CASE num_readers_ > 1
  <2>1. /\ cv_readers' = cv_readers \cup {t}
        /\ UNCHANGED <<num_readers_, pending_upgrade_, current_writer_, pc, m_writerFinished>>
    BY <1>2 DEF FinishUpgrade, WaitForReaders, Types
  <2>2. Counts'
    BY <1>1, <2>1 DEF Counts, Readers, PendingWriters
  <2> QED
    BY <1>1, <2>1, <2>2 DEF Types, Flags, Waiting, Alone, ReadersAreGone
<1>3. CASE num_readers_ = 1 /\ Upgrade(t)
  BY <1>1, <1>3, UpgradeKeeps DEF IsReader
<1> QED
  BY <1>2, <1>3 DEF FinishUpgrade

\* No step breaks the invariant.
LEMMA MutexInvStep == MutexInv /\ [Next]_vars => MutexInv'
<1> SUFFICES ASSUME MutexInv, [Next]_vars PROVE MutexInv'
  OBVIOUS
<1>1. CASE UNCHANGED vars
  BY <1>1 DEF vars, MutexInv, Types, Counts, Flags, Waiting, Alone, ReadersAreGone, Readers, PendingWriters
<1>2. ASSUME NEW t \in Threads, Step(t) PROVE MutexInv'
  BY <1>2, AcquireReadKeeps, ReleaseReadKeeps, AcquireWriteKeeps, ReleaseWriteKeeps, NotifyKeeps,
     UpgradeToWriteKeeps, FinishUpgradeKeeps DEF Step
<1>3. ASSUME NEW t \in Threads, NEW call \in {"read", "write", "upgrade"}, Start(t, call)
      PROVE  MutexInv'
  <2> USE DEF MutexInv
  <2>1. /\ pc[t] = "out" /\ pc' = [pc EXCEPT ![t] = "enter"]
        /\ UNCHANGED <<kind, num_readers_, num_pending_writers_, current_writer_, pending_upgrade_, waits>>
    BY <1>3 DEF Start
  <2>2. Counts'
    BY <2>1, Recount DEF Types, Counts, IsReader, IsPending, Places
  <2> QED
    BY <2>1, <2>2 DEF Types, Places, waits, Flags, Waiting, Alone, ReadersAreGone
<1> QED
  BY <1>1, <1>2, <1>3 DEF Next

--------------------------------------------------------------------------------
(* The steps are steps of the abstract lock. *)

\* Nobody writes while somebody reads, and who gets to write was not yet reading alone.
LEMMA HasWrittenRefines ==
  ASSUME MutexInv, NEW t \in Threads, HasWritten(t), ~current_writer_,
         \A u \in Threads : IsReader(pc[u]) => u = t
  PROVE  /\ Readers = {t} => Lock!Upgrade(t)
         /\ Readers = {} => Lock!BeginWrite(t)
<1>1. Writers = {} /\ pc' = [pc EXCEPT ![t] = "writing"]
  BY DEF MutexInv, Flags, Writers, HasWritten
<1>2. Writers' = {t} /\ Readers' = {}
  BY <1>1 DEF MutexInv, Types, Writers, Readers, IsReader
<1> QED
  BY <1>1, <1>2 DEF Lock!Upgrade, Lock!BeginWrite

\* A thread that goes on does one thing with the abstract lock, or nothing.
LEMMA StepRefines ==
  ASSUME MutexInv, NEW t \in Threads, Step(t)
  PROVE  \/ Lock!BeginRead(t) \/ Lock!EndRead(t) \/ Lock!BeginWrite(t) \/ Lock!EndWrite(t)
         \/ Lock!Upgrade(t) \/ UNCHANGED <<Readers, Writers>>
<1> USE DEF MutexInv
<1>1. CASE acquireReadLock(t)
  <2>1. CASE ReaderWaits
    BY <1>1, <2>1 DEF acquireReadLock, Readers, Writers
  <2>2. CASE ~ReaderWaits
    <3>1. pc' = [pc EXCEPT ![t] = "reading"] /\ pc[t] = "enter" /\ ~current_writer_
      BY <1>1, <2>2 DEF acquireReadLock, ReaderWaits
    <3>2. Writers = {} /\ Writers' = {} /\ Readers' = Readers \cup {t}
      BY <3>1 DEF Types, Flags, Readers, Writers
    <3> QED
      BY <3>2 DEF Lock!BeginRead
  <2> QED
    BY <2>1, <2>2
<1>2. CASE releaseReadLock(t)
  <2>1. pc' = [pc EXCEPT ![t] = "out"] /\ pc[t] = "reading"
    BY <1>2 DEF releaseReadLock
  <2>2. Readers' = Readers \ {t} /\ UNCHANGED Writers
    BY <2>1 DEF Types, Readers, Writers
  <2> QED
    BY <2>2 DEF Lock!EndRead
<1>3. CASE acquireWriteLock(t)
  <2>1. pc[t] \in {"enter", "first", "second"}
    BY <1>3 DEF acquireWriteLock
  <2>2. CASE pc' = [pc EXCEPT ![t] = "first"] \/ pc' = [pc EXCEPT ![t] = "second"]
    BY <2>1, <2>2 DEF Types, Readers, Writers
  <2>3. CASE ~(LooksAtReaders(t) /\ num_readers_ > Upgrading) /\ ~WriterWaits /\ HasWritten(t)
    <3>1. \A u \in Threads : pc[u] # "reading"
      BY <2>1, <2>3, NobodyReads DEF LooksAtReaders, ReadersAreGone, Types
    <3>2. \A u \in Threads : ~IsReader(pc[u])
      BY <2>3, <3>1 DEF WriterWaits, Flags, IsReader
    <3>3. Readers = {} /\ ~current_writer_
      BY <2>3, <3>2 DEF Readers, IsReader, WriterWaits
    <3> QED
      BY <2>3, <3>2, <3>3, HasWrittenRefines
  <2> QED
    BY <1>3, <2>2, <2>3 DEF acquireWriteLock, LooksAtReaders
<1>4. CASE releaseWriteLock(t)
  <2>1. pc' = [pc EXCEPT ![t] = "notify"] /\ pc[t] = "writing"
    BY <1>4 DEF releaseWriteLock
  <2>2. Writers' = Writers \ {t} /\ UNCHANGED Readers
    BY <2>1 DEF Types, Readers, Writers
  <2> QED
    BY <2>2 DEF Lock!EndWrite
<1>5. CASE NotifyWriterFinished(t)
  BY <1>5 DEF NotifyWriterFinished, Types, Readers, Writers
<1>6. ASSUME Upgrade(t), num_readers_ = 1, IsReader(pc[t])
      PROVE  Lock!Upgrade(t)
  <2>1. \A u \in Threads : IsReader(pc[u]) => u = t
    BY <1>6, OnlyReader
  <2>2. Readers = {t} /\ ~current_writer_ /\ HasWritten(t)
    BY <1>6, <2>1 DEF Readers, IsReader, Flags, Alone, Upgrade
  <2> QED
    BY <2>1, <2>2, HasWrittenRefines
<1>7. CASE upgradeToWriteLock(t)
  <2>1. pc[t] = "reading"
    BY <1>7 DEF upgradeToWriteLock
  <2>2. CASE pc' = [pc EXCEPT ![t] = "out"]
    <3>1. Readers' = Readers \ {t} /\ UNCHANGED Writers
      BY <2>1, <2>2 DEF Types, Readers, Writers
    <3> QED
      BY <3>1 DEF Lock!EndRead
  <2>3. CASE pc' = [pc EXCEPT ![t] = "upgrade"]
    BY <2>1, <2>3 DEF Types, Readers, Writers
  <2> QED
    BY <1>6, <1>7, <2>1, <2>2, <2>3 DEF upgradeToWriteLock, IsReader
<1>8. CASE FinishUpgrade(t)
  BY <1>6, <1>8 DEF FinishUpgrade, IsReader, Readers, Writers
<1> QED
  BY <1>1, <1>2, <1>3, <1>4, <1>5, <1>7, <1>8 DEF Step

--------------------------------------------------------------------------------
(* Theorems. *)

\* The invariant holds always.
THEOREM MutexInvariant == Spec => []MutexInv
<1> QED
  BY MutexInvInit, MutexInvStep, PTL DEF Spec

\* num_readers_, num_pending_writers_, current_writer_ and pending_upgrade_ tell what the
\* threads are doing, and no thread waits on both condition variables: for any number
\* of threads, and for both forms of the lock.
THEOREM FieldsTellTheTruth == Spec => []MutexTypes
<1>1. MutexInv => MutexTypes
  <2> SUFFICES ASSUME MutexInv PROVE MutexTypes
    OBVIOUS
  <2>1. (Writers # {}) = (\E t \in Threads : pc[t] = "writing")
    BY DEF Writers
  <2>2. cv_readers \cap m_writerFinished = {}
    BY DEF MutexInv, Types, Waiting
  <2> QED
    BY <2>1, <2>2 DEF MutexInv, MutexTypes, Types, Counts, Flags
<1> QED
  BY <1>1, MutexInvariant, PTL

\* acquireReadLock to upgradeToWriteLock implement the abstract lock that any number of
\* readers or one writer may have and whose only reader may become its writer.
THEOREM MutexRefinesRWLock == Spec => ImplementsRWLock
<1>1. Init => Lock!Init
  BY DEF Init, Lock!Init, Readers, Writers
<1>2. MutexInv /\ [Next]_vars
        => [Lock!Next \/ \E t \in Threads : Lock!Upgrade(t)]_<<Readers, Writers>>
  <2> SUFFICES ASSUME MutexInv, [Next]_vars
               PROVE  [Lock!Next \/ \E t \in Threads : Lock!Upgrade(t)]_<<Readers, Writers>>
    OBVIOUS
  <2>1. CASE UNCHANGED vars
    BY <2>1 DEF vars, Readers, Writers
  <2>2. ASSUME NEW t \in Threads, Step(t)
        PROVE  [Lock!Next \/ \E u \in Threads : Lock!Upgrade(u)]_<<Readers, Writers>>
    BY <2>2, StepRefines DEF Lock!Next
  <2>3. ASSUME NEW t \in Threads, NEW call \in {"read", "write", "upgrade"}, Start(t, call)
        PROVE  UNCHANGED <<Readers, Writers>>
    BY <2>3 DEF Start, MutexInv, Types, Readers, Writers
  <2> QED
    BY <2>1, <2>2, <2>3 DEF Next
<1> QED
  BY <1>1, <1>2, MutexInvariant, PTL DEF Spec, ImplementsRWLock, Lock!UpgradableSpec
================================================================================
