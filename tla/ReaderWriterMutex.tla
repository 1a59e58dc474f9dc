--------------------------- MODULE ReaderWriterMutex ---------------------------
(***************************************************************************)
(* The reader-writer lock that the objects of one process use              *)
(* (map-api-common/src/reader-writer-lock.cc), and the variant that lets   *)
(* readers go first (reader-first-reader-writer-lock.cc).                  *)
(*                                                                         *)
(* A step is what a thread does while it holds mutex_: up to where it      *)
(* waits on a condition variable or unlocks.  A thread that waits goes on  *)
(* only after a notification: wake-ups for no reason, which C++ allows,    *)
(* only lead back to the loop that waits.                                  *)
(***************************************************************************)
EXTENDS Naturals, FiniteSets

CONSTANTS Threads,
          Kinds,  \* which of the two locks: a subset of {"writer_first", "reader_first"}
          Calls   \* what a thread may do: a subset of {"read", "write", "upgrade"} each

ASSUME ReaderWriterMutexAssumption ==
  /\ IsFiniteSet(Threads)
  /\ Kinds \subseteq {"writer_first", "reader_first"}
  /\ Calls \in [Threads -> SUBSET {"read", "write", "upgrade"}]

VARIABLES
  kind,                 \* the class of the lock
  num_readers_, num_pending_writers_, current_writer_, pending_upgrade_,
  cv_readers,           \* the threads waiting on cv_readers ...
  m_writerFinished,     \* ... and on m_writerFinished
  pc,                   \* where each thread is
  plan,                 \* the call it is making
  todo                  \* the calls it has not made

waits == <<cv_readers, m_writerFinished>>
vars == <<kind, num_readers_, num_pending_writers_, current_writer_, pending_upgrade_,
          cv_readers, m_writerFinished, pc, plan, todo>>

\* "enter": about to acquire the lock; "first" and "second": it waits in the
\* first or the second loop of acquireWriteLock; "upgrade": in upgradeToWriteLock; "notify":
\* releaseWriteLock has unlocked mutex_.
Places == {"out", "enter", "first", "second", "reading", "upgrade", "writing", "notify"}

Awake(t) == t \notin cv_readers \cup m_writerFinished
WaitForReaders(t) == cv_readers' = cv_readers \cup {t} /\ UNCHANGED m_writerFinished
WaitForWriter(t) == m_writerFinished' = m_writerFinished \cup {t} /\ UNCHANGED cv_readers

Notify(waiting, condition) == waiting' = IF condition THEN {} ELSE waiting

\* The readers a writer does not wait for: the one that is about to upgrade.
Upgrading == IF pending_upgrade_ THEN 1 ELSE 0

--------------------------------------------------------------------------------
(* Readers. *)

\* acquireReadLock: readers wait for writers, pending ones too unless readers
\* go first.
ReaderWaits ==
  \/ current_writer_
  \/ kind = "writer_first" /\ (pending_upgrade_ \/ num_pending_writers_ # 0)

acquireReadLock(t) ==
  /\ pc[t] = "enter" /\ plan[t] \in {"read", "upgrade"} /\ Awake(t)
  /\ IF ReaderWaits
     THEN WaitForWriter(t) /\ UNCHANGED <<num_readers_, pc>>
     ELSE /\ num_readers_' = num_readers_ + 1
          /\ pc' = [pc EXCEPT ![t] = "reading"]
          /\ UNCHANGED waits
  /\ UNCHANGED <<kind, num_pending_writers_, current_writer_, pending_upgrade_, plan, todo>>

\* mutant: the last reader wakes writers, a thread that upgrades is forgotten.
LastReader_NotUpgrade(n) == n = 0

\* releaseReadLock: the readers still there are none but the one upgrading.
LastReader(n) == n = Upgrading

releaseReadLock(t) ==
  /\ pc[t] = "reading" /\ plan[t] = "read"
  /\ num_readers_' = num_readers_ - 1
  /\ Notify(cv_readers, LastReader(num_readers_ - 1))
  /\ pc' = [pc EXCEPT ![t] = "out"]
  /\ UNCHANGED <<kind, num_pending_writers_, current_writer_, pending_upgrade_, m_writerFinished, plan, todo>>

--------------------------------------------------------------------------------
(* Writers. *)

\* The thread has the lock.
HasWritten(t) ==
  /\ current_writer_' = TRUE
  /\ pc' = [pc EXCEPT ![t] = "writing"]

\* mutant: an upgrade is overtaken by a writer.
WriterWaits_NotForUpgrade == current_writer_

WriterWaits == current_writer_ \/ pending_upgrade_

\* acquireWriteLock waits for the readers to end and then for the writer; the
\* variant looks at the readers again after that, the other one lets none in
\* while a writer is pending.
acquireWriteLock(t) ==
  LET looksAtReaders == pc[t] # "second" \/ (kind = "reader_first" /\ ~WriterWaits)
      pending == num_pending_writers_ + (IF kind = "writer_first" /\ pc[t] = "enter" THEN 1 ELSE 0)
  IN
  /\ pc[t] \in {"enter", "first", "second"} /\ plan[t] = "write" /\ Awake(t)
  /\ \/ /\ looksAtReaders /\ num_readers_ > Upgrading
        /\ WaitForReaders(t)
        /\ pc' = [pc EXCEPT ![t] = "first"]
        /\ num_pending_writers_' = pending
        /\ UNCHANGED <<current_writer_>>
     \/ /\ ~(looksAtReaders /\ num_readers_ > Upgrading) /\ WriterWaits
        /\ WaitForWriter(t)
        /\ pc' = [pc EXCEPT ![t] = "second"]
        /\ num_pending_writers_' = pending
        /\ UNCHANGED <<current_writer_>>
     \/ /\ ~(looksAtReaders /\ num_readers_ > Upgrading) /\ ~WriterWaits
        /\ HasWritten(t)
        /\ num_pending_writers_' = IF kind = "writer_first" THEN pending - 1 ELSE pending
        /\ UNCHANGED waits
  /\ UNCHANGED <<kind, num_readers_, pending_upgrade_, plan, todo>>

\* releaseWriteLock unlocks mutex_ ...
releaseWriteLock(t) ==
  /\ pc[t] = "writing"
  /\ current_writer_' = FALSE
  /\ pc' = [pc EXCEPT ![t] = "notify"]
  /\ UNCHANGED <<kind, num_readers_, num_pending_writers_, pending_upgrade_, waits, plan, todo>>

\* ... and then wakes everyone who waits for the writer.
NotifyWriterFinished(t) ==
  /\ pc[t] = "notify"
  /\ m_writerFinished' = {}
  /\ pc' = [pc EXCEPT ![t] = "out"]
  /\ UNCHANGED <<kind, num_readers_, num_pending_writers_, current_writer_, pending_upgrade_, cv_readers, plan, todo>>

--------------------------------------------------------------------------------
(* Readers that become writers. *)

\* A thread that finds another one upgrading gives up, and its read lock, too.
SecondUpgrade == pending_upgrade_

\* The last reader is the writer now.
Upgrade(t) ==
  /\ pending_upgrade_' = FALSE
  /\ num_readers_' = num_readers_ - 1
  /\ Notify(cv_readers, num_readers_ - 1 = 0)
  /\ HasWritten(t)
  /\ UNCHANGED m_writerFinished

\* upgradeToWriteLock: waits until all other readers have gone.
upgradeToWriteLock(t) ==
  /\ pc[t] = "reading" /\ plan[t] = "upgrade"
  /\ \/ /\ SecondUpgrade
        /\ num_readers_' = num_readers_ - 1
        /\ Notify(cv_readers, num_readers_ - 1 = 1)
        /\ pc' = [pc EXCEPT ![t] = "out"]
        /\ UNCHANGED <<pending_upgrade_, current_writer_, m_writerFinished>>
     \/ /\ ~SecondUpgrade /\ num_readers_ > 1
        /\ pending_upgrade_' = TRUE
        /\ WaitForReaders(t)
        /\ pc' = [pc EXCEPT ![t] = "upgrade"]
        /\ UNCHANGED <<num_readers_, current_writer_>>
     \/ ~SecondUpgrade /\ num_readers_ = 1 /\ Upgrade(t)
  /\ UNCHANGED <<kind, num_pending_writers_, plan, todo>>

FinishUpgrade(t) ==
  /\ pc[t] = "upgrade" /\ Awake(t)
  /\ \/ num_readers_ > 1 /\ WaitForReaders(t)
        /\ UNCHANGED <<num_readers_, pending_upgrade_, current_writer_, pc>>
     \/ num_readers_ = 1 /\ Upgrade(t)
  /\ UNCHANGED <<kind, num_pending_writers_, plan, todo>>

--------------------------------------------------------------------------------

Init ==
  /\ kind \in Kinds
  /\ num_readers_ = 0 /\ num_pending_writers_ = 0
  /\ current_writer_ = FALSE /\ pending_upgrade_ = FALSE
  /\ cv_readers = {} /\ m_writerFinished = {}
  /\ pc = [t \in Threads |-> "out"] /\ plan = [t \in Threads |-> "none"] /\ todo = Calls

\* A thread makes one of the calls it has left.
Start(t, call) ==
  /\ pc[t] = "out" /\ call \in todo[t]
  /\ plan' = [plan EXCEPT ![t] = call]
  /\ todo' = [todo EXCEPT ![t] = @ \ {call}]
  /\ pc' = [pc EXCEPT ![t] = "enter"]
  /\ UNCHANGED <<kind, num_readers_, num_pending_writers_, current_writer_, pending_upgrade_, waits>>

Step(t) ==
  \/ acquireReadLock(t) \/ releaseReadLock(t) \/ acquireWriteLock(t) \/ releaseWriteLock(t)
  \/ NotifyWriterFinished(t) \/ upgradeToWriteLock(t) \/ FinishUpgrade(t)

Next == \E t \in Threads : Step(t) \/ \E call \in {"read", "write", "upgrade"} : Start(t, call)

\* Who is awake goes on, and gives the lock back: mutex_ is held for a moment
\* only, and no thread waits for another while it has the lock.
Fairness == \A t \in Threads : WF_vars(Step(t))

Spec == Init /\ [][Next]_vars /\ Fairness

--------------------------------------------------------------------------------
(* Properties. *)

Readers == {t \in Threads : pc[t] \in {"reading", "upgrade"}}
Writers == {t \in Threads : pc[t] = "writing"}
PendingWriters == {t \in Threads : kind = "writer_first" /\ pc[t] \in {"first", "second"}}

\* The four fields of the lock say what the threads are doing; in particular
\* num_readers_, an unsigned number, is never taken below 0, though three
\* functions count it down.
MutexTypes ==
  /\ num_readers_ = Cardinality(Readers)
  /\ num_pending_writers_ = Cardinality(PendingWriters)
  /\ current_writer_ = (Writers # {})
  /\ pending_upgrade_ = (\E t \in Threads : pc[t] = "upgrade")
  /\ pc \in [Threads -> Places]
  /\ cv_readers \cap m_writerFinished = {}

\* A lock in either of its two forms is a lock for any number of readers or
\* one writer, and to upgrade is to stop reading and to write in one step.
Lock == INSTANCE RWLock WITH readers <- Readers, writers <- Writers
ImplementsRWLock == Lock!UpgradableSpec

\* No notification is lost: every thread gets the lock, and gives it back.
LocksAreGranted == <>[](\A t \in Threads : pc[t] = "out")
================================================================================
