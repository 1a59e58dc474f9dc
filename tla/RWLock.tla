--------------------------------- MODULE RWLock ---------------------------------
(***************************************************************************)
(* What the lock of a chunk promises to its callers, whichever peer they   *)
(* run on: any number of readers, or one writer.                           *)
(***************************************************************************)
CONSTANT Threads

VARIABLES readers, writers  \* the threads that have the lock

Init == readers = {} /\ writers = {}

BeginRead(t) == writers = {} /\ readers' = readers \cup {t} /\ UNCHANGED writers
EndRead(t) == readers' = readers \ {t} /\ UNCHANGED writers

BeginWrite(t) ==
  /\ readers = {} /\ writers = {}
  /\ writers' = {t}
  /\ UNCHANGED readers
EndWrite(t) == writers' = writers \ {t} /\ UNCHANGED readers

Next == \E t \in Threads : BeginRead(t) \/ EndRead(t) \/ BeginWrite(t) \/ EndWrite(t)

Spec == Init /\ [][Next]_<<readers, writers>>

\* A lock whose only reader may become its writer.
Upgrade(t) ==
  /\ readers = {t} /\ writers = {}
  /\ readers' = {} /\ writers' = {t}

UpgradableSpec == Init /\ [][Next \/ \E t \in Threads : Upgrade(t)]_<<readers, writers>>
================================================================================
