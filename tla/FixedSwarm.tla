------------------------------- MODULE FixedSwarm -------------------------------
(***************************************************************************)
(* The lock of a chunk while nobody joins or leaves its swarm: why it is a *)
(* readers-writer lock.                                                    *)
(*                                                                         *)
(* A thread claims a peer from the moment the peer has granted it the lock *)
(* to the moment the peer has taken its unlock request.  A peer that is    *)
(* write-locked from outside is claimed by exactly one thread of the       *)
(* holder, and a thread claims the peers in ascending order.               *)
(***************************************************************************)
EXTENDS LegacyChunk

\* The lock implements the readers-writer lock its callers assume.
RW == INSTANCE RWLock WITH readers <- {t \in Threads : ReadHeld(t)},
                           writers <- {t \in Threads : WriteHeld(t)}
ImplementsRWLock == RW!Spec

Attempting(t) == pc[t] \in {"attempting", "lockFirst", "lockRest", "accepted"}
Owns(t) == WriteHeld(t) \/ pc[t] = "unlocking"
Others(t) == Founders \ {Host[t]}

Claims(t, q) ==
  /\ q \in Others(t)
  /\ \/ pc[t] = "accepted" \/ WriteHeld(t)
     \/ /\ pc[t] \in {"lockFirst", "lockRest"}
        /\ q < call[t].to \/ (q = call[t].to /\ call[t].reply = "ack")
     \/ /\ pc[t] = "unlocking"
        /\ q \in rest[t] \/ (q = call[t].to /\ call[t].reply = "none")

SwarmIsFixed ==
  \A p \in Peers :
    /\ p \in Founders => member[p] = "active" /\ peers[p] = Founders \ {p}
    /\ p \notin Founders => member[p] = "absent" /\ peers[p] = {}

\* What a thread asks fits what it does.
CallFits(t) ==
  /\ pc[t] \notin {"idle", "callback"} => Host[t] \in Founders
  /\ pc[t] \in {"lockFirst", "lockRest"} => call[t].kind = "lock"
  /\ pc[t] = "unlocking" => call[t].kind = "unlock"
  /\ pc[t] \in {"readBroadcast", "writeBroadcast"} => call[t].kind \in {"insert", "update"}
  /\ pc[t] \notin {"lockFirst", "lockRest", "unlocking", "readBroadcast", "writeBroadcast"}
       => call[t] = NoCall
  /\ call[t].kind # "none" => call[t].to \in Others(t)
  /\ call[t].reply = "commitEnd" => call[t].kind = "unlock"
  /\ call[t].reply = "decline" => call[t].kind = "lock"
  /\ pc[t] = "lockFirst" => \A r \in Others(t) : call[t].to <= r
  /\ rest[t] \subseteq Others(t) /\ call[t].to \notin rest[t]
  /\ pc[t] # "unlocking" => rest[t] = {}
CallsFit == \A t \in Threads : CallFits(t)

\* A server thread executes a request that its sender still awaits.
ServesCalls ==
  \A q \in Peers, t \in Threads : serving[q] = t =>
    call[t].to = q /\ call[t].reply \in {"none", "commitEnd"}

\* lock_ at the peer of a thread that wants or has the write lock; the lowest
\* peer is never preempted
OwnLockOf(t) ==
  LET p == Host[t] IN
  /\ Owns(t) => IsWriter(p, p) /\ thread[p] = t
  /\ Attempting(t) =>
       /\ thread[p] = t
       /\ \/ state[p] = "ATTEMPTING"
          \/ /\ state[p] = "WRITE_LOCKED" /\ holder[p] # p /\ preempted[p] = "ATTEMPTING"
             /\ \E r \in Founders : r < p
OwnLock == \A t \in Threads : OwnLockOf(t)

ClaimsHeld == \A t \in Threads : \A q \in Founders : Claims(t, q) => IsWriter(q, Host[t])

HeldIsClaimed ==
  \A q \in Founders : state[q] = "WRITE_LOCKED" /\ holder[q] # q =>
    \E t \in Threads : Host[t] = holder[q] /\ Claims(t, q)

ReadersAt(p) == {t \in Threads : Host[t] = p /\ ReadHeld(t)}
ReadersCounted ==
  \A p \in Peers :
    /\ nReaders[p] = Cardinality(ReadersAt(p))
    /\ nReaders[p] > 0 <=> state[p] = "READ_LOCKED"

DepthCounted == \A t \in Threads : WriteHeld(t) => depth[Host[t]] > 0

LockInv ==
  /\ TypeOK /\ SwarmIsFixed /\ CallsFit /\ ServesCalls
  /\ OwnLock /\ ClaimsHeld /\ HeldIsClaimed /\ ReadersCounted /\ DepthCounted

--------------------------------------------------------------------------------
(* The replicas.  A change is pending at a peer until the broadcast of the    *)
(* thread that made it has reached the peer.                                  *)

Broadcasting(t) == pc[t] \in {"readBroadcast", "writeBroadcast"}
Pending(t, q) ==
  /\ Broadcasting(t) /\ q \in Others(t)
  /\ call[t].to < q \/ (call[t].to = q /\ call[t].reply = "none")

\* What one peer has and another has not is on its way to it.
OnItsWay(rev, q) == \E t \in Threads : Pending(t, q) /\ arg[t] = rev
Replicated == \A p, q \in Founders : \A rev \in data[p] \ data[q] : OnItsWay(rev, q)
BroadcastIsMade == \A t \in Threads : Broadcasting(t) => arg[t] \in data[Host[t]]
OutsidersHaveNothing == \A p \in Peers \ Founders : data[p] = {} /\ updated[p] = {}

\* What a thread inserts is its own, and new to every peer it has yet to reach.
NewWherePending(t) ==
  Broadcasting(t) /\ call[t].kind = "insert" =>
    /\ arg[t][1] \in Fresh[t]
    /\ \A q \in Founders : Pending(t, q) => Versions(q, arg[t][1]) = {}
InsertsAreNew ==
  /\ \A t \in Threads : NewWherePending(t)
  /\ \A q \in Founders : \A i \in inserted[q] : Versions(q, i) # {}

\* A commit updates what it has not touched before.
UpdateIsNew(t) ==
  Broadcasting(t) /\ call[t].kind = "update" =>
    /\ pc[t] = "writeBroadcast" /\ op[t] \in {"commit", "batch"} /\ arg[t][1] \in touched[t]
    /\ op[t] = "commit" => \A q \in Founders : Pending(t, q) => arg[t][1] \notin updated[q]
UpdatesAreNew == \A t \in Threads : UpdateIsNew(t) /\ (op[t] = "batch" => "batch" \in Calls[t])

\* t has updated items at q of which q has not told its triggers.
UpdatesAt(t, q) ==
  /\ q \in Others(t)
  /\ \/ WriteHeld(t) /\ updated[q] \subseteq touched[t]
     \/ /\ pc[t] = "unlocking"
        /\ Claims(t, q) \/ (call[t].to = q /\ call[t].reply = "commitEnd")

UpdatesAreClaimed ==
  /\ \A q \in Founders : updated[q] # {} => \E t \in Threads : UpdatesAt(t, q)
  /\ \A t \in Threads : call[t].reply = "commitEnd" => serving[call[t].to] = t

\* A peer is not write-locked by a thread that has forgotten it.
OwnersExist ==
  \A q \in Founders : IsWriter(q, q) => \E t \in Threads : Host[t] = q /\ Owns(t)

DataInv ==
  /\ Replicated /\ BroadcastIsMade /\ OutsidersHaveNothing
  /\ InsertsAreNew /\ UpdatesAreNew /\ UpdatesAreClaimed /\ OwnersExist
================================================================================
