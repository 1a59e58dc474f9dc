----------------------------- MODULE StartupProofs -----------------------------
(***************************************************************************)
(* Processes that start at the same time share one metatable and find each *)
(* other, for any number of processes, either discovery and any number of  *)
(* crashes: StartInv is inductive where takeovers of the lock, departures  *)
(* and late answers are taken not to overlap with what they would disturb. *)
(***************************************************************************)
EXTENDS Startup, FiniteSetTheorems, TLAPS

\* What the code leaves to its users, as far as it is needed here.
UsersKeepApart == {"takeovers", "departures", "timeouts"} \subseteq Apart

ExpiredPlaces == {"expired", "look_expired", "leave_expired"}

\* Where lock() leads from, and to.
LEMMA LockPlaces ==
  /\ {Expired[w] : w \in Waiting} = ExpiredPlaces
  /\ \A w \in Waiting : Entered[w] \in Inside /\ Expired[w] \in ExpiredPlaces
  /\ \A w \in Waiting : Entered[w] \in Starting <=> w # "leave_lock"
BY DEF Expired, Entered, Waiting, ExpiredPlaces, Inside, Starting, Joining

\* At most one process waits: nobody waits beside it.
LEMMA OneWaiterMeans ==
  ASSUME OneWaiter, NEW p \in Processes, NEW q \in Processes, Comes(p), Comes(q)
  PROVE  p = q
<1> DEFINE S == {r \in Processes : Comes(r)}
<1>1. IsFiniteSet(S)
  BY StartupAssumption, FS_Subset
<1>2. SUFFICES ASSUME p # q PROVE FALSE
  OBVIOUS
<1>3. {p, q} \subseteq S
  OBVIOUS
<1>4. Cardinality({p, q}) <= Cardinality(S)
  BY <1>1, <1>3, FS_Subset
<1>5. Cardinality({p, q}) = 2
  <2>1. Cardinality({p}) = 1 /\ IsFiniteSet({p})
    BY FS_Singleton
  <2>2. Cardinality({p} \cup {q}) = Cardinality({p}) + 1
    BY <1>2, <2>1, FS_AddElement
  <2>3. {p} \cup {q} = {p, q}
    OBVIOUS
  <2> QED
    BY <2>1, <2>2, <2>3
<1>6. Cardinality(S) \in Nat /\ Cardinality(S) <= 1
  BY <1>1, FS_CardinalityType DEF OneWaiter
<1> QED
  BY <1>4, <1>5, <1>6

\* All variables keep their types.
LEMMA TypesStep ==
  ASSUME StartupTypes, [Next]_vars
  PROVE  StartupTypes'
<1>1. ASSUME NEW p \in Processes, NEW place \in Places, Goes(p, place)
      PROVE  at' \in [Processes -> Places]
  BY <1>1 DEF Goes, StartupTypes
<1>2. ASSUME NEW p \in Processes, Lock(p) PROVE StartupTypes'
  <2>1. Entered[at[p]] \in Places
    BY <1>2, LockPlaces DEF Lock, Places
  <2> QED
    BY <1>1, <1>2, <2>1 DEF Lock, StartupTypes, hubVars
<1>3. ASSUME NEW p \in Processes, TimeOut(p) PROVE StartupTypes'
  <2>1. Expired[at[p]] \in Places
    BY <1>3, LockPlaces DEF TimeOut, Places
  <2> QED
    BY <1>1, <1>3, <2>1 DEF TimeOut, StartupTypes, hubVars, lockVars
<1>4. ASSUME NEW p \in Processes, ForceUnlock(p) PROVE StartupTypes'
  <2>1. PICK w \in Waiting :
           /\ Goes(p, "aborted") \/ Goes(p, w)
           /\ aborted' = aborted \/ aborted' = aborted \cup {p}
           /\ lockedBy' = lockedBy \/ lockedBy' = Unlinked
           /\ forced' = forced \/ forced' = forced \cup {p}
           /\ late' = late \/ late' = late \cup {q \in Processes : Waits(q)}
           /\ UNCHANGED <<mode, hubVars, crashed, listed, serving>>
    BY <1>4 DEF ForceUnlock, lockVars
  <2>2. at' \in [Processes -> Places]
    BY <1>1, <2>1 DEF Places
  <2> QED
    BY <2>1, <2>2 DEF StartupTypes, hubVars, Unlinked
<1>5. ASSUME NEW p \in Processes, NEW from, NEW to \in Places, Unlock(p, from, to)
      PROVE  StartupTypes'
  BY <1>1, <1>5 DEF Unlock, StartupTypes, hubVars
<1>6. ASSUME NEW p \in Processes, UnlockInit(p) PROVE StartupTypes'
  BY <1>5, <1>6 DEF UnlockInit, Places, Waiting, Joining
<1>7. ASSUME NEW p \in Processes, Start(p) \/ Connect(p) \/ Announce(p) PROVE StartupTypes'
  BY <1>1, <1>7 DEF Start, Connect, Announce, Others, StartupTypes, hubVars, lockVars, Places,
     Waiting, Inside
<1>8. ASSUME NEW p \in Processes, NEW q \in Processes, Greet(p, q) PROVE StartupTypes'
  BY <1>8 DEF Greet, discoveryHandler, Removed, StartupTypes, lockVars
<1>9. ASSUME NEW p \in Processes, NEW q \in Processes, InsertPeer(q, p) PROVE StartupTypes'
  BY <1>9 DEF InsertPeer, StartupTypes, lockVars
<1>10. ASSUME NEW p \in Processes, Greeted(p) PROVE StartupTypes'
  BY <1>1, <1>10 DEF Greeted, StartupTypes, lockVars, Places, Inside
<1>11. ASSUME NEW p \in Processes, CreateMetatable(p) \/ Look(p) \/ Finish(p) PROVE StartupTypes'
  BY <1>1, <1>11 DEF CreateMetatable, Look, Finish, Others, StartupTypes, hubVars, lockVars,
     Places, Inside, Joining
<1>12. ASSUME NEW p \in Processes, NEW q \in Processes, AskReady(p, q) PROVE StartupTypes'
  BY <1>1, <1>12 DEF AskReady, StartupTypes, lockVars, Places, Joining
<1>13. ASSUME NEW p \in Processes, JoinMetatable(p) PROVE StartupTypes'
  BY <1>1, <1>13 DEF JoinMetatable, StartupTypes, lockVars, Places, Joining
<1>14. ASSUME NEW p \in Processes, Kill(p) \/ Terminate(p) \/ Leave(p) PROVE StartupTypes'
  BY <1>1, <1>14 DEF Kill, Terminate, Leave, Removed, StartupTypes, hubVars, lockVars,
     Places, Inside, Waiting
<1>15. ASSUME NEW p \in Processes, Crash(p) PROVE StartupTypes'
  BY <1>1, <1>15 DEF Crash, StartupTypes, lockVars, Places
<1>16. CASE UNCHANGED vars
  BY <1>16 DEF vars, StartupTypes
<1>17. "choose" \in Places /\ "gone" \in Places
  BY DEF Places, Joining
<1> QED
  BY <1>2, <1>3, <1>4, <1>5, <1>6, <1>7, <1>8, <1>9, <1>10, <1>11, <1>12, <1>13, <1>14, <1>15,
     <1>16, <1>17 DEF Next, HubStep

--------------------------------------------------------------------------------
(* The lock of the discovery. *)

\* A step that leaves the lock alone, and takes one process from a place to another of the
\* same kind.
LEMMA LockKeptElsewhere ==
  ASSUME StartupTypes, LockKept, NEW p \in Processes, NEW place,
         Goes(p, place), UNCHANGED <<lockedBy, late, crashed>>,
         at[p] \notin {"crashed", "aborted"}, place # "crashed",
         place \in Inside => at[p] \in Inside,
         place \notin Waiting \cup ExpiredPlaces \cup {"tables_left"},
         p \notin late
  PROVE  LockKept'
<1>1. \A q \in Processes : at'[q] = IF q = p THEN place ELSE at[q]
  BY DEF Goes, StartupTypes
<1>2. \A q \in Processes : Comes(q)' => Comes(q)
  BY <1>1, LockPlaces DEF Comes, Waits
<1>3. \A q \in Processes : Waits(q)' => Waits(q)
  BY <1>1, LockPlaces DEF Waits
<1>4. \A q \in late : q \in Processes
  BY DEF StartupTypes
<1>5. \A q \in late : Waits(q) => Waits(q)'
  BY <1>1, <1>4 DEF Waits
<1> QED
  BY <1>1, <1>2, <1>3, <1>4, <1>5, LockPlaces DEF LockKept, ExpiredPlaces

\* Who is late waits.
LEMMA LateWait ==
  ASSUME LockKept, NEW p \in Processes,
         at[p] \notin Waiting \cup ExpiredPlaces \cup {"crashed", "aborted"}
  PROVE  p \notin late
BY LockPlaces DEF LockKept, Waits

\* The lock of the discovery keeps its one holder.
LEMMA LockKeptStep ==
  ASSUME UsersKeepApart, StartupTypes, LockKept, [Next]_vars
  PROVE  LockKept'
<1> USE DEF Goes
<1>1. late \subseteq Processes /\ crashed \subseteq Processes /\ NoProcess \notin Processes
  BY StartupAssumption DEF StartupTypes
<1>2. ASSUME NEW p \in Processes, Lock(p) PROVE LockKept'
  <2>1. /\ at[p] \in Waiting /\ lockedBy = NoProcess /\ lockedBy' = p /\ late' = late \ {p}
        /\ UNCHANGED crashed
    BY <1>2 DEF Lock, Free
  <2>2. PICK place \in Inside : at' = [at EXCEPT ![p] = place]
    BY <1>2, LockPlaces DEF Lock
  <2>3. at'[p] = place /\ \A q \in Processes \ {p} : at'[q] = at[q]
    BY <2>2 DEF StartupTypes
  <2>4. p \notin crashed
    BY <2>1 DEF LockKept, Waiting
  <2>5. ASSUME NEW q \in Processes, at'[q] \in Inside PROVE lockedBy' = q
    BY <1>1, <2>1, <2>3, <2>5 DEF LockKept
  <2>6. ASSUME NEW q \in Processes PROVE at'[q] \notin {Expired[w] : w \in Waiting}
    BY <1>1, <2>1, <2>3, LockPlaces DEF LockKept, Inside, ExpiredPlaces
  <2>7. Comes(p) /\ Waits(p)
    BY <2>1 DEF Comes, Waits
  <2>8. ASSUME NEW q \in late'
        PROVE  (Waits(q) \/ at[q] \in {"crashed", "aborted"})' /\ ~Waits(q)'
    <3>1. q \in late /\ q \in Processes \ {p}
      BY <1>1, <2>1, <2>8
    <3>2. ~Waits(q)
      BY <2>7, <3>1 DEF LockKept
    <3>3. at'[q] = at[q]
      BY <2>3, <3>1
    <3> QED
      BY <3>1, <3>2, <3>3 DEF LockKept, Waits
  <2>9. \A q \in Processes : at'[q] = "crashed" <=> q \in crashed'
    BY <2>1, <2>3, <2>4 DEF LockKept, Inside
  <2>10. lockedBy' \notin crashed'
    BY <2>1, <2>4
  <2> QED
    BY <2>5, <2>6, <2>8, <2>9, <2>10 DEF LockKept
<1>3. ASSUME NEW p \in Processes, TimeOut(p) PROVE LockKept'
  <2>1. /\ at[p] \in Waiting /\ lockedBy # NoProcess
        /\ p \in late \/ lockedBy \in crashed
        /\ UNCHANGED <<lockedBy, late, crashed>>
    BY <1>3 DEF TimeOut, lockVars
  <2>2. PICK place \in ExpiredPlaces : at' = [at EXCEPT ![p] = place]
    BY <1>3, LockPlaces DEF TimeOut
  <2>3. at'[p] = place /\ \A q \in Processes \ {p} : at'[q] = at[q]
    BY <2>2 DEF StartupTypes
  <2>4. Waits(p)
    BY <2>1 DEF Waits
  <2>5. lockedBy \in crashed
    BY <2>1, <2>4 DEF LockKept
  <2>6. \A q \in Processes : (Waits(q)' <=> Waits(q)) /\ (Comes(q)' <=> Comes(q))
    BY <2>1, <2>3, LockPlaces DEF Waits, Comes
  <2>7. place \notin Inside /\ place # "crashed" /\ at[p] \notin {"crashed", "aborted"}
    BY <2>1 DEF ExpiredPlaces, Inside, Waiting
  <2> QED
    BY <1>1, <2>1, <2>3, <2>5, <2>6, <2>7 DEF LockKept
<1>4. ASSUME NEW p \in Processes, ForceUnlock(p) PROVE LockKept'
  <2>1. PICK w \in Waiting :
          /\ at[p] = Expired[w] /\ UNCHANGED crashed
          /\ \/ at' = [at EXCEPT ![p] = "aborted"] /\ UNCHANGED <<lockedBy, late>>
             \/ /\ lockedBy' = NoProcess /\ late' = late \cup {q \in Processes : Waits(q)}
                /\ at' = [at EXCEPT ![p] = w]
    BY <1>4 DEF ForceUnlock, lockVars, Unlinked
  <2>2. at[p] \in ExpiredPlaces /\ Waits(p) /\ Comes(p) /\ lockedBy \in crashed
    BY <2>1, LockPlaces DEF Waits, Comes, LockKept
  <2>3. \A q \in Processes : Comes(q) => q = p
    BY <2>2 DEF LockKept
  <2>4. at[p] # "crashed" /\ at[p] \notin Inside
    BY <2>2 DEF ExpiredPlaces, Inside
  <2>5. CASE at' = [at EXCEPT ![p] = "aborted"] /\ UNCHANGED <<lockedBy, late>>
    <3>1. at'[p] = "aborted" /\ \A q \in Processes \ {p} : at'[q] = at[q]
      BY <2>5 DEF StartupTypes
    <3>2. \A q \in Processes : Comes(q)' => Comes(q)
      BY <3>1, LockPlaces DEF Comes, Waits, Waiting, ExpiredPlaces
    <3>3. \A q \in Processes \ {p} : Waits(q)' <=> Waits(q)
      BY <3>1 DEF Waits
    <3>4. ~Waits(p)'
      BY <3>1, LockPlaces DEF Waits, Waiting, ExpiredPlaces
    <3>5. "aborted" \notin Inside \cup ExpiredPlaces
      BY DEF Inside, ExpiredPlaces
    <3> QED
      BY <1>1, <2>1, <2>2, <2>4, <2>5, <3>1, <3>2, <3>3, <3>4, <3>5, LockPlaces DEF LockKept
  <2>6. CASE /\ lockedBy' = NoProcess /\ late' = late \cup {q \in Processes : Waits(q)}
             /\ at' = [at EXCEPT ![p] = w]
    <3>1. at'[p] = w /\ \A q \in Processes \ {p} : at'[q] = at[q]
      BY <2>6 DEF StartupTypes
    <3>2. Comes(p)' /\ Waits(p)'
      BY <3>1 DEF Comes, Waits
    <3>3. \A q \in Processes \ {p} : (Waits(q)' <=> Waits(q)) /\ (Comes(q)' <=> Comes(q))
      BY <3>1 DEF Waits, Comes
    <3>4. \A q \in Processes : Waits(q) => Comes(q)
      BY DEF Comes
    <3>5. w \notin Inside /\ w # "crashed"
      BY DEF Waiting, Inside
    <3>6. ASSUME NEW q \in Processes, at'[q] \in Inside PROVE lockedBy' = q
      <4>1. q # p /\ lockedBy = q
        BY <3>1, <3>5, <3>6 DEF LockKept
      <4>2. at[q] = "crashed"
        BY <2>2, <4>1 DEF LockKept
      <4> QED
        BY <3>1, <3>6, <4>1, <4>2 DEF Inside
    <3>7. ASSUME NEW q \in Processes PROVE at'[q] \notin {Expired[v] : v \in Waiting}
      <4>1. CASE q = p
        BY <3>1, <4>1, LockPlaces DEF Waiting, ExpiredPlaces
      <4>2. CASE q # p
        BY <2>3, <3>1, <3>4, <4>2, LockPlaces DEF Waits
      <4> QED
        BY <4>1, <4>2
    <3>8. ASSUME NEW q \in late' PROVE q = p \/ (at'[q] \in {"crashed", "aborted"} /\ ~Waits(q)')
      <4>1. CASE Waits(q)
        BY <1>1, <2>3, <2>6, <3>4, <3>8, <4>1
      <4>2. CASE ~Waits(q)
        <5>1. q \in late /\ q # p /\ q \in Processes
          BY <1>1, <2>2, <2>6, <3>8, <4>2
        <5> QED
          BY <3>1, <3>3, <4>2, <5>1 DEF LockKept
      <4> QED
        BY <4>1, <4>2
    <3>9. \A q \in Processes : Comes(q)' => q = p
      BY <2>3, <3>3
    <3>10. \A q \in Processes : at'[q] = "crashed" <=> q \in crashed'
      BY <2>1, <2>4, <3>1, <3>5 DEF LockKept
    <3>11. lockedBy' \notin crashed'
      BY <1>1, <2>1, <2>6
    <3> QED
      BY <2>6, <3>2, <3>6, <3>7, <3>8, <3>9, <3>10, <3>11 DEF LockKept
  <2> QED
    BY <2>1, <2>5, <2>6
<1>5. ASSUME NEW p \in Processes, NEW from \in Inside,
             NEW to \in {"create", "look_lock", "choose", "gone"}, Unlock(p, from, to)
      PROVE  LockKept'
  <2>1. /\ at[p] = from /\ at' = [at EXCEPT ![p] = to] /\ lockedBy = p /\ lockedBy' = NoProcess
        /\ UNCHANGED <<late, crashed>>
    BY <1>5 DEF Unlock, LockKept, hubVars
  <2>2. at'[p] = to /\ \A q \in Processes \ {p} : at'[q] = at[q]
    BY <2>1 DEF StartupTypes
  <2>3. p \notin crashed /\ p \notin late /\ ~Waits(p)
    BY <2>1, LockPlaces DEF LockKept, Inside, Waits, ExpiredPlaces, Waiting
  <2>4. \A q \in Processes : at[q] \notin ExpiredPlaces
    BY <2>1, <2>3, LockPlaces DEF LockKept
  <2>5. \A q \in late : ~Waits(q)
    BY <1>1, <2>1 DEF LockKept
  <2>6. \A q \in Processes \ {p} : Waits(q)' <=> Waits(q)
    BY <2>2 DEF Waits
  <2>7. to \notin Inside /\ to # "crashed" /\ to \notin ExpiredPlaces
    BY DEF Inside, ExpiredPlaces
  <2> QED
    BY <1>1, <2>1, <2>2, <2>3, <2>4, <2>5, <2>6, <2>7, LockPlaces DEF LockKept
<1>6. ASSUME NEW p \in Processes, UnlockInit(p) PROVE LockKept'
  BY <1>5, <1>6 DEF UnlockInit, Inside
<1>7. ASSUME NEW p \in Processes, Start(p) \/ Kill(p) PROVE LockKept'
  <2>1. /\ at[p] \in {"down", "ready"} /\ TakeoversApart(p)
        /\ UNCHANGED <<lockedBy, late, crashed>>
    BY <1>7 DEF Start, Kill, lockVars, hubVars
  <2>2. PICK place \in {"lock", "tables_left"} : at' = [at EXCEPT ![p] = place]
    BY <1>7 DEF Start, Kill
  <2>3. at'[p] = place /\ \A q \in Processes \ {p} : at'[q] = at[q]
    BY <2>2 DEF StartupTypes
  <2>4. p \notin late
    BY <2>1, LateWait DEF Waiting, ExpiredPlaces
  <2>5. lockedBy \in crashed \/ late # {} => \A q \in Processes \ {p} : ~Comes(q)
    BY <2>1 DEF TakeoversApart, UsersKeepApart
  <2>6. \A q \in Processes \ {p} : (Waits(q)' <=> Waits(q)) /\ (Comes(q)' <=> Comes(q))
    BY <2>3 DEF Waits, Comes
  <2>7. ASSUME NEW q \in late PROVE q # p /\ ~Waits(q) /\ ~Waits(q)'
    <3>1. q \in Processes \ {p}
      BY <1>1, <2>4
    <3> QED
      BY <2>5, <2>6, <3>1 DEF Comes
  <2>8. place \notin Inside /\ place \notin ExpiredPlaces /\ place # "crashed" /\ at[p] # "crashed"
    BY <2>1 DEF Inside, ExpiredPlaces
  <2>9. \A q \in late : at'[q] \in {"crashed", "aborted"}
    BY <1>1, <2>3, <2>7 DEF LockKept
  <2> QED
    BY <1>1, <2>1, <2>3, <2>5, <2>6, <2>7, <2>8, <2>9, LockPlaces DEF LockKept
<1>8. ASSUME NEW p \in Processes, Terminate(p) PROVE LockKept'
  <2>1. at[p] = "tables_left" /\ UNCHANGED <<lockedBy, late, crashed>>
    BY <1>8 DEF Terminate, lockVars
  <2>2. at'[p] = "leave_lock" /\ \A q \in Processes \ {p} : at'[q] = at[q]
    BY <1>8 DEF Terminate, StartupTypes
  <2>3. p \notin late
    BY <2>1, LateWait DEF Waiting, ExpiredPlaces
  <2>4. Comes(p) /\ Comes(p)'
    BY <2>1, <2>2 DEF Comes, Waits, Waiting
  <2>5. \A q \in Processes \ {p} : (Waits(q)' <=> Waits(q)) /\ (Comes(q)' <=> Comes(q))
    BY <2>2 DEF Waits, Comes
  <2>6. "leave_lock" \notin Inside \cup ExpiredPlaces
    BY DEF Inside, ExpiredPlaces
  <2> QED
    BY <1>1, <2>1, <2>2, <2>3, <2>4, <2>5, <2>6, LockPlaces DEF LockKept
<1>9. ASSUME NEW p \in Processes, Crash(p) PROVE LockKept'
  <2>1. /\ crashed' = crashed \cup {p} /\ (lockedBy = p => OneWaiter)
        /\ UNCHANGED <<lockedBy, late>>
    BY <1>9 DEF Crash, UsersKeepApart, lockVars
  <2>2. at'[p] = "crashed" /\ \A q \in Processes \ {p} : at'[q] = at[q]
    BY <1>9 DEF Crash, StartupTypes
  <2>3. ~Comes(p)' /\ ~Waits(p)'
    BY <2>2, LockPlaces DEF Comes, Waits, Waiting, ExpiredPlaces
  <2>4. \A q \in Processes \ {p} : (Waits(q)' <=> Waits(q)) /\ (Comes(q)' <=> Comes(q))
    BY <2>2 DEF Waits, Comes
  <2>5. lockedBy' \in crashed' => \A q, r \in Processes : Comes(q)' /\ Comes(r)' => q = r
    <3>1. CASE lockedBy \in crashed
      BY <3>1, <2>3, <2>4 DEF LockKept
    <3>2. CASE lockedBy = p
      BY <3>2, <2>1, <2>3, <2>4, OneWaiterMeans
    <3> QED
      BY <2>1, <3>1, <3>2
  <2>6. "crashed" \notin Inside \cup ExpiredPlaces
    BY DEF Inside, ExpiredPlaces
  <2> QED
    BY <1>1, <2>1, <2>2, <2>3, <2>4, <2>5, <2>6, LockPlaces DEF LockKept
<1>10. ASSUME NEW p \in Processes,
              \/ Connect(p) \/ Announce(p) \/ Greeted(p) \/ CreateMetatable(p) \/ Look(p)
              \/ JoinMetatable(p) \/ Finish(p) \/ Leave(p) \/ \E q \in Processes : AskReady(p, q)
       PROVE  LockKept'
  <2>1. /\ UNCHANGED <<lockedBy, late, crashed>>
        /\ at[p] \in {"connect", "announce", "greet", "create", "look", "join", "finish", "leave",
                      "choose"}
        /\ \E place \in {"announce", "greet", "unlock", "finish", "look_unlock", "aborted", "ready",
                         "leave_unlock", "join"} :
             Goes(p, place) /\ (place \in Inside => at[p] \in Inside)
    BY <1>10 DEF Connect, Announce, Greeted, CreateMetatable, Look, JoinMetatable, Finish, Leave,
       AskReady, lockVars, Inside
  <2>2. p \notin late
    BY <2>1, LateWait DEF Waiting, ExpiredPlaces
  <2> QED
    BY <2>1, <2>2, LockKeptElsewhere DEF Waiting, ExpiredPlaces
<1>11. ASSUME UNCHANGED <<at, lockedBy, late, crashed>> PROVE LockKept'
  BY <1>11 DEF LockKept, Waits, Comes
<1>12. ASSUME NEW p \in Processes, NEW q \in Processes, Greet(p, q) \/ InsertPeer(p, q)
       PROVE  LockKept'
  BY <1>11, <1>12 DEF Greet, InsertPeer, lockVars
<1>13. CASE UNCHANGED vars
  BY <1>11, <1>13 DEF vars
<1>14. "unlock" \in Inside /\ "look_unlock" \in Inside /\ "leave_unlock" \in Inside
  BY DEF Inside
<1> QED
  BY <1>2, <1>3, <1>4, <1>5, <1>6, <1>7, <1>8, <1>9, <1>10, <1>12, <1>13, <1>14 DEF Next, HubStep

--------------------------------------------------------------------------------
(* Who answers, and who is found. *)

Served == {"lock", "expired", "ready", "tables_left"} \cup Starting
GonePlaces == {"leave_lock", "leave_expired", "leave", "leave_unlock", "gone"}
SettledPlaces == {"unlock", "ready"} \cup Joining

\* A step from a place to one that asks no more of the process.
Onward(p, place) ==
  /\ place \in Served => at[p] \in Served
  /\ place \in GonePlaces => at[p] \in GonePlaces
  /\ place \in SettledPlaces => at[p] \in SettledPlaces \cup {"greet"}
  /\ place \in Starting => at[p] \in Starting
  /\ place \notin {"tables_left", "greet"}

\* A step on the way keeps what is said of those that serve.
LEMMA ServingFitsOnward ==
  ASSUME StartupTypes, \A q \in Processes : ServingFits(q), NEW p \in Processes, NEW place,
         Goes(p, place), Onward(p, place), UNCHANGED <<serving, listed, inserting>>,
         NEW x \in Processes
  PROVE  ServingFits(x)'
<1>1. \A q \in Processes : at'[q] = IF q = p THEN place ELSE at[q]
  BY DEF Goes, StartupTypes
<1>2. Settled(x)' \/ at'[x] = "greet" => Settled(x) \/ at[x] = "greet"
  BY <1>1 DEF Settled, Onward, SettledPlaces
<1>3. Gone(x)' => Gone(x)
  BY <1>1 DEF Gone, Onward, GonePlaces
<1>4. at'[x] \in Served => at[x] \in Served
  BY <1>1 DEF Onward
<1>5. at'[x] = "tables_left" => at[x] = "tables_left"
  BY <1>1 DEF Onward
<1>6. \A q \in Processes : at'[q] \in Starting => at[q] \in Starting
  BY <1>1 DEF Onward
<1> QED
  BY <1>2, <1>3, <1>4, <1>5, <1>6 DEF ServingFits, Served

\* The steps of that kind: they keep the lock or wait for it, and look and join.
LEMMA StepsOnward ==
  ASSUME NEW p \in Processes,
         \/ Lock(p) /\ at[p] # "lock"
         \/ TimeOut(p) \/ ForceUnlock(p) \/ UnlockInit(p) \/ Unlock(p, "look_unlock", "choose")
         \/ Unlock(p, "leave_unlock", "gone") \/ Connect(p) \/ Greeted(p) \/ CreateMetatable(p)
         \/ Look(p) \/ JoinMetatable(p) \/ Finish(p) \/ \E q \in Processes : AskReady(p, q)
  PROVE  \E place : Goes(p, place) /\ Onward(p, place) /\ UNCHANGED <<serving, listed, inserting>>
<1> USE DEF Onward, Served, GonePlaces, SettledPlaces, Starting, Joining
<1>1. CASE Lock(p) /\ at[p] # "lock"
  <2>1. at[p] \in {"look_lock", "leave_lock"} /\ Goes(p, Entered[at[p]])
        /\ UNCHANGED <<serving, listed, inserting>>
    BY <1>1 DEF Lock, Waiting, hubVars
  <2>2. \/ at[p] = "look_lock" /\ Goes(p, "look")
        \/ at[p] = "leave_lock" /\ Goes(p, "leave")
    BY <2>1 DEF Entered
  <2> QED
    BY <2>1, <2>2
<1>2. CASE TimeOut(p)
  <2>1. at[p] \in Waiting /\ Goes(p, Expired[at[p]]) /\ UNCHANGED <<serving, listed, inserting>>
    BY <1>2 DEF TimeOut, hubVars
  <2>2. \/ at[p] = "lock" /\ Goes(p, "expired")
        \/ at[p] = "look_lock" /\ Goes(p, "look_expired")
        \/ at[p] = "leave_lock" /\ Goes(p, "leave_expired")
    BY <2>1 DEF Expired, Waiting
  <2> QED
    BY <2>1, <2>2
<1>3. CASE ForceUnlock(p)
  <2>1. PICK w \in Waiting : at[p] = Expired[w] /\ (Goes(p, "aborted") \/ Goes(p, w))
                             /\ UNCHANGED <<serving, listed, inserting>>
    BY <1>3 DEF ForceUnlock, hubVars
  <2>2. \/ w = "lock" /\ at[p] = "expired"
        \/ w = "look_lock" /\ at[p] = "look_expired"
        \/ w = "leave_lock" /\ at[p] = "leave_expired"
    BY <2>1 DEF Expired, Waiting
  <2> QED
    BY <2>1, <2>2
<1>4. CASE UnlockInit(p) \/ Unlock(p, "look_unlock", "choose") \/ Unlock(p, "leave_unlock", "gone")
  BY <1>4 DEF UnlockInit, Unlock, hubVars
<1>5. CASE Connect(p) \/ Greeted(p) \/ CreateMetatable(p) \/ Look(p)
  BY <1>5 DEF Connect, Greeted, CreateMetatable, Look
<1>6. CASE JoinMetatable(p) \/ Finish(p) \/ \E q \in Processes : AskReady(p, q)
  BY <1>6 DEF JoinMetatable, Finish, AskReady, hubVars
<1> QED
  BY <1>1, <1>2, <1>3, <1>4, <1>5, <1>6

\* So does every step.
LEMMA ServingFitsStep ==
  ASSUME UsersKeepApart, StartupTypes, LockKept, \A q \in Processes : ServingFits(q), [Next]_vars,
         NEW x \in Processes
  PROVE  ServingFits(x)'
<1>1. ASSUME NEW p \in Processes, Lock(p), at[p] = "lock" PROVE ServingFits(x)'
  <2>1. /\ at' = [at EXCEPT ![p] = "connect"] /\ \A q \in Processes : at[q] # "tables_left"
        /\ UNCHANGED <<serving, listed, inserting>>
    BY <1>1 DEF Lock, Goes, Entered, EntriesApart, UsersKeepApart, hubVars
  <2>2. at'[p] = "connect" /\ \A q \in Processes \ {p} : at'[q] = at[q]
    BY <2>1 DEF StartupTypes
  <2>3. "connect" \notin SettledPlaces /\ ~Gone(p)'
    BY <2>2 DEF SettledPlaces, Joining, Gone
  <2> QED
    BY <1>1, <2>1, <2>2, <2>3 DEF ServingFits, Settled, Gone, SettledPlaces
<1>2. ASSUME NEW p \in Processes, Start(p) PROVE ServingFits(x)'
  <2>1. /\ at[p] = "down" /\ serving' = serving \cup {p} /\ UNCHANGED <<listed, inserting>>
        /\ at'[p] = "lock" /\ \A q \in Processes \ {p} : at'[q] = at[q]
    BY <1>2 DEF Start, Goes, StartupTypes, hubVars
  <2>2. "lock" \notin SettledPlaces /\ "lock" \notin Starting
    BY DEF SettledPlaces, Joining, Starting
  <2>3. Gone(x) => x # p
    BY <2>1 DEF Gone
  <2> QED
    BY <2>1, <2>2, <2>3 DEF ServingFits, Settled, Gone, SettledPlaces
<1>3. ASSUME NEW p \in Processes, Announce(p) PROVE ServingFits(x)'
  <2>1. /\ at[p] = "announce" /\ listed' = listed \cup {p} /\ UNCHANGED <<serving, inserting>>
        /\ at'[p] = "greet" /\ \A q \in Processes \ {p} : at'[q] = at[q]
    BY <1>3 DEF Announce, Goes, StartupTypes
  <2>2. "announce" \in Starting /\ "greet" \in Starting
    BY DEF Starting
  <2> QED
    BY <2>1, <2>2 DEF ServingFits, Settled, Gone
<1>4. ASSUME NEW p \in Processes, NEW q \in Processes, Greet(p, q) PROVE ServingFits(x)'
  <2>1. /\ at[p] = "greet" /\ UNCHANGED <<at, serving>>
        /\ \/ q \in serving /\ inserting' = inserting \cup {<<q, p>>} /\ UNCHANGED listed
           \/ q \notin serving /\ listed' = listed \ {q} /\ UNCHANGED inserting
    BY <1>4 DEF Greet, discoveryHandler, Removed, InTime, UsersKeepApart
  <2>2. "greet" \in Starting
    BY DEF Starting
  <2>3. (at[x] = "tables_left" \/ Gone(x)) /\ q \in serving => x # q
    BY <2>1, <2>2 DEF ServingFits
  <2>4. Settled(x) \/ at[x] = "greet" => x \in serving
    BY DEF ServingFits, Settled, Starting
  <2> QED
    BY <2>1, <2>3, <2>4 DEF ServingFits, Settled, Gone
<1>5. ASSUME NEW p \in Processes, NEW q \in Processes, InsertPeer(q, p) PROVE ServingFits(x)'
  BY <1>5 DEF InsertPeer, ServingFits, Settled, Gone
<1>6. ASSUME NEW p \in Processes, Kill(p) PROVE ServingFits(x)'
  <2>1. /\ at[p] = "ready" /\ \A q \in Processes \ {p} : at[q] \notin Starting
        /\ \A i \in inserting : i[1] # p
        /\ UNCHANGED <<serving, listed, inserting>>
        /\ at'[p] = "tables_left" /\ \A q \in Processes \ {p} : at'[q] = at[q]
    BY <1>6 DEF Kill, Goes, StartupTypes, DeparturesApart, ThreadsApart, UsersKeepApart
  <2>2. "tables_left" \notin Starting
    BY DEF Starting, Joining
  <2>3. Settled(x)' => Settled(x)
    BY <2>1 DEF Settled, Joining
  <2>4. Gone(x)' => Gone(x)
    BY <2>1 DEF Gone
  <2> QED
    BY <2>1, <2>2, <2>3, <2>4 DEF ServingFits
<1>7. ASSUME NEW p \in Processes, Terminate(p) PROVE ServingFits(x)'
  <2>1. /\ at[p] = "tables_left" /\ serving' = serving \ {p}
        /\ UNCHANGED <<listed, inserting>>
        /\ at'[p] = "leave_lock" /\ \A q \in Processes \ {p} : at'[q] = at[q]
    BY <1>7 DEF Terminate, Goes, StartupTypes
  <2>2. "leave_lock" \notin Starting
    BY DEF Starting, Joining
  <2>3. Settled(x)' => Settled(x)
    BY <2>1 DEF Settled, Joining
  <2>4. x # p => (Gone(x)' <=> Gone(x))
    BY <2>1 DEF Gone
  <2> QED
    BY <2>1, <2>2, <2>3, <2>4 DEF ServingFits
<1>8. ASSUME NEW p \in Processes, Leave(p) PROVE ServingFits(x)'
  <2>1. /\ at[p] = "leave" /\ listed' = listed \ {p} /\ UNCHANGED <<serving, inserting>>
        /\ at'[p] = "leave_unlock" /\ \A q \in Processes \ {p} : at'[q] = at[q]
    BY <1>8 DEF Leave, Removed, Goes, StartupTypes, hubVars
  <2>2. "leave_unlock" \notin Starting
    BY DEF Starting, Joining
  <2>3. Settled(x)' => Settled(x) /\ x # p
    BY <2>1 DEF Settled, Joining
  <2>4. Gone(x)' <=> Gone(x)
    BY <2>1 DEF Gone
  <2> QED
    BY <2>1, <2>2, <2>3, <2>4 DEF ServingFits
<1>9. ASSUME NEW p \in Processes, Crash(p) PROVE ServingFits(x)'
  <2>1. /\ serving' = serving \ {p} /\ inserting' \subseteq inserting /\ UNCHANGED listed
        /\ at'[p] = "crashed" /\ \A q \in Processes \ {p} : at'[q] = at[q]
    BY <1>9 DEF Crash, Goes, StartupTypes
  <2>2. "crashed" \notin Served
    BY DEF Served, Starting, Joining
  <2>3. Settled(x)' => Settled(x) /\ x # p
    BY <2>1 DEF Settled, Joining
  <2>4. Gone(x)' => Gone(x) /\ x # p
    BY <2>1 DEF Gone
  <2> QED
    BY <2>1, <2>2, <2>3, <2>4 DEF ServingFits, Served
<1>10. ASSUME NEW p \in Processes, NEW place, Goes(p, place), Onward(p, place),
              UNCHANGED <<serving, listed, inserting>>
       PROVE  ServingFits(x)'
  BY <1>10, ServingFitsOnward
<1>11. CASE UNCHANGED vars
  BY <1>11 DEF vars, ServingFits, Settled, Gone
<1> QED
  BY <1>1, <1>2, <1>3, <1>4, <1>5, <1>6, <1>7, <1>8, <1>9, <1>10, <1>11, StepsOnward
     DEF Next, HubStep

--------------------------------------------------------------------------------
(* What a process that has the lock knows. *)

\* A step that takes nothing away that a process with the lock has seen of the others.
Quiet ==
  /\ UNCHANGED <<listed, lost, greeting>> /\ serving \subseteq serving'
  /\ \A q \in Processes : (Settled(q)' => Settled(q)) /\ peers[q] \subseteq peers'[q]
  /\ \A q, r \in Processes : Settled(q) /\ (<<q, r>> \in inserting \/ r \in peers[q]) =>
       <<q, r>> \in inserting' \/ r \in peers'[q]

\* Of that kind are the steps made without the lock, as long as nobody departs.
WithoutLock(p) ==
  \/ TimeOut(p) \/ ForceUnlock(p) \/ Start(p) \/ CreateMetatable(p) \/ JoinMetatable(p) \/ Finish(p)
  \/ \E q \in Processes : InsertPeer(p, q) \/ AskReady(p, q)

\* The steps made without the lock are quiet.
LEMMA QuietSteps ==
  ASSUME StartupTypes, NEW p \in Processes, WithoutLock(p)
  PROVE  Quiet
<1>1. ASSUME NEW place, Goes(p, place), place \in SettledPlaces => at[p] \in SettledPlaces,
             UNCHANGED <<listed, lost, greeting, peers, inserting>>, serving \subseteq serving'
      PROVE  Quiet
  <2>1. \A q \in Processes : at'[q] = IF q = p THEN place ELSE at[q]
    BY <1>1 DEF Goes, StartupTypes
  <2>2. \A q \in Processes : Settled(q)' => Settled(q)
    BY <1>1, <2>1 DEF Settled, SettledPlaces
  <2> QED
    BY <1>1, <2>2 DEF Quiet
<1>2. CASE TimeOut(p) \/ ForceUnlock(p)
  <2>1. PICK place : /\ Goes(p, place) /\ (place \in SettledPlaces => at[p] \in SettledPlaces)
                     /\ UNCHANGED <<listed, lost, greeting, peers, inserting, serving>>
    <3>1. CASE TimeOut(p)
      <4>1. /\ at[p] \in Waiting /\ Goes(p, Expired[at[p]])
            /\ UNCHANGED <<listed, lost, greeting, peers, inserting, serving>>
        BY <3>1 DEF TimeOut, hubVars
      <4> QED
        BY <4>1 DEF Waiting, Expired, SettledPlaces, Joining
    <3>2. CASE ForceUnlock(p)
      <4>1. PICK w \in Waiting :
              /\ at[p] = Expired[w] /\ (Goes(p, "aborted") \/ Goes(p, w))
              /\ UNCHANGED <<listed, lost, greeting, peers, inserting, serving>>
        BY <3>2 DEF ForceUnlock, hubVars
      <4> QED
        BY <4>1 DEF Waiting, Expired, SettledPlaces, Joining
    <3> QED
      BY <1>2, <3>1, <3>2
  <2> QED
    BY <1>1, <2>1
<1>3. CASE Start(p) \/ CreateMetatable(p) \/ JoinMetatable(p) \/ Finish(p)
  <2>1. \E place : /\ Goes(p, place) /\ (place \in SettledPlaces => at[p] \in SettledPlaces)
                   /\ UNCHANGED <<listed, lost, greeting, peers, inserting>>
                   /\ serving \subseteq serving'
    BY <1>3 DEF Start, CreateMetatable, JoinMetatable, Finish, SettledPlaces, Joining, hubVars
  <2> QED
    BY <1>1, <2>1
<1>4. ASSUME NEW q \in Processes, AskReady(p, q) PROVE Quiet
  <2>1. \E place : /\ Goes(p, place) /\ (place \in SettledPlaces => at[p] \in SettledPlaces)
                   /\ UNCHANGED <<listed, lost, greeting, peers, inserting, serving>>
    BY <1>4 DEF AskReady, SettledPlaces, Joining
  <2> QED
    BY <1>1, <2>1
<1>5. ASSUME NEW q \in Processes, InsertPeer(p, q) PROVE Quiet
  <2>1. /\ UNCHANGED <<at, listed, lost, greeting, serving>>
        /\ inserting' = inserting \ {<<p, q>>}
        /\ \/ at[p] = "gone" /\ UNCHANGED peers
           \/ peers' = [peers EXCEPT ![p] = @ \cup {q}]
    BY <1>5 DEF InsertPeer
  <2>2. \A r \in Processes : peers[r] \subseteq peers'[r]
    BY <2>1 DEF StartupTypes
  <2>3. ASSUME NEW r \in Processes, NEW s \in Processes, Settled(r), <<r, s>> \in inserting
        PROVE  <<r, s>> \in inserting' \/ s \in peers'[r]
    <3>1. CASE r = p /\ s = q
      <4>1. at[p] # "gone"
        BY <2>3, <3>1 DEF Settled, Joining
      <4> QED
        BY <2>1, <3>1, <4>1 DEF StartupTypes
    <3>2. CASE r # p \/ s # q
      BY <2>1, <2>3, <3>2
    <3> QED
      BY <3>1, <3>2
  <2> QED
    BY <2>1, <2>2, <2>3 DEF Quiet, Settled
<1> QED
  BY <1>2, <1>3, <1>4, <1>5 DEF WithoutLock

\* While somebody has the lock and starts, the others make quiet steps only.
LEMMA OthersAreQuiet ==
  ASSUME UsersKeepApart, StartupTypes, LockKept, \A q \in Processes : ServingFits(q),
         NEW x \in Processes, at[x] \in {"announce", "greet"}, NEW p \in Processes, p # x,
         HubStep(p) \/ Start(p) \/ Kill(p) \/ Crash(p)
  PROVE  WithoutLock(p)
<1>1. lockedBy = x /\ at[x] \in Starting /\ x # NoProcess
  BY StartupAssumption DEF LockKept, Inside, Starting
<1>2. at[p] \notin Inside /\ at[p] # "tables_left"
  BY <1>1 DEF LockKept, ServingFits
<1>3. ~Lock(p)
  BY <1>1 DEF Lock, Free
<1>4. ~Kill(p) /\ ~Crash(p) /\ ~Terminate(p)
  BY <1>1, <1>2 DEF Kill, Crash, Terminate, DeparturesApart, UsersKeepApart
<1>5. ~Connect(p) /\ ~Announce(p) /\ ~Greeted(p) /\ ~Look(p) /\ ~Leave(p)
  BY <1>2 DEF Connect, Announce, Greeted, Look, Leave, Inside
<1>6. ~UnlockInit(p) /\ ~Unlock(p, "look_unlock", "choose") /\ ~Unlock(p, "leave_unlock", "gone")
  BY <1>2 DEF UnlockInit, Unlock, Inside
<1>7. \A q \in Processes : ~Greet(p, q)
  BY <1>2 DEF Greet, Inside
<1> QED
  BY <1>3, <1>4, <1>5, <1>6, <1>7 DEF HubStep, WithoutLock

\* Nobody departs while a process starts: who answers goes on to, and is what the discovery lists.
LEMMA ListedStay ==
  ASSUME UsersKeepApart, StartupTypes, \A q \in Processes : ServingFits(q),
         NEW x \in Processes, at[x] \in Starting, NEW p \in Processes, p # x,
         HubStep(p) \/ Start(p) \/ Kill(p) \/ Crash(p)
  PROVE  serving \subseteq serving' /\ listed' \subseteq listed \cup serving
<1>1. ~Kill(p) /\ ~Crash(p) /\ ~Terminate(p)
  BY DEF Kill, Crash, Terminate, DeparturesApart, UsersKeepApart, ServingFits
<1>2. CASE \E place : Goes(p, place) /\ Onward(p, place) /\ UNCHANGED <<serving, listed, inserting>>
  BY <1>2
<1>3. CASE Lock(p)
  BY <1>3 DEF Lock
<1>4. CASE Announce(p)
  BY <1>4 DEF Announce, ServingFits, Starting
<1>5. CASE Leave(p) \/ Start(p)
  BY <1>5 DEF Leave, Removed, Start
<1>6. CASE \E q \in Processes : Greet(p, q) \/ InsertPeer(p, q)
  BY <1>6 DEF Greet, Removed, InsertPeer
<1> QED
  BY <1>1, <1>2, <1>3, <1>4, <1>5, <1>6, StepsOnward DEF HubStep

\* A step of one process leaves what another one knows alone.
LEMMA OthersKnow ==
  ASSUME StartupTypes, NEW x \in Processes, NEW p \in Processes, p # x,
         HubStep(p) \/ Start(p) \/ Kill(p) \/ Crash(p)
  PROVE  /\ at'[x] = at[x] /\ lost'[x] = lost[x] /\ found'[x] = found[x] /\ peers'[x] = peers[x]
         /\ greeting'[x] = greeting[x] /\ first'[x] = first[x] /\ metatable'[x] = metatable[x]
<1> USE DEF StartupTypes, Goes, hubVars, lockVars
<1>1. CASE Lock(p) \/ TimeOut(p) \/ Start(p) \/ Kill(p) \/ Crash(p) \/ Terminate(p) \/ Leave(p)
  BY <1>1 DEF Lock, TimeOut, Start, Kill, Crash, Terminate, Leave
<1>2. CASE ForceUnlock(p)
  BY <1>2 DEF ForceUnlock
<1>3. CASE UnlockInit(p) \/ Unlock(p, "look_unlock", "choose") \/ Unlock(p, "leave_unlock", "gone")
  BY <1>3 DEF UnlockInit, Unlock
<1>4. CASE Connect(p) \/ Announce(p) \/ Greeted(p) \/ CreateMetatable(p) \/ Look(p) \/ Finish(p)
  BY <1>4 DEF Connect, Announce, Greeted, CreateMetatable, Look, Finish
<1>5. CASE JoinMetatable(p)
  BY <1>5 DEF JoinMetatable
<1>6. CASE \E q \in Processes : Greet(p, q) \/ AskReady(p, q) \/ InsertPeer(p, q)
  BY <1>6 DEF Greet, AskReady, InsertPeer
<1> QED
  BY <1>1, <1>2, <1>3, <1>4, <1>5, <1>6 DEF HubStep

\* Who has the lock goes on to greet all, whatever others do ...
LEMMA GreetsAllOthers ==
  ASSUME UsersKeepApart, StartupTypes, LockKept, \A q \in Processes : ServingFits(q),
         NEW x \in Processes, GreetsAll(x), NEW p \in Processes, p # x,
         HubStep(p) \/ Start(p) \/ Kill(p) \/ Crash(p)
  PROVE  GreetsAll(x)'
<1>1. /\ at'[x] = at[x] /\ lost'[x] = lost[x] /\ found'[x] = found[x] /\ peers'[x] = peers[x]
      /\ greeting'[x] = greeting[x]
  BY OthersKnow
<1>2. CASE at[x] \in {"announce", "greet"}
  <2>1. Quiet
    BY <1>2, OthersAreQuiet, QuietSteps
  <2>2. at[x] \notin {"unlock"} \cup Joining
    BY <1>2 DEF Joining
  <2>3. \A q \in Processes \ {x} : Settled(q)' => Settled(q)
    BY <2>1 DEF Quiet
  <2>4. \A q \in Processes \ {x} :
          Settled(q)' /\ at[x] = "greet" =>
            q \in greeting[x] \/ <<q, x>> \in inserting' \/ x \in peers'[q]
    BY <2>1, <2>3 DEF Quiet, GreetsAll
  <2>5. listed' = listed /\ serving \subseteq serving'
    BY <2>1 DEF Quiet
  <2> QED
    BY <1>1, <1>2, <2>2, <2>3, <2>4, <2>5 DEF GreetsAll, Joining
<1>3. CASE at[x] \in {"unlock"} \cup Joining
  <2>1. serving \subseteq serving' /\ listed' \subseteq listed \cup serving
    BY <1>3, ListedStay DEF Starting
  <2>2. at[x] \notin {"down", "lock", "expired", "connect", "announce", "greet"}
    BY <1>3 DEF Joining
  <2> QED
    BY <1>1, <1>3, <2>1, <2>2 DEF GreetsAll
<1>4. CASE at[x] \notin {"announce", "greet", "unlock"} \cup Joining
  BY <1>1, <1>4 DEF GreetsAll, Joining
<1> QED
  BY <1>2, <1>3, <1>4

\* ... and whatever it does itself.
LEMMA GreetsAllOwn ==
  ASSUME UsersKeepApart, StartupTypes, LockKept, \A q \in Processes : ServingFits(q),
         NEW x \in Processes, GreetsAll(x), HubStep(x) \/ Start(x) \/ Kill(x) \/ Crash(x)
  PROVE  GreetsAll(x)'
<1>1. ASSUME NEW place, Goes(x, place),
             place \in {"down", "lock", "expired", "connect"} =>
               at[x] \in {"down", "lock", "expired", "connect"},
             place \in {"unlock"} \cup Joining => at[x] \in {"unlock"} \cup Joining,
             place = "choose" => at[x] = "look_unlock",
             place \notin {"announce", "greet", "look_unlock"},
             UNCHANGED <<listed, lost, found>>, serving \subseteq serving' \/ place \in {"crashed", "leave_lock"}
      PROVE  GreetsAll(x)'
  <2>1. at'[x] = place
    BY <1>1 DEF Goes, StartupTypes
  <2>2. "crashed" \notin {"unlock"} \cup Joining /\ "leave_lock" \notin {"unlock"} \cup Joining
        /\ "choose" \in Joining
    BY DEF Joining
  <2> QED
    BY <1>1, <2>1, <2>2 DEF GreetsAll
<1>2. CASE Lock(x)
  <2>1. at[x] \in Waiting /\ Goes(x, Entered[at[x]]) /\ UNCHANGED <<listed, lost, found, serving>>
    BY <1>2 DEF Lock, hubVars
  <2>2. \/ at[x] = "lock" /\ Goes(x, "connect")
        \/ at[x] = "look_lock" /\ Goes(x, "look")
        \/ at[x] = "leave_lock" /\ Goes(x, "leave")
    BY <2>1 DEF Entered, Waiting
  <2> QED
    BY <1>1, <2>1, <2>2 DEF Joining
<1>3. CASE TimeOut(x)
  <2>1. at[x] \in Waiting /\ Goes(x, Expired[at[x]]) /\ UNCHANGED <<listed, lost, found, serving>>
    BY <1>3 DEF TimeOut, hubVars
  <2>2. \/ at[x] = "lock" /\ Goes(x, "expired")
        \/ at[x] = "look_lock" /\ Goes(x, "look_expired")
        \/ at[x] = "leave_lock" /\ Goes(x, "leave_expired")
    BY <2>1 DEF Expired, Waiting
  <2> QED
    BY <1>1, <2>1, <2>2 DEF Joining
<1>4. CASE ForceUnlock(x)
  <2>1. PICK w \in Waiting : at[x] = Expired[w] /\ (Goes(x, "aborted") \/ Goes(x, w))
                             /\ UNCHANGED <<listed, lost, found, serving>>
    BY <1>4 DEF ForceUnlock, hubVars
  <2>2. \/ w = "lock" /\ at[x] = "expired"
        \/ w = "look_lock" /\ at[x] = "look_expired"
        \/ w = "leave_lock" /\ at[x] = "leave_expired"
    BY <2>1 DEF Expired, Waiting
  <2> QED
    BY <1>1, <2>1, <2>2 DEF Joining
<1>5. CASE UnlockInit(x) \/ Unlock(x, "look_unlock", "choose") \/ Unlock(x, "leave_unlock", "gone")
  BY <1>1, <1>5 DEF UnlockInit, Unlock, Joining, hubVars
<1>6. CASE CreateMetatable(x) \/ JoinMetatable(x) \/ Finish(x) \/ Start(x)
  BY <1>1, <1>6 DEF CreateMetatable, JoinMetatable, Finish, Start, Joining, hubVars
<1>7. CASE Kill(x) \/ Terminate(x) \/ Crash(x)
  BY <1>1, <1>7 DEF Kill, Terminate, Crash, Joining, hubVars
<1>8. CASE Leave(x)
  <2>1. at'[x] = "leave_unlock"
    BY <1>8 DEF Leave, Goes, StartupTypes
  <2> QED
    BY <2>1 DEF GreetsAll, Joining
<1>9. CASE Connect(x)
  <2>1. at[x] = "connect" /\ at'[x] = "announce" /\ \A q \in Processes \ {x} : at'[q] = at[q]
    BY <1>9 DEF Connect, Goes, StartupTypes
  <2>2. lost'[x] = {} /\ listed' = listed /\ peers'[x] = peers[x] \cup (listed \ {x})
    BY <1>9, <2>1 DEF Connect, Others, GreetsAll, StartupTypes
  <2>3. \A q \in Processes \ {x} : Settled(q)' => q \in listed
    BY <2>1 DEF Settled, ServingFits
  <2> QED
    BY <2>1, <2>2, <2>3 DEF GreetsAll, Joining
<1>10. CASE Announce(x)
  <2>1. at[x] = "announce" /\ at'[x] = "greet" /\ \A q \in Processes \ {x} : at'[q] = at[q]
    BY <1>10 DEF Announce, Goes, StartupTypes
  <2>2. listed' = listed \cup {x} /\ greeting'[x] = peers[x] /\ UNCHANGED <<peers, lost, serving>>
    BY <1>10 DEF Announce, StartupTypes
  <2>3. \A q \in Processes \ {x} : Settled(q)' => q \in peers[x] \ lost[x]
    BY <2>1 DEF Settled, GreetsAll
  <2>4. x \in serving /\ listed \ {x} \subseteq peers[x]
    BY <2>1 DEF ServingFits, Starting, GreetsAll
  <2> QED
    BY <2>1, <2>2, <2>3, <2>4 DEF GreetsAll, Joining
<1>11. ASSUME NEW q \in Processes, Greet(x, q) PROVE GreetsAll(x)'
  <2>1. /\ at[x] = "greet" /\ UNCHANGED <<at, serving, peers>> /\ greeting'[x] = greeting[x] \ {q}
        /\ \/ q \in serving /\ inserting' = inserting \cup {<<q, x>>} /\ UNCHANGED <<listed, lost>>
           \/ /\ q \notin serving /\ listed' = listed \ {q} /\ lost'[x] = lost[x] \cup {q}
              /\ UNCHANGED inserting
    BY <1>11 DEF Greet, discoveryHandler, Removed, InTime, UsersKeepApart, StartupTypes
  <2>2. \A r \in Processes : (Settled(r)' <=> Settled(r)) /\ (Settled(r) => r \in serving)
    BY <2>1 DEF Settled, ServingFits, Starting
  <2>3. listed' \ greeting'[x] \subseteq serving
    BY <2>1 DEF GreetsAll
  <2>4. \A r \in Processes \ {x} : Settled(r) => r \in peers[x] \ lost'[x]
    BY <2>1, <2>2 DEF GreetsAll
  <2>5. \A r \in Processes \ {x} :
          Settled(r) => r \in greeting'[x] \/ <<r, x>> \in inserting' \/ x \in peers[r]
    BY <2>1, <2>2 DEF GreetsAll
  <2> QED
    BY <2>1, <2>2, <2>3, <2>4, <2>5 DEF GreetsAll, Joining
<1>12. CASE Greeted(x)
  <2>1. /\ at[x] = "greet" /\ greeting[x] = {} /\ at'[x] = "unlock"
        /\ UNCHANGED <<listed, serving>>
    BY <1>12 DEF Greeted, Goes, StartupTypes
  <2> QED
    BY <2>1 DEF GreetsAll, Joining
<1>13. CASE Look(x)
  <2>1. /\ at[x] = "look" /\ found'[x] = listed \ {x} /\ at'[x] = "look_unlock"
        /\ UNCHANGED <<listed, serving>>
    BY <1>13 DEF Look, Others, Goes, StartupTypes
  <2> QED
    BY <2>1 DEF GreetsAll, Joining
<1>14. ASSUME NEW q \in Processes, AskReady(x, q) PROVE GreetsAll(x)'
  <2>1. at[x] = "choose" /\ at'[x] \in {"join", "aborted"} /\ UNCHANGED <<listed, serving>>
    BY <1>14 DEF AskReady, Goes, StartupTypes
  <2> QED
    BY <2>1 DEF GreetsAll, Joining
<1>15. ASSUME NEW q \in Processes, InsertPeer(x, q) PROVE GreetsAll(x)'
  <2>1. Quiet
    BY <1>15, QuietSteps DEF WithoutLock
  <2>2. UNCHANGED <<at, listed, serving, lost, greeting, found>>
    BY <1>15 DEF InsertPeer
  <2>3. \A r \in Processes \ {x} : Settled(r)' <=> Settled(r)
    BY <2>2 DEF Settled
  <2>4. peers[x] \subseteq peers'[x]
    BY <2>1 DEF Quiet
  <2>5. \A r \in Processes \ {x} : Settled(r) /\ (<<r, x>> \in inserting \/ x \in peers[r]) =>
          <<r, x>> \in inserting' \/ x \in peers'[r]
    BY <2>1 DEF Quiet
  <2> QED
    BY <2>2, <2>3, <2>4, <2>5 DEF GreetsAll
<1> QED
  BY <1>2, <1>3, <1>4, <1>5, <1>6, <1>7, <1>8, <1>9, <1>10, <1>11, <1>12, <1>13, <1>14, <1>15
     DEF HubStep

\* So every step keeps it.
LEMMA GreetsAllStep ==
  ASSUME UsersKeepApart, StartupTypes, LockKept, \A q \in Processes : ServingFits(q),
         NEW x \in Processes, GreetsAll(x), [Next]_vars
  PROVE  GreetsAll(x)'
<1>1. CASE UNCHANGED vars
  BY <1>1 DEF vars, GreetsAll, Settled
<1>2. CASE Next
  BY <1>2, GreetsAllOthers, GreetsAllOwn DEF Next
<1> QED
  BY <1>1, <1>2

--------------------------------------------------------------------------------
(* Processes that have been through Hub::init() are connected. *)

\* A step by which nobody gets through Hub::init().
LEMMA ConnectedStay ==
  ASSUME Connected,
         \A q \in Processes : Settled(q)' => Settled(q) /\ peers[q] \subseteq peers'[q],
         \A q, r \in Processes : Settled(q)' /\ <<q, r>> \in inserting =>
           <<q, r>> \in inserting' \/ r \in peers'[q]
  PROVE  Connected'
BY DEF Connected

\* Those that have been through stay peers of each other.
LEMMA ConnectedStep ==
  ASSUME UsersKeepApart, StartupTypes, \A q \in Processes : ServingFits(q) /\ GreetsAll(q),
         Connected, [Next]_vars
  PROVE  Connected'
<1>1. ASSUME NEW p \in Processes, NEW place, Goes(p, place),
             place \in SettledPlaces => at[p] \in SettledPlaces,
             UNCHANGED <<peers, inserting>>
      PROVE  Connected'
  <2>1. \A q \in Processes : at'[q] = IF q = p THEN place ELSE at[q]
    BY <1>1 DEF Goes, StartupTypes
  <2>2. \A q \in Processes : Settled(q)' => Settled(q)
    BY <1>1, <2>1 DEF Settled, SettledPlaces
  <2> QED
    BY <1>1, <2>2, ConnectedStay
<1>2. ASSUME NEW p \in Processes, WithoutLock(p) PROVE Connected'
  <2>1. Quiet
    BY <1>2, QuietSteps
  <2> QED
    BY <2>1, ConnectedStay DEF Quiet
<1>3. ASSUME NEW p \in Processes, Lock(p) PROVE Connected'
  <2>1. at[p] \in Waiting /\ Goes(p, Entered[at[p]]) /\ UNCHANGED <<peers, inserting>>
    BY <1>3 DEF Lock, hubVars
  <2>2. Entered[at[p]] \in SettledPlaces => at[p] \in SettledPlaces
    BY <2>1 DEF Entered, Waiting, SettledPlaces, Joining
  <2> QED
    BY <1>1, <2>1, <2>2
<1>4. ASSUME NEW p \in Processes, NEW from, NEW to,
             to \in SettledPlaces => from \in SettledPlaces, Unlock(p, from, to)
      PROVE  Connected'
  BY <1>1, <1>4 DEF Unlock, hubVars
<1>5. ASSUME NEW p \in Processes,
             \/ UnlockInit(p) \/ Unlock(p, "look_unlock", "choose")
             \/ Unlock(p, "leave_unlock", "gone")
      PROVE  Connected'
  <2>1. "unlock" \in SettledPlaces /\ "look_unlock" \in SettledPlaces /\ "gone" \notin SettledPlaces
    BY DEF SettledPlaces, Joining
  <2> QED
    BY <1>4, <1>5, <2>1 DEF UnlockInit
<1>6. ASSUME NEW p \in Processes, Announce(p) \/ Look(p) \/ Leave(p) \/ Kill(p) PROVE Connected'
  <2>1. \E place : /\ Goes(p, place) /\ UNCHANGED <<peers, inserting>>
                   /\ place \in SettledPlaces => at[p] \in SettledPlaces
    BY <1>6 DEF Announce, Look, Leave, Kill, hubVars, SettledPlaces, Joining
  <2> QED
    BY <1>1, <2>1
<1>7. ASSUME NEW p \in Processes, Connect(p) \/ Terminate(p) \/ Crash(p) PROVE Connected'
  <2>1. /\ at'[p] \in {"announce", "leave_lock", "crashed"}
        /\ \A q \in Processes \ {p} : at'[q] = at[q]
    BY <1>7 DEF Connect, Terminate, Crash, Goes, StartupTypes
  <2>2. \A q \in Processes \ {p} : peers'[q] = peers[q]
    BY <1>7 DEF Connect, Terminate, Crash, StartupTypes
  <2>3. \A i \in inserting : i[1] # p => i \in inserting'
    BY <1>7 DEF Connect, Terminate, Crash
  <2>4. ~Settled(p)'
    BY <2>1 DEF Settled, Joining
  <2>5. \A q \in Processes : Settled(q)' => q # p /\ Settled(q)
    BY <2>1, <2>4 DEF Settled
  <2> QED
    BY <2>2, <2>3, <2>5, ConnectedStay
<1>8. ASSUME NEW p \in Processes, NEW q \in Processes, Greet(p, q) PROVE Connected'
  <2>1. UNCHANGED <<at, peers>> /\ inserting \subseteq inserting'
    BY <1>8 DEF Greet, discoveryHandler
  <2> QED
    BY <2>1, ConnectedStay DEF Settled
<1>9. ASSUME NEW p \in Processes, Greeted(p) PROVE Connected'
  <2>1. /\ at[p] = "greet" /\ greeting[p] = {} /\ UNCHANGED inserting
        /\ at'[p] = "unlock" /\ \A q \in Processes \ {p} : at'[q] = at[q]
        /\ peers'[p] = peers[p] \ lost[p] /\ \A q \in Processes \ {p} : peers'[q] = peers[q]
    BY <1>9 DEF Greeted, Goes, StartupTypes
  <2>2. \A q \in Processes \ {p} : Settled(q)' <=> Settled(q)
    BY <2>1 DEF Settled
  <2>3. ASSUME NEW q \in Processes \ {p}, Settled(q)'
        PROVE  q \in peers'[p] /\ (<<q, p>> \in inserting \/ p \in peers'[q])
    BY <2>1, <2>2, <2>3 DEF GreetsAll
  <2> QED
    BY <2>1, <2>2, <2>3 DEF Connected
<1>10. CASE UNCHANGED vars
  BY <1>10, ConnectedStay DEF vars, Settled
<1> QED
  BY <1>2, <1>3, <1>5, <1>6, <1>7, <1>8, <1>9, <1>10 DEF Next, HubStep, WithoutLock

--------------------------------------------------------------------------------
(* The metatable. *)

\* A step by which nobody new becomes the first, and nobody new chooses whom to join.
LEMMA MetatableStays ==
  ASSUME MetatableFits, NEW p \in Processes,
         \A q \in Processes \ {p} : /\ at'[q] = at[q] /\ first'[q] = first[q]
                                    /\ found'[q] = found[q] /\ metatable'[q] = metatable[q],
         MayCreate(p)' => MayCreate(p),
         at'[p] \in {"join", "finish", "ready"} =>
           at[p] \in {"join", "finish", "ready"} \/ MayCreate(p),
         metatable'[p] # NoProcess <=> at'[p] \in {"finish", "ready"},
         at[p] = "ready" => at'[p] = "ready" \/ \A q \in Processes \ {p} : at[q] # "join",
         at'[p] = "join" => at[p] = "join" /\ found'[p] = found[p]
  PROVE  MetatableFits'
<1>1. \A q \in Processes \ {p} : MayCreate(q)' <=> MayCreate(q)
  BY DEF MayCreate
<1>2. \A q, r \in Processes : MayCreate(q)' /\ q # r =>
        ~MayCreate(r)' /\ at'[r] \notin {"join", "finish", "ready"}
  BY <1>1 DEF MetatableFits
<1>3. \A q \in Processes : metatable'[q] # NoProcess <=> at'[q] \in {"finish", "ready"}
  BY DEF MetatableFits
<1>4. ASSUME NEW q \in Processes, at'[q] = "join"
      PROVE  \E r \in Processes : found'[q] = {r} /\ at'[r] = "ready"
  <2>1. at[q] = "join" /\ found'[q] = found[q]
    BY <1>4
  <2>2. PICK r \in Processes : found[q] = {r} /\ at[r] = "ready"
    BY <2>1 DEF MetatableFits
  <2>3. at'[r] = "ready"
    BY <2>1, <2>2
  <2> QED
    BY <2>1, <2>2, <2>3
<1> QED
  BY <1>2, <1>3, <1>4 DEF MetatableFits

\* Only the first process may create the metatable, after every step.
LEMMA MetatableFitsStep ==
  ASSUME UsersKeepApart, StartupTypes, LockKept, \A q \in Processes : ServingFits(q) /\ GreetsAll(q),
         MetatableFits, [Next]_vars
  PROVE  MetatableFits'
<1> DEFINE Step(p) == HubStep(p) \/ Start(p) \/ Kill(p) \/ Crash(p)
<1>1. ASSUME NEW p \in Processes, Step(p)
      PROVE  \A q \in Processes \ {p} : /\ at'[q] = at[q] /\ first'[q] = first[q]
                                        /\ found'[q] = found[q] /\ metatable'[q] = metatable[q]
  BY <1>1, OthersKnow
<1>2. ASSUME NEW p \in Processes, Step(p), UNCHANGED <<first, metatable>>, NEW place, Goes(p, place),
             place \notin {"create", "unlock", "join", "finish", "ready"},
             at[p] \notin {"finish", "ready"}
      PROVE  MetatableFits'
  <2>1. at'[p] = place
    BY <1>2 DEF Goes, StartupTypes
  <2>2. metatable[p] = NoProcess
    BY <1>2 DEF MetatableFits
  <2> QED
    BY <1>1, <1>2, <2>1, <2>2, MetatableStays DEF MayCreate
<1>3. ASSUME NEW p \in Processes, Lock(p) \/ TimeOut(p) PROVE MetatableFits'
  <2>1. /\ at[p] \in Waiting /\ UNCHANGED <<first, metatable>>
        /\ Goes(p, Entered[at[p]]) \/ Goes(p, Expired[at[p]])
    BY <1>3 DEF Lock, TimeOut, hubVars
  <2>2. \A w \in Waiting : /\ Entered[w] \in {"connect", "look", "leave"}
                           /\ Expired[w] \in ExpiredPlaces
    BY DEF Waiting, Entered, Expired, ExpiredPlaces
  <2>3. PICK place \in {"connect", "look", "leave"} \cup ExpiredPlaces : Goes(p, place)
    BY <2>1, <2>2
  <2> QED
    BY <1>2, <1>3, <2>1, <2>3 DEF Waiting, ExpiredPlaces, HubStep
<1>4. ASSUME NEW p \in Processes, ForceUnlock(p) PROVE MetatableFits'
  <2>1. PICK w \in Waiting : /\ at[p] = Expired[w] /\ UNCHANGED <<first, metatable>>
                             /\ Goes(p, "aborted") \/ Goes(p, w)
    BY <1>4 DEF ForceUnlock, hubVars
  <2>2. at[p] \in ExpiredPlaces
    BY <2>1, LockPlaces
  <2> QED
    BY <1>2, <1>4, <2>1, <2>2 DEF Waiting, ExpiredPlaces, HubStep
<1>5. ASSUME NEW p \in Processes,
             \/ Start(p) \/ Connect(p) \/ Announce(p) \/ Look(p) \/ Terminate(p) \/ Leave(p)
             \/ Unlock(p, "look_unlock", "choose") \/ Unlock(p, "leave_unlock", "gone")
      PROVE  MetatableFits'
  <2>1. /\ UNCHANGED <<first, metatable>> /\ at[p] \notin {"finish", "ready"}
        /\ \E place : /\ Goes(p, place)
                      /\ place \notin {"create", "unlock", "join", "finish", "ready"}
    BY <1>5 DEF Start, Connect, Announce, Look, Terminate, Leave, Unlock, hubVars
  <2> QED
    BY <1>2, <1>5, <2>1 DEF HubStep
<1>6. ASSUME NEW p \in Processes, UnlockInit(p) PROVE MetatableFits'
  <2>1. /\ at[p] = "unlock" /\ UNCHANGED <<first, metatable>>
        /\ at'[p] = IF first[p] THEN "create" ELSE "look_lock"
    BY <1>6 DEF UnlockInit, Unlock, Goes, StartupTypes, hubVars
  <2>2. MayCreate(p)' => MayCreate(p)
    BY <2>1 DEF MayCreate
  <2>3. metatable[p] = NoProcess
    BY <2>1 DEF MetatableFits
  <2> QED
    BY <1>1, <1>6, <2>1, <2>2, <2>3, MetatableStays DEF HubStep
<1>7. ASSUME NEW p \in Processes, CreateMetatable(p) \/ JoinMetatable(p) \/ Finish(p)
      PROVE  MetatableFits'
  <2>1. /\ at[p] \in {"create", "join", "finish"} /\ at'[p] \in {"finish", "ready", "aborted"}
        /\ metatable'[p] # NoProcess <=> at'[p] \in {"finish", "ready"}
    <3>1. CASE CreateMetatable(p)
      BY <3>1, StartupAssumption DEF CreateMetatable, Goes, StartupTypes
    <3>2. CASE JoinMetatable(p)
      BY <3>2 DEF JoinMetatable, Goes, StartupTypes, MetatableFits
    <3>3. CASE Finish(p)
      BY <3>3 DEF Finish, Goes, StartupTypes, MetatableFits, hubVars
    <3> QED
      BY <1>7, <3>1, <3>2, <3>3
  <2>2. ~MayCreate(p)' /\ (at[p] = "create" => MayCreate(p))
    BY <2>1 DEF MayCreate
  <2> QED
    BY <1>1, <1>7, <2>1, <2>2, MetatableStays DEF HubStep
<1>8. ASSUME NEW p \in Processes, Kill(p) \/ Crash(p) PROVE MetatableFits'
  <2>1. /\ at'[p] \in {"tables_left", "crashed"} /\ metatable'[p] = NoProcess
        /\ \A q \in Processes \ {p} : at[q] \notin Starting
    BY <1>8 DEF Kill, Crash, Goes, StartupTypes, DeparturesApart, UsersKeepApart
  <2>2. ~MayCreate(p)'
    BY <2>1 DEF MayCreate
  <2>3. "join" \in Starting
    BY DEF Starting, Joining
  <2> QED
    BY <1>1, <1>8, <2>1, <2>2, <2>3, MetatableStays
<1>9. ASSUME NEW p \in Processes, Greeted(p) PROVE MetatableFits'
  <2>1. /\ at[p] = "greet" /\ at'[p] = "unlock" /\ metatable'[p] = metatable[p]
        /\ first'[p] = (peers[p] \ lost[p] = {})
    BY <1>9 DEF Greeted, Goes, StartupTypes
  <2>2. \A q \in Processes \ {p} : /\ at'[q] = at[q] /\ first'[q] = first[q]
                                   /\ found'[q] = found[q] /\ metatable'[q] = metatable[q]
    BY <1>1, <1>9 DEF HubStep
  <2>3. metatable'[p] = NoProcess
    BY <2>1 DEF MetatableFits
  <2>4. CASE first'[p]
    <3>1. \A q \in Processes \ {p} : ~Settled(q)
      BY <2>1, <2>4 DEF GreetsAll
    <3>2. \A q \in Processes \ {p} :
            ~MayCreate(q) /\ at[q] \notin {"create", "unlock", "join", "finish", "ready"}
      BY <3>1 DEF Settled, Joining, MayCreate
    <3>3. \A q \in Processes \ {p} : ~MayCreate(q)'
      BY <2>2, <3>2 DEF MayCreate
    <3> QED
      BY <2>1, <2>2, <2>3, <3>2, <3>3 DEF MetatableFits
  <2>5. CASE ~first'[p]
    <3>1. ~MayCreate(p)'
      BY <2>1, <2>5 DEF MayCreate
    <3> QED
      BY <2>1, <2>2, <2>3, <3>1, MetatableStays
  <2> QED
    BY <2>4, <2>5
<1>10. ASSUME NEW p \in Processes, NEW q \in Processes, AskReady(p, q) PROVE MetatableFits'
  <2>1. /\ at[p] = "choose" /\ (q \in serving => Initialized(q))
        /\ metatable'[p] = metatable[p]
        /\ \/ q \in serving /\ found'[p] = {q} /\ at'[p] = "join"
           \/ at'[p] = "aborted"
    BY <1>10 DEF AskReady, Goes, StartupTypes
  <2>2. \A r \in Processes \ {p} : /\ at'[r] = at[r] /\ first'[r] = first[r]
                                   /\ found'[r] = found[r] /\ metatable'[r] = metatable[r]
    BY <1>1, <1>10 DEF HubStep
  <2>3. ~MayCreate(p)' /\ metatable'[p] = NoProcess
    BY <2>1 DEF MayCreate, MetatableFits
  <2>4. CASE at'[p] = "aborted"
    BY <2>1, <2>2, <2>3, <2>4, MetatableStays
  <2>5. CASE q \in serving /\ found'[p] = {q} /\ at'[p] = "join"
    <3>1. Initialized(q) /\ ~Gone(q) /\ q # p
      BY <2>1, <2>5 DEF ServingFits, Initialized
    <3>2. at[q] # "tables_left"
      BY <2>1 DEF ServingFits, Starting, Joining
    <3>3. at[q] = "ready"
      BY <3>1, <3>2 DEF Initialized, Gone
    <3>4. \A r \in Processes : ~MayCreate(r)
      BY <3>3 DEF MetatableFits, MayCreate
    <3>5. \A r \in Processes : ~MayCreate(r)'
      BY <2>2, <2>3, <3>4 DEF MayCreate
    <3>6. ASSUME NEW r \in Processes, at'[r] = "join"
          PROVE  \E s \in Processes : found'[r] = {s} /\ at'[s] = "ready"
      <4>1. CASE r = p
        BY <2>2, <2>5, <3>1, <3>3, <4>1
      <4>2. CASE r # p
        <5>1. PICK s \in Processes : found[r] = {s} /\ at[s] = "ready"
          BY <2>2, <3>6, <4>2 DEF MetatableFits
        <5> QED
          BY <2>1, <2>2, <4>2, <5>1
      <4> QED
        BY <4>1, <4>2
    <3> QED
      BY <2>2, <2>3, <2>5, <3>5, <3>6 DEF MetatableFits
  <2> QED
    BY <2>1, <2>4, <2>5
<1>11. ASSUME UNCHANGED <<at, first, found, metatable>> PROVE MetatableFits'
  BY <1>11 DEF MetatableFits, MayCreate
<1>12. ASSUME NEW p \in Processes, NEW q \in Processes, Greet(p, q) \/ InsertPeer(p, q)
       PROVE  MetatableFits'
  BY <1>11, <1>12 DEF Greet, InsertPeer
<1>13. CASE UNCHANGED vars
  BY <1>11, <1>13 DEF vars
<1> QED
  BY <1>3, <1>4, <1>5, <1>6, <1>7, <1>8, <1>9, <1>10, <1>12, <1>13 DEF Next, HubStep

\* No second metatable is created.
LEMMA OneMetatableStep ==
  ASSUME StartupTypes, MetatableFits, OneMetatable, [Next]_vars
  PROVE  OneMetatable'
<1>1. ASSUME NEW p \in Processes, CreateMetatable(p) PROVE OneMetatable'
  <2>1. MayCreate(p) /\ \A q \in Processes \ {p} : metatable'[q] = metatable[q]
    BY <1>1 DEF CreateMetatable, MayCreate, StartupTypes
  <2>2. \A q \in Processes \ {p} : metatable[q] = NoProcess
    BY <2>1 DEF MetatableFits
  <2> QED
    BY <2>1, <2>2 DEF OneMetatable
<1>2. ASSUME NEW p \in Processes, JoinMetatable(p) PROVE OneMetatable'
  BY <1>2 DEF JoinMetatable, OneMetatable, StartupTypes
<1>3. ASSUME NEW p \in Processes, Kill(p) \/ Crash(p) PROVE OneMetatable'
  BY <1>3 DEF Kill, Crash, OneMetatable, StartupTypes
<1>4. ASSUME UNCHANGED metatable PROVE OneMetatable'
  BY <1>4 DEF OneMetatable
<1>5. ASSUME NEW p \in Processes, HubStep(p), ~CreateMetatable(p), ~JoinMetatable(p)
      PROVE  UNCHANGED metatable
  BY <1>5 DEF HubStep, Lock, TimeOut, ForceUnlock, Connect, Announce, Greeted, UnlockInit, Unlock,
     Look, Finish, Terminate, Leave, Greet, AskReady, InsertPeer, hubVars
<1>6. ASSUME NEW p \in Processes, Start(p) PROVE UNCHANGED metatable
  BY <1>6 DEF Start, hubVars
<1> QED
  BY <1>1, <1>2, <1>3, <1>4, <1>5, <1>6 DEF Next, vars

--------------------------------------------------------------------------------
(* The theorems. *)

\* When no process runs, the invariant holds.
LEMMA StartInvInit == Init => StartInv
<1> SUFFICES ASSUME Init PROVE StartInv
  OBVIOUS
<1> USE DEF Init
<1>1. \A p \in Processes : at[p] = "down" /\ metatable[p] = NoProcess /\ lost[p] = {}
  OBVIOUS
<1>2. "down" \notin {"unlock", "ready"} \cup Joining /\ "down" \notin Inside /\ "down" \notin Starting
  BY DEF Joining, Inside, Starting
<1>3. StartupTypes
  BY DEF StartupTypes, Places
<1>4. LockKept
  BY <1>1, <1>2, StartupAssumption, LockPlaces DEF LockKept, ExpiredPlaces
<1>5. Connected
  BY <1>1, <1>2 DEF Connected, Settled
<1>6. MetatableFits
  BY <1>1 DEF MetatableFits, MayCreate
<1>7. OneMetatable
  BY <1>1 DEF OneMetatable
<1>8. ASSUME NEW p \in Processes PROVE ServingFits(p) /\ GreetsAll(p)
  <2>1. ~Settled(p) /\ ~Gone(p)
    BY <1>1, <1>2 DEF Settled, Gone
  <2> QED
    BY <1>1, <1>2, <2>1 DEF ServingFits, GreetsAll, Joining
<1> QED
  BY <1>3, <1>4, <1>5, <1>6, <1>7, <1>8 DEF StartInv

\* The invariant is inductive.
LEMMA StartInvStep ==
  ASSUME UsersKeepApart, StartInv, [Next]_vars
  PROVE  StartInv'
<1> USE DEF StartInv
<1>1. StartupTypes' /\ LockKept'
  BY TypesStep, LockKeptStep
<1>2. \A p \in Processes : ServingFits(p)' /\ GreetsAll(p)'
  BY ServingFitsStep, GreetsAllStep
<1>3. Connected' /\ MetatableFits' /\ OneMetatable'
  BY ConnectedStep, MetatableFitsStep, OneMetatableStep
<1> QED
  BY <1>1, <1>2, <1>3

\* The lock of the discovery has one holder at most, who sees everybody that has been through
\* before; nobody goes while a process starts; and the first process alone creates the
\* metatable: for any number of processes and of crashes, and both discoveries (Discovery::lock,
\* Hub::init, NetTableManager::initMetatable).
THEOREM StartInvariant ==
  ASSUME UsersKeepApart
  PROVE  Spec => []StartInv
<1>1. Init => StartInv
  BY StartInvInit
<1>2. StartInv /\ [Next]_vars => StartInv'
  BY StartInvStep
<1> QED
  BY <1>1, <1>2, PTL DEF Spec

\* All processes share one metatable, however many start at the same time
\* (Hub::init, step 5; NetTableManager::initMetatable).
THEOREM MetatableIsOne ==
  ASSUME UsersKeepApart
  PROVE  Spec => []OneMetatable
<1>1. StartInv => OneMetatable
  BY DEF StartInv
<1> QED
  BY <1>1, StartInvariant, PTL

\* Processes that are ready are listed and are each other's peers, but for
\* those that a thread of discoveryHandler is about to insert (Hub::init, steps 3 and 4).
THEOREM ReadyFindEachOther ==
  ASSUME UsersKeepApart
  PROVE  Spec => []ReadyArePeers
<1>1. StartInv => ReadyArePeers
  BY DEF StartInv, ReadyArePeers, Connected, ServingFits, Settled
<1> QED
  BY <1>1, StartInvariant, PTL

--------------------------------------------------------------------------------
(* What ends a process by a CHECK or a LOG(FATAL). *)

\* The one thing that does: the process removes a lock file for the second time.
LEMMA OnlyTakeoversFail ==
  ASSUME UsersKeepApart, StartInv, [Next]_vars
  PROVE  \/ aborted' = aborted
         \/ \E p \in Processes : p \in forced /\ lockedBy \in crashed /\ ForceUnlock(p)
<1> USE DEF StartInv
<1>1. ASSUME NEW p \in Processes, ForceUnlock(p)
      PROVE  aborted' = aborted \/ (p \in forced /\ lockedBy \in crashed)
  <2>1. at[p] \in ExpiredPlaces
    BY <1>1, LockPlaces DEF ForceUnlock
  <2>2. lockedBy \in crashed /\ lockedBy # NoProcess
    BY <2>1, LockPlaces, StartupAssumption DEF LockKept, StartupTypes
  <2> QED
    BY <1>1, <2>2 DEF ForceUnlock
<1>2. ASSUME NEW p \in Processes, NEW from \in Inside, NEW to, Unlock(p, from, to)
      PROVE  aborted' = aborted
  BY <1>2 DEF Unlock, LockKept
<1>3. ASSUME NEW p \in Processes,
             UnlockInit(p) \/ Unlock(p, "look_unlock", "choose") \/ Unlock(p, "leave_unlock", "gone")
      PROVE  aborted' = aborted
  <2>1. "unlock" \in Inside /\ "look_unlock" \in Inside /\ "leave_unlock" \in Inside
    BY DEF Inside
  <2> QED
    BY <1>2, <1>3, <2>1 DEF UnlockInit
<1>4. ASSUME NEW p \in Processes, NEW q \in Processes, InsertPeer(p, q) PROVE aborted' = aborted
  <2>1. at[p] # "gone"
    BY <1>4 DEF InsertPeer, ServingFits, Gone
  <2> QED
    BY <1>4, <2>1 DEF InsertPeer
<1>5. ASSUME NEW p \in Processes, NEW q \in Processes, AskReady(p, q) PROVE aborted' = aborted
  <2>1. q \in serving
    BY <1>5 DEF AskReady, GreetsAll
  <2> QED
    BY <1>5, <2>1 DEF AskReady
<1>6. ASSUME NEW p \in Processes, JoinMetatable(p) PROVE aborted' = aborted
  <2>1. PICK q \in Processes : found[p] = {q} /\ at[q] = "ready"
    BY <1>6 DEF JoinMetatable, MetatableFits
  <2>2. q \in serving /\ metatable[q] # NoProcess
    BY <2>1 DEF ServingFits, MetatableFits
  <2> QED
    BY <1>6, <2>1, <2>2 DEF JoinMetatable
<1>7. ASSUME NEW p \in Processes,
             \/ Start(p) \/ Lock(p) \/ TimeOut(p) \/ Connect(p) \/ Announce(p) \/ Greeted(p)
             \/ CreateMetatable(p) \/ Look(p) \/ Finish(p) \/ Kill(p) \/ Terminate(p) \/ Leave(p)
             \/ Crash(p) \/ \E q \in Processes : Greet(p, q)
      PROVE  aborted' = aborted
  BY <1>7 DEF Start, Lock, TimeOut, Connect, Announce, Greeted, CreateMetatable, Look, Finish,
     Kill, Terminate, Leave, Crash, Greet
<1> QED
  BY <1>1, <1>3, <1>4, <1>5, <1>6, <1>7 DEF Next, HubStep, vars

\* A takeover is due to a crash; if no other process crashes it is the last one.
LastTakeover == forced # {} => crashed # {} /\ lockedBy \notin crashed

\* A second takeover takes a second crash.
LEMMA LastTakeoverStep ==
  ASSUME Crashes <= 1, StartInv, LastTakeover, [Next]_vars
  PROVE  LastTakeover'
<1> USE DEF StartInv
<1>1. NoProcess \notin crashed /\ IsFiniteSet(crashed)
  BY StartupAssumption, FS_Subset DEF StartupTypes
<1>2. ASSUME NEW p \in Processes, Lock(p) PROVE LastTakeover'
  <2>1. p \notin crashed
    BY <1>2 DEF Lock, LockKept, Waiting
  <2> QED
    BY <1>2, <2>1 DEF Lock, LastTakeover
<1>3. ASSUME NEW p \in Processes, ForceUnlock(p) PROVE LastTakeover'
  <2>1. lockedBy \in crashed
    BY <1>3, LockPlaces DEF ForceUnlock, LockKept
  <2> QED
    BY <1>1, <1>3, <2>1 DEF ForceUnlock, LastTakeover, Unlinked, lockVars
<1>4. ASSUME NEW p \in Processes, Crash(p) PROVE LastTakeover'
  <2>1. Cardinality(crashed) \in Nat /\ Cardinality(crashed) < Crashes
    BY <1>1, <1>4, FS_CardinalityType DEF Crash
  <2>2. crashed = {}
    BY <1>1, <2>1, StartupAssumption, FS_EmptySet
  <2> QED
    BY <1>4, <2>2 DEF Crash, LastTakeover, lockVars
<1>5. ASSUME NEW p \in Processes,
             UnlockInit(p) \/ Unlock(p, "look_unlock", "choose") \/ Unlock(p, "leave_unlock", "gone")
      PROVE  LastTakeover'
  BY <1>1, <1>5 DEF UnlockInit, Unlock, LastTakeover
<1>6. ASSUME UNCHANGED <<forced, crashed, lockedBy>> PROVE LastTakeover'
  BY <1>6 DEF LastTakeover
<1>7. ASSUME NEW p \in Processes,
             \/ Start(p) \/ TimeOut(p) \/ Connect(p) \/ Announce(p) \/ Greeted(p)
             \/ CreateMetatable(p) \/ JoinMetatable(p) \/ Look(p) \/ Finish(p) \/ Kill(p)
             \/ Terminate(p) \/ Leave(p)
             \/ \E q \in Processes : Greet(p, q) \/ AskReady(p, q) \/ InsertPeer(p, q)
      PROVE  LastTakeover'
  BY <1>6, <1>7 DEF Start, TimeOut, Connect, Announce, Greeted, CreateMetatable, JoinMetatable,
     Look, Finish, Kill, Terminate, Leave, Greet, AskReady, InsertPeer, lockVars
<1> QED
  BY <1>2, <1>3, <1>4, <1>5, <1>6, <1>7 DEF Next, HubStep, vars

\* As long as no more than one process crashes, no CHECK and no LOG(FATAL) ends a process that
\* starts or leaves. A second lock that is left behind is fatal to the process that has taken
\* over the first (FileDiscovery::lock, force_unlocked_once_).
THEOREM StartsNeverFail ==
  ASSUME UsersKeepApart, Crashes <= 1
  PROVE  Spec => []StartupChecks
<1> DEFINE NobodyFails == LastTakeover /\ aborted = {}
<1>1. Init => NobodyFails
  BY DEF Init, LastTakeover
<1>2. ASSUME StartInv, LastTakeover, aborted = {}, [Next]_vars
      PROVE  LastTakeover' /\ aborted' = {}
  <2>1. LastTakeover'
    BY <1>2, LastTakeoverStep
  <2>2. ~\E p \in Processes : p \in forced /\ lockedBy \in crashed
    BY <1>2 DEF LastTakeover
  <2>3. aborted' = aborted
    BY <1>2, <2>2, OnlyTakeoversFail
  <2> QED
    BY <1>2, <2>1, <2>3
<1>3. StartInv /\ NobodyFails /\ [Next]_vars => NobodyFails'
  BY <1>2
<1>4. StartInv /\ NobodyFails => StartupChecks
  BY DEF StartInv, StartupChecks
<1> HIDE DEF NobodyFails
<1> QED
  BY <1>1, <1>3, <1>4, StartInvariant, PTL DEF Spec

================================================================================
