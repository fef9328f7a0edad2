---------------------------- MODULE StartupProofs ---------------------------
(***************************************************************************)
(* For any number of processes that initialise or look up one project, any *)
(* schema version, timeout and amount of trouble: a project appears whole  *)
(* and stays whole, a migration is all or nothing, an initialisation that  *)
(* succeeds leaves a usable project, and a retry loop honours its deadline.*)
(*                                                                         *)
(* The argument is rely-guarantee.  Relies(p) is what process p counts on  *)
(* where it stands; Grows is all that any step does to the directories;    *)
(* Keeps(q) says that a step is not one of process q.  Every action of p   *)
(* establishes what p relies on next, and Grows and Keeps(q) together      *)
(* leave alone what q relies on (KeepsRelies).                             *)
(***************************************************************************)
EXTENDS Startup, TLAPS

InitLabels ==
  {"start", "stage", "publish", "complete", "first-marker", "first-db", "wal", "begin",
   "migrate", "validate", "integrity", "create-marker", "write-marker", "last-marker",
   "last-db", "cleanup"} \cup Ended

FindLabels == {"find", "found-marker", "found-db"} \cup Ended

\* Where the database is known to have been migrated, and where the target is
\* known to be there.
Migrated == {"integrity", "create-marker", "write-marker", "last-marker", "last-db"}

Opened == {"complete", "first-marker", "first-db", "wal", "begin", "migrate", "validate"}
            \cup Migrated

Shape ==
  /\ dirs \in [1 .. 2 -> Directories]
  /\ stage \in [Inits -> Directories]
  /\ tx \in [holder : Procs \cup {"nobody", "foreign"}, version : 0 .. Latest + 1]
  /\ pc \in [Procs -> InitLabels \cup FindLabels]
  /\ loc \in [Procs -> 1 .. 2]
  /\ seen \in [Procs -> Markers]
  /\ retry \in [Procs -> [slept : Nat, backoff : 1 .. MaxBackoff]]
  /\ signal \in [Procs -> SUBSET {"code", "context"}]
  /\ result \in [Procs -> Results]
  /\ budget \in Nat

\* What process p relies on where it stands.
Relies(p) ==
  /\ p \in Inits => pc[p] \in InitLabels /\ loc[p] = 1
  /\ p \notin Inits => pc[p] \in FindLabels
  /\ pc[p] \in Opened => dirs[1] # NoDir
  /\ pc[p] \in {"found-marker", "found-db"} => dirs[loc[p]] # NoDir
  /\ pc[p] = "publish" => stage[p] = Dir("ok", NewDb)
  /\ pc[p] \in {"begin", "migrate", "validate"} => dirs[1].db.version >= 0
  /\ pc[p] = "validate" => tx.version = Latest
  /\ pc[p] \in Migrated => dirs[1].db.version = Latest /\ dirs[1].db.sound
  /\ pc[p] = "last-marker" => dirs[1].marker # "absent"
  /\ pc[p] = "last-db" =>
        seen[p] # "absent" /\ (seen[p] = "ok" => dirs[1].marker = "ok")
  /\ tx.holder = p <=> pc[p] \in {"migrate", "validate"}
  /\ result[p] # "none" => pc[p] \in {"cleanup"} \cup Ended
  /\ p \in Inits /\ result[p] = "ok" => IsComplete(dirs[1])

\* RetryHonoursDeadline for one process.
InTime(p) ==
  /\ retry[p].slept <= Timeout
  /\ result[p] = "busy" => retry[p].slept = Timeout

SInv == Shape /\ \A p \in Procs : Relies(p) /\ InTime(p)

\* What any step may do to the directories.
Grows ==
  /\ dirs'[2] = dirs[2]
  /\ dirs[1] = NoDir => dirs'[1] \in {NoDir, Dir("ok", NewDb)}
  /\ dirs[1] # NoDir =>
        /\ dirs'[1] # NoDir
        /\ dirs'[1].db.sound = dirs[1].db.sound
        /\ dirs[1].marker # "absent" => dirs'[1].marker # "absent"
        /\ dirs[1].marker = "ok" => dirs'[1].marker = "ok"
        /\ \/ dirs'[1].db.version = dirs[1].db.version
           \/ dirs[1].db.version = -1 /\ dirs'[1].db.version = 0
           \/ dirs[1].db.sound /\ dirs'[1].db.version = Latest

\* The step is not one of process q.
Keeps(q) ==
  /\ pc'[q] = pc[q] /\ loc'[q] = loc[q] /\ seen'[q] = seen[q]
  /\ retry'[q] = retry[q] /\ result'[q] = result[q]
  /\ q \in Inits => stage'[q] = stage[q]
  /\ tx'.holder = q <=> tx.holder = q
  /\ tx.holder = q => tx'.version = tx.version

\* What a step of process p has to establish.
After(p) ==
  /\ Shape' /\ Grows /\ Relies(p)' /\ InTime(p)'
  /\ \A q \in Procs \ {p} : Keeps(q)

\* A directory that is there has a marker and a database.
DirRecords == [kind : {"dir"}, marker : Markers, db : Databases]

\* What the target can be.
LEMMA TargetFact ==
  ASSUME Shape, dirs[1] # NoDir
  PROVE  dirs[1] \in DirRecords
  BY DEF Shape, Directories, DirRecords

\* The directories a step may write.
LEMMA DirFacts ==
  /\ NoDir \in Directories
  /\ NewDb \in Databases
  /\ NoDb \in Databases
  /\ [NoDb EXCEPT !.version = 0] \in Databases
  /\ \A m \in Markers, d \in Databases : Dir(m, d) \in Directories /\ Dir(m, d) # NoDir
<1>1. NoDir \in Directories
  BY DEF Directories
<1>2. NewDb \in Databases
  BY StartupAssumption DEF NewDb, Databases
<1>3. NoDb \in Databases /\ [NoDb EXCEPT !.version = 0] \in Databases
  <2>1. NoDb \in Databases
    BY StartupAssumption DEF NoDb, Databases
  <2> QED BY <2>1, StartupAssumption DEF Databases
<1>4. ASSUME NEW m \in Markers, NEW d \in Databases
      PROVE  Dir(m, d) \in Directories /\ Dir(m, d) # NoDir
  <2>1. Dir(m, d).kind # NoDir.kind
    BY DEF Dir, NoDir
  <2> QED BY <2>1 DEF Dir, Directories
<1> QED BY <1>1, <1>2, <1>3, <1>4

\* What is whole stays whole.
LEMMA CompleteStays ==
  ASSUME Shape', Grows, IsComplete(dirs[1])
  PROVE  IsComplete(dirs'[1])
<1>1. dirs[1].kind = "dir" /\ NoDir.kind = "nodir"
  BY DEF IsComplete, NoDir
<1>2. dirs[1] # NoDir /\ dirs'[1] # NoDir
  BY <1>1 DEF Grows
<1>3. dirs[1].db.version = Latest /\ Latest # -1
  BY StartupAssumption DEF IsComplete
<1>4. dirs'[1].db.version = Latest
  BY <1>2, <1>3 DEF Grows
<1>5. dirs'[1].kind = "dir"
  BY <1>2 DEF Shape, Directories
<1>6. dirs'[1].marker = "ok"
  BY <1>2 DEF IsComplete, Grows
<1>7. dirs'[1].db.sound
  BY <1>2 DEF IsComplete, Grows
<1> QED BY <1>4, <1>5, <1>6, <1>7 DEF IsComplete

\* What a process relies on survives the steps of the others.
LEMMA KeepsRelies ==
  ASSUME Shape, Shape', Grows, NEW q \in Procs, Relies(q), InTime(q), Keeps(q)
  PROVE  Relies(q)' /\ InTime(q)'
<1>1. InTime(q)'
  BY DEF InTime, Keeps
<1>2. /\ dirs[1] # NoDir => dirs[1] \in DirRecords
      /\ dirs'[1] # NoDir => dirs'[1] \in DirRecords
  BY DEF Shape, Directories, DirRecords
<1>3. pc[q] \in {"begin", "migrate", "validate"} => dirs'[1].db.version >= 0
  BY <1>2, StartupAssumption DEF Relies, Grows, Opened, DirRecords, Databases
<1>4. pc[q] \in Migrated => dirs'[1].db.version = Latest /\ dirs'[1].db.sound
  BY <1>2, StartupAssumption DEF Relies, Grows, Opened, DirRecords, Databases
<1>5. IsComplete(dirs[1]) => IsComplete(dirs'[1])
  BY CompleteStays
<1>6. pc[q] \in {"found-marker", "found-db"} => dirs'[loc'[q]] # NoDir
  BY DEF Relies, Keeps, Grows, Shape
<1>7. pc[q] \in Opened => dirs'[1] # NoDir
  BY DEF Relies, Keeps, Grows, Shape
<1>8. pc[q] = "validate" => tx'.version = Latest
  BY DEF Relies, Keeps
<1>9. /\ pc[q] = "last-marker" => dirs'[1].marker # "absent"
      /\ pc[q] = "last-db" =>
           seen[q] # "absent" /\ (seen[q] = "ok" => dirs'[1].marker = "ok")
  BY DEF Relies, Grows, Opened, Migrated
<1>10. q \in Inits => pc[q] \in InitLabels /\ loc[q] = 1
  BY DEF Relies
<1>11. pc[q] = "publish" => stage'[q] = Dir("ok", NewDb)
  BY <1>10 DEF Relies, Keeps, FindLabels, Ended
<1>12. q \in Inits /\ result[q] = "ok" => IsComplete(dirs'[1])
  BY <1>5 DEF Relies
<1>13. /\ q \notin Inits => pc[q] \in FindLabels
       /\ tx'.holder = q <=> pc[q] \in {"migrate", "validate"}
       /\ result[q] # "none" => pc[q] \in {"cleanup"} \cup Ended
  BY DEF Relies, Keeps
<1> QED BY <1>1, <1>3, <1>4, <1>6, <1>7, <1>8, <1>9, <1>10, <1>11, <1>12, <1>13
        DEF Relies, Keeps

\* A call that returns and lets go of the transaction; only an initialiser has a
\* cleanup to run.
LEMMA ReturnAfter ==
  ASSUME SInv, NEW p \in Procs, NEW r \in Results \ {"none"}, Return(p, r),
         p \in Inits /\ r = "ok" => IsComplete(dirs'[1]),
         r = "busy" => retry[p].slept = Timeout,
         Grows, dirs' \in [1 .. 2 -> Directories],
         \/ tx' = tx /\ pc[p] \notin {"migrate", "validate"}
         \/ tx' = NoTx /\ pc[p] \in {"migrate", "validate"},
         budget' \in Nat,
         \A q \in Procs \ {p} : q \in Inits => stage'[q] = stage[q],
         stage' \in [Inits -> Directories],
         UNCHANGED <<loc, seen, retry, signal>>
  PROVE  After(p)
<1>1. Shape /\ Relies(p) /\ InTime(p)
  BY DEF SInv
<1>2. /\ pc' = [pc EXCEPT ![p] = IF p \in Inits THEN "cleanup" ELSE "done"]
      /\ result' = [result EXCEPT ![p] = r]
      /\ pc \in [Procs -> InitLabels \cup FindLabels]
      /\ result \in [Procs -> Results]
  BY <1>1 DEF Return, Goto, Shape
<1>3. pc'[p] = (IF p \in Inits THEN "cleanup" ELSE "done") /\ result'[p] = r
  BY <1>2
<1>4. /\ tx' \in [holder : Procs \cup {"nobody", "foreign"}, version : 0 .. Latest + 1]
      /\ tx'.holder # p
      /\ \A q \in Procs \ {p} : /\ tx'.holder = q <=> tx.holder = q
                                /\ tx.holder = q => tx'.version = tx.version
  BY <1>1, StartupAssumption DEF Shape, Relies, NoTx
<1>5. Shape'
  BY <1>1, <1>2, <1>4 DEF Shape, InitLabels, Ended
<1>6. Relies(p)'
  BY <1>1, <1>3, <1>4 DEF Relies, InitLabels, FindLabels, Ended, Opened, Migrated
<1>7. InTime(p)'
  BY <1>1, <1>3 DEF InTime
<1>8. \A q \in Procs \ {p} : Keeps(q)
  BY <1>2, <1>4 DEF Keeps
<1> QED BY <1>5, <1>6, <1>7, <1>8 DEF After

\* Moving on to label l without having returned, with nothing shared changed.
LEMMA GotoAfter ==
  ASSUME SInv, NEW p \in Procs, NEW l \in InitLabels \cup FindLabels, Goto(p, l),
         IF p \in Inits THEN l \in InitLabels ELSE l \in FindLabels,
         l \in Opened => dirs[1] # NoDir,
         l \in {"found-marker", "found-db"} => dirs[loc[p]] # NoDir,
         l = "publish" => stage'[p] = Dir("ok", NewDb),
         l \in {"begin", "migrate", "validate"} => dirs[1].db.version >= 0,
         l = "validate" => tx.version = Latest,
         l \in Migrated => dirs[1].db.version = Latest /\ dirs[1].db.sound,
         l = "last-marker" => dirs[1].marker # "absent",
         l = "last-db" =>
            seen'[p] # "absent" /\ (seen'[p] = "ok" => dirs[1].marker = "ok"),
         tx.holder = p <=> l \in {"migrate", "validate"},
         result[p] # "none" => l \in {"cleanup"} \cup Ended,
         \A q \in Procs \ {p} : q \in Inits => stage'[q] = stage[q],
         stage' \in [Inits -> Directories],
         \A q \in Procs \ {p} : seen'[q] = seen[q],
         seen' \in [Procs -> Markers],
         UNCHANGED <<dirs, tx, loc, retry, signal, result, budget>>
  PROVE  After(p)
<1>1. Shape /\ Relies(p) /\ InTime(p)
  BY DEF SInv
<1>2. /\ pc' = [pc EXCEPT ![p] = l]
      /\ pc \in [Procs -> InitLabels \cup FindLabels]
  BY <1>1 DEF Goto, Shape
<1>3. pc'[p] = l
  BY <1>2
<1>4. Shape'
  BY <1>1, <1>2 DEF Shape
<1>5. Grows
  BY DEF Grows
<1>6. Relies(p)'
  BY <1>1, <1>3 DEF Relies
<1>7. InTime(p)'
  BY <1>1 DEF InTime
<1>8. \A q \in Procs \ {p} : Keeps(q)
  BY <1>2 DEF Keeps
<1> QED BY <1>4, <1>5, <1>6, <1>7, <1>8 DEF After

\* The context check, and a stage or an existing project.
LEMMA InitStartAfter ==
  ASSUME SInv, NEW p \in Inits, InitStart(p)
  PROVE  After(p)
<1>1. p \in Procs /\ Shape /\ Relies(p) /\ pc[p] = "start"
  BY DEF SInv, Procs, InitStart
<1>2. CASE Cancelled(p)
  <2>1. Return(p, "cancelled") /\ UNCHANGED <<dirs, stage, tx, loc, seen, retry, signal, budget>>
    BY <1>2 DEF InitStart
  <2> QED BY <1>1, <2>1, ReturnAfter DEF Shape, Results, Grows
<1>3. CASE ~Cancelled(p)
  <2>1. /\ Goto(p, IF dirs[1] = NoDir THEN "stage" ELSE "complete")
        /\ UNCHANGED <<dirs, stage, tx, loc, seen, retry, signal, result, budget>>
    BY <1>3 DEF InitStart
  <2> QED BY <1>1, <2>1, GotoAfter DEF Shape, Relies, InitLabels, Opened, Migrated, Ended
<1> QED BY <1>2, <1>3

\* The stage is whole when the process goes on to publish it.
LEMMA BuildStageAfter ==
  ASSUME SInv, NEW p \in Inits, BuildStage(p)
  PROVE  After(p)
<1>1. p \in Procs /\ Shape /\ Relies(p) /\ pc[p] = "stage" /\ "ok" \in Markers /\ "partial" \in Markers
  BY DEF SInv, Procs, BuildStage, Markers
<1>2. UNCHANGED <<dirs, tx, loc, seen, retry, signal>>
  BY DEF BuildStage
<1>3. ASSUME NEW d \in Directories, stage' = [stage EXCEPT ![p] = d],
             \/ Return(p, "cancelled") /\ UNCHANGED budget
             \/ Return(p, "io") /\ budget > 0 /\ budget' = budget - 1
      PROVE  After(p)
  <2>1. budget' \in Nat /\ stage' \in [Inits -> Directories]
        /\ \A q \in Procs \ {p} : q \in Inits => stage'[q] = stage[q]
    BY <1>1, <1>3 DEF Shape
  <2> QED BY <1>1, <1>2, <1>3, <2>1, ReturnAfter DEF Shape, Results, Grows
<1>4. CASE /\ stage' = [stage EXCEPT ![p] = Dir("ok", NewDb)]
           /\ Goto(p, "publish")
           /\ UNCHANGED <<result, budget>>
  <2>1. /\ stage' \in [Inits -> Directories] /\ stage'[p] = Dir("ok", NewDb)
        /\ \A q \in Procs \ {p} : q \in Inits => stage'[q] = stage[q]
    BY <1>1, <1>4, DirFacts DEF Shape
  <2> QED BY <1>1, <1>2, <1>4, <2>1, GotoAfter
          DEF Shape, Relies, InitLabels, Opened, Migrated, Ended
<1>5. ASSUME NEW d \in {NoDb, [NoDb EXCEPT !.version = 0]},
             stage' = [stage EXCEPT ![p] = Dir("ok", d)],
             Return(p, "cancelled"), UNCHANGED budget
      PROVE  After(p)
  BY <1>1, <1>3, <1>5, DirFacts
<1>6. ASSUME NEW d \in {NoDir, Dir("partial", NoDb), Dir("ok", [NoDb EXCEPT !.version = 0])},
             stage' = [stage EXCEPT ![p] = d],
             Return(p, "io"), budget > 0, budget' = budget - 1
      PROVE  After(p)
  BY <1>1, <1>3, <1>6, DirFacts
<1> QED BY <1>4, <1>5, <1>6 DEF BuildStage

\* The rename puts a whole directory where there was none.
LEMMA PublishAfter ==
  ASSUME SInv, NEW p \in Inits, Publish(p)
  PROVE  After(p)
<1>1. /\ p \in Procs /\ Shape /\ Relies(p) /\ InTime(p) /\ pc[p] = "publish"
      /\ stage[p] = Dir("ok", NewDb)
  BY DEF SInv, Procs, Publish, Relies
<1>2. UNCHANGED <<tx, loc, seen, retry, signal, budget>>
  BY DEF Publish
<1>3. CASE Return(p, "cancelled") /\ UNCHANGED <<dirs, stage>>
  BY <1>1, <1>2, <1>3, ReturnAfter DEF Shape, Results, Grows
<1>4. CASE dirs[1] # NoDir /\ Goto(p, "complete") /\ UNCHANGED <<dirs, stage, result>>
  BY <1>1, <1>2, <1>4, GotoAfter DEF Shape, Relies, InitLabels, Opened, Migrated, Ended
<1>5. CASE /\ dirs[1] = NoDir
           /\ dirs' = [dirs EXCEPT ![1] = stage[p]]
           /\ stage' = [stage EXCEPT ![p] = NoDir]
           /\ Goto(p, "last-marker")
           /\ UNCHANGED result
  <2>1. /\ dirs' \in [1 .. 2 -> Directories] /\ dirs'[1] = Dir("ok", NewDb)
        /\ dirs'[2] = dirs[2] /\ dirs'[1] # NoDir
    BY <1>1, <1>5, DirFacts DEF Shape, Markers
  <2>2. dirs'[1].marker = "ok" /\ dirs'[1].db.version = Latest /\ dirs'[1].db.sound
    BY <2>1 DEF Dir, NewDb
  <2>3. /\ pc' \in [Procs -> InitLabels \cup FindLabels] /\ pc'[p] = "last-marker"
        /\ \A q \in Procs \ {p} : pc'[q] = pc[q]
    BY <1>1, <1>5 DEF Shape, Goto, InitLabels
  <2>4. /\ stage' \in [Inits -> Directories]
        /\ \A q \in Procs \ {p} : q \in Inits => stage'[q] = stage[q]
    BY <1>1, <1>5, DirFacts DEF Shape
  <2>5. Shape'
    BY <1>1, <1>2, <1>5, <2>1, <2>3, <2>4 DEF Shape
  <2>6. Grows
    BY <1>5, <2>1 DEF Grows
  <2>7. Relies(p)'
    BY <1>1, <1>2, <1>5, <2>1, <2>2, <2>3
    DEF Relies, InitLabels, FindLabels, Ended, Opened, Migrated
  <2>8. InTime(p)'
    BY <1>1, <1>2, <1>5 DEF InTime
  <2>9. \A q \in Procs \ {p} : Keeps(q)
    BY <1>2, <1>5, <2>3, <2>4 DEF Keeps
  <2> QED BY <2>5, <2>6, <2>7, <2>8, <2>9 DEF After
<1> QED BY <1>3, <1>4, <1>5 DEF Publish

\* The stage is removed and the call has returned.
LEMMA CleanupAfter ==
  ASSUME SInv, NEW p \in Inits, Cleanup(p)
  PROVE  After(p)
<1>1. p \in Procs /\ Shape /\ Relies(p) /\ pc[p] = "cleanup"
  BY DEF SInv, Procs, Cleanup
<1>2. /\ stage' \in [Inits -> Directories]
      /\ \A q \in Procs \ {p} : q \in Inits => stage'[q] = stage[q]
      /\ Goto(p, "done")
      /\ UNCHANGED <<dirs, tx, loc, seen, retry, signal, result, budget>>
  BY <1>1, DirFacts DEF Shape, Cleanup
<1> QED BY <1>1, <1>2, GotoAfter DEF Shape, Relies, InitLabels, Opened, Migrated, Ended

\* An existing project is completed unless the context is cancelled.
LEMMA CompleteStartAfter ==
  ASSUME SInv, NEW p \in Inits, CompleteStart(p)
  PROVE  After(p)
<1>1. p \in Procs /\ Shape /\ Relies(p) /\ pc[p] = "complete"
  BY DEF SInv, Procs, CompleteStart
<1>2. UNCHANGED <<dirs, stage, tx, loc, seen, retry, signal, budget>>
  BY DEF CompleteStart
<1>3. CASE Return(p, "cancelled")
  BY <1>1, <1>2, <1>3, ReturnAfter DEF Shape, Results, Grows
<1>4. CASE Goto(p, "first-marker") /\ UNCHANGED result
  BY <1>1, <1>2, <1>4, GotoAfter DEF Shape, Relies, InitLabels, Opened, Migrated, Ended
<1> QED BY <1>3, <1>4 DEF CompleteStart

\* After the integrity check the marker is looked for.
LEMMA IntegrityAfter ==
  ASSUME SInv, NEW p \in Inits, Integrity(p)
  PROVE  After(p)
<1>1. p \in Procs /\ Shape /\ Relies(p) /\ pc[p] = "integrity"
  BY DEF SInv, Procs, Integrity
<1>2. UNCHANGED <<dirs, stage, tx, loc, seen, retry, signal, budget>>
  BY DEF Integrity
<1>3. CASE Return(p, "cancelled")
  BY <1>1, <1>2, <1>3, ReturnAfter DEF Shape, Results, Grows
<1>4. CASE /\ Goto(p, IF dirs[1].marker = "absent" THEN "create-marker" ELSE "last-marker")
           /\ UNCHANGED result
  BY <1>1, <1>2, <1>4, GotoAfter DEF Shape, Relies, InitLabels, Opened, Migrated, Ended
<1> QED BY <1>3, <1>4 DEF Integrity

\* A step of the open that writes the database, the marker or the transaction.
LEMMA MoveAfter ==
  ASSUME SInv, NEW p \in Inits, NEW l \in Opened \ {"last-db"}, Goto(p, l),
         result[p] = "none",
         Grows, dirs' \in [1 .. 2 -> Directories], dirs'[1] # NoDir,
         tx' \in [holder : Procs \cup {"nobody", "foreign"}, version : 0 .. Latest + 1],
         \A q \in Procs \ {p} : /\ tx'.holder = q <=> tx.holder = q
                                /\ tx.holder = q => tx'.version = tx.version,
         tx'.holder = p <=> l \in {"migrate", "validate"},
         l = "validate" => tx'.version = Latest,
         l \in {"begin", "migrate", "validate"} => dirs'[1].db.version >= 0,
         l \in Migrated => dirs'[1].db.version = Latest /\ dirs'[1].db.sound,
         l = "last-marker" => dirs'[1].marker # "absent",
         retry' \in [Procs -> [slept : Nat, backoff : 1 .. MaxBackoff]],
         \A q \in Procs \ {p} : retry'[q] = retry[q],
         retry'[p].slept <= Timeout,
         UNCHANGED <<stage, loc, seen, signal, result, budget>>
  PROVE  After(p)
<1>1. p \in Procs /\ Shape /\ Relies(p) /\ InTime(p)
  BY DEF SInv, Procs
<1>2. /\ pc' = [pc EXCEPT ![p] = l] /\ l \in InitLabels
      /\ pc \in [Procs -> InitLabels \cup FindLabels]
  BY <1>1 DEF Goto, Shape, Opened, Migrated, InitLabels
<1>3. pc'[p] = l
  BY <1>1, <1>2
<1>4. Shape'
  BY <1>1, <1>2 DEF Shape
<1>5. Relies(p)'
  BY <1>1, <1>2, <1>3 DEF Relies, Opened, Migrated
<1>6. InTime(p)'
  BY DEF InTime
<1>7. \A q \in Procs \ {p} : Keeps(q)
  BY <1>2 DEF Keeps
<1> QED BY <1>4, <1>5, <1>6, <1>7 DEF After

\* What holds of an initialiser that is opening the database.
LEMMA OpenedFact ==
  ASSUME SInv, NEW p \in Inits, pc[p] \in Opened
  PROVE  /\ p \in Procs /\ Shape /\ Relies(p) /\ InTime(p)
         /\ dirs[1] # NoDir /\ dirs[1] \in DirRecords
         /\ result[p] = "none"
<1>1. p \in Procs /\ Shape /\ Relies(p) /\ InTime(p)
  BY DEF SInv, Procs
<1>2. dirs[1] # NoDir
  BY <1>1 DEF Relies
<1>3. result[p] = "none"
  BY <1>1 DEF Relies, Opened, Migrated, Ended
<1> QED BY <1>1, <1>2, <1>3, TargetFact

\* The marker is created where there was none.
LEMMA CreateMarkerAfter ==
  ASSUME SInv, NEW p \in Inits, CreateMarker(p)
  PROVE  After(p)
<1>1. /\ pc[p] = "create-marker"
      /\ UNCHANGED <<stage, tx, loc, seen, retry, signal, result, budget>>
  BY DEF CreateMarker
<1>2. /\ p \in Procs /\ Shape /\ Relies(p) /\ InTime(p)
      /\ dirs[1] # NoDir /\ dirs[1] \in DirRecords
      /\ result[p] = "none"
  BY <1>1, OpenedFact DEF Opened, Migrated
<1>3. CASE dirs[1].marker # "absent" /\ Goto(p, "last-marker") /\ UNCHANGED dirs
  BY <1>1, <1>2, <1>3, GotoAfter DEF Shape, Relies, InitLabels, Opened, Migrated, Ended
<1>4. CASE /\ dirs[1].marker = "absent"
           /\ dirs' = [dirs EXCEPT ![1].marker = "partial"]
           /\ Goto(p, "write-marker")
  <2>1. dirs'[1] = [dirs[1] EXCEPT !.marker = "partial"] /\ dirs'[2] = dirs[2]
    BY <1>2, <1>4 DEF Shape
  <2>2. /\ dirs'[1] \in DirRecords /\ dirs'[1].db = dirs[1].db
        /\ dirs'[1].marker = "partial"
    BY <1>2, <2>1 DEF DirRecords, Markers
  <2>3. dirs'[1] # NoDir /\ dirs' \in [1 .. 2 -> Directories]
    BY <1>2, <1>4, <2>2 DEF Shape, NoDir, DirRecords, Directories
  <2>4. Grows
    BY <1>2, <1>4, <2>1, <2>2, <2>3 DEF Grows
  <2> QED BY <1>1, <1>2, <1>4, <2>2, <2>3, <2>4, MoveAfter
          DEF Shape, Relies, InTime, Opened, Migrated
<1> QED BY <1>3, <1>4 DEF CreateMarker

\* The marker's contents are written.
LEMMA WriteMarkerAfter ==
  ASSUME SInv, NEW p \in Inits, WriteMarker(p)
  PROVE  After(p)
<1>1. /\ pc[p] = "write-marker"
      /\ UNCHANGED <<stage, tx, loc, seen, retry, signal>>
  BY DEF WriteMarker
<1>2. /\ p \in Procs /\ Shape /\ Relies(p) /\ InTime(p)
      /\ dirs[1] # NoDir /\ dirs[1] \in DirRecords
      /\ result[p] = "none"
  BY <1>1, OpenedFact DEF Opened, Migrated
<1>3. CASE budget > 0 /\ budget' = budget - 1 /\ Return(p, "io") /\ UNCHANGED dirs
  <2>1. budget' \in Nat
    BY <1>2, <1>3 DEF Shape
  <2> QED BY <1>1, <1>2, <1>3, <2>1, ReturnAfter DEF Shape, Results, Grows
<1>4. CASE /\ dirs' = [dirs EXCEPT ![1].marker = "ok"]
           /\ Goto(p, "last-marker")
           /\ UNCHANGED <<result, budget>>
  <2>1. dirs'[1] = [dirs[1] EXCEPT !.marker = "ok"] /\ dirs'[2] = dirs[2]
    BY <1>2, <1>4 DEF Shape
  <2>2. /\ dirs'[1] \in DirRecords /\ dirs'[1].db = dirs[1].db
        /\ dirs'[1].marker = "ok"
    BY <1>2, <2>1 DEF DirRecords, Markers
  <2>3. dirs'[1] # NoDir /\ dirs' \in [1 .. 2 -> Directories]
    BY <1>2, <1>4, <2>2 DEF Shape, NoDir, DirRecords, Directories
  <2>4. Grows
    BY <1>2, <1>4, <2>1, <2>2, <2>3 DEF Grows
  <2> QED BY <1>1, <1>2, <1>4, <2>2, <2>3, <2>4, MoveAfter
          DEF Shape, Relies, InTime, Opened, Migrated
<1> QED BY <1>3, <1>4 DEF WriteMarker

\* The transaction's version climbs to the latest, the directories stay as they are.
LEMMA MigrateAfter ==
  ASSUME SInv, NEW p \in Inits, Migrate(p)
  PROVE  After(p)
<1>1. /\ pc[p] = "migrate"
      /\ UNCHANGED <<dirs, stage, loc, seen, retry, signal, budget>>
  BY DEF Migrate
<1>2. /\ p \in Procs /\ Shape /\ Relies(p) /\ InTime(p)
      /\ dirs[1] # NoDir /\ dirs[1] \in DirRecords
      /\ result[p] = "none"
  BY <1>1, OpenedFact DEF Opened, Migrated
<1>3. ASSUME NEW r \in {"cancelled", "newer", "corrupt"}, Rollback(p, r)
      PROVE  After(p)
  BY <1>1, <1>2, <1>3, ReturnAfter DEF Shape, Results, Grows, Rollback
<1>4. CASE tx.version = Latest /\ Goto(p, "validate") /\ UNCHANGED <<tx, result>>
  BY <1>1, <1>2, <1>4, GotoAfter DEF Shape, Relies, InitLabels, Opened, Migrated, Ended
<1>5. CASE /\ ~(tx.version > Latest) /\ tx.version # Latest
           /\ tx' = [tx EXCEPT !.version = @ + 1] /\ UNCHANGED <<pc, result>>
  <2>1. /\ tx \in [holder : Procs \cup {"nobody", "foreign"}, version : 0 .. Latest + 1]
        /\ tx.holder = p
    BY <1>1, <1>2 DEF Shape, Relies
  <2>2. tx.version + 1 \in 0 .. Latest + 1
    BY <1>5, <2>1, StartupAssumption
  <2>3. /\ tx' \in [holder : Procs \cup {"nobody", "foreign"}, version : 0 .. Latest + 1]
        /\ tx'.holder = p
    BY <1>5, <2>1, <2>2
  <2>4. Goto(p, "migrate")
    BY <1>1, <1>2, <1>5 DEF Goto, Shape
  <2>5. Grows
    BY <1>1 DEF Grows
  <2> QED BY <1>1, <1>2, <1>5, <2>1, <2>3, <2>4, <2>5, MoveAfter
          DEF Shape, Relies, InTime, Opened, Migrated
<1> QED BY <1>3, <1>4, <1>5 DEF Migrate

\* COMMIT makes a sound database the latest one, or leaves it alone.
LEMMA CommitMigrationsAfter ==
  ASSUME SInv, NEW p \in Inits, CommitMigrations(p)
  PROVE  After(p)
<1>1. /\ pc[p] = "validate"
      /\ UNCHANGED <<stage, loc, seen, retry, signal, budget>>
  BY DEF CommitMigrations
<1>2. /\ p \in Procs /\ Shape /\ Relies(p) /\ InTime(p)
      /\ dirs[1] # NoDir /\ dirs[1] \in DirRecords
      /\ result[p] = "none"
  BY <1>1, OpenedFact DEF Opened, Migrated
<1>3. tx.version = Latest /\ tx.holder = p
  BY <1>1, <1>2 DEF Relies
<1> DEFINE durable == [dirs EXCEPT ![1].db.version = tx.version]
<1>4. /\ durable[2] = dirs[2] /\ durable \in [1 .. 2 -> Directories]
      /\ durable[1] # NoDir /\ durable[1].marker = dirs[1].marker
      /\ durable[1].db.version = Latest /\ durable[1].db.sound = dirs[1].db.sound
  <2> DEFINE d == [dirs[1].db EXCEPT !.version = Latest]
  <2>1. d \in Databases /\ d.version = Latest /\ d.sound = dirs[1].db.sound
    BY <1>2, StartupAssumption DEF DirRecords, Databases
  <2>2. durable = [dirs EXCEPT ![1] = [dirs[1] EXCEPT !.db = d]]
    BY <1>2, <1>3 DEF Shape
  <2> HIDE DEF d
  <2>3. /\ [dirs[1] EXCEPT !.db = d] \in DirRecords
        /\ [dirs[1] EXCEPT !.db = d].db = d
        /\ [dirs[1] EXCEPT !.db = d].marker = dirs[1].marker
    BY <1>2, <2>1 DEF DirRecords
  <2>4. durable[1] = [dirs[1] EXCEPT !.db = d] /\ durable[2] = dirs[2]
    BY <1>2, <2>2 DEF Shape
  <2>5. durable[1] # NoDir /\ durable \in [1 .. 2 -> Directories]
    BY <1>2, <2>2, <2>3, <2>4 DEF Shape, NoDir, DirRecords, Directories
  <2> QED BY <2>1, <2>3, <2>4, <2>5
<1> HIDE DEF durable
<1>5. ASSUME dirs[1].db.sound, dirs' = durable
      PROVE  Grows
  BY <1>2, <1>4, <1>5 DEF Grows
<1>6. CASE Rollback(p, "corrupt") /\ UNCHANGED dirs
  BY <1>1, <1>2, <1>6, ReturnAfter DEF Shape, Results, Grows, Rollback
<1>7. CASE dirs[1].db.sound /\ dirs' \in {dirs, durable} /\ Rollback(p, "cancelled")
  <2>1. Grows /\ dirs' \in [1 .. 2 -> Directories]
    BY <1>2, <1>4, <1>5, <1>7 DEF Grows, Shape
  <2> QED BY <1>1, <1>2, <1>7, <2>1, ReturnAfter DEF Shape, Results, Rollback
<1>8. CASE /\ dirs[1].db.sound /\ dirs' = durable /\ tx' = NoTx
           /\ Goto(p, "integrity") /\ UNCHANGED result
  <2>1. /\ tx' \in [holder : Procs \cup {"nobody", "foreign"}, version : 0 .. Latest + 1]
        /\ \A q \in Procs : tx'.holder # q
    BY <1>8, StartupAssumption DEF NoTx
  <2> QED BY <1>1, <1>2, <1>3, <1>4, <1>5, <1>8, <2>1, MoveAfter
          DEF Shape, InTime, Opened, Migrated
<1> QED BY <1>6, <1>7, <1>8 DEF CommitMigrations, durable

\* The first half of validateMetadata.
LEMMA ReadMarkerAfter ==
  ASSUME SInv, NEW p \in Procs,
         \/ ReadMarker(p, "first-marker", "first-db")
         \/ ReadMarker(p, "last-marker", "last-db")
         \/ ReadMarker(p, "found-marker", "found-db")
  PROVE  After(p)
<1>1. /\ Shape /\ Relies(p)
      /\ pc[p] \in {"first-marker", "last-marker", "found-marker"}
      /\ seen' = [seen EXCEPT ![p] = dirs[loc[p]].marker]
      /\ UNCHANGED <<dirs, stage, tx, loc, retry, signal, result, budget>>
  BY DEF SInv, ReadMarker
<1>2. loc[p] \in 1 .. 2 /\ dirs[loc[p]] # NoDir
  BY <1>1 DEF Shape, Relies, Opened, Migrated, InitLabels, FindLabels, Ended
<1>3. dirs[loc[p]].marker \in Markers
  BY <1>1, <1>2 DEF Shape, Directories
<1>4. /\ seen' \in [Procs -> Markers] /\ seen'[p] = dirs[loc[p]].marker
      /\ \A q \in Procs \ {p} : seen'[q] = seen[q]
  BY <1>1, <1>3 DEF Shape
<1>5. CASE pc[p] = "first-marker" /\ Goto(p, "first-db")
  BY <1>1, <1>4, <1>5, GotoAfter
  DEF Shape, Relies, InitLabels, FindLabels, Opened, Migrated, Ended
<1>6. CASE pc[p] = "last-marker" /\ Goto(p, "last-db")
  BY <1>1, <1>4, <1>6, GotoAfter
  DEF Shape, Relies, InitLabels, FindLabels, Opened, Migrated, Ended
<1>7. CASE pc[p] = "found-marker" /\ Goto(p, "found-db")
  BY <1>1, <1>4, <1>7, GotoAfter
  DEF Shape, Relies, InitLabels, FindLabels, Opened, Migrated, Ended
<1> QED BY <1>5, <1>6, <1>7 DEF ReadMarker

\* The second half: what it accepts last is whole.
LEMMA ReadDatabaseAfter ==
  ASSUME SInv, NEW p \in Procs,
         \/ ReadDatabase(p, "first-db", "wal")
         \/ ReadDatabase(p, "last-db", "ok")
         \/ ReadDatabase(p, "found-db", "ok")
  PROVE  After(p)
<1>1. /\ Shape /\ Relies(p)
      /\ pc[p] \in {"first-db", "last-db", "found-db"}
      /\ UNCHANGED <<dirs, stage, tx, loc, seen, retry, signal, budget>>
  BY DEF SInv, ReadDatabase
<1>2. CASE Return(p, "invalid")
  BY <1>1, <1>2, ReturnAfter DEF Shape, Results, Grows
<1>3. CASE pc[p] = "first-db" /\ Goto(p, "wal") /\ UNCHANGED result
  BY <1>1, <1>3, GotoAfter
  DEF Shape, Relies, InitLabels, FindLabels, Opened, Migrated, Ended
<1>4. CASE /\ pc[p] \in {"last-db", "found-db"} /\ Return(p, "ok")
           /\ ~MetadataError(seen[p], dirs[loc[p]].db)
  <2>1. ASSUME p \in Inits PROVE IsComplete(dirs'[1])
    <3>1. pc[p] = "last-db"
      BY <1>1, <1>4, <2>1 DEF Relies, InitLabels, Ended
    <3>2. dirs[1] # NoDir /\ dirs[1].db.version = Latest /\ dirs[1].db.sound
      BY <1>1, <3>1 DEF Relies, Opened, Migrated
    <3>3. dirs[1].kind = "dir"
      BY <1>1, <3>2, TargetFact DEF DirRecords
    <3>4. seen[p] = "ok"
      BY <1>1, <1>4, <3>1 DEF Relies, MetadataError, Shape, Markers
    <3>5. dirs[1].marker = "ok"
      BY <1>1, <3>1, <3>4 DEF Relies
    <3> QED BY <1>1, <3>2, <3>3, <3>5 DEF IsComplete
  <2> QED BY <1>1, <1>4, <2>1, ReturnAfter DEF Shape, Results, Grows
<1> QED BY <1>2, <1>3, <1>4 DEF ReadDatabase

\* Discover looks one directory up.
LEMMA FindAfter ==
  ASSUME SInv, NEW p \in Finders, Find(p)
  PROVE  After(p)
<1>1. /\ p \in Procs /\ Shape /\ Relies(p) /\ InTime(p) /\ pc[p] = "find"
      /\ UNCHANGED <<dirs, stage, tx, seen, retry, signal, budget>>
  BY DEF SInv, Procs, Find
<1>2. p \notin Inits
  BY <1>1 DEF Relies, InitLabels, Ended
<1>3. CASE dirs[loc[p]] # NoDir /\ Goto(p, "found-marker") /\ UNCHANGED <<loc, result>>
  BY <1>1, <1>2, <1>3, GotoAfter DEF Shape, Relies, FindLabels, Opened, Migrated, Ended
<1>4. CASE Return(p, "notfound") /\ UNCHANGED loc
  BY <1>1, <1>2, <1>4, ReturnAfter DEF Shape, Results, Grows
<1>5. CASE loc' = [loc EXCEPT ![p] = 2] /\ UNCHANGED <<pc, result>>
  <2>1. loc' \in [Procs -> 1 .. 2] /\ \A q \in Procs \ {p} : loc'[q] = loc[q]
    BY <1>1, <1>5 DEF Shape
  <2>2. Shape'
    BY <1>1, <1>5, <2>1 DEF Shape
  <2>3. Grows
    BY <1>1 DEF Grows
  <2>4. Relies(p)'
    BY <1>1, <1>2, <1>5 DEF Relies, Ended
  <2>5. InTime(p)'
    BY <1>1, <1>5 DEF InTime
  <2>6. \A q \in Procs \ {p} : Keeps(q)
    BY <1>1, <1>5, <2>1 DEF Keeps
  <2> QED BY <2>2, <2>3, <2>4, <2>5, <2>6 DEF After
<1> QED BY <1>3, <1>4, <1>5 DEF Find

\* A turn of the retry loop that is refused: it gives up at the deadline and not
\* before, or sleeps and never past it.
LEMMA RefusedAfter ==
  ASSUME SInv, NEW p \in Inits, pc[p] \in {"wal", "begin"},
         \/ Return(p, "cancelled") /\ UNCHANGED <<dirs, tx, retry>>
         \/ /\ Timeout = 0 \/ Timeout - retry[p].slept <= 0
            /\ Return(p, "busy") /\ UNCHANGED <<dirs, tx, retry>>
         \/ /\ ~(Timeout = 0 \/ Timeout - retry[p].slept <= 0)
            /\ retry' = [retry EXCEPT ![p] =
                           [slept |-> @.slept + Wait(@),
                            backoff |-> Smaller(2 * @.backoff, MaxBackoff)]]
            /\ UNCHANGED <<dirs, tx, pc, result>>,
         UNCHANGED <<stage, loc, seen, signal, budget>>
  PROVE  After(p)
<1>1. /\ p \in Procs /\ Shape /\ Relies(p) /\ InTime(p)
      /\ dirs[1] # NoDir /\ result[p] = "none"
  BY OpenedFact DEF Opened
<1>2. /\ retry \in [Procs -> [slept : Nat, backoff : 1 .. MaxBackoff]]
      /\ retry[p].slept \in Nat /\ retry[p].backoff \in 1 .. MaxBackoff
      /\ retry[p].slept <= Timeout
  BY <1>1 DEF Shape, InTime
<1>3. CASE Return(p, "cancelled") /\ UNCHANGED <<dirs, tx, retry>>
  BY <1>1, <1>3, ReturnAfter DEF Shape, Results, Grows
<1>4. CASE /\ Timeout = 0 \/ Timeout - retry[p].slept <= 0
           /\ Return(p, "busy") /\ UNCHANGED <<dirs, tx, retry>>
  <2>1. retry[p].slept = Timeout
    BY <1>2, <1>4, StartupAssumption
  <2> QED BY <1>1, <1>4, <2>1, ReturnAfter DEF Shape, Results, Grows
<1>5. CASE /\ ~(Timeout = 0 \/ Timeout - retry[p].slept <= 0)
           /\ retry' = [retry EXCEPT ![p] =
                          [slept |-> @.slept + Wait(@),
                           backoff |-> Smaller(2 * @.backoff, MaxBackoff)]]
           /\ UNCHANGED <<dirs, tx, pc, result>>
  <2>1. Wait(retry[p]) \in Nat /\ retry[p].slept + Wait(retry[p]) <= Timeout
    BY <1>2, <1>5, StartupAssumption DEF Wait, Smaller
  <2>2. Smaller(2 * retry[p].backoff, MaxBackoff) \in 1 .. MaxBackoff
    BY <1>2, StartupAssumption DEF Smaller
  <2>3. /\ retry' \in [Procs -> [slept : Nat, backoff : 1 .. MaxBackoff]]
        /\ retry'[p].slept <= Timeout
        /\ \A q \in Procs \ {p} : retry'[q] = retry[q]
    BY <1>1, <1>2, <1>5, <2>1, <2>2
  <2>4. Goto(p, pc[p])
    BY <1>1, <1>5 DEF Goto, Shape
  <2>5. Grows
    BY <1>5 DEF Grows
  <2> QED BY <1>1, <1>5, <2>3, <2>4, <2>5, MoveAfter
          DEF Shape, Relies, Opened, Migrated
<1> QED BY <1>3, <1>4, <1>5

\* A turn that is granted starts the next loop afresh.
LEMMA FreshFact ==
  ASSUME Shape, NEW p \in Procs, retry' = [retry EXCEPT ![p] = FreshRetry]
  PROVE  /\ retry' \in [Procs -> [slept : Nat, backoff : 1 .. MaxBackoff]]
         /\ retry'[p].slept <= Timeout
         /\ \A q \in Procs \ {p} : retry'[q] = retry[q]
  BY StartupAssumption DEF Shape, FreshRetry

\* Switching to WAL mode creates a database that is not there, at version 0.
LEMMA EnableWalAfter ==
  ASSUME SInv, NEW p \in Inits, EnableWal(p)
  PROVE  After(p)
<1>1. /\ pc[p] = "wal"
      /\ UNCHANGED <<stage, loc, seen, signal, budget>>
  BY DEF EnableWal, BusyRetry
<1>2. /\ p \in Procs /\ Shape /\ Relies(p) /\ InTime(p)
      /\ dirs[1] # NoDir /\ dirs[1] \in DirRecords
      /\ result[p] = "none"
  BY <1>1, OpenedFact DEF Opened, Migrated
<1>3. CASE /\ dirs' = [dirs EXCEPT ![1].db =
                [version |-> IF @.version < 0 THEN 0 ELSE @.version,
                 sound |-> @.sound, wal |-> TRUE]]
           /\ Goto(p, "begin")
           /\ retry' = [retry EXCEPT ![p] = FreshRetry]
           /\ UNCHANGED <<tx, result>>
  <2> DEFINE v == IF dirs[1].db.version < 0 THEN 0 ELSE dirs[1].db.version
             d == [version |-> v, sound |-> dirs[1].db.sound, wal |-> TRUE]
  <2>1. dirs' = [dirs EXCEPT ![1] = [dirs[1] EXCEPT !.db = d]]
    BY <1>2, <1>3 DEF Shape, DirRecords, Databases
  <2>2. dirs[1].db.version \in -1 .. Latest + 1
    BY <1>2 DEF DirRecords, Databases
  <2>3. /\ v \in -1 .. Latest + 1 /\ v >= 0
        /\ (v = dirs[1].db.version \/ (dirs[1].db.version = -1 /\ v = 0))
    BY <2>2, StartupAssumption
  <2> HIDE DEF v
  <2>4. d \in Databases /\ d.version = v /\ d.sound = dirs[1].db.sound
    BY <1>2, <2>3 DEF DirRecords, Databases
  <2> HIDE DEF d
  <2>5. /\ [dirs[1] EXCEPT !.db = d] \in DirRecords
        /\ [dirs[1] EXCEPT !.db = d].db = d
        /\ [dirs[1] EXCEPT !.db = d].marker = dirs[1].marker
    BY <1>2, <2>4 DEF DirRecords
  <2>6. dirs'[1] = [dirs[1] EXCEPT !.db = d] /\ dirs'[2] = dirs[2]
    BY <1>2, <2>1 DEF Shape
  <2>7. dirs'[1] # NoDir /\ dirs' \in [1 .. 2 -> Directories]
    BY <1>2, <2>1, <2>5, <2>6 DEF Shape, NoDir, DirRecords, Directories
  <2>8. Grows
    BY <1>2, <2>3, <2>4, <2>5, <2>6, <2>7 DEF Grows
  <2>9. dirs'[1].db.version >= 0
    BY <2>3, <2>4, <2>5, <2>6
  <2>10. /\ retry' \in [Procs -> [slept : Nat, backoff : 1 .. MaxBackoff]]
         /\ retry'[p].slept <= Timeout
         /\ \A q \in Procs \ {p} : retry'[q] = retry[q]
    BY <1>2, <1>3, FreshFact
  <2> QED BY <1>1, <1>2, <1>3, <2>7, <2>8, <2>9, <2>10, MoveAfter
          DEF Shape, Relies, Opened, Migrated
<1>4. CASE ~(/\ dirs' = [dirs EXCEPT ![1].db =
                  [version |-> IF @.version < 0 THEN 0 ELSE @.version,
                   sound |-> @.sound, wal |-> TRUE]]
             /\ Goto(p, "begin")
             /\ retry' = [retry EXCEPT ![p] = FreshRetry]
             /\ UNCHANGED <<tx, result>>)
  BY <1>1, <1>4, RefusedAfter DEF EnableWal, BusyRetry
<1> QED BY <1>3, <1>4

\* BEGIN IMMEDIATE takes the transaction, which nobody held.
LEMMA BeginImmediateAfter ==
  ASSUME SInv, NEW p \in Inits, BeginImmediate(p)
  PROVE  After(p)
<1>1. /\ pc[p] = "begin"
      /\ UNCHANGED <<stage, loc, seen, signal, budget>>
  BY DEF BeginImmediate, BusyRetry
<1>2. /\ p \in Procs /\ Shape /\ Relies(p) /\ InTime(p)
      /\ dirs[1] # NoDir /\ dirs[1] \in DirRecords
      /\ result[p] = "none" /\ dirs[1].db.version >= 0
  BY <1>1, OpenedFact DEF Opened, Migrated, Relies
<1>3. CASE /\ tx = NoTx
           /\ tx' = [holder |-> p, version |-> dirs[1].db.version]
           /\ Goto(p, "migrate")
           /\ retry' = [retry EXCEPT ![p] = FreshRetry]
           /\ UNCHANGED <<dirs, result>>
  <2>1. dirs[1].db.version \in 0 .. Latest + 1
    BY <1>2, StartupAssumption DEF DirRecords, Databases
  <2>2. /\ tx' \in [holder : Procs \cup {"nobody", "foreign"}, version : 0 .. Latest + 1]
        /\ tx'.holder = p
        /\ \A q \in Procs : tx.holder # q
    BY <1>2, <1>3, <2>1, StartupAssumption DEF NoTx
  <2>3. Grows
    BY <1>3 DEF Grows
  <2>4. /\ retry' \in [Procs -> [slept : Nat, backoff : 1 .. MaxBackoff]]
        /\ retry'[p].slept <= Timeout
        /\ \A q \in Procs \ {p} : retry'[q] = retry[q]
    BY <1>2, <1>3, FreshFact
  <2> QED BY <1>1, <1>2, <1>3, <2>2, <2>3, <2>4, MoveAfter
          DEF Shape, Opened, Migrated
<1>4. CASE ~(/\ tx = NoTx
             /\ tx' = [holder |-> p, version |-> dirs[1].db.version]
             /\ Goto(p, "migrate")
             /\ retry' = [retry EXCEPT ![p] = FreshRetry]
             /\ UNCHANGED <<dirs, result>>)
  BY <1>1, <1>4, RefusedAfter DEF BeginImmediate, BusyRetry
<1> QED BY <1>3, <1>4

\* A signal, or a process that is killed.
LEMMA TroubleAfter ==
  ASSUME SInv, NEW p \in Procs, StoreExitCode(p) \/ CancelContext(p) \/ Crash(p)
  PROVE  After(p)
<1>1. Shape /\ Relies(p) /\ InTime(p)
  BY DEF SInv
<1>2. UNCHANGED <<dirs, stage, loc, seen, retry, result>> /\ Grows
  BY DEF StoreExitCode, CancelContext, Crash, Grows
<1>3. budget' \in Nat
  BY <1>1 DEF Shape, StoreExitCode, CancelContext, Crash
<1>4. signal' \in [Procs -> SUBSET {"code", "context"}]
  BY <1>1 DEF Shape, StoreExitCode, CancelContext, Crash
<1>5. CASE StoreExitCode(p) \/ CancelContext(p)
  <2>1. UNCHANGED <<tx, pc>>
    BY <1>5 DEF StoreExitCode, CancelContext
  <2>2. Shape'
    BY <1>1, <1>2, <1>3, <1>4, <2>1 DEF Shape
  <2>3. Relies(p)' /\ InTime(p)'
    BY <1>1, <1>2, <2>1 DEF Relies, InTime
  <2>4. \A q \in Procs \ {p} : Keeps(q)
    BY <1>2, <2>1 DEF Keeps
  <2> QED BY <1>2, <2>2, <2>3, <2>4 DEF After
<1>6. CASE Crash(p)
  <2>1. /\ pc' = [pc EXCEPT ![p] = "crashed"]
        /\ tx' = IF tx.holder = p THEN NoTx ELSE tx
    BY <1>6 DEF Crash, Goto
  <2>2. /\ tx' \in [holder : Procs \cup {"nobody", "foreign"}, version : 0 .. Latest + 1]
        /\ tx'.holder # p
        /\ \A q \in Procs \ {p} : /\ tx'.holder = q <=> tx.holder = q
                                  /\ tx.holder = q => tx'.version = tx.version
    BY <1>1, <2>1, StartupAssumption DEF Shape, NoTx
  <2>3. pc'[p] = "crashed" /\ pc' \in [Procs -> InitLabels \cup FindLabels]
        /\ \A q \in Procs \ {p} : pc'[q] = pc[q]
    BY <1>1, <2>1 DEF Shape, InitLabels, Ended
  <2>4. Shape'
    BY <1>1, <1>2, <1>3, <1>4, <2>2, <2>3 DEF Shape
  <2>5. Relies(p)' /\ InTime(p)'
    BY <1>1, <1>2, <2>2, <2>3
    DEF Relies, InTime, InitLabels, FindLabels, Ended, Opened, Migrated
  <2>6. \A q \in Procs \ {p} : Keeps(q)
    BY <1>2, <2>2, <2>3 DEF Keeps
  <2> QED BY <1>2, <2>4, <2>5, <2>6 DEF After
<1> QED BY <1>5, <1>6

-----------------------------------------------------------------------------
(* The invariant *)

\* Nothing has happened yet.
LEMMA StartupInit == ASSUME Init PROVE SInv
<1>1. Shape
  <2>1. dirs \in [1 .. 2 -> Directories]
    BY LayoutAssumption DEF Init
  <2>2. stage \in [Inits -> Directories]
    BY DirFacts DEF Init
  <2>3. tx \in [holder : Procs \cup {"nobody", "foreign"}, version : 0 .. Latest + 1]
    BY StartupAssumption DEF Init, NoTx
  <2>4. retry \in [Procs -> [slept : Nat, backoff : 1 .. MaxBackoff]]
    BY StartupAssumption DEF Init, FreshRetry
  <2>5. /\ pc \in [Procs -> InitLabels \cup FindLabels]
        /\ loc \in [Procs -> 1 .. 2]
        /\ seen \in [Procs -> Markers]
        /\ signal \in [Procs -> SUBSET {"code", "context"}]
        /\ result \in [Procs -> Results]
        /\ budget \in Nat
    BY StartupAssumption DEF Init, InitLabels, FindLabels, Markers, Results
  <2> QED BY <2>1, <2>2, <2>3, <2>4, <2>5 DEF Shape
<1>2. ASSUME NEW p \in Procs PROVE Relies(p) /\ InTime(p)
  <2>1. /\ pc[p] = (IF p \in Inits THEN "start" ELSE "find") /\ loc[p] = 1
        /\ result[p] = "none" /\ tx.holder # p
        /\ retry[p].slept = 0
    BY StartupAssumption DEF Init, NoTx, FreshRetry
  <2> QED BY <2>1, StartupAssumption
          DEF Relies, InTime, InitLabels, FindLabels, Opened, Migrated, Ended
<1> QED BY <1>1, <1>2 DEF SInv

\* The step of one process p, or one that belongs to none.
Moves(p) == Step(p) \/ StoreExitCode(p) \/ CancelContext(p) \/ Crash(p)

\* Every step of a process establishes what that process relies on next.
LEMMA MovesAfter ==
  ASSUME SInv, NEW p \in Procs, Moves(p)
  PROVE  After(p)
<1>1. CASE p \in Inits /\ InitStep(p)
  BY <1>1, InitStartAfter, BuildStageAfter, PublishAfter, CompleteStartAfter,
     EnableWalAfter, BeginImmediateAfter, MigrateAfter, CommitMigrationsAfter,
     IntegrityAfter, CreateMarkerAfter, WriteMarkerAfter, CleanupAfter DEF InitStep
<1>2. CASE p \in Finders /\ Find(p)
  BY <1>2, FindAfter
<1>3. CASE Validate(p)
  BY <1>3, ReadMarkerAfter, ReadDatabaseAfter DEF Validate
<1> QED BY <1>1, <1>2, <1>3, TroubleAfter DEF Moves, Step

\* The write lock changes hands outside, or nothing changes.
LEMMA OutsideAfter ==
  ASSUME SInv, ForeignBegin \/ ForeignEnd \/ UNCHANGED vars
  PROVE  Shape' /\ Grows /\ \A q \in Procs : Keeps(q)
<1>1. Shape
  BY DEF SInv
<1>2. UNCHANGED <<dirs, stage, pc, loc, seen, retry, signal, result, budget>>
  BY DEF ForeignBegin, ForeignEnd, vars
<1>3. /\ tx' \in [holder : Procs \cup {"nobody", "foreign"}, version : 0 .. Latest + 1]
      /\ \A q \in Procs : /\ tx'.holder = q <=> tx.holder = q
                          /\ tx.holder = q => tx'.version = tx.version
  BY <1>1, StartupAssumption DEF Shape, ForeignBegin, ForeignEnd, NoTx, vars
<1>4. Shape'
  BY <1>1, <1>2, <1>3 DEF Shape
<1>5. Grows
  BY <1>2 DEF Grows
<1>6. \A q \in Procs : Keeps(q)
  BY <1>2, <1>3 DEF Keeps
<1> QED BY <1>4, <1>5, <1>6

\* Every step is one process's, or nobody's.
LEMMA StepCases ==
  ASSUME [Next]_vars
  PROVE  \/ \E p \in Procs : Moves(p)
         \/ ForeignBegin \/ ForeignEnd \/ UNCHANGED vars
  BY DEF Next, Environment, Moves

\* Every step preserves the invariant and only lets the directories grow.
LEMMA StartupStep ==
  ASSUME SInv, [Next]_vars
  PROVE  SInv' /\ Grows
<1>1. ASSUME NEW p \in Procs, Moves(p) PROVE SInv' /\ Grows
  <2>1. After(p)
    BY <1>1, MovesAfter
  <2>2. ASSUME NEW q \in Procs \ {p} PROVE Relies(q)' /\ InTime(q)'
    BY <2>1, <2>2, KeepsRelies DEF After, SInv
  <2> QED BY <2>1, <2>2 DEF After, SInv
<1>2. CASE ForeignBegin \/ ForeignEnd \/ UNCHANGED vars
  <2>1. Shape' /\ Grows /\ \A q \in Procs : Keeps(q)
    BY <1>2, OutsideAfter
  <2>2. ASSUME NEW q \in Procs PROVE Relies(q)' /\ InTime(q)'
    BY <2>1, <2>2, KeepsRelies DEF SInv
  <2> QED BY <2>1, <2>2 DEF SInv
<1> QED BY <1>1, <1>2, StepCases

\* Every process finds what it relies on, however the steps of InitContext, Discover
\* and store.Open interleave.
THEOREM StartupInvariance == Spec => []SInv
<1>1. Init => SInv
  BY StartupInit
<1>2. SInv /\ [Next]_vars => SInv'
  BY StartupStep
<1> QED BY <1>1, <1>2, PTL DEF Spec

\* Every variable has its type, and only a process inside the migration transaction
\* holds it (store.go:314-352).
THEOREM StartupTypes == Spec => []TypeOK
<1>1. SInv => TypeOK
  BY DEF SInv, Shape, Relies, TypeOK
<1> QED BY <1>1, StartupInvariance, PTL

\* For every timeout and longest backoff, the retry loop sleeps no longer than the
\* timeout and gives up with ErrBusy only when it is used up (write.go:984-999).
THEOREM DeadlineHonoured == Spec => []RetryHonoursDeadline
<1>1. SInv => RetryHonoursDeadline
  BY DEF SInv, InTime, RetryHonoursDeadline
<1> QED BY <1>1, StartupInvariance, PTL

\* For any number of processes, an InitContext that returned without an error left a
\* marker and a sound database at the latest version (project.go:169, 246).
THEOREM InitSucceedsWhole == Spec => []InitLeavesUsableProject
<1>1. SInv => InitLeavesUsableProject
  BY DEF SInv, Relies, InitLeavesUsableProject, Procs
<1> QED BY <1>1, StartupInvariance, PTL

\* A project that is not there appears whole, by the rename of InitContext, and a
\* whole one stays whole under every step of every process (project.go:156).
THEOREM AppearsWhole == Spec => ProjectAppearsWhole
<1>1. ASSUME SInv, [Next]_vars, dirs[1] = NoDir \/ IsComplete(dirs[1])
      PROVE  dirs'[1] = NoDir \/ IsComplete(dirs'[1])
  <2>1. Shape' /\ Grows
    BY <1>1, StartupStep DEF SInv
  <2>2. IsComplete(Dir("ok", NewDb))
    BY DEF IsComplete, Dir, NewDb
  <2>3. CASE dirs[1] = NoDir
    BY <2>1, <2>2, <2>3 DEF Grows
  <2>4. CASE IsComplete(dirs[1])
    BY <2>1, <2>4, CompleteStays
  <2> QED BY <1>1, <2>3, <2>4
<1> QED BY <1>1, StartupInvariance, PTL DEF Spec, ProjectAppearsWhole

\* The version on disk goes from what it was to the latest in one step, and only for
\* a database that validates; the one other change is the creation of the file
\* (store.go:314-352).
THEOREM MigratesWhole == Spec => MigrationAllOrNothing
<1>1. ASSUME SInv, [Next]_vars, dirs[1] # NoDir, dirs'[1].db.version # dirs[1].db.version
      PROVE  \/ dirs[1].db.version = -1 /\ dirs'[1].db.version = 0
             \/ dirs[1].db.sound /\ dirs'[1].db.version = Latest
  BY <1>1, StartupStep DEF Grows
<1> QED BY <1>1, StartupInvariance, PTL DEF Spec, MigrationAllOrNothing

-----------------------------------------------------------------------------
(* Who writes the marker *)

\* The actions that write a directory, and the ones a process has left where it
\* writes the marker or has returned.
LEMMA LabelMoves ==
  ASSUME NEW p \in Procs, Moves(p)
  PROVE  /\ \/ UNCHANGED dirs
            \/ /\ p \in Inits
               /\ \/ Publish(p) \/ EnableWal(p) \/ CommitMigrations(p)
                  \/ CreateMarker(p) \/ WriteMarker(p)
         /\ pc[p] = "write-marker" =>
               WriteMarker(p) \/ StoreExitCode(p) \/ CancelContext(p) \/ Crash(p)
         /\ pc[p] = "cleanup" =>
               Cleanup(p) \/ StoreExitCode(p) \/ CancelContext(p) \/ Crash(p)
         /\ pc[p] \notin Ended
<1>1. CASE InitStep(p) /\ p \in Inits
  <2>1. CASE \/ InitStart(p) \/ BuildStage(p) \/ CompleteStart(p) \/ Migrate(p)
             \/ Integrity(p) \/ Cleanup(p)
    BY <2>1 DEF InitStart, BuildStage, CompleteStart, Migrate, Integrity, Cleanup, Ended
  <2>2. CASE \/ Publish(p) \/ EnableWal(p) \/ CommitMigrations(p)
             \/ CreateMarker(p) \/ WriteMarker(p)
    BY <1>1, <2>2
    DEF Publish, EnableWal, CommitMigrations, CreateMarker, WriteMarker, BusyRetry, Ended
  <2>3. CASE BeginImmediate(p)
    BY <2>3 DEF BeginImmediate, BusyRetry, Ended
  <2> QED BY <1>1, <2>1, <2>2, <2>3 DEF InitStep
<1>2. CASE Find(p) \/ Validate(p)
  BY <1>2 DEF Find, Validate, ReadMarker, ReadDatabase, Ended
<1>3. CASE StoreExitCode(p) \/ CancelContext(p) \/ Crash(p)
  BY <1>3 DEF StoreExitCode, CancelContext, Crash
<1> QED BY <1>1, <1>2, <1>3 DEF Moves, Step

Partial == dirs[1] # NoDir /\ dirs[1].marker = "partial"

HasWriter(p) == pc[p] \in {"write-marker", "crashed"} \/ result[p] = "io"

\* A marker becomes partial only under the hands of a writer.
LEMMA BecomesPartial ==
  ASSUME SInv, NEW p \in Procs, Moves(p), Partial'
  PROVE  Partial \/ (p \in Inits /\ HasWriter(p)')
<1>1. CASE UNCHANGED dirs
  BY <1>1 DEF Partial
<1>2. CASE p \in Inits /\ Publish(p)
  <2>1. /\ Shape /\ stage[p] = Dir("ok", NewDb)
        /\ UNCHANGED dirs \/ dirs' = [dirs EXCEPT ![1] = stage[p]]
    BY <1>2 DEF SInv, Relies, Publish
  <2>2. Dir("ok", NewDb).marker = "ok"
    BY DEF Dir
  <2> QED BY <2>1, <2>2 DEF Partial, Shape
<1>3. CASE p \in Inits /\ CreateMarker(p)
  BY <1>3 DEF CreateMarker, Goto, Partial, HasWriter, SInv, Shape
<1>4. CASE p \in Inits /\ WriteMarker(p)
  <2>1. Shape /\ dirs[1] # NoDir
    BY <1>4 DEF SInv, Relies, WriteMarker, Opened, Migrated
  <2>2. dirs[1] \in DirRecords
    BY <2>1, TargetFact
  <2>3. dirs' # [dirs EXCEPT ![1].marker = "ok"]
    BY <2>1, <2>2 DEF Partial, Shape, DirRecords
  <2> QED BY <1>4, <2>3 DEF WriteMarker, Partial
<1>5. CASE p \in Inits /\ (EnableWal(p) \/ CommitMigrations(p))
  <2>1. pc[p] \in Opened
    BY <1>5 DEF EnableWal, BusyRetry, CommitMigrations, Opened
  <2>2. Shape /\ dirs[1] # NoDir /\ dirs[1] \in DirRecords
    BY <1>5, <2>1, OpenedFact
  <2>3. dirs'[1].marker = dirs[1].marker
    <3>1. CASE UNCHANGED dirs
      BY <3>1
    <3>2. CASE dirs' = [dirs EXCEPT ![1].db =
                 [version |-> IF @.version < 0 THEN 0 ELSE @.version,
                  sound |-> @.sound, wal |-> TRUE]]
      BY <2>2, <3>2 DEF Shape, DirRecords
    <3>3. CASE dirs' = [dirs EXCEPT ![1].db.version = tx.version]
      BY <2>2, <3>3 DEF Shape, DirRecords
    <3> QED BY <1>5, <3>1, <3>2, <3>3 DEF EnableWal, BusyRetry, CommitMigrations
  <2> QED BY <2>2, <2>3 DEF Partial
<1> QED BY <1>1, <1>2, <1>3, <1>4, <1>5, LabelMoves

\* A writer that leaves a partial marker died or reported it, and that stays.
LEMMA WriterStays ==
  ASSUME SInv, NEW p \in Procs, Moves(p), Partial', HasWriter(p), p \in Inits
  PROVE  HasWriter(p)'
<1>1. Shape /\ Relies(p)
  BY DEF SInv
<1>2. pc[p] \notin Ended
  BY LabelMoves
<1>3. CASE pc[p] = "write-marker"
  <2>1. dirs[1] \in DirRecords
    BY <1>1, <1>3, TargetFact DEF Relies, Opened, Migrated
  <2>2. dirs' # [dirs EXCEPT ![1].marker = "ok"]
    BY <1>1, <2>1 DEF Partial, Shape, DirRecords
  <2>3. CASE WriteMarker(p)
    BY <1>1, <2>2, <2>3 DEF WriteMarker, Return, HasWriter, Shape
  <2>4. CASE StoreExitCode(p) \/ CancelContext(p) \/ Crash(p)
    BY <1>1, <1>3, <2>4 DEF StoreExitCode, CancelContext, Crash, Goto, HasWriter, Shape
  <2> QED BY <1>3, <2>3, <2>4, LabelMoves
<1>4. CASE result[p] = "io"
  <2>1. pc[p] = "cleanup"
    BY <1>1, <1>2, <1>4 DEF Relies
  <2>2. Cleanup(p) \/ StoreExitCode(p) \/ CancelContext(p) \/ Crash(p)
    BY <2>1, LabelMoves
  <2> QED BY <1>4, <2>2 DEF Cleanup, StoreExitCode, CancelContext, Crash, HasWriter
<1> QED BY <1>2, <1>3, <1>4 DEF HasWriter, Ended

\* Unless the directory already held an incomplete marker, one that is there has a
\* writer (project.go:198-207, 229-238).
THEOREM PartialMarkers ==
  ASSUME \A l \in Layouts : l[1] # NoDir => l[1].marker # "partial"
  PROVE  Spec => []PartialMarkerHasWriter
<1>1. Init => PartialMarkerHasWriter
  BY DEF Init, PartialMarkerHasWriter
<1>2. ASSUME SInv, PartialMarkerHasWriter, [Next]_vars
      PROVE  PartialMarkerHasWriter'
  <2> SUFFICES ASSUME Partial'
               PROVE  \E p \in Inits : HasWriter(p)'
    BY DEF PartialMarkerHasWriter, Partial, HasWriter
  <2>1. ASSUME NEW p \in Procs, Moves(p) PROVE \E q \in Inits : HasWriter(q)'
    <3>1. CASE p \in Inits /\ HasWriter(p)'
      BY <3>1
    <3>2. CASE Partial
      <4>1. PICK q \in Inits : HasWriter(q)
        BY <1>2, <3>2 DEF PartialMarkerHasWriter, Partial, HasWriter
      <4>2. CASE q = p
        BY <1>2, <2>1, <4>1, <4>2, WriterStays
      <4>3. CASE q # p
        <5>1. Keeps(q)
          BY <1>2, <2>1, <4>3, MovesAfter DEF After, Procs
        <5> QED BY <4>1, <5>1 DEF Keeps, HasWriter
      <4> QED BY <4>2, <4>3
    <3> QED BY <1>2, <2>1, <3>1, <3>2, BecomesPartial
  <2>2. CASE ForeignBegin \/ ForeignEnd \/ UNCHANGED vars
    <3>1. UNCHANGED <<dirs, pc, result>>
      BY <2>2 DEF ForeignBegin, ForeignEnd, vars
    <3> QED BY <1>2, <3>1 DEF PartialMarkerHasWriter, Partial, HasWriter
  <2> QED BY <1>2, <2>1, <2>2, StepCases
<1> QED BY <1>1, <1>2, StartupInvariance, PTL DEF Spec

-----------------------------------------------------------------------------
(* What is sound is never refused *)

Refusals == {"invalid", "corrupt", "newer"}

\* The target is empty, or has its marker and a sound database that is not too
\* new; a parent directory has its marker.
SoundLayout ==
  /\ dirs[1] # NoDir =>
        dirs[1].marker = "ok" /\ dirs[1].db.sound /\ dirs[1].db.version <= Latest
  /\ dirs[2] # NoDir => dirs[2].marker = "ok"

\* What process p read of such a directory, and what it reported.
Accepts(p) ==
  /\ pc[p] \in {"first-db", "last-db", "found-db"} => seen[p] = "ok"
  /\ pc[p] = "migrate" => tx.version <= Latest
  /\ result[p] \notin Refusals

GInv == SoundLayout /\ \A p \in Procs : Accepts(p)

\* No step makes a sound directory unsound.
LEMMA SoundStays ==
  ASSUME SoundLayout, Grows
  PROVE  SoundLayout'
<1>1. CASE dirs[1] = NoDir
  <2>1. Dir("ok", NewDb).marker = "ok" /\ Dir("ok", NewDb).db = NewDb
    BY DEF Dir
  <2>2. NewDb.sound /\ NewDb.version <= Latest
    BY StartupAssumption DEF NewDb
  <2>3. dirs'[1] # NoDir =>
          dirs'[1].marker = "ok" /\ dirs'[1].db.sound /\ dirs'[1].db.version <= Latest
    BY <1>1, <2>1, <2>2 DEF Grows
  <2> QED BY <2>3 DEF SoundLayout, Grows
<1>2. CASE dirs[1] # NoDir
  <2>1. dirs'[1].db.version <= Latest
    BY <1>2, StartupAssumption DEF SoundLayout, Grows
  <2>2. dirs'[1].marker = "ok" /\ dirs'[1].db.sound
    BY <1>2 DEF SoundLayout, Grows
  <2> QED BY <2>1, <2>2 DEF SoundLayout, Grows
<1> QED BY <1>1, <1>2

\* A step of p that leaves no database header unread and no migration under way.
LEMMA ElsewhereAccepts ==
  ASSUME SInv, NEW p \in Procs, Accepts(p),
         pc'[p] \notin {"first-db", "last-db", "found-db", "migrate"},
         result'[p] = result[p] \/ result'[p] \notin Refusals
  PROVE  Accepts(p)'
  BY DEF Accepts

\* A step of p that only returns something else than a refusal, or moves on.
LEMMA GotoAccepts ==
  ASSUME SInv, NEW p \in Procs, Accepts(p),
         \/ \E r \in Results \ Refusals : Return(p, r)
         \/ /\ \E l \in InitLabels \cup FindLabels :
                 Goto(p, l) /\ l \notin {"first-db", "last-db", "found-db", "migrate"}
            /\ UNCHANGED result
  PROVE  Accepts(p)'
<1>1. Shape
  BY DEF SInv
<1>2. CASE \E r \in Results \ Refusals : Return(p, r)
  <2>1. PICK r \in Results \ Refusals : Return(p, r)
    BY <1>2
  <2>2. /\ result'[p] = r
        /\ pc'[p] \in {"cleanup", "done"}
    BY <1>1, <2>1 DEF Return, Goto, Shape
  <2> QED BY <2>2, ElsewhereAccepts
<1>3. CASE /\ \E l \in InitLabels \cup FindLabels :
                Goto(p, l) /\ l \notin {"first-db", "last-db", "found-db", "migrate"}
           /\ UNCHANGED result
  BY <1>1, <1>3, ElsewhereAccepts DEF Goto, Shape
<1> QED BY <1>2, <1>3

\* A header is read where the marker was seen to be whole.
LEMMA MarkerAccepts ==
  ASSUME SInv, SoundLayout, NEW p \in Procs, Accepts(p),
         NEW at \in {"first-marker", "last-marker", "found-marker"},
         NEW next \in {"first-db", "last-db", "found-db"}, ReadMarker(p, at, next)
  PROVE  Accepts(p)'
<1>1. Shape /\ Relies(p) /\ pc[p] = at
  BY DEF SInv, ReadMarker
<1>2. loc[p] \in 1 .. 2 /\ dirs[loc[p]] # NoDir
  BY <1>1 DEF Shape, Relies, Opened, Migrated, InitLabels, FindLabels, Ended
<1>3. dirs[loc[p]].marker = "ok"
  BY <1>2 DEF SoundLayout
<1>4. seen'[p] = "ok" /\ pc'[p] = next /\ result' = result
  BY <1>1, <1>3 DEF ReadMarker, Goto, Shape
<1> QED BY <1>4 DEF Accepts

\* A marker that was seen to be whole makes the header acceptable.
LEMMA DatabaseAccepts ==
  ASSUME SInv, NEW p \in Procs, Accepts(p),
         \/ ReadDatabase(p, "first-db", "wal")
         \/ ReadDatabase(p, "last-db", "ok")
         \/ ReadDatabase(p, "found-db", "ok")
  PROVE  Accepts(p)'
<1>1. seen[p] = "ok"
  BY DEF ReadDatabase, Accepts
<1>2. ~MetadataError(seen[p], dirs[loc[p]].db)
  BY <1>1 DEF MetadataError
<1>3. Return(p, "ok") \/ (Goto(p, "wal") /\ UNCHANGED result)
  BY <1>2 DEF ReadDatabase
<1> QED BY <1>3, GotoAccepts DEF Results, Refusals, InitLabels

\* Discover itself refuses nothing.
LEMMA FindAccepts ==
  ASSUME SInv, NEW p \in Procs, Accepts(p), Find(p)
  PROVE  Accepts(p)'
<1>1. CASE Return(p, "notfound") \/ (Goto(p, "found-marker") /\ UNCHANGED result)
  BY <1>1, GotoAccepts DEF Results, Refusals, FindLabels
<1>2. CASE UNCHANGED <<pc, result>>
  BY <1>2, ElsewhereAccepts DEF Find
<1> QED BY <1>1, <1>2 DEF Find

\* The transaction starts at a version that is not too new and never passes the
\* latest.
LEMMA BeginAccepts ==
  ASSUME SInv, SoundLayout, NEW p \in Inits, Accepts(p), BeginImmediate(p)
  PROVE  Accepts(p)'
<1>1. pc[p] = "begin"
  BY DEF BeginImmediate, BusyRetry
<1>2. p \in Procs /\ Shape /\ dirs[1] # NoDir
  BY <1>1, OpenedFact DEF Opened
<1>3. CASE Return(p, "cancelled") \/ Return(p, "busy")
  BY <1>2, <1>3, GotoAccepts DEF Results, Refusals
<1>4. CASE /\ tx' = [holder |-> p, version |-> dirs[1].db.version]
           /\ Goto(p, "migrate") /\ UNCHANGED result
  <2>1. tx'.version <= Latest
    BY <1>2, <1>4 DEF SoundLayout
  <2>2. pc'[p] = "migrate"
    BY <1>2, <1>4 DEF Goto, Shape
  <2> QED BY <1>4, <2>1, <2>2 DEF Accepts
<1>5. CASE UNCHANGED <<pc, result>>
  BY <1>1, <1>2, <1>5, ElsewhereAccepts
<1> QED BY <1>3, <1>4, <1>5 DEF BeginImmediate, BusyRetry

\* A migration of a sound database that is not too new is not rolled back as such.
LEMMA MigrateAccepts ==
  ASSUME SInv, SoundLayout, NEW p \in Inits, Accepts(p), Migrate(p)
  PROVE  Accepts(p)'
<1>1. pc[p] = "migrate" /\ tx.version <= Latest
  BY DEF Migrate, Accepts
<1>2. p \in Procs /\ Shape /\ dirs[1] # NoDir
  BY <1>1, OpenedFact DEF Opened
<1>3. dirs[1].db.sound /\ tx.version \in 0 .. Latest + 1
  BY <1>2 DEF SoundLayout, Shape
<1>4. CASE Return(p, "cancelled") \/ (Goto(p, "validate") /\ UNCHANGED result)
  BY <1>2, <1>4, GotoAccepts DEF Results, Refusals, InitLabels
<1>5. CASE /\ tx.version # Latest /\ tx' = [tx EXCEPT !.version = @ + 1]
           /\ UNCHANGED <<pc, result>>
  <2>1. tx' = [tx EXCEPT !.version = tx.version + 1]
        /\ tx \in [holder : Procs \cup {"nobody", "foreign"}, version : 0 .. Latest + 1]
    BY <1>2, <1>5 DEF Shape
  <2>2. tx'.version = tx.version + 1
    BY <2>1
  <2>3. tx'.version <= Latest
    BY <1>1, <1>3, <1>5, <2>2, StartupAssumption
  <2> QED BY <1>1, <1>5, <2>3 DEF Accepts
<1>6. ~(tx.version > Latest)
  BY <1>1, <1>3, StartupAssumption
<1> QED BY <1>3, <1>4, <1>5, <1>6 DEF Migrate, Rollback

\* Every other action of an initialiser.
LEMMA InitAccepts ==
  ASSUME SInv, SoundLayout, NEW p \in Inits, Accepts(p), InitStep(p)
  PROVE  Accepts(p)'
<1>1. p \in Procs /\ Shape
  BY DEF SInv, Procs
<1>2. CASE InitStart(p)
  BY <1>1, <1>2, GotoAccepts DEF InitStart, Results, Refusals, InitLabels
<1>3. CASE BuildStage(p)
  BY <1>1, <1>3, GotoAccepts DEF BuildStage, Results, Refusals, InitLabels
<1>4. CASE Publish(p)
  BY <1>1, <1>4, GotoAccepts DEF Publish, Results, Refusals, InitLabels
<1>5. CASE CompleteStart(p)
  BY <1>1, <1>5, GotoAccepts DEF CompleteStart, Results, Refusals, InitLabels
<1>6. CASE EnableWal(p)
  <2>1. CASE UNCHANGED <<pc, result>>
    BY <1>1, <1>6, <2>1, ElsewhereAccepts DEF EnableWal, BusyRetry
  <2>2. CASE ~UNCHANGED <<pc, result>>
    BY <1>1, <1>6, <2>2, GotoAccepts DEF EnableWal, BusyRetry, Results, Refusals, InitLabels
  <2> QED BY <2>1, <2>2
<1>7. CASE CommitMigrations(p)
  <2>1. pc[p] = "validate" /\ dirs[1].db.sound
    BY <1>7, OpenedFact DEF CommitMigrations, Opened, SoundLayout
  <2>2. Return(p, "cancelled") \/ (Goto(p, "integrity") /\ UNCHANGED result)
    BY <1>7, <2>1 DEF CommitMigrations, Rollback
  <2> QED BY <1>1, <2>2, GotoAccepts DEF Results, Refusals, InitLabels
<1>8. CASE Integrity(p)
  BY <1>1, <1>8, GotoAccepts DEF Integrity, Results, Refusals, InitLabels
<1>9. CASE CreateMarker(p)
  BY <1>1, <1>9, GotoAccepts DEF CreateMarker, Results, Refusals, InitLabels
<1>10. CASE WriteMarker(p)
  BY <1>1, <1>10, GotoAccepts DEF WriteMarker, Results, Refusals, InitLabels
<1>11. CASE Cleanup(p)
  BY <1>1, <1>11, GotoAccepts DEF Cleanup, Results, Refusals, InitLabels, Ended
<1> QED BY <1>2, <1>3, <1>4, <1>5, <1>6, <1>7, <1>8, <1>9, <1>10, <1>11,
           BeginAccepts, MigrateAccepts DEF InitStep

\* No step of a process refuses what is sound.
LEMMA MovesAccepts ==
  ASSUME SInv, SoundLayout, NEW p \in Procs, Accepts(p), Moves(p)
  PROVE  Accepts(p)'
<1>1. CASE p \in Inits /\ InitStep(p)
  BY <1>1, InitAccepts
<1>2. CASE Find(p)
  BY <1>2, FindAccepts
<1>3. CASE Validate(p)
  BY <1>3, MarkerAccepts, DatabaseAccepts DEF Validate
<1>4. CASE StoreExitCode(p) \/ CancelContext(p)
  BY <1>4 DEF StoreExitCode, CancelContext, Accepts
<1>5. CASE Crash(p)
  BY <1>5, ElsewhereAccepts DEF Crash, Goto, SInv, Shape
<1> QED BY <1>1, <1>2, <1>3, <1>4, <1>5 DEF Moves, Step

\* What a process read and reported does not change under the steps of others.
LEMMA KeepsAccepts ==
  ASSUME SInv, NEW q \in Procs, Accepts(q), Keeps(q)
  PROVE  Accepts(q)'
<1>1. Relies(q)
  BY DEF SInv
<1>2. pc[q] = "migrate" => tx'.version = tx.version
  BY <1>1 DEF Relies, Keeps
<1> QED BY <1>2 DEF Accepts, Keeps

\* Where the parent directory has no project or one with its marker, a target that
\* is empty or sound is never refused, whoever initialises, migrates or is killed
\* meanwhile (project.go:73-74, 157-161).
THEOREM SoundNeverRefused ==
  ASSUME \A l \in Layouts : l[2] # NoDir => l[2].marker = "ok"
  PROVE  Spec => SoundLayoutNeverRefused
<1> DEFINE SoundTarget ==
      dirs[1] = NoDir \/ (/\ dirs[1].kind = "dir" /\ dirs[1].marker = "ok"
                          /\ dirs[1].db.sound /\ dirs[1].db.version <= Latest)
<1>1. Init /\ SoundTarget => GInv
  BY DEF Init, GInv, SoundLayout, Accepts, Refusals
<1>2. ASSUME SInv, GInv, [Next]_vars PROVE GInv'
  <2>1. SoundLayout'
    BY <1>2, StartupStep, SoundStays DEF GInv
  <2>2. ASSUME NEW p \in Procs, Moves(p) PROVE GInv'
    <3>1. After(p)
      BY <1>2, <2>2, MovesAfter
    <3>2. ASSUME NEW q \in Procs \ {p} PROVE Accepts(q)'
      BY <1>2, <3>1, <3>2, KeepsAccepts DEF GInv, After
    <3>3. Accepts(p)'
      BY <1>2, <2>2, MovesAccepts DEF GInv
    <3> QED BY <2>1, <3>2, <3>3 DEF GInv
  <2>3. CASE ForeignBegin \/ ForeignEnd \/ UNCHANGED vars
    <3>1. \A q \in Procs : Keeps(q)
      BY <1>2, <2>3, OutsideAfter
    <3> QED BY <1>2, <2>1, <3>1, KeepsAccepts DEF GInv
  <2> QED BY <1>2, <2>2, <2>3, StepCases
<1>3. GInv => \A p \in Procs : result[p] \notin {"invalid", "corrupt", "newer"}
  BY DEF GInv, Accepts, Refusals
<1> QED BY <1>1, <1>2, <1>3, StartupInvariance, PTL DEF Spec, SoundLayoutNeverRefused

=============================================================================
