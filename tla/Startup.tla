------------------------------- MODULE Startup -------------------------------
(***************************************************************************)
(* How a project comes into being and how its database is opened:          *)
(* internal/project/project.go (InitContext, Discover), store.Open with    *)
(* its migrations (internal/store/store.go), the busy retry around         *)
(* BEGIN IMMEDIATE (internal/store/write.go) and the signal handler of     *)
(* cmd/sheets/main.go.  Several processes run "sheets init" on one         *)
(* directory while others look the project up and a foreign SQLite client  *)
(* takes and drops the write lock.  A process may be signalled or killed   *)
(* between any two of its steps.                                           *)
(*                                                                         *)
(* A directory is NoDir or [marker, db]; a database file is NoDb or        *)
(* [version, sound, wal]: its user_version, whether its fingerprint and    *)
(* values are the ones that version requires, and its journal mode.  A     *)
(* staging directory has a random name, so nobody but its owner opens it:  *)
(* the open inside it is one step.                                         *)
(***************************************************************************)
EXTENDS Integers, FiniteSets

CONSTANTS
  Inits,       \* processes that run InitContext on directory 1
  Finders,     \* processes that run Discover from directory 1
  Latest,      \* schemaVersion
  Timeout,     \* the busy timeout, in units of the first backoff
  MaxBackoff,  \* the longest single wait of the retry loop
  Layouts,     \* what the directory and its parent may hold at the start
  MaxTrouble   \* bound: signals delivered, processes killed and failing file operations

Procs == Inits \cup Finders

\* "nobody" and "foreign" are what stands for no process in tx.
ASSUME StartupAssumption ==
  /\ {"nobody", "foreign"} \cap Procs = {}
  /\ Latest \in Nat \ {0}
  /\ Timeout \in Nat
  /\ MaxBackoff \in Nat \ {0}
  /\ MaxTrouble \in Nat

NoDir == [kind |-> "nodir"]
NoDb == [version |-> -1, sound |-> TRUE, wal |-> FALSE]
NewDb == [version |-> Latest, sound |-> TRUE, wal |-> TRUE]
Dir(m, d) == [kind |-> "dir", marker |-> m, db |-> d]

\* Version Latest + 1 stands for every later one.
Markers == {"absent", "partial", "ok"}
Databases == [version : -1 .. Latest + 1, sound : BOOLEAN, wal : BOOLEAN]
Directories == {NoDir} \cup [kind : {"dir"}, marker : Markers, db : Databases]

ASSUME LayoutAssumption == Layouts \subseteq [1 .. 2 -> Directories]

\* A directory whose marker is whole and whose database is at the latest version.
IsComplete(d) ==
  d.kind = "dir" /\ d.marker = "ok" /\ d.db.version = Latest /\ d.db.sound

VARIABLES
  dirs,     \* dirs[1]: .sheets of the target, dirs[2]: of its parent directory
  stage,    \* each initialiser's staging directory
  tx,       \* the write transaction on the target's database: holder, version
  pc, loc,  \* per process: next step; Discover's current directory
  seen,     \* the marker as validateMetadata read it
  retry,    \* the retry loop: time slept so far and the next backoff
  signal,   \* what a signal did to each process so far: "code" stored, "context" cancelled
  result,   \* what the call returned
  budget    \* how much trouble is still allowed

vars == <<dirs, stage, tx, pc, loc, seen, retry, signal, result, budget>>

NoTx == [holder |-> "nobody", version |-> 0]
FreshRetry == [slept |-> 0, backoff |-> 1]
Cancelled(p) == "context" \in signal[p]
Ended == {"done", "crashed"}

Init ==
  /\ dirs \in Layouts
  /\ stage = [p \in Inits |-> NoDir]
  /\ tx = NoTx
  /\ pc = [p \in Procs |-> IF p \in Inits THEN "start" ELSE "find"]
  /\ loc = [p \in Procs |-> 1]
  /\ seen = [p \in Procs |-> "absent"]
  /\ retry = [p \in Procs |-> FreshRetry]
  /\ signal = [p \in Procs |-> {}]
  /\ result = [p \in Procs |-> "none"]
  /\ budget = MaxTrouble

Goto(p, l) == pc' = [pc EXCEPT ![p] = l]

\* The call returns r; the deferred cleanup of an initialiser still runs first.
Return(p, r) ==
  /\ result' = [result EXCEPT ![p] = r]
  /\ Goto(p, IF p \in Inits THEN "cleanup" ELSE "done")

-----------------------------------------------------------------------------
(* InitContext *)

\* The context check and the Lstat that chooses between a new and an existing project.
InitStart(p) ==
  /\ pc[p] = "start"
  /\ IF Cancelled(p) THEN Return(p, "cancelled")
     ELSE /\ Goto(p, IF dirs[1] = NoDir THEN "stage" ELSE "complete")
          /\ UNCHANGED result
  /\ UNCHANGED <<dirs, stage, tx, loc, seen, retry, signal, budget>>

\* createStage, writeMarker and store.Open inside the staging directory, the
\* close, the chmod and the sync.
BuildStage(p) ==
  /\ pc[p] = "stage"
  /\ \/ /\ ~Cancelled(p)
        /\ stage' = [stage EXCEPT ![p] = Dir("ok", NewDb)]
        /\ Goto(p, "publish")
        /\ UNCHANGED <<result, budget>>
     \/ /\ Cancelled(p)
        /\ \E d \in {NoDb, [NoDb EXCEPT !.version = 0]} :
             stage' = [stage EXCEPT ![p] = Dir("ok", d)]
        /\ Return(p, "cancelled")
        /\ UNCHANGED budget
     \/ /\ budget > 0
        /\ budget' = budget - 1
        /\ \E d \in {NoDir, Dir("partial", NoDb), Dir("ok", [NoDb EXCEPT !.version = 0])} :
             stage' = [stage EXCEPT ![p] = d]
        /\ Return(p, "io")
  /\ UNCHANGED <<dirs, tx, loc, seen, retry, signal>>

\* Variant: the directory is published first and filled afterwards.
PublishUnfilled(p) ==
  /\ pc[p] = "publish"
  /\ IF dirs[1] = NoDir
     THEN dirs' = [dirs EXCEPT ![1] = Dir("ok", NoDb)]
     ELSE UNCHANGED dirs
  /\ Goto(p, "complete")
  /\ UNCHANGED <<tx, loc, seen, retry, signal, budget, stage, result>>

\* The last context check and the one atomic rename.  A rename that finds the
\* directory already there falls back to the project the winner published.
Publish(p) ==
  /\ pc[p] = "publish"
  /\ \/ /\ Cancelled(p)
        /\ Return(p, "cancelled")
        /\ UNCHANGED <<dirs, stage>>
     \/ /\ ~Cancelled(p) /\ dirs[1] = NoDir
        /\ dirs' = [dirs EXCEPT ![1] = stage[p]]
        /\ stage' = [stage EXCEPT ![p] = NoDir]
        /\ Goto(p, "last-marker")
        /\ UNCHANGED result
     \/ /\ ~Cancelled(p) /\ dirs[1] # NoDir
        /\ Goto(p, "complete")
        /\ UNCHANGED <<dirs, stage, result>>
  /\ UNCHANGED <<tx, loc, seen, retry, signal, budget>>

\* The deferred RemoveAll of a stage that was not published.
Cleanup(p) ==
  /\ pc[p] = "cleanup"
  /\ stage' = [stage EXCEPT ![p] = NoDir]
  /\ Goto(p, "done")
  /\ UNCHANGED <<dirs, tx, loc, seen, retry, signal, result, budget>>

-----------------------------------------------------------------------------
(* validateMetadata: reads the marker, then the header of the database. *)

\* Variant: a marker always needs a database beside it.
MetadataErrorStrict(m, d) == m = "partial" \/ d.version <= 0

\* What validateMetadata says of a marker it read and a database it reads now.
MetadataError(m, d) ==
  \/ m = "partial"
  \/ m = "absent" /\ d.version <= 0 /\ ~d.wal

ReadMarker(p, at, next) ==
  /\ pc[p] = at
  /\ seen' = [seen EXCEPT ![p] = dirs[loc[p]].marker]
  /\ Goto(p, next)
  /\ UNCHANGED <<dirs, stage, tx, loc, retry, signal, result, budget>>

ReadDatabase(p, at, next) ==
  /\ pc[p] = at
  /\ IF MetadataError(seen[p], dirs[loc[p]].db)
     THEN Return(p, "invalid")
     ELSE IF next = "ok" THEN Return(p, "ok")
     ELSE Goto(p, next) /\ UNCHANGED result
  /\ UNCHANGED <<dirs, stage, tx, loc, seen, retry, signal, budget>>

Validate(p) ==
  \/ ReadMarker(p, "first-marker", "first-db") \/ ReadDatabase(p, "first-db", "wal")
  \/ ReadMarker(p, "last-marker", "last-db") \/ ReadDatabase(p, "last-db", "ok")
  \/ ReadMarker(p, "found-marker", "found-db") \/ ReadDatabase(p, "found-db", "ok")

\* Discover: the nearest directory that has metadata, or none.
Find(p) ==
  /\ pc[p] = "find"
  /\ IF dirs[loc[p]] # NoDir
     THEN Goto(p, "found-marker") /\ UNCHANGED <<loc, result>>
     ELSE IF loc[p] = 2
     THEN Return(p, "notfound") /\ UNCHANGED loc
     ELSE loc' = [loc EXCEPT ![p] = 2] /\ UNCHANGED <<pc, result>>
  /\ UNCHANGED <<dirs, stage, tx, seen, retry, signal, budget>>

-----------------------------------------------------------------------------
(* completeExistingProject: store.Open on the shared database, then the marker. *)

CompleteStart(p) ==
  /\ pc[p] = "complete"
  /\ IF Cancelled(p) THEN Return(p, "cancelled")
     ELSE Goto(p, "first-marker") /\ UNCHANGED result
  /\ UNCHANGED <<dirs, stage, tx, loc, seen, retry, signal, budget>>

Smaller(a, b) == IF a <= b THEN a ELSE b

\* Variant: the wait ignores the time that is left.
WaitFull(r) == r.backoff

\* How long the retry loop sleeps before its next attempt.
Wait(r) == Smaller(r.backoff, Timeout - r.slept)

\* Variant: no deadline.
BusyRetryForever(p, at, granted, next) ==
  /\ pc[p] = at
  /\ granted
  /\ next
  /\ UNCHANGED <<stage, loc, seen, signal, budget, retry, result>>

\* One turn of the retry loop at label "at": the attempt is granted or refused;
\* a refused attempt gives up at the deadline, and otherwise sleeps, never past it.
BusyRetry(p, at, granted, next) ==
  /\ pc[p] = at
  /\ IF Cancelled(p) THEN Return(p, "cancelled") /\ UNCHANGED <<dirs, tx, retry>>
     ELSE IF granted
     THEN /\ next
          /\ retry' = [retry EXCEPT ![p] = FreshRetry]
          /\ UNCHANGED result
     ELSE IF Timeout = 0 \/ Timeout - retry[p].slept <= 0
     THEN Return(p, "busy") /\ UNCHANGED <<dirs, tx, retry>>
     ELSE /\ retry' = [retry EXCEPT ![p] =
                         [slept |-> @.slept + Wait(@),
                          backoff |-> Smaller(2 * @.backoff, MaxBackoff)]]
          /\ UNCHANGED <<dirs, tx, pc, result>>
  /\ UNCHANGED <<stage, loc, seen, signal, budget>>

\* PRAGMA journal_mode=WAL creates a missing file; a database that is not yet in
\* WAL mode must be free to be converted.
EnableWal(p) ==
  BusyRetry(p, "wal", dirs[1].db.wal \/ tx = NoTx,
            /\ dirs' = [dirs EXCEPT ![1].db =
                 [version |-> IF @.version < 0 THEN 0 ELSE @.version,
                  sound |-> @.sound, wal |-> TRUE]]
            /\ Goto(p, "begin")
            /\ UNCHANGED tx)

\* BEGIN IMMEDIATE and PRAGMA user_version.
BeginImmediate(p) ==
  BusyRetry(p, "begin", tx = NoTx,
            /\ tx' = [holder |-> p, version |-> dirs[1].db.version]
            /\ Goto(p, "migrate")
            /\ UNCHANGED dirs)

Rollback(p, r) == tx' = NoTx /\ Return(p, r)

\* Variant: every migration is committed on its own.
MigrateOneByOne(p) ==
  /\ pc[p] = "migrate"
  /\ IF tx.version >= Latest
     THEN Goto(p, "validate") /\ UNCHANGED <<tx, dirs>>
     ELSE /\ tx' = [tx EXCEPT !.version = @ + 1]
          /\ dirs' = [dirs EXCEPT ![1].db.version = tx'.version]
          /\ UNCHANGED pc
  /\ UNCHANGED <<stage, loc, seen, retry, signal, budget, result>>

\* One pass of the migration loop: the source is validated unless the database
\* is new, the migration is applied and recorded inside the transaction.
Migrate(p) ==
  /\ pc[p] = "migrate"
  /\ IF Cancelled(p) THEN Rollback(p, "cancelled")
     ELSE IF tx.version > Latest THEN Rollback(p, "newer")
     ELSE IF tx.version = Latest
     THEN Goto(p, "validate") /\ UNCHANGED <<tx, result>>
     ELSE IF tx.version # 0 /\ ~dirs[1].db.sound
     THEN Rollback(p, "corrupt")
     ELSE tx' = [tx EXCEPT !.version = @ + 1] /\ UNCHANGED <<pc, result>>
  /\ UNCHANGED <<dirs, stage, loc, seen, retry, signal, budget>>

\* Variant: the transaction is never committed.
CommitForgotten(p) ==
  /\ pc[p] = "validate"
  /\ tx' = NoTx
  /\ Goto(p, "integrity")
  /\ UNCHANGED <<stage, loc, seen, retry, signal, budget, result, dirs>>

\* validateSchema and COMMIT.  A COMMIT that a cancellation interrupts reports an
\* error whether or not the transaction became durable.
CommitMigrations(p) ==
  /\ pc[p] = "validate"
  /\ LET durable == [dirs EXCEPT ![1].db.version = tx.version]
     IN \/ /\ ~dirs[1].db.sound
           /\ Rollback(p, "corrupt") /\ UNCHANGED dirs
        \/ /\ dirs[1].db.sound /\ ~Cancelled(p)
           /\ dirs' = durable /\ tx' = NoTx
           /\ Goto(p, "integrity") /\ UNCHANGED result
        \/ /\ dirs[1].db.sound /\ Cancelled(p)
           /\ dirs' \in {dirs, durable} /\ Rollback(p, "cancelled")
  /\ UNCHANGED <<stage, loc, seen, retry, signal, budget>>

\* CheckIntegrity, the close, the chmod and the Lstat of the marker.
Integrity(p) ==
  /\ pc[p] = "integrity"
  /\ IF Cancelled(p) THEN Return(p, "cancelled")
     ELSE /\ Goto(p, IF dirs[1].marker = "absent" THEN "create-marker" ELSE "last-marker")
          /\ UNCHANGED result
  /\ UNCHANGED <<dirs, stage, tx, loc, seen, retry, signal, budget>>

\* Variant: a marker that could be created counts as written.
CreateMarkerOnly(p) ==
  /\ pc[p] = "create-marker"
  /\ dirs' = [dirs EXCEPT ![1].marker = IF @ = "absent" THEN "partial" ELSE @]
  /\ Goto(p, "last-marker")
  /\ UNCHANGED <<stage, tx, loc, seen, retry, signal, result, budget>>

\* writeMarker opens the marker with O_EXCL; that somebody else made it meanwhile
\* is not an error.
CreateMarker(p) ==
  /\ pc[p] = "create-marker"
  /\ IF dirs[1].marker = "absent"
     THEN dirs' = [dirs EXCEPT ![1].marker = "partial"] /\ Goto(p, "write-marker")
     ELSE Goto(p, "last-marker") /\ UNCHANGED dirs
  /\ UNCHANGED <<stage, tx, loc, seen, retry, signal, result, budget>>

\* The write and sync of the marker's contents.
WriteMarker(p) ==
  /\ pc[p] = "write-marker"
  /\ \/ /\ dirs' = [dirs EXCEPT ![1].marker = "ok"]
        /\ Goto(p, "last-marker")
        /\ UNCHANGED <<result, budget>>
     \/ /\ budget > 0
        /\ budget' = budget - 1
        /\ Return(p, "io")
        /\ UNCHANGED dirs
  /\ UNCHANGED <<stage, tx, loc, seen, retry, signal>>

-----------------------------------------------------------------------------
(* The environment *)

\* processSignalContext: the exit code is stored before the context is cancelled.
StoreExitCode(p) ==
  /\ pc[p] \notin Ended /\ signal[p] = {} /\ budget > 0
  /\ budget' = budget - 1
  /\ signal' = [signal EXCEPT ![p] = @ \cup {"code"}]
  /\ UNCHANGED <<dirs, stage, tx, pc, loc, seen, retry, result>>

CancelContext(p) ==
  /\ pc[p] \notin Ended /\ signal[p] = {"code"}
  /\ signal' = [signal EXCEPT ![p] = @ \cup {"context"}]
  /\ UNCHANGED <<dirs, stage, tx, pc, loc, seen, retry, result, budget>>

\* The process is killed: SQLite drops its transaction, its stage stays behind.
Crash(p) ==
  /\ pc[p] \notin Ended /\ budget > 0
  /\ budget' = budget - 1
  /\ Goto(p, "crashed")
  /\ tx' = IF tx.holder = p THEN NoTx ELSE tx
  /\ UNCHANGED <<dirs, stage, loc, seen, retry, signal, result>>

\* A foreign client of the target's database holds the write lock as long as it likes.
ForeignBegin ==
  /\ dirs[1] # NoDir /\ dirs[1].db.version >= 0 /\ tx = NoTx
  /\ tx' = [holder |-> "foreign", version |-> 0]
  /\ UNCHANGED <<dirs, stage, pc, loc, seen, retry, signal, result, budget>>

ForeignEnd ==
  /\ tx.holder = "foreign"
  /\ tx' = NoTx
  /\ UNCHANGED <<dirs, stage, pc, loc, seen, retry, signal, result, budget>>

InitStep(p) ==
  \/ InitStart(p) \/ BuildStage(p) \/ Publish(p) \/ CompleteStart(p)
  \/ EnableWal(p) \/ BeginImmediate(p) \/ Migrate(p) \/ CommitMigrations(p)
  \/ Integrity(p) \/ CreateMarker(p) \/ WriteMarker(p) \/ Cleanup(p)

Step(p) == \/ p \in Inits /\ InitStep(p)
           \/ p \in Finders /\ Find(p)
           \/ Validate(p)

Environment ==
  \/ \E p \in Procs : StoreExitCode(p) \/ CancelContext(p) \/ Crash(p)
  \/ ForeignBegin \/ ForeignEnd

Finished == \A p \in Procs : pc[p] \in Ended

Next == \/ \E p \in Procs : Step(p)
        \/ Environment
        \/ Finished /\ UNCHANGED vars

Spec == Init /\ [][Next]_vars

\* A process that is not killed keeps running; nobody promises that a foreign
\* client ever commits.
FairSpec == Spec /\ \A p \in Procs : WF_vars(Step(p))

-----------------------------------------------------------------------------
(* Properties *)

Results == {"none", "ok", "cancelled", "io", "invalid", "notfound", "busy",
            "corrupt", "newer"}

\* Every variable has its type, and nobody but a process at work in it holds the
\* transaction.
TypeOK ==
  /\ dirs \in [1 .. 2 -> Directories]
  /\ stage \in [Inits -> Directories]
  /\ tx \in [holder : Procs \cup {"nobody", "foreign"}, version : 0 .. Latest + 1]
  /\ \A p \in Procs : tx.holder = p <=> pc[p] \in {"migrate", "validate"}
  /\ seen \in [Procs -> Markers]
  /\ retry \in [Procs -> [slept : Nat, backoff : 1 .. MaxBackoff]]
  /\ signal \in [Procs -> SUBSET {"code", "context"}]
  /\ result \in [Procs -> Results]

\* A project that is not there yet appears whole, by one rename, and what is whole
\* stays whole whoever initialises, is cancelled or dies (project.go:156).
ProjectAppearsWhole ==
  [][(dirs[1] = NoDir \/ IsComplete(dirs[1]))
       => (dirs'[1] = NoDir \/ IsComplete(dirs'[1]))]_vars

\* An InitContext that returned without an error leaves a usable project behind:
\* marker written, schema at the latest version (project.go:169, 246).
InitLeavesUsableProject ==
  \A p \in Inits : result[p] = "ok" => IsComplete(dirs[1])

\* The schema moves from the version on disk to the latest one or not at all: no
\* failure, cancellation or crash inside the migration loop leaves a version in
\* between, and a database that does not validate is never touched (store.go:314-352).
MigrationAllOrNothing ==
  [][LET old == dirs[1].db
         new == dirs'[1].db
     IN (dirs[1] # NoDir /\ new.version # old.version)
          => \/ old.version = -1 /\ new.version = 0
             \/ old.sound /\ new.version = Latest]_vars

\* A directory that is empty, or that has its marker and a sound database, is never
\* reported as invalid, corrupt or too new, neither to an initialiser that loses the
\* race nor to a Discover that runs meanwhile (project.go:73-74, 157-161).
SoundLayoutNeverRefused ==
  (dirs[1] = NoDir \/ (/\ dirs[1].kind = "dir" /\ dirs[1].marker = "ok"
                       /\ dirs[1].db.sound /\ dirs[1].db.version <= Latest))
    => [](\A p \in Procs : result[p] \notin {"invalid", "corrupt", "newer"})

\* A retry loop never sleeps past its deadline and reports ErrBusy only when the
\* whole timeout is used up (write.go:984-999).
RetryHonoursDeadline ==
  \A p \in Procs :
    /\ retry[p].slept <= Timeout
    /\ result[p] = "busy" => retry[p].slept = Timeout

\* Every call returns, even when a foreign client never releases the write lock
\* (write.go:971-1001).
EveryCallReturns == \A p \in Procs : <>(pc[p] \in Ended)

\* A layout with a database and no marker gets its marker in place, so that others can
\* read an empty one; but then its writer is at work, died, or reported the failure
\* (project.go:198-207, 229-238).
PartialMarkerHasWriter ==
  dirs[1] # NoDir /\ dirs[1].marker = "partial"
    => \E p \in Inits : pc[p] \in {"write-marker", "crashed"} \/ result[p] = "io"

=============================================================================
