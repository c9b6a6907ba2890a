----------------------------- MODULE BackupWorker -----------------------------
(***************************************************************************)
(* The backup of one or more application instances: starting and stopping  *)
(* the process, the worker's attempts (claim and initialise the MySQL      *)
(* target, then copy one batch of the outbox), maintenance, and the faults *)
(* around them.  Every SQLite transaction and every MySQL statement or     *)
(* transaction is a step, so a crash, a timeout or another instance can    *)
(* come between any two of them.                                           *)
(***************************************************************************)
EXTENDS BackupTarget

CONSTANTS BatchLimit,   \* events per MySQL transaction (100 in the code)
          FaultsEnd     \* whether behaviours where faults end are told apart (liveness)

ASSUME WorkerAssumption == BatchLimit \in Nat \ {0} /\ FaultsEnd \in BOOLEAN

VARIABLES pc,           \* what the process of an instance is doing
          dsn,          \* the database its MYSQL_DSN names
          initialized,  \* the worker's flag: target checked since the last error
          local,        \* variables of the attempt in progress
          calm          \* from now on: no fault, no operator, no new business write

vars == <<captureVars, targetVars, pc, dsn, initialized, local, calm>>

\* "down": no process.  "disabled": running without MYSQL_DSN.  "maintenance":
\* backup-status --reinitialize between its check and its reset.  "idle":
\* between attempts.  The others are the statements of an attempt.
ProcessState == {"down", "disabled", "maintenance", "idle"}
AttemptState == {"list", "create", "insert", "claim", "owner", "ddl", "mark", "read", "probe",
                 "compare", "begin", "apply", "ack"}

Local == [require : BOOLEAN,         \* requireExisting
          seen : SUBSET Keys,        \* tables listed at the start of the initialization
          todo : SUBSET Keys,        \* tables still to create
          fresh : BOOLEAN,           \* the marker said initialized = 0
          minimum : Nat,             \* acknowledged, read before the batch
          batch : SUBSET Nat,        \* events read and not yet applied
          rows : [Keys -> Row],      \* the open transaction's view of the replica
          checkpoint : Nat,          \* the open transaction's, or the answered, checkpoint
          mine : BOOLEAN]            \* the probed marker names this source
NoLocal == [require |-> FALSE, seen |-> {}, todo |-> {}, fresh |-> FALSE, minimum |-> 0,
            batch |-> {}, rows |-> EmptyDB, checkpoint |-> 0, mine |-> FALSE]

WorkerInit ==
  /\ pc = [p \in Primaries |-> "down"]
  /\ dsn \in [Primaries -> Targets]
  /\ initialized = [p \in Primaries |-> FALSE]
  /\ local = [p \in Primaries |-> NoLocal]
  /\ calm = FALSE

Init == CaptureInit /\ TargetInit /\ WorkerInit

-----------------------------------------------------------------------------
(* Control *)

GoTo(p, state) == pc' = [pc EXCEPT ![p] = state] /\ UNCHANGED <<dsn, initialized, calm>>

\* One step inside an attempt: next statement, and what the attempt remembers.
Step(p, from, to, l) ==
  /\ pc[p] = from
  /\ GoTo(p, to)
  /\ local' = [local EXCEPT ![p] = l]

\* The attempt ends: with an error the target is checked again next time.
Finish(p, ok) ==
  /\ pc' = [pc EXCEPT ![p] = "idle"]
  /\ initialized' = [initialized EXCEPT ![p] = @ /\ ok]
  /\ local' = [local EXCEPT ![p] = NoLocal]
  /\ UNCHANGED <<dsn, calm>>

Fail(p, from, e) ==
  /\ pc[p] = from
  /\ Finish(p, FALSE)
  /\ SaveError(p, e, ~calm)
  /\ UNCHANGED targetVars

\* The marker names this source.
Me_Any(p) == owner[dsn[p]] \in SourceIds
Me(p) == owner[dsn[p]] = SourceId(p)

InTransaction(t) == \E p \in Primaries : pc[p] = "apply" /\ dsn[p] = t

\* The marker row is locked (SELECT ... FOR UPDATE) until its transaction ends.
RowLockFree_None(t) == TRUE
RowLockFree(t) == unresolved[t] = {} /\ ~InTransaction(t)

-----------------------------------------------------------------------------
(* The process *)

\* main and StartMySQLBackup with MYSQL_DSN set: capture is installed before the
\* server accepts a request.
Start(p, t) ==
  /\ ~calm /\ pc[p] = "down"
  /\ EnableBackup(p)
  /\ pc' = [pc EXCEPT ![p] = "idle"]
  /\ dsn' = [dsn EXCEPT ![p] = t]
  /\ UNCHANGED <<targetVars, initialized, local, calm>>

\* Without MYSQL_DSN nothing is sent; triggers that exist keep capturing.
StartDisabled(p) ==
  /\ ~calm /\ pc[p] = "down"
  /\ GoTo(p, "disabled")
  /\ UNCHANGED <<captureVars, targetVars, local>>

\* A crash, or Close: MySQL rolls the open transaction back.
Stop(p) ==
  /\ ~calm /\ pc[p] # "down"
  /\ pc' = [pc EXCEPT ![p] = "down"]
  /\ initialized' = [initialized EXCEPT ![p] = FALSE]
  /\ local' = [local EXCEPT ![p] = NoLocal]
  /\ UNCHANGED <<captureVars, targetVars, dsn, calm>>

Write(p, k, r) ==
  /\ ~calm /\ pc[p] \notin {"down", "maintenance"}
  /\ WriteRow(p, k, r)
  /\ UNCHANGED <<targetVars, pc, dsn, initialized, local, calm>>

\* backup-status --reinitialize holds the data lock, so the server is down.
CheckEmptyTarget(p, t) ==
  /\ ~calm /\ pc[p] = "down"
  /\ IsEmpty(t)
  /\ GoTo(p, "maintenance")
  /\ UNCHANGED <<captureVars, targetVars, local>>

Reinitialize(p) ==
  /\ ~calm /\ pc[p] = "maintenance"
  /\ NewSource(p)
  /\ GoTo(p, "down")
  /\ UNCHANGED <<targetVars, local>>

-----------------------------------------------------------------------------
(* InitializeBackupTarget *)

\* A new attempt reads backup_metadata once per initialization.
RequireExisting(p) == acknowledged[p] > 0 \/ lastSuccess[p]

BeginAttempt(p) ==
  /\ Step(p, "idle", IF initialized[p] THEN "read" ELSE "list",
             [NoLocal EXCEPT !.require = ~initialized[p] /\ RequireExisting(p)])
  /\ UNCHANGED <<captureVars, targetVars>>

ListTables(p) ==
  LET t == dsn[p] IN
  \/ /\ HasMarker(t)
     /\ Step(p, "list", "owner", [local[p] EXCEPT !.seen = tables[t]])
     /\ UNCHANGED <<captureVars, targetVars>>
  \/ ~HasMarker(t) /\ local[p].require /\ Fail(p, "list", "reinitialize")
  \/ ~HasMarker(t) /\ ~local[p].require /\ ~IsEmpty(t) /\ Fail(p, "list", "unowned")
  \/ /\ IsEmpty(t) /\ ~local[p].require
     /\ Step(p, "list", "create", local[p])
     /\ UNCHANGED <<captureVars, targetVars>>

CreateCheckpointTable(p) ==
  \/ HasMarker(dsn[p]) /\ Fail(p, "create", "other")
  \/ /\ ~HasMarker(dsn[p])
     /\ Step(p, "create", "insert", local[p])
     /\ CreateMarker(dsn[p])
     /\ UNCHANGED captureVars

\* INSERT fails on the primary key when somebody else's row is there.
CanInsert_Always(t) == TRUE
CanInsert(t) == owner[t] = NoRow

InsertCheckpointRow(p, from, to) ==
  \/ ~CanInsert(dsn[p]) /\ Fail(p, from, "other")
  \/ /\ CanInsert(dsn[p])
     /\ Step(p, from, to, [local[p] EXCEPT !.todo = IF to = "ddl" THEN Keys ELSE {},
                                           !.fresh = (to = "ddl")])
     /\ InsertMarker(dsn[p], SourceId(p))
     /\ UNCHANGED captureVars

\* A crash between CREATE TABLE and INSERT leaves the marker table alone and empty.
LoneMarker(p) == /\ owner[dsn[p]] = NoRow
                 /\ ~local[p].require
                 /\ local[p].seen = {} /\ dsn[p] \notin ForeignTargets

\* A marker without its row, or a ready backup that lacks a table it must have.
Incompatible(p) ==
  LET t == dsn[p] IN
  \/ owner[t] \in {NoMarker, NoRow} /\ ~LoneMarker(p)
  \/ Me(p) /\ ready[t] /\ ~(Keys \ CacheKeys \subseteq tables[t])

CheckOwner(p) ==
  LET t == dsn[p]
      needed == IF ready[t] THEN CacheKeys \ local[p].seen ELSE Keys
  IN
  \/ LoneMarker(p) /\ Step(p, "owner", "claim", local[p]) /\ UNCHANGED <<captureVars, targetVars>>
  \/ Incompatible(p) /\ Fail(p, "owner", "schema")
  \/ owner[t] \in SourceIds /\ ~Me(p) /\ Fail(p, "owner", "conflict")
  \/ /\ Me(p) /\ (ready[t] => Keys \ CacheKeys \subseteq tables[t])
     /\ Step(p, "owner", "ddl", [local[p] EXCEPT !.todo = needed, !.fresh = ~ready[t]])
     /\ UNCHANGED <<captureVars, targetVars>>

CreateBackupTable(p, k) ==
  /\ k \in local[p].todo
  /\ Step(p, "ddl", "ddl", [local[p] EXCEPT !.todo = @ \ {k}])
  /\ CreateTable(dsn[p], k)
  /\ UNCHANGED captureVars

SchemaComplete(t) == HasMarker(t) /\ tables[t] = Keys

ValidateSchema(p) ==
  /\ local[p].todo = {}
  /\ \/ ~SchemaComplete(dsn[p]) /\ Fail(p, "ddl", "schema")
     \/ /\ SchemaComplete(dsn[p]) /\ local[p].fresh
        /\ Step(p, "ddl", "mark", local[p])
        /\ UNCHANGED <<captureVars, targetVars>>
     \/ /\ SchemaComplete(dsn[p]) /\ ~local[p].fresh
        /\ pc[p] = "ddl"
        /\ pc' = [pc EXCEPT ![p] = "read"]
        /\ initialized' = [initialized EXCEPT ![p] = TRUE]
        /\ UNCHANGED <<captureVars, targetVars, dsn, local, calm>>

MarkInitialized(p) ==
  /\ pc[p] = "mark"
  /\ MarkReady(dsn[p], SourceId(p))
  /\ pc' = [pc EXCEPT ![p] = "read"]
  /\ initialized' = [initialized EXCEPT ![p] = TRUE]
  /\ UNCHANGED <<captureVars, dsn, local, calm>>

-----------------------------------------------------------------------------
(* RunBackupBatch *)

\* The oldest events, at most BatchLimit of them.
OldestEvents(p) ==
  {B \in SUBSET outbox[p] :
     /\ \E last \in outbox[p] : B = {n \in outbox[p] : n <= last}
     /\ Cardinality(B) <= BatchLimit
     /\ B = outbox[p] \/ Cardinality(B) = BatchLimit}

ReadBatch(p) ==
  /\ \/ /\ outbox[p] = {}
        /\ Step(p, "read", "probe", NoLocal)
     \/ \E B \in OldestEvents(p) :
          Step(p, "read", "begin", [NoLocal EXCEPT !.minimum = acknowledged[p], !.batch = B])
  /\ UNCHANGED <<captureVars, targetVars>>

\* Nothing to send: the marker is read without a lock.
ReadCheckpoint(p) ==
  LET t == dsn[p] IN
  \/ owner[t] \in {NoMarker, NoRow} /\ Fail(p, "probe", "other")
  \/ /\ owner[t] \in SourceIds
     /\ Step(p, "probe", "compare", [local[p] EXCEPT !.checkpoint = checkpoint[t], !.mine = Me(p)])
     /\ UNCHANGED <<captureVars, targetVars>>

CheckpointRegressed(p) == local[p].checkpoint < acknowledged[p]
CheckpointForeign(p) == ~local[p].mine \/ local[p].checkpoint # acknowledged[p]

CompareCheckpoint(p) ==
  \/ CheckpointRegressed(p) /\ Fail(p, "compare", "regressed")
  \/ ~CheckpointRegressed(p) /\ CheckpointForeign(p) /\ Fail(p, "compare", "conflict")
  \/ /\ ~CheckpointRegressed(p) /\ ~CheckpointForeign(p)
     /\ pc[p] = "compare"
     /\ Finish(p, TRUE)
     /\ IF lastSuccess[p] /\ lastError[p] = "none" THEN UNCHANGED captureVars
                                                    ELSE AckEvents(p, local[p].checkpoint)
     /\ UNCHANGED targetVars

-----------------------------------------------------------------------------
(* applyBackupEventsAtCheckpoint *)

\* The database lost something that was acknowledged.
BelowMinimum_Ignored(p) == FALSE
BelowMinimum(p) == checkpoint[dsn[p]] < local[p].minimum

PastBatch(p) == \A n \in local[p].batch : checkpoint[dsn[p]] > n

OpenTransaction(p) ==
  LET t == dsn[p] IN
  /\ RowLockFree(t)
  /\ \/ owner[t] \in {NoMarker, NoRow} /\ Fail(p, "begin", "other")
     \/ owner[t] \in SourceIds /\ ~Me(p) /\ Fail(p, "begin", "conflict")
     \/ Me(p) /\ ~ready[t] /\ Fail(p, "begin", "schema")
     \/ Me(p) /\ ready[t] /\ BelowMinimum(p) /\ Fail(p, "begin", "regressed")
     \/ Me(p) /\ ready[t] /\ ~BelowMinimum(p) /\ PastBatch(p) /\ Fail(p, "begin", "conflict")
     \/ /\ Me(p) /\ ready[t] /\ ~BelowMinimum(p) /\ ~PastBatch(p)
        /\ Step(p, "begin", "apply", [local[p] EXCEPT !.rows = replica[t],
                                                      !.checkpoint = checkpoint[t]])
        /\ UNCHANGED <<captureVars, targetVars>>

\* An event at or below the checkpoint was applied before.
AlreadyApplied(p, n) == n <= local[p].checkpoint

\* The next event of the batch, in sequence order.
IsNext_Any(p, n) == n \in local[p].batch
IsNext(p, n) == n \in local[p].batch /\ \A m \in local[p].batch : n <= m

ApplyEvent(p, n) ==
  /\ IsNext(p, n)
  /\ LET e == log[p][n] IN
     \/ /\ AlreadyApplied(p, n)
        /\ Step(p, "apply", "apply", [local[p] EXCEPT !.batch = @ \ {n}])
        /\ UNCHANGED <<captureVars, targetVars>>
     \/ /\ ~AlreadyApplied(p, n) /\ e.key \in tables[dsn[p]]
        /\ Step(p, "apply", "apply", [local[p] EXCEPT !.batch = @ \ {n}, !.checkpoint = n,
                                                      !.rows[e.key] = e.row])
        /\ UNCHANGED <<captureVars, targetVars>>
     \/ /\ ~AlreadyApplied(p, n) /\ e.key \notin tables[dsn[p]]
        /\ Fail(p, "apply", "other")

TxOf(p) == [rows |-> local[p].rows, checkpoint |-> local[p].checkpoint]

CommitBatch(p) ==
  /\ local[p].batch = {}
  /\ Step(p, "apply", "ack", [NoLocal EXCEPT !.checkpoint = local[p].checkpoint])
  /\ Install(dsn[p], TxOf(p))
  /\ UNCHANGED <<captureVars, unresolved>>

\* The connection breaks after COMMIT was sent.
CommitUnanswered(p) ==
  /\ ~calm
  /\ pc[p] = "apply" /\ local[p].batch = {}
  /\ Finish(p, FALSE)
  /\ SaveError(p, "other", TRUE)
  /\ LoseAnswer(dsn[p], TxOf(p))

Acknowledge(p) ==
  /\ pc[p] = "ack"
  /\ Finish(p, TRUE)
  /\ AckEvents(p, local[p].checkpoint)
  /\ UNCHANGED targetVars

\* Any statement can fail or exceed the attempt's ten seconds.
Timeout(p, from) == ~calm /\ Fail(p, from, "other")

-----------------------------------------------------------------------------
(* MySQL on its own, and its operator *)

ResolveAnswer(t) == ResolveCommit(t) /\ UNCHANGED <<captureVars, pc, dsn, initialized, local, calm>>

\* An operator copies and replaces databases between the attempts that use them,
\* with the process running or not.
Quiet(t) == unresolved[t] = {} /\ \A p \in Primaries : dsn[p] = t => pc[p] \in ProcessState

Operate(t, u) ==
  /\ ~calm
  /\ Quiet(t) /\ Quiet(u)
  /\ \/ t = u /\ RestoreOlder(t)
     \/ t = u /\ t \notin ForeignTargets /\ Recreate(t)
     \/ t # u /\ CopyTo(t, u)
  /\ UNCHANGED <<captureVars, pc, dsn, initialized, local, calm>>

CalmDown ==
  /\ FaultsEnd
  /\ ~calm /\ calm' = TRUE
  /\ UNCHANGED <<captureVars, targetVars, pc, dsn, initialized, local>>

Initialization(p) ==
  \/ ListTables(p)
  \/ CreateCheckpointTable(p)
  \/ InsertCheckpointRow(p, "insert", "owner")
  \/ InsertCheckpointRow(p, "claim", "ddl")
  \/ CheckOwner(p)
  \/ \E k \in Keys : CreateBackupTable(p, k)
  \/ ValidateSchema(p)
  \/ MarkInitialized(p)

Batch(p) ==
  \/ ReadBatch(p)
  \/ ReadCheckpoint(p)
  \/ CompareCheckpoint(p)
  \/ OpenTransaction(p)
  \/ \E n \in local[p].batch : ApplyEvent(p, n)
  \/ CommitBatch(p)
  \/ Acknowledge(p)

WorkerStep(p) == BeginAttempt(p) \/ Initialization(p) \/ Batch(p)

Next ==
  \/ \E p \in Primaries :
       \/ \E t \in Targets : Start(p, t) \/ CheckEmptyTarget(p, t)
       \/ StartDisabled(p)
       \/ Stop(p)
       \/ \E k \in Keys, r \in Row : Write(p, k, r)
       \/ Reinitialize(p)
       \/ WorkerStep(p)
       \/ CommitUnanswered(p)
       \/ \E from \in AttemptState : Timeout(p, from)
  \/ \E t \in Targets : ResolveAnswer(t)
  \/ \E t, u \in Targets : Operate(t, u)
  \/ CalmDown

Spec == Init /\ [][Next]_vars

\* The worker's loop keeps attempting as long as its process lives, and a MySQL
\* server finishes every transaction.
FairSpec == /\ Spec
            /\ \A p \in Primaries : WF_vars(WorkerStep(p))
            /\ \A t \in Targets : WF_vars(ResolveAnswer(t))

-----------------------------------------------------------------------------
(* Properties *)

WorkerTypeOK ==
  /\ pc \in [Primaries -> ProcessState \cup AttemptState]
  /\ dsn \in [Primaries -> Targets]
  /\ initialized \in [Primaries -> BOOLEAN]
  /\ local \in [Primaries -> Local]
  /\ calm \in BOOLEAN

BatchesKnown == \A p \in Primaries : local[p].batch \subseteq DOMAIN log[p]

\* Every value stays in its type; in particular the queue and
\* the batches read from it hold captured sequences only, across resets.
TypeOK == /\ CaptureTypeOK
          /\ TargetTypeOK
          /\ WorkerTypeOK
          /\ BatchesKnown

IsPrefix(id, c, db) ==
  \/ c = 0 /\ db = EmptyDB
  \/ /\ c \in DOMAIN log[id[1]]
     /\ log[id[1]][c].source = id[2]
     /\ db = log[id[1]][c].image

\* Rows and checkpoint of every claimed database agree: it holds exactly what the
\* tables of its source held right after the event its checkpoint names, whatever
\* retries, crashes, lost answers and restored copies came before.
ReplicaIsCapturedState ==
  \A t \in Targets : owner[t] \in SourceIds => IsPrefix(owner[t], checkpoint[t], replica[t])

ShowsTables(p) == \A k \in Keys : Image(p)[k] = IF k \in captured[p] THEN rows[p][k] ELSE Absent

\* The last event of the current source describes the captured tables as they are
\* now: seed and triggers leave no gap, also across a reset and when the tables an
\* older build left out join later.
CaptureIsComplete == \A p \in Primaries : source[p] > 0 => ShowsTables(p)

\* An event of the current source leaves the outbox only after MySQL committed it.
NoEventLost ==
  \A p \in Primaries : source[p] > 0 =>
    \A n \in base[p] + 1 .. Len(log[p]) : n \in outbox[p] \/ n <= committed[p]

\* A database whose marker says initialized has every table the legacy backup
\* needs, and nothing is ever created in another application's database.
ReadyTargetsAreComplete ==
  \A t \in Targets : /\ ready[t] => owner[t] \in SourceIds /\ Keys \ CacheKeys \subseteq tables[t]
                     /\ t \in ForeignTargets => owner[t] = NoMarker /\ tables[t] = {}

\* A claimed database never changes hands; only an operator who replaces it ends
\* a claim.
OwnershipIsFinal ==
  [][\A t \in Targets : owner[t] \in SourceIds => owner'[t] \in {owner[t], NoMarker}]_vars

\* A checkpoint moves back only when an operator put an older copy in place: no
\* retry, late commit or second worker does that.
CheckpointOnlyAdvances ==
  [][(\E t \in Targets : checkpoint'[t] < checkpoint[t]) => \E t, u \in Targets : Operate(t, u)]_vars

CaughtUp(p) == /\ outbox[p] = {}
               /\ Me(p)
               /\ \A k \in Keys : replica[dsn[p]][k] = rows[p][k]
Reported(p) == lastError[p] # "none"
Attempting(p) == pc[p] \notin {"down", "disabled", "maintenance"}

\* Once faults end, every running worker either brings its database level with
\* SQLite and empties the outbox, or keeps an error in the status: an empty
\* queue without an error means caught up.
CatchesUpOrReports ==
  \A p \in Primaries : (calm /\ Attempting(p)) ~> [](CaughtUp(p) \/ Reported(p))

\* Nothing that was acknowledged is missing from the database, or the source is
\* new and the database empty.
Recoverable(p) ==
  \/ Me(p) /\ checkpoint[dsn[p]] >= acknowledged[p]
  \/ IsEmpty(dsn[p]) /\ ~lastSuccess[p] /\ committed[p] <= base[p]

\* Faults alone never need an operator: from such a state the worker catches up
\* for good and clears the error.
HealsWithoutOperator ==
  \A p \in Primaries :
    (calm /\ Attempting(p) /\ Recoverable(p)) ~> [](CaughtUp(p) /\ ~Reported(p))
=============================================================================
