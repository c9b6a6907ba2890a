---------------------------- MODULE BackupSafety ----------------------------
(***************************************************************************)
(* The safety properties of BackupWorker, for every number of instances,   *)
(* databases, rows and events: IInv of BackupInvariant is inductive, and   *)
(* the properties follow from it.  BackupWorker implements PrefixMirror:   *)
(* each step is a step of the abstract mirror or invisible to it.          *)
(***************************************************************************)
EXTENDS BackupCaptureProofs

-----------------------------------------------------------------------------
(* What a step leaves alone *)

LEMMA SourceIdFacts ==
  /\ NoMarker \notin SourceIds /\ NoRow \notin SourceIds /\ NoMarker # NoRow
  /\ \A id \in SourceIds : id[1] \in Primaries
  /\ \A p \in Primaries : SourceId(p)[1] = p /\ SourceId(p)[2] = source[p]
  /\ \A p, q \in Primaries : SourceId(p) = SourceId(q) => p = q
BY TargetAssumption DEF SourceIds, SourceId

LEMMA OwnSourceId ==
  ASSUME TypeOK, NEW p \in Primaries
  PROVE  SourceId(p) \in SourceIds
BY DEF SourceId, SourceIds, TypeOK, CaptureTypeOK

\* What an open transaction relies on in its database.
TargetFixed(t) ==
  owner'[t] = owner[t] /\ checkpoint'[t] = checkpoint[t] /\ unresolved'[t] = unresolved[t]

\* What IsPrefix says after the step.
ShowsLater(id, c, db) ==
  \/ c = 0 /\ db = EmptyDB
  \/ /\ c \in DOMAIN log'[id[1]]
     /\ log'[id[1]][c].source = id[2]
     /\ db = log'[id[1]][c].image

LEMMA PrefixKept ==
  ASSUME LogGrows, NEW id \in SourceIds, NEW c, NEW db, IsPrefix(id, c, db)
  PROVE  ShowsLater(id, c, db)
BY SourceIdFacts DEF IsPrefix, ShowsLater, LogGrows

LEMMA TargetFromPrefix ==
  ASSUME NEW t \in Targets, owner'[t] \in SourceIds,
         ShowsLater(owner'[t], checkpoint'[t], replica'[t]),
         \A tx \in unresolved'[t] : /\ ShowsLater(owner'[t], tx.checkpoint, tx.rows)
                                    /\ checkpoint'[t] <= tx.checkpoint
  PROVE  TargetInv(t)'
BY DEF TargetInv, IsPrefix, ShowsLater, EmptyDB, SourceIds

LEMMA TargetUnclaimed ==
  ASSUME NEW t \in Targets, owner'[t] \notin SourceIds,
         checkpoint'[t] = 0, replica'[t] = EmptyDB, unresolved'[t] = {}
  PROVE  TargetInv(t)'
BY DEF TargetInv, EmptyDB, SourceIds

LEMMA TargetInvSame ==
  ASSUME LogGrows, NEW t \in Targets, TargetInv(t), TargetFixed(t), replica'[t] = replica[t]
  PROVE  TargetInv(t)'
<1>1. CASE owner[t] \in SourceIds
  <2>1. ShowsLater(owner[t], checkpoint[t], replica[t])
    BY <1>1, PrefixKept DEF TargetInv
  <2>2. \A tx \in unresolved[t] : /\ ShowsLater(owner[t], tx.checkpoint, tx.rows)
                                  /\ checkpoint[t] <= tx.checkpoint
    BY <1>1, PrefixKept DEF TargetInv
  <2> QED
    BY <1>1, <2>1, <2>2, TargetFromPrefix DEF TargetFixed
<1>2. CASE owner[t] \notin SourceIds
  BY <1>2, TargetUnclaimed DEF TargetInv, TargetFixed
<1> QED
  BY <1>1, <1>2

LEMMA AttemptInvSame ==
  ASSUME IInv, TypeOK', NEW q \in Primaries, LogGrows,
         pc'[q] = pc[q], local'[q] = local[q], dsn'[q] = dsn[q],
         source'[q] = source[q], base'[q] = base[q], acknowledged'[q] = acknowledged[q],
         committed[q] <= committed'[q],
         pc[q] = "apply" => TargetFixed(dsn[q])
  PROVE  AttemptInv(q)'
<1>1. AttemptInv(q) /\ local[q] \in Local /\ committed[q] \in Nat /\ committed'[q] \in Nat
  BY DEF IInv, TypeOK, WorkerTypeOK, TargetTypeOK
<1>2. /\ log[q] \in Seq(Event) /\ log'[q] \in Seq(Event)
      /\ DOMAIN log[q] \subseteq DOMAIN log'[q]
      /\ \A n \in DOMAIN log[q] : log'[q][n] = log[q][n]
  BY DEF IInv, TypeOK, CaptureTypeOK, LogGrows
<1>3. DOMAIN log[q] = 1..Len(log[q]) /\ DOMAIN log'[q] \subseteq Nat \ {0} /\ Len(log[q]) \in Nat
  BY <1>2
<1>4. /\ Current(q) \subseteq Current(q)'
      /\ \A n \in Current(q), m \in Current(q)' : m <= n => m \in Current(q)
  BY <1>2, <1>3 DEF Current
<1>5. \A c : Gapless(q, c) => \A n \in local[q].batch :
                                /\ n \in Current(q)'
                                /\ \A m \in Current(q)' : c < m /\ m <= n => m \in local[q].batch
  BY <1>4 DEF Gapless
<1>6. \A c, db : IsPrefix(SourceId(q), c, db) =>
                   \/ c = 0 /\ db = EmptyDB
                   \/ /\ c \in DOMAIN log'[q] /\ log'[q][c].source = source[q]
                      /\ db = log'[q][c].image
  BY <1>2, SourceIdFacts DEF IsPrefix
<1>7. SourceId(q)' = SourceId(q) /\ EmptyDB' = EmptyDB
  BY DEF SourceId, EmptyDB
<1>8. SourceId(q)[1] = q /\ SourceId(q)[2] = source[q]
  BY SourceIdFacts
<1>9. CASE pc[q] = "begin"
  BY <1>1, <1>5, <1>9 DEF AttemptInv, Gapless
<1>10. CASE pc[q] = "ack"
  <2>1. Reached(q, local[q].checkpoint)'
    BY <1>1, <1>4, <1>10 DEF AttemptInv, Reached
  <2>2. local[q].checkpoint \in Nat
    BY <1>1 DEF Local
  <2> QED
    BY <1>1, <1>10, <2>1, <2>2 DEF AttemptInv
<1>11. CASE pc[q] = "apply"
  <2>1. IsPrefix(SourceId(q), local[q].checkpoint, local[q].rows)'
    BY <1>1, <1>6, <1>7, <1>8, <1>11 DEF AttemptInv, IsPrefix
  <2>2. Gapless(q, local[q].checkpoint)'
    BY <1>1, <1>5, <1>11 DEF AttemptInv, Gapless
  <2>3. Me(q)' /\ unresolved'[dsn[q]] = {} /\ checkpoint'[dsn[q]] <= local[q].checkpoint
    BY <1>1, <1>7, <1>11 DEF AttemptInv, Me, TargetFixed
  <2> QED
    BY <1>11, <2>1, <2>2, <2>3 DEF AttemptInv
<1>12. CASE pc[q] \notin {"begin", "apply", "ack"}
  BY <1>12 DEF AttemptInv
<1> QED
  BY <1>9, <1>10, <1>11, <1>12

\* A step of the attempt of p: SQLite is left alone, and so is what the other
\* attempts rely on.
LEMMA AttemptStepInv ==
  ASSUME IInv, TypeOK', NEW p \in Primaries,
         UNCHANGED <<rows, captured, source, log, base, outbox, acknowledged>>,
         \A q \in Primaries : committed[q] <= committed'[q],
         \A q \in Primaries \ {p} : /\ pc'[q] = pc[q] /\ local'[q] = local[q] /\ dsn'[q] = dsn[q]
                                    /\ pc[q] = "apply" => TargetFixed(dsn[q]),
         AttemptInv(p)',
         \A t \in Targets : TargetInv(t)'
  PROVE  IInv'
<1>1. LogGrows
  BY DEF LogGrows
<1>2. \A q \in Primaries : committed'[q] \in Nat
  BY DEF TypeOK, TargetTypeOK
<1>3. \A q \in Primaries : SqliteInv(q)'
  BY <1>2, SqliteInvSame DEF IInv, SqliteSame
<1>4. \A q \in Primaries \ {p} : AttemptInv(q)'
  BY <1>1, AttemptInvSame
<1> QED
  BY <1>3, <1>4 DEF IInv

\* One database at most changes.
LEMMA TargetsInv ==
  ASSUME IInv, LogGrows, NEW t \in Targets, TargetInv(t)',
         \A u \in Targets \ {t} : TargetFixed(u) /\ replica'[u] = replica[u]
  PROVE  \A u \in Targets : TargetInv(u)'
<1>1. ASSUME NEW u \in Targets \ {t}
      PROVE  TargetInv(u)'
  BY TargetInvSame DEF IInv
<1> QED
  BY <1>1

LEMMA TargetsSame ==
  ASSUME IInv, LogGrows, UNCHANGED <<owner, checkpoint, unresolved, replica>>
  PROVE  /\ \A u \in Targets : TargetInv(u)'
         /\ \A u \in Targets : TargetFixed(u)
<1>1. \A u \in Targets : TargetFixed(u) /\ replica'[u] = replica[u]
  BY DEF TargetFixed
<1> QED
  BY <1>1, TargetInvSame DEF IInv

\* The attempt of p is not inside the statements AttemptInv speaks of.
Idle(p) == pc[p] \notin {"begin", "apply", "ack"}

LEMMA IdleInv ==
  ASSUME NEW p \in Primaries, Idle(p)'
  PROVE  AttemptInv(p)'
BY DEF Idle, AttemptInv

\* SQLite as a step of the attempts or of MySQL leaves it; acknowledged apart.
SqliteUnchanged == UNCHANGED <<rows, captured, source, log, base, outbox, acknowledged>>

Others(p) == \A q \in Primaries \ {p} : pc'[q] = pc[q] /\ local'[q] = local[q] /\ dsn'[q] = dsn[q]

\* A statement that changes neither database.
LEMMA QuietInv ==
  ASSUME IInv, TypeOK', NEW p \in Primaries, SqliteUnchanged, Others(p), AttemptInv(p)',
         UNCHANGED <<owner, checkpoint, unresolved, replica, committed>>
  PROVE  IInv'
<1>1. LogGrows
  BY DEF LogGrows, SqliteUnchanged
<1>2. \A q \in Primaries : committed[q] <= committed'[q]
  BY DEF IInv, TypeOK, TargetTypeOK
<1>3. \A q \in Primaries : dsn[q] \in Targets
  BY DEF IInv, TypeOK, WorkerTypeOK
<1> QED
  BY <1>1, <1>2, <1>3, TargetsSame, AttemptStepInv DEF SqliteUnchanged, Others

LEMMA FinishOthers ==
  ASSUME TypeOK, NEW p \in Primaries, NEW ok, Finish(p, ok)
  PROVE  Others(p) /\ Idle(p)'
BY DEF Finish, Others, Idle, TypeOK, WorkerTypeOK

LEMMA StepOthers ==
  ASSUME TypeOK, NEW p \in Primaries, NEW from, NEW to, NEW l, Step(p, from, to, l)
  PROVE  Others(p) /\ pc[p] = from /\ pc'[p] = to /\ local'[p] = l /\ dsn' = dsn
BY DEF Step, GoTo, Others, TypeOK, WorkerTypeOK

LEMMA FailInv ==
  ASSUME IInv, TypeOK', NEW p \in Primaries, NEW from, NEW e, Fail(p, from, e)
  PROVE  IInv'
<1>1. SqliteUnchanged /\ UNCHANGED <<owner, checkpoint, unresolved, replica, committed>>
  BY DEF Fail, SaveError, SqliteUnchanged, targetVars
<1>2. Others(p) /\ AttemptInv(p)'
  BY FinishOthers, IdleInv DEF Fail, IInv
<1> QED
  BY <1>1, <1>2, QuietInv

LEMMA QuietStepInv ==
  ASSUME IInv, TypeOK', NEW p \in Primaries, NEW from, NEW to, NEW l, Step(p, from, to, l),
         to \notin {"begin", "apply", "ack"}, UNCHANGED <<captureVars, targetVars>>
  PROVE  IInv'
<1>1. Others(p) /\ AttemptInv(p)'
  BY StepOthers, IdleInv DEF Idle, IInv
<1> QED
  BY <1>1, QuietInv DEF SqliteUnchanged, captureVars, targetVars

-----------------------------------------------------------------------------
(* The process *)

LEMMA SqliteStepInv ==
  ASSUME IInv, TypeOK', NEW p \in Primaries, LogGrows, UNCHANGED targetVars,
         SqliteInv(p)', AttemptInv(p)', Others(p), \A q \in Primaries \ {p} : SqliteSame(q)
  PROVE  IInv'
<1>1. UNCHANGED <<owner, checkpoint, unresolved, replica, committed>>
  BY DEF targetVars
<1>2. /\ \A u \in Targets : TargetInv(u)' /\ TargetFixed(u)
      /\ \A q \in Primaries : /\ committed[q] <= committed'[q] /\ committed'[q] \in Nat
                               /\ dsn[q] \in Targets
  BY <1>1, TargetsSame DEF IInv, TypeOK, TargetTypeOK, WorkerTypeOK
<1>3. \A q \in Primaries \ {p} : SqliteInv(q)'
  BY <1>2, SqliteInvSame DEF IInv
<1>4. \A q \in Primaries \ {p} : AttemptInv(q)'
  BY <1>2, AttemptInvSame DEF Others, SqliteSame
<1> QED
  BY <1>2, <1>3, <1>4 DEF IInv

LEMMA NewSourceOthers ==
  ASSUME TypeOK, NEW p \in Primaries, NewSource(p) \/ KeepSource(p)
  PROVE  \A q \in Primaries \ {p} : SqliteSame(q)
BY DEF NewSource, KeepSource, InstallCapture, SqliteSame, TypeOK, CaptureTypeOK

LEMMA StartInv ==
  ASSUME IInv, TypeOK', NEW p \in Primaries, NEW t \in Targets, Start(p, t)
  PROVE  IInv'
<1>1. TypeOK /\ SqliteInv(p) /\ UNCHANGED committed /\ CaptureTypeOK
  BY DEF IInv, TypeOK, Start, targetVars
<1>2. NewSource(p) \/ KeepSource(p)
  BY DEF Start, EnableBackup
<1>3. LogGrows /\ SqliteInv(p)' /\ \A q \in Primaries \ {p} : SqliteSame(q)
  BY <1>1, <1>2, EnableBackupGrows, NewSourceInv, KeepSourceInv, NewSourceOthers
<1>4. Others(p) /\ Idle(p)'
  BY <1>1 DEF Start, Others, Idle, TypeOK, WorkerTypeOK
<1> QED
  BY <1>3, <1>4, IdleInv, SqliteStepInv DEF Start

LEMMA ReinitializeInv ==
  ASSUME IInv, TypeOK', NEW p \in Primaries, Reinitialize(p)
  PROVE  IInv'
<1>1. TypeOK /\ SqliteInv(p) /\ UNCHANGED committed /\ CaptureTypeOK
  BY DEF IInv, TypeOK, Reinitialize, targetVars
<1>2. LogGrows /\ SqliteInv(p)' /\ \A q \in Primaries \ {p} : SqliteSame(q)
  BY <1>1, EnableBackupGrows, NewSourceInv, NewSourceOthers DEF Reinitialize
<1>3. Others(p) /\ Idle(p)'
  BY <1>1 DEF Reinitialize, GoTo, Others, Idle, TypeOK, WorkerTypeOK
<1> QED
  BY <1>2, <1>3, IdleInv, SqliteStepInv DEF Reinitialize

LEMMA WriteInv ==
  ASSUME IInv, TypeOK', NEW p \in Primaries, NEW k \in Keys, NEW r \in Row, Write(p, k, r)
  PROVE  IInv'
<1>1. /\ TypeOK /\ SqliteInv(p) /\ CaptureTypeOK /\ WriteRow(p, k, r)
      /\ UNCHANGED <<targetVars, committed, pc, dsn, local>>
  BY DEF IInv, TypeOK, Write, targetVars
<1>2. LogGrows /\ SqliteInv(p)'
  BY <1>1, WriteRowGrows, WriteRowInv
<1>3. \A q \in Primaries \ {p} : SqliteSame(q)
  BY <1>1 DEF WriteRow, SqliteSame, TypeOK, CaptureTypeOK
<1>4. AttemptInv(p)'
  <2>1. UNCHANGED <<source, base, acknowledged>>
    BY <1>1 DEF WriteRow
  <2>2. UNCHANGED <<owner, checkpoint, unresolved, replica, committed>>
    BY <1>1 DEF targetVars
  <2>3. TargetFixed(dsn[p]) /\ committed[p] <= committed'[p]
    BY <1>1, <2>2 DEF TargetFixed, TypeOK, TargetTypeOK
  <2> QED
    BY <1>1, <1>2, <2>1, <2>3, AttemptInvSame
<1>5. Others(p)
  BY <1>1 DEF Others
<1> QED
  BY <1>1, <1>2, <1>3, <1>4, <1>5, SqliteStepInv

LEMMA ControlInv ==
  ASSUME IInv, TypeOK', NEW p \in Primaries, NEW t \in Targets,
         StartDisabled(p) \/ Stop(p) \/ CheckEmptyTarget(p, t)
  PROVE  IInv'
<1>1. Others(p) /\ Idle(p)'
  BY DEF StartDisabled, Stop, CheckEmptyTarget, GoTo, Others, Idle, IInv, TypeOK, WorkerTypeOK
<1>2. UNCHANGED <<captureVars, targetVars>>
  BY DEF StartDisabled, Stop, CheckEmptyTarget
<1> QED
  BY <1>1, <1>2, IdleInv, QuietInv DEF SqliteUnchanged, captureVars, targetVars

-----------------------------------------------------------------------------
(* The attempts: InitializeBackupTarget *)

\* An unclaimed database belongs to nobody's open transaction.
LEMMA UnclaimedInv ==
  ASSUME IInv, TypeOK', NEW p \in Primaries, NEW t \in Targets, SqliteUnchanged, Others(p),
         AttemptInv(p)', TargetInv(t)', owner[t] \notin SourceIds,
         \A u \in Targets \ {t} : owner'[u] = owner[u] /\ checkpoint'[u] = checkpoint[u],
         UNCHANGED <<unresolved, replica, committed>>
  PROVE  IInv'
<1>1. LogGrows
  BY DEF LogGrows, SqliteUnchanged
<1>2. \A u \in Targets \ {t} : TargetFixed(u) /\ replica'[u] = replica[u]
  BY DEF TargetFixed
<1>3. \A q \in Primaries : pc[q] = "apply" => TargetFixed(dsn[q])
  <2>1. ASSUME NEW q \in Primaries, pc[q] = "apply"
        PROVE  owner[dsn[q]] \in SourceIds /\ dsn[q] \in Targets
    BY <2>1, OwnSourceId DEF IInv, AttemptInv, Me, TypeOK, WorkerTypeOK
  <2> QED
    BY <1>2, <2>1
<1>4. \A q \in Primaries : committed[q] <= committed'[q]
  BY DEF IInv, TypeOK, TargetTypeOK
<1> QED
  BY <1>1, <1>2, <1>3, <1>4, TargetsInv, AttemptStepInv DEF SqliteUnchanged, Others

LEMMA ClaimInv ==
  ASSUME IInv, TypeOK', NEW p \in Primaries, NEW t \in Targets, NEW id \in SourceIds \cup {NoRow},
         SqliteUnchanged, Others(p), AttemptInv(p)', owner[t] \notin SourceIds,
         owner' = [owner EXCEPT ![t] = id],
         checkpoint' = [checkpoint EXCEPT ![t] = 0],
         UNCHANGED <<unresolved, replica, committed>>
  PROVE  IInv'
<1>1. /\ owner'[t] = id /\ checkpoint'[t] = 0 /\ replica'[t] = EmptyDB /\ unresolved'[t] = {}
      /\ \A u \in Targets \ {t} : owner'[u] = owner[u] /\ checkpoint'[u] = checkpoint[u]
  BY DEF IInv, TargetInv, TypeOK, TargetTypeOK
<1>2. TargetInv(t)'
  <2>1. CASE id \in SourceIds
    BY <1>1, <2>1, TargetFromPrefix DEF ShowsLater
  <2>2. CASE id \notin SourceIds
    BY <1>1, <2>2, TargetUnclaimed
  <2> QED
    BY <2>1, <2>2
<1> QED
  BY <1>1, <1>2, UnclaimedInv

LEMMA InitializationInv ==
  ASSUME IInv, TypeOK', NEW p \in Primaries, Initialization(p)
  PROVE  IInv'
<1>1. TypeOK /\ dsn[p] \in Targets /\ SourceId(p) \in SourceIds
  BY OwnSourceId DEF IInv, TypeOK, WorkerTypeOK
<1>2. CASE ListTables(p)
  BY <1>2, FailInv, QuietStepInv DEF ListTables
<1>3. CASE CreateCheckpointTable(p)
  <2>1. CASE Fail(p, "create", "other")
    BY <2>1, FailInv
  <2>2. CASE /\ ~HasMarker(dsn[p]) /\ CreateMarker(dsn[p]) /\ UNCHANGED captureVars
             /\ Step(p, "create", "insert", local[p])
    <3>1. Others(p) /\ AttemptInv(p)'
      BY <1>1, <2>2, StepOthers, IdleInv DEF Idle
    <3>2. owner[dsn[p]] \notin SourceIds /\ checkpoint[dsn[p]] = 0
      BY <1>1, <2>2, SourceIdFacts DEF HasMarker, IInv, TargetInv
    <3>3. checkpoint' = [checkpoint EXCEPT ![dsn[p]] = 0]
      BY <1>1, <2>2, <3>2 DEF CreateMarker, TypeOK, TargetTypeOK
    <3>4. /\ owner' = [owner EXCEPT ![dsn[p]] = NoRow]
          /\ UNCHANGED <<unresolved, replica, committed>> /\ SqliteUnchanged
      BY <2>2 DEF CreateMarker, SqliteUnchanged, captureVars
    <3> QED
      BY <1>1, <3>1, <3>2, <3>3, <3>4, ClaimInv
  <2> QED
    BY <1>3, <2>1, <2>2 DEF CreateCheckpointTable
<1>4. ASSUME NEW from, NEW to \in {"owner", "ddl"}, InsertCheckpointRow(p, from, to)
      PROVE  IInv'
  <2>1. CASE Fail(p, from, "other")
    BY <2>1, FailInv
  <2>2. CASE ~Fail(p, from, "other")
    <3>1. /\ owner[dsn[p]] = NoRow /\ InsertMarker(dsn[p], SourceId(p)) /\ UNCHANGED captureVars
          /\ \E l : Step(p, from, to, l)
      BY <1>4, <2>2 DEF InsertCheckpointRow, CanInsert
    <3>2. Others(p) /\ AttemptInv(p)'
      BY <1>1, <3>1, StepOthers, IdleInv DEF Idle
    <3>3. owner[dsn[p]] \notin SourceIds
      BY <3>1, SourceIdFacts
    <3>4. /\ owner' = [owner EXCEPT ![dsn[p]] = SourceId(p)]
          /\ checkpoint' = [checkpoint EXCEPT ![dsn[p]] = 0]
          /\ UNCHANGED <<unresolved, replica, committed>> /\ SqliteUnchanged
      BY <3>1 DEF InsertMarker, SqliteUnchanged, captureVars
    <3> QED
      BY <1>1, <3>2, <3>3, <3>4, ClaimInv
  <2> QED
    BY <2>1, <2>2
<1>5. CASE CheckOwner(p)
  BY <1>5, FailInv, QuietStepInv DEF CheckOwner
<1>6. ASSUME NEW k \in Keys, CreateBackupTable(p, k)
      PROVE  IInv'
  <2>1. /\ \E l : Step(p, "ddl", "ddl", l)
        /\ UNCHANGED <<captureVars, owner, checkpoint, unresolved, replica, committed>>
    BY <1>6 DEF CreateBackupTable, CreateTable
  <2>2. Others(p) /\ AttemptInv(p)'
    BY <1>1, <2>1, StepOthers, IdleInv DEF Idle
  <2> QED
    BY <2>1, <2>2, QuietInv DEF SqliteUnchanged, captureVars
<1>7. ASSUME ValidateSchema(p) \/ MarkInitialized(p)
      PROVE  IInv'
  <2>1. CASE \E from, e : Fail(p, from, e)
    BY <2>1, FailInv
  <2>2. CASE Step(p, "ddl", "mark", local[p]) /\ UNCHANGED <<captureVars, targetVars>>
    BY <2>2, QuietStepInv
  <2>3. CASE /\ pc' = [pc EXCEPT ![p] = "read"] /\ UNCHANGED <<captureVars, dsn, local>>
             /\ UNCHANGED <<owner, checkpoint, unresolved, replica, committed>>
    <3>1. Others(p) /\ Idle(p)'
      BY <1>1, <2>3 DEF Others, Idle, TypeOK, WorkerTypeOK
    <3> QED
      BY <2>3, <3>1, IdleInv, QuietInv DEF SqliteUnchanged, captureVars
  <2> QED
    BY <1>7, <2>1, <2>2, <2>3 DEF ValidateSchema, MarkInitialized, MarkReady, targetVars
<1> QED
  BY <1>2, <1>3, <1>4, <1>5, <1>6, <1>7 DEF Initialization

-----------------------------------------------------------------------------
(* The attempts: RunBackupBatch *)

\* Two instances never apply events to one database.
LEMMA Exclusive ==
  ASSUME IInv, NEW p \in Primaries, NEW q \in Primaries, Me(p), pc[q] = "apply", dsn[q] = dsn[p]
  PROVE  q = p
BY SourceIdFacts DEF IInv, AttemptInv, Me

LEMMA AcknowledgeInv ==
  ASSUME IInv, TypeOK', NEW p \in Primaries, NEW c \in Nat, AckEvents(p, c),
         Reached(p, c), c <= committed[p], Others(p), Idle(p)', UNCHANGED targetVars
  PROVE  IInv'
<1>1. TypeOK /\ SqliteInv(p) /\ UNCHANGED <<log, committed>>
  BY DEF IInv, AckEvents, targetVars
<1>2. LogGrows /\ SqliteInv(p)' /\ AttemptInv(p)'
  BY <1>1, AckEventsInv, IdleInv DEF LogGrows
<1>3. \A q \in Primaries \ {p} : SqliteSame(q)
  BY <1>1 DEF AckEvents, SqliteSame, TypeOK, CaptureTypeOK
<1> QED
  BY <1>2, <1>3, SqliteStepInv

\* The open transaction after a step that leaves both databases alone.
BatchGapless(p, c, batch) ==
  \A n \in batch : /\ n \in Current(p)
                   /\ \A m \in Current(p) : c < m /\ m <= n => m \in batch

LEMMA TransactionInv ==
  ASSUME IInv, TypeOK', NEW p \in Primaries, SqliteUnchanged, UNCHANGED targetVars, Others(p),
         pc'[p] = "apply", dsn'[p] = dsn[p], Me(p), unresolved[dsn[p]] = {},
         checkpoint[dsn[p]] <= local'[p].checkpoint,
         IsPrefix(SourceId(p), local'[p].checkpoint, local'[p].rows),
         BatchGapless(p, local'[p].checkpoint, local'[p].batch)
  PROVE  IInv'
<1>1. LogGrows /\ SourceId(p) \in SourceIds /\ SourceId(p)' = SourceId(p)
  BY OwnSourceId DEF IInv, LogGrows, SqliteUnchanged, SourceId
<1>2. ShowsLater(SourceId(p), local'[p].checkpoint, local'[p].rows)
  BY <1>1, PrefixKept
<1>3. IsPrefix(SourceId(p), local[p].checkpoint, local[p].rows)'
  BY <1>1, <1>2 DEF IsPrefix, ShowsLater, EmptyDB
<1>4. Current(p)' = Current(p)
  BY DEF Current, SqliteUnchanged
<1>5. Gapless(p, local[p].checkpoint)'
  BY <1>4 DEF Gapless, BatchGapless
<1>6. Me(p)' /\ unresolved'[dsn'[p]] = {} /\ checkpoint'[dsn'[p]] <= local'[p].checkpoint
  BY <1>1 DEF Me, targetVars
<1>7. AttemptInv(p)'
  BY <1>3, <1>5, <1>6 DEF AttemptInv
<1> QED
  BY <1>7, QuietInv DEF targetVars

LEMMA ReadBatchInv ==
  ASSUME IInv, TypeOK', NEW p \in Primaries, ReadBatch(p)
  PROVE  IInv'
<1>1. CASE \E l : Step(p, "read", "probe", l) /\ UNCHANGED <<captureVars, targetVars>>
  BY <1>1, QuietStepInv
<1>2. ASSUME NEW B \in OldestEvents(p),
             Step(p, "read", "begin", [NoLocal EXCEPT !.minimum = acknowledged[p], !.batch = B])
      PROVE  IInv'
  <2>1. TypeOK /\ UNCHANGED <<captureVars, targetVars>>
    BY DEF ReadBatch, IInv
  <2>2. /\ Others(p) /\ pc'[p] = "begin"
        /\ local'[p] = [NoLocal EXCEPT !.minimum = acknowledged[p], !.batch = B]
    BY <1>2, <2>1, StepOthers
  <2>3. local'[p].minimum = acknowledged[p] /\ local'[p].batch = B
    BY <2>2 DEF NoLocal
  <2>4. outbox[p] = {n \in Current(p) : acknowledged[p] < n} /\ Current(p) \subseteq Nat
    BY <2>1 DEF IInv, SqliteInv, QueueIsUnacknowledged, Current, TypeOK, CaptureTypeOK
  <2>5. PICK last \in outbox[p] : B = {n \in outbox[p] : n <= last}
    BY DEF OldestEvents
  <2>6. BatchGapless(p, acknowledged[p], B)
    BY <2>4, <2>5 DEF BatchGapless
  <2>7. AttemptInv(p)'
    <3>1. Current(p)' = Current(p) /\ acknowledged' = acknowledged
      BY <2>1 DEF Current, captureVars
    <3> QED
      BY <2>2, <2>3, <2>6, <3>1 DEF AttemptInv, Gapless, BatchGapless
  <2> QED
    BY <2>1, <2>2, <2>7, QuietInv DEF SqliteUnchanged, captureVars, targetVars
<1> QED
  BY <1>1, <1>2 DEF ReadBatch

LEMMA CompareCheckpointInv ==
  ASSUME IInv, TypeOK', NEW p \in Primaries, CompareCheckpoint(p)
  PROVE  IInv'
<1>1. CASE \E e : Fail(p, "compare", e)
  BY <1>1, FailInv
<1>2. CASE /\ ~CheckpointForeign(p) /\ Finish(p, TRUE) /\ UNCHANGED targetVars
           /\ UNCHANGED captureVars \/ AckEvents(p, local[p].checkpoint)
  <2>1. TypeOK /\ Others(p) /\ Idle(p)'
    BY <1>2, FinishOthers DEF IInv
  <2>2. /\ local[p].checkpoint = acknowledged[p] /\ acknowledged[p] \in Nat
        /\ Reached(p, acknowledged[p]) /\ acknowledged[p] <= committed[p]
    BY <1>2, <2>1 DEF CheckpointForeign, IInv, SqliteInv, QueueIsUnacknowledged, TypeOK, CaptureTypeOK
  <2>3. CASE AckEvents(p, local[p].checkpoint)
    BY <1>2, <2>1, <2>2, <2>3, AcknowledgeInv
  <2>4. CASE UNCHANGED captureVars
    BY <1>2, <2>1, <2>4, IdleInv, QuietInv DEF SqliteUnchanged, captureVars, targetVars
  <2> QED
    BY <1>2, <2>3, <2>4
<1> QED
  BY <1>1, <1>2 DEF CompareCheckpoint

LEMMA OpenTransactionInv ==
  ASSUME IInv, TypeOK', NEW p \in Primaries, OpenTransaction(p)
  PROVE  IInv'
<1> DEFINE t == dsn[p]
           l == [local[p] EXCEPT !.rows = replica[t], !.checkpoint = checkpoint[t]]
<1>1. CASE \E e : Fail(p, "begin", e)
  BY <1>1, FailInv
<1>2. CASE /\ Me(p) /\ ~BelowMinimum(p) /\ Step(p, "begin", "apply", l)
           /\ UNCHANGED <<captureVars, targetVars>>
  <2>1. TypeOK /\ t \in Targets /\ SourceId(p) \in SourceIds /\ unresolved[t] = {}
    BY OwnSourceId DEF OpenTransaction, RowLockFree, IInv, TypeOK, WorkerTypeOK
  <2>2. Others(p) /\ pc[p] = "begin" /\ pc'[p] = "apply" /\ local'[p] = l /\ dsn'[p] = dsn[p]
    BY <1>2, <2>1, StepOthers
  <2>3. local'[p].rows = replica[t] /\ local'[p].checkpoint = checkpoint[t]
        /\ local'[p].batch = local[p].batch
    BY <2>1, <2>2 DEF TypeOK, WorkerTypeOK, Local
  <2>4. /\ acknowledged[p] <= checkpoint[t] /\ acknowledged[p] \in Nat /\ checkpoint[t] \in Nat
        /\ Gapless(p, acknowledged[p])
    BY <1>2, <2>1, <2>2 DEF IInv, AttemptInv, BelowMinimum, TypeOK, CaptureTypeOK, TargetTypeOK
  <2>5. Current(p) \subseteq Nat
    BY <2>1 DEF Current, TypeOK, CaptureTypeOK
  <2>6. BatchGapless(p, checkpoint[t], local[p].batch)
    BY <2>4, <2>5 DEF Gapless, BatchGapless
  <2>7. IsPrefix(SourceId(p), checkpoint[t], replica[t])
    BY <1>2, <2>1 DEF IInv, TargetInv, Me
  <2> HIDE DEF l
  <2> QED
    BY <1>2, <2>1, <2>2, <2>3, <2>4, <2>6, <2>7, TransactionInv DEF SqliteUnchanged, captureVars
<1> QED
  BY <1>1, <1>2 DEF OpenTransaction

\* The next event of a batch without gaps takes the transaction's view one
\* change further.
LEMMA NextEvent ==
  ASSUME IInv, NEW p \in Primaries, pc[p] = "apply", NEW n \in local[p].batch, IsNext(p, n),
         ~AlreadyApplied(p, n)
  PROVE  IsPrefix(SourceId(p), n, [local[p].rows EXCEPT ![log[p][n].key] = log[p][n].row])
<1> DEFINE c == local[p].checkpoint
<1>1. /\ log[p] \in Seq(Event) /\ base[p] \in Nat /\ c \in Nat
      /\ DOMAIN log[p] = 1..Len(log[p]) /\ Len(log[p]) \in Nat
  BY DEF IInv, TypeOK, CaptureTypeOK, WorkerTypeOK, Local
<1>2. LogOrder(p) /\ ImageChain(p)
  BY DEF IInv, SqliteInv
<1>3. IsPrefix(SourceId(p), c, local[p].rows) /\ Gapless(p, c)
  BY DEF IInv, AttemptInv
<1>4. SourceId(p)[1] = p /\ SourceId(p)[2] = source[p]
  BY SourceIdFacts
<1>5. n \in 1..Len(log[p]) /\ base[p] < n /\ c < n
  BY <1>1, <1>3 DEF Gapless, Current, AlreadyApplied
<1>6. log[p][n].source = source[p]
  BY <1>1, <1>2, <1>5 DEF LogOrder
<1>7. log[p][n].image = [Before(p, n) EXCEPT ![log[p][n].key] = log[p][n].row]
  BY <1>1, <1>2, <1>5 DEF ImageChain
<1>8. \A m \in 1..Len(log[p]) : base[p] < m /\ c < m /\ m <= n => m = n
  <2>1. ASSUME NEW m \in 1..Len(log[p]), base[p] < m, c < m, m <= n
        PROVE  m = n
    <3>1. m \in local[p].batch
      BY <1>1, <1>3, <2>1 DEF Gapless, Current
    <3> QED
      BY <1>1, <1>5, <2>1, <3>1 DEF IsNext
  <2> QED
    BY <2>1
<1>9. local[p].rows = Before(p, n)
  <2>1. CASE c = 0 /\ local[p].rows = EmptyDB
    <3>1. base[p] + 1 \in 1..Len(log[p]) /\ base[p] < base[p] + 1 /\ base[p] + 1 <= n
      BY <1>1, <1>5
    <3>2. n = base[p] + 1
      BY <1>1, <1>8, <2>1, <3>1
    <3> QED
      BY <2>1, <3>2 DEF Before
  <2>2. CASE /\ c \in DOMAIN log[p] /\ log[p][c].source = source[p]
             /\ local[p].rows = log[p][c].image
    <3>1. base[p] < c
      BY <1>2, <2>2 DEF LogOrder
    <3>2. n - 1 \in 1..Len(log[p]) /\ base[p] < n - 1 /\ n # base[p] + 1
      BY <1>1, <1>5, <3>1
    <3>3. n - 1 = c
      BY <1>1, <1>5, <1>8, <3>2
    <3> QED
      BY <2>2, <3>2, <3>3 DEF Before
  <2> QED
    BY <1>3, <1>4, <2>1, <2>2 DEF IsPrefix
<1>10. [local[p].rows EXCEPT ![log[p][n].key] = log[p][n].row] = log[p][n].image
  BY <1>7, <1>9
<1> QED
  BY <1>1, <1>4, <1>5, <1>6, <1>10 DEF IsPrefix

LEMMA ApplyEventInv ==
  ASSUME IInv, TypeOK', NEW p \in Primaries, NEW n \in local[p].batch, ApplyEvent(p, n)
  PROVE  IInv'
<1> DEFINE e == log[p][n]
           c == local[p].checkpoint
           skipped == [local[p] EXCEPT !.batch = @ \ {n}]
           applied == [local[p] EXCEPT !.batch = @ \ {n}, !.checkpoint = n, !.rows[e.key] = e.row]
<1>1. CASE \E k : Fail(p, "apply", k)
  BY <1>1, FailInv
<1>2. ASSUME NEW l, Step(p, "apply", "apply", l), UNCHANGED <<captureVars, targetVars>>,
             \/ AlreadyApplied(p, n) /\ l = skipped
             \/ ~AlreadyApplied(p, n) /\ l = applied
      PROVE  IInv'
  <2>1. TypeOK /\ dsn[p] \in Targets /\ local[p] \in Local
    BY DEF IInv, TypeOK, WorkerTypeOK
  <2>2. Others(p) /\ pc[p] = "apply" /\ pc'[p] = "apply" /\ local'[p] = l /\ dsn'[p] = dsn[p]
    BY <1>2, <2>1, StepOthers
  <2>3. /\ Me(p) /\ unresolved[dsn[p]] = {} /\ checkpoint[dsn[p]] <= c /\ Gapless(p, c)
        /\ IsPrefix(SourceId(p), c, local[p].rows)
    BY <2>2 DEF IInv, AttemptInv
  <2>4. /\ c \in Nat /\ checkpoint[dsn[p]] \in Nat /\ Current(p) \subseteq Nat
        /\ n \in Current(p) /\ \A m \in local[p].batch : m \in Nat /\ n <= m
    <3>1. c \in Nat /\ checkpoint[dsn[p]] \in Nat
      BY <2>1 DEF TypeOK, TargetTypeOK, Local
    <3>2. Current(p) \subseteq Nat
      BY <2>1 DEF TypeOK, CaptureTypeOK, Current
    <3>3. \A m \in local[p].batch : m \in Current(p)
      BY <2>3 DEF Gapless
    <3>4. \A m \in local[p].batch : n <= m
      BY DEF ApplyEvent, IsNext
    <3> QED
      BY <3>1, <3>2, <3>3, <3>4
  <2>5. CASE AlreadyApplied(p, n) /\ l = skipped
    <3>1. l.batch = local[p].batch \ {n} /\ l.checkpoint = c /\ l.rows = local[p].rows
      BY <2>1, <2>5 DEF Local
    <3>2. n <= c
      BY <2>5 DEF AlreadyApplied
    <3>3. BatchGapless(p, c, local[p].batch \ {n})
      BY <2>3, <2>4, <3>2 DEF Gapless, BatchGapless
    <3> HIDE DEF c, skipped
    <3> QED
      BY <1>2, <2>2, <2>3, <3>1, <3>3, TransactionInv DEF SqliteUnchanged, captureVars
  <2>6. CASE ~AlreadyApplied(p, n) /\ l = applied
    <3>1. /\ l.batch = local[p].batch \ {n} /\ l.checkpoint = n
          /\ l.rows = [local[p].rows EXCEPT ![e.key] = e.row]
      BY <2>1, <2>6 DEF Local
    <3>2. c < n
      BY <2>4, <2>6 DEF AlreadyApplied
    <3>3. BatchGapless(p, n, local[p].batch \ {n})
      BY <2>3, <2>4, <3>2 DEF Gapless, BatchGapless
    <3>4. IsPrefix(SourceId(p), n, l.rows)
      BY <2>2, <2>6, <3>1, NextEvent DEF ApplyEvent
    <3>5. checkpoint[dsn[p]] <= n
      BY <2>3, <2>4, <3>2
    <3> HIDE DEF c, applied, e
    <3> QED
      BY <1>2, <2>2, <2>3, <3>1, <3>3, <3>4, <3>5, TransactionInv DEF SqliteUnchanged, captureVars
  <2> QED
    BY <1>2, <2>5, <2>6
<1> QED
  BY <1>1, <1>2 DEF ApplyEvent

\* A commit takes its database to the transaction's checkpoint.
LEMMA InstallInv ==
  ASSUME IInv, LogGrows, NEW t \in Targets, NEW tx \in Transaction, owner[t] \in SourceIds,
         IsPrefix(owner[t], tx.checkpoint, tx.rows), Install(t, tx), unresolved'[t] = {},
         \A u \in Targets \ {t} : unresolved'[u] = unresolved[u]
  PROVE  /\ \A u \in Targets : TargetInv(u)'
         /\ \A u \in Targets \ {t} : TargetFixed(u)
         /\ \A q \in Primaries : committed[q] <= committed'[q]
         /\ tx.checkpoint <= committed'[owner[t][1]]
<1>1. TypeOK /\ tx.checkpoint \in Nat /\ owner[t][1] \in Primaries
  BY SourceIdFacts DEF IInv, Transaction
<1>2. ShowsLater(owner[t], tx.checkpoint, tx.rows)
  BY PrefixKept
<1>3. owner' = owner /\ checkpoint'[t] = tx.checkpoint /\ replica'[t] = tx.rows
  BY <1>1 DEF Install, TypeOK, TargetTypeOK
<1>4. TargetInv(t)'
  BY <1>2, <1>3, TargetFromPrefix
<1>5. \A u \in Targets \ {t} : TargetFixed(u) /\ replica'[u] = replica[u]
  BY <1>1 DEF Install, TargetFixed, TypeOK, TargetTypeOK
<1>6. /\ committed \in [Primaries -> Nat]
      /\ committed' = [committed EXCEPT ![owner[t][1]] = IF @ < tx.checkpoint THEN tx.checkpoint ELSE @]
  BY <1>1 DEF Install, TypeOK, TargetTypeOK
<1>7. /\ \A q \in Primaries : committed[q] <= committed'[q]
      /\ tx.checkpoint <= committed'[owner[t][1]]
  BY <1>1, <1>6
<1> QED
  BY <1>4, <1>5, <1>7, TargetsInv

\* The transaction that is about to commit.
LEMMA OpenTxFacts ==
  ASSUME IInv, NEW p \in Primaries, pc[p] = "apply"
  PROVE  /\ dsn[p] \in Targets /\ Me(p) /\ SourceId(p) \in SourceIds /\ owner[dsn[p]] = SourceId(p)
         /\ TxOf(p) \in Transaction
         /\ TxOf(p).checkpoint = local[p].checkpoint /\ TxOf(p).rows = local[p].rows
         /\ IsPrefix(SourceId(p), local[p].checkpoint, local[p].rows)
         /\ IsPrefix(owner[dsn[p]], TxOf(p).checkpoint, TxOf(p).rows)
         /\ checkpoint[dsn[p]] <= TxOf(p).checkpoint /\ unresolved[dsn[p]] = {}
         /\ Reached(p, local[p].checkpoint)
<1>1. TypeOK /\ dsn[p] \in Targets /\ local[p] \in Local
  BY DEF IInv, TypeOK, WorkerTypeOK
<1>2. /\ Me(p) /\ unresolved[dsn[p]] = {} /\ checkpoint[dsn[p]] <= local[p].checkpoint
      /\ IsPrefix(SourceId(p), local[p].checkpoint, local[p].rows)
  BY DEF IInv, AttemptInv
<1>3. TxOf(p) \in Transaction
  BY <1>1 DEF TxOf, Transaction, Local
<1>4. TxOf(p).checkpoint = local[p].checkpoint /\ TxOf(p).rows = local[p].rows
  BY DEF TxOf
<1>5. Reached(p, local[p].checkpoint)
  <2>1. LogOrder(p)
    BY DEF IInv, SqliteInv
  <2> QED
    BY <1>2, <2>1, SourceIdFacts DEF IsPrefix, Reached, Current, LogOrder
<1> QED
  BY <1>1, <1>2, <1>3, <1>4, <1>5, OwnSourceId DEF Me

LEMMA CommitBatchInv ==
  ASSUME IInv, TypeOK', NEW p \in Primaries, CommitBatch(p)
  PROVE  IInv'
<1> DEFINE l == [NoLocal EXCEPT !.checkpoint = local[p].checkpoint]
<1>1. TypeOK /\ SqliteUnchanged /\ LogGrows /\ UNCHANGED <<unresolved, log, base>>
  BY DEF IInv, CommitBatch, SqliteUnchanged, captureVars, LogGrows
<1>2. Others(p) /\ pc[p] = "apply" /\ pc'[p] = "ack" /\ local'[p] = l
  BY <1>1, StepOthers DEF CommitBatch
<1>3. l.checkpoint = local[p].checkpoint
  BY DEF NoLocal
<1> HIDE DEF l
<1>4. /\ \A u \in Targets : TargetInv(u)'
      /\ \A u \in Targets \ {dsn[p]} : TargetFixed(u)
      /\ \A q \in Primaries : committed[q] <= committed'[q]
      /\ TxOf(p).checkpoint <= committed'[owner[dsn[p]][1]]
  BY <1>1, <1>2, OpenTxFacts, InstallInv DEF CommitBatch
<1>5. AttemptInv(p)'
  <2>1. owner[dsn[p]][1] = p
    BY <1>2, OpenTxFacts, SourceIdFacts
  <2>2. local'[p].checkpoint <= committed'[p]
    BY <1>2, <1>3, <1>4, <2>1, OpenTxFacts
  <2>3. Reached(p, local[p].checkpoint)
    BY <1>2, OpenTxFacts
  <2>4. Reached(p, local[p].checkpoint)'
    BY <1>1, <1>2, <1>3, <2>3 DEF Reached, Current
  <2> QED
    BY <1>2, <2>2, <2>4 DEF AttemptInv
<1>6. \A q \in Primaries \ {p} : pc[q] = "apply" => TargetFixed(dsn[q])
  <2>1. \A q \in Primaries : dsn[q] \in Targets
    BY <1>1 DEF TypeOK, WorkerTypeOK
  <2> QED
    BY <1>2, <1>4, <2>1, Exclusive, OpenTxFacts
<1> QED
  BY <1>1, <1>2, <1>4, <1>5, <1>6, AttemptStepInv DEF SqliteUnchanged, Others

LEMMA CommitUnansweredInv ==
  ASSUME IInv, TypeOK', NEW p \in Primaries, CommitUnanswered(p)
  PROVE  IInv'
<1>1. TypeOK /\ pc[p] = "apply" /\ dsn[p] \in Targets
  BY DEF IInv, TypeOK, WorkerTypeOK, CommitUnanswered
<1>2. PICK t \in Targets : t = dsn[p]
  BY <1>1
<1>3. SqliteUnchanged /\ LogGrows
  BY DEF CommitUnanswered, SaveError, SqliteUnchanged, LogGrows
<1>4. Others(p) /\ AttemptInv(p)'
  BY <1>1, FinishOthers, IdleInv DEF CommitUnanswered
<1>5. /\ unresolved'[t] = {TxOf(p)} /\ \A u \in Targets \ {t} : unresolved'[u] = unresolved[u]
      /\ UNCHANGED <<owner, checkpoint, replica, committed>>
  BY <1>1, <1>2 DEF CommitUnanswered, LoseAnswer, TypeOK, TargetTypeOK
<1>6. TargetInv(t)'
  <2>1. /\ owner[t] \in SourceIds /\ IsPrefix(owner[t], TxOf(p).checkpoint, TxOf(p).rows)
        /\ checkpoint[t] <= TxOf(p).checkpoint
    BY <1>1, <1>2, OpenTxFacts
  <2>2. ShowsLater(owner[t], TxOf(p).checkpoint, TxOf(p).rows)
    BY <1>3, <2>1, PrefixKept
  <2>3. ShowsLater(owner[t], checkpoint[t], replica[t])
    BY <1>1, <1>3, <2>1, PrefixKept DEF IInv, TargetInv
  <2> QED
    BY <1>1, <1>5, <2>1, <2>2, <2>3, TargetFromPrefix
<1>7. \A u \in Targets \ {t} : TargetFixed(u) /\ replica'[u] = replica[u]
  BY <1>5 DEF TargetFixed
<1>8. \A q \in Primaries \ {p} : pc[q] = "apply" => TargetFixed(dsn[q])
  <2>1. \A q \in Primaries : dsn[q] \in Targets
    BY <1>1 DEF TypeOK, WorkerTypeOK
  <2> QED
    BY <1>1, <1>7, <1>2, <2>1, Exclusive, OpenTxFacts
<1>9. \A q \in Primaries : committed[q] <= committed'[q]
  BY <1>1, <1>5 DEF TypeOK, TargetTypeOK
<1> QED
  BY <1>1, <1>3, <1>4, <1>6, <1>7, <1>8, <1>9, TargetsInv, AttemptStepInv DEF SqliteUnchanged, Others

LEMMA BatchInv ==
  ASSUME IInv, TypeOK', NEW p \in Primaries, Batch(p)
  PROVE  IInv'
<1>1. CASE ReadCheckpoint(p)
  BY <1>1, FailInv, QuietStepInv DEF ReadCheckpoint
<1>2. CASE Acknowledge(p)
  <2>1. TypeOK /\ Others(p) /\ Idle(p)' /\ local[p].checkpoint \in Nat
    BY <1>2, FinishOthers DEF Acknowledge, IInv, TypeOK, WorkerTypeOK, Local
  <2>2. Reached(p, local[p].checkpoint) /\ local[p].checkpoint <= committed[p]
    BY <1>2 DEF Acknowledge, IInv, AttemptInv
  <2> QED
    BY <1>2, <2>1, <2>2, AcknowledgeInv DEF Acknowledge
<1> QED
  BY <1>1, <1>2, ReadBatchInv, CompareCheckpointInv, OpenTransactionInv, ApplyEventInv,
     CommitBatchInv DEF Batch

LEMMA WorkerStepInv ==
  ASSUME IInv, TypeOK', NEW p \in Primaries, WorkerStep(p)
  PROVE  IInv'
<1>1. CASE BeginAttempt(p)
  BY <1>1, QuietStepInv DEF BeginAttempt
<1> QED
  BY <1>1, InitializationInv, BatchInv DEF WorkerStep

-----------------------------------------------------------------------------
(* MySQL on its own, and its operator *)

\* A step of MySQL alone, on a database that no open transaction holds.
LEMMA DatabaseInv ==
  ASSUME IInv, TypeOK', NEW t \in Targets, UNCHANGED <<captureVars, pc, dsn, local>>,
         \A q \in Primaries : dsn[q] = t => pc[q] # "apply",
         \A u \in Targets : TargetInv(u)', \A u \in Targets \ {t} : TargetFixed(u),
         \A q \in Primaries : committed[q] <= committed'[q]
  PROVE  IInv'
<1>1. SqliteUnchanged /\ LogGrows
  BY DEF SqliteUnchanged, captureVars, LogGrows
<1>2. \A q \in Primaries : /\ SqliteInv(q) /\ SqliteSame(q) /\ committed'[q] \in Nat
                           /\ pc[q] = "apply" => TargetFixed(dsn[q])
  BY <1>1 DEF IInv, SqliteSame, SqliteUnchanged, TypeOK, TargetTypeOK, WorkerTypeOK
<1>3. \A q \in Primaries : SqliteInv(q)'
  BY <1>2, SqliteInvSame DEF IInv
<1>4. \A q \in Primaries : AttemptInv(q)'
  BY <1>1, <1>2, AttemptInvSame DEF SqliteUnchanged
<1> QED
  BY <1>3, <1>4 DEF IInv

LEMMA ResolveAnswerInv ==
  ASSUME IInv, TypeOK', NEW t \in Targets, ResolveAnswer(t)
  PROVE  IInv'
<1>1. PICK tx \in unresolved[t] :
        /\ unresolved' = [unresolved EXCEPT ![t] = {}]
        /\ \/ Install(t, tx)
           \/ UNCHANGED <<owner, checkpoint, ready, tables, replica, committed>>
  BY DEF ResolveAnswer, ResolveCommit
<1>2. TypeOK /\ TargetInv(t) /\ LogGrows
  BY DEF IInv, ResolveAnswer, captureVars, LogGrows
<1>3. /\ tx \in Transaction /\ unresolved'[t] = {}
      /\ \A u \in Targets \ {t} : unresolved'[u] = unresolved[u]
  BY <1>1, <1>2 DEF TypeOK, TargetTypeOK
<1>4. owner[t] \in SourceIds /\ IsPrefix(owner[t], tx.checkpoint, tx.rows)
  BY <1>1, <1>2 DEF TargetInv
<1>5. \A q \in Primaries : dsn[q] = t => pc[q] # "apply"
  BY <1>1 DEF IInv, AttemptInv
<1>6. CASE Install(t, tx)
  BY <1>2, <1>3, <1>4, <1>5, <1>6, InstallInv, DatabaseInv DEF ResolveAnswer
<1>7. CASE UNCHANGED <<owner, checkpoint, ready, tables, replica, committed>>
  <2>1. \A u \in Targets \ {t} : TargetFixed(u) /\ replica'[u] = replica[u]
    BY <1>3, <1>7 DEF TargetFixed
  <2>2. ShowsLater(owner[t], checkpoint[t], replica[t])
    BY <1>2, <1>4, PrefixKept DEF TargetInv
  <2>3. TargetInv(t)'
    BY <1>3, <1>4, <1>7, <2>2, TargetFromPrefix
  <2>4. \A q \in Primaries : committed[q] <= committed'[q]
    BY <1>2, <1>7 DEF TypeOK, TargetTypeOK
  <2> QED
    BY <1>2, <1>5, <2>1, <2>3, <2>4, TargetsInv, DatabaseInv DEF ResolveAnswer
<1> QED
  BY <1>1, <1>6, <1>7

LEMMA OperateInv ==
  ASSUME IInv, TypeOK', NEW t \in Targets, NEW u \in Targets, Operate(t, u)
  PROVE  IInv'
<1>1. TypeOK /\ LogGrows /\ TargetInv(t) /\ TargetInv(u) /\ TargetTypeOK
  BY DEF IInv, TypeOK, Operate, captureVars, LogGrows
<1>2. unresolved' = unresolved /\ committed' = committed /\ unresolved[t] = {} /\ unresolved[u] = {}
  BY DEF Operate, RestoreOlder, Recreate, CopyTo, Quiet
<1>3. \A q \in Primaries : dsn[q] = u => pc[q] # "apply"
  BY DEF Operate, Quiet, ProcessState
<1>4. \A v \in Targets \ {u} : TargetFixed(v) /\ replica'[v] = replica[v]
  BY <1>1, <1>2 DEF Operate, RestoreOlder, Recreate, CopyTo, TargetFixed, TargetTypeOK
<1>5. TargetInv(u)'
  <2>1. CASE t = u /\ RestoreOlder(t)
    <3>1. PICK c \in PastCheckpoints(t) :
            /\ checkpoint' = [checkpoint EXCEPT ![t] = c]
            /\ replica' = [replica EXCEPT ![t] = ImageAt(owner[t], c)]
      BY <2>1 DEF RestoreOlder
    <3>2. owner[t] \in SourceIds /\ owner' = owner
      BY <2>1 DEF RestoreOlder
    <3>3. checkpoint'[t] = c /\ replica'[t] = ImageAt(owner[t], c)
      BY <1>1, <3>1 DEF TargetTypeOK
    <3>4. ShowsLater(owner[t], c, ImageAt(owner[t], c))
      <4>1. CASE c = 0
        BY <4>1 DEF ImageAt, ShowsLater
      <4>2. CASE c # 0
        <5>1. PICK p \in Primaries : c \in DOMAIN log[p] /\ owner[t] = <<p, log[p][c].source>>
          BY <4>2 DEF PastCheckpoints
        <5>2. IsPrefix(owner[t], c, ImageAt(owner[t], c))
          BY <4>2, <5>1 DEF IsPrefix, ImageAt
        <5> QED
          BY <1>1, <3>2, <5>2, PrefixKept
      <4> QED
        BY <4>1, <4>2
    <3> QED
      BY <1>2, <2>1, <3>2, <3>3, <3>4, TargetFromPrefix
  <2>2. CASE t = u /\ Recreate(t)
    <3>1. owner'[t] = NoMarker /\ checkpoint'[t] = 0 /\ replica'[t] = EmptyDB
      BY <1>1, <2>2 DEF Recreate, TargetTypeOK
    <3> QED
      BY <1>2, <2>2, <3>1, SourceIdFacts, TargetUnclaimed
  <2>3. CASE t # u /\ CopyTo(t, u)
    <3>1. /\ owner[t] \in SourceIds
          /\ owner'[u] = owner[t] /\ checkpoint'[u] = checkpoint[t] /\ replica'[u] = replica[t]
      BY <1>1, <2>3 DEF CopyTo, TargetTypeOK
    <3>2. ShowsLater(owner[t], checkpoint[t], replica[t])
      BY <1>1, <3>1, PrefixKept DEF TargetInv
    <3> QED
      BY <1>2, <3>1, <3>2, TargetFromPrefix
  <2> QED
    BY <2>1, <2>2, <2>3 DEF Operate
<1>6. \A q \in Primaries : committed[q] <= committed'[q]
  BY <1>1, <1>2 DEF TargetTypeOK
<1> QED
  BY <1>1, <1>3, <1>4, <1>5, <1>6, TargetsInv, DatabaseInv DEF Operate

-----------------------------------------------------------------------------
(* The invariant, and what follows from it *)

LEMMA InitInv == Init => IInv
<1> SUFFICES ASSUME Init PROVE IInv
  OBVIOUS
<1>1. TypeOK /\ CaptureInit /\ TargetInit /\ WorkerInit
  BY InitType DEF Init
<1>2. ASSUME NEW p \in Primaries
      PROVE  SqliteInv(p) /\ AttemptInv(p)
  <2>1. /\ log[p] = <<>> /\ base[p] = 0 /\ outbox[p] = {} /\ acknowledged[p] = 0
        /\ committed[p] = 0 /\ source[p] \in {0, 1} /\ pc[p] = "down"
        /\ \A k \in captured[p] : rows[p][k] = Absent
        /\ source[p] = 0 => captured[p] = {}
    BY <1>1 DEF CaptureInit, TargetInit, WorkerInit
  <2>2. Len(log[p]) = 0 /\ DOMAIN log[p] = {}
    BY <2>1
  <2>3. LogOrder(p) /\ ImageChain(p)
    BY <2>1, <2>2 DEF LogOrder, ImageChain
  <2>4. ShowsTables(p)
    BY <2>1, <2>2 DEF ShowsTables, Image, EmptyDB
  <2>5. QueueIsUnacknowledged(p)
    BY <2>1, <2>2 DEF QueueIsUnacknowledged, Current, Reached
  <2>6. AttemptInv(p)
    BY <2>1 DEF AttemptInv
  <2> QED
    BY <2>3, <2>4, <2>5, <2>6 DEF SqliteInv
<1>3. \A t \in Targets : TargetInv(t)
  BY <1>1, SourceIdFacts DEF TargetInit, TargetInv
<1> QED
  BY <1>1, <1>2, <1>3 DEF IInv

LEMMA StutterInv ==
  ASSUME IInv, TypeOK', UNCHANGED <<captureVars, targetVars, pc, dsn, local>>
  PROVE  IInv'
<1>1. CASE Primaries = {}
  <2>1. \A u \in Targets : TargetInv(u)'
    BY TargetsSame DEF captureVars, targetVars, LogGrows
  <2> QED
    BY <1>1, <2>1 DEF IInv
<1>2. CASE Primaries # {}
  <2>1. PICK p \in Primaries : TRUE
    BY <1>2
  <2>2. TypeOK /\ SqliteUnchanged /\ Others(p) /\ LogGrows /\ UNCHANGED targetVars
    BY DEF IInv, SqliteUnchanged, captureVars, Others, LogGrows
  <2>3. UNCHANGED <<owner, checkpoint, unresolved, replica, committed>>
    BY <2>2 DEF targetVars
  <2>4. TargetFixed(dsn[p]) /\ committed[p] <= committed'[p]
    BY <2>2, <2>3 DEF TargetFixed, TypeOK, TargetTypeOK
  <2>5. AttemptInv(p)'
    BY <2>2, <2>4, AttemptInvSame DEF SqliteUnchanged
  <2> QED
    BY <2>2, <2>3, <2>5, QuietInv
<1> QED
  BY <1>1, <1>2

LEMMA NextInv == IInv /\ [Next]_vars => IInv'
<1> SUFFICES ASSUME IInv, [Next]_vars PROVE IInv'
  OBVIOUS
<1>1. TypeOK'
  BY NextType DEF IInv
<1>2. ASSUME NEW p \in Primaries, NEW t \in Targets, Start(p, t) \/ CheckEmptyTarget(p, t)
      PROVE  IInv'
  BY <1>1, <1>2, StartInv, ControlInv
<1>3. ASSUME NEW p \in Primaries, StartDisabled(p) \/ Stop(p) \/ Reinitialize(p)
      PROVE  IInv'
  <2>1. dsn[p] \in Targets
    BY DEF IInv, TypeOK, WorkerTypeOK
  <2> QED
    BY <1>1, <1>3, <2>1, ControlInv, ReinitializeInv
<1>4. ASSUME NEW p \in Primaries, NEW k \in Keys, NEW r \in Row, Write(p, k, r)
      PROVE  IInv'
  BY <1>1, <1>4, WriteInv
<1>5. ASSUME NEW p \in Primaries, WorkerStep(p)
      PROVE  IInv'
  BY <1>1, <1>5, WorkerStepInv
<1>6. ASSUME NEW p \in Primaries, CommitUnanswered(p)
      PROVE  IInv'
  BY <1>1, <1>6, CommitUnansweredInv
<1>7. ASSUME NEW p \in Primaries, NEW from \in AttemptState, Timeout(p, from)
      PROVE  IInv'
  BY <1>1, <1>7, FailInv DEF Timeout
<1>8. ASSUME NEW t \in Targets, ResolveAnswer(t)
      PROVE  IInv'
  BY <1>1, <1>8, ResolveAnswerInv
<1>9. ASSUME NEW t \in Targets, NEW u \in Targets, Operate(t, u)
      PROVE  IInv'
  BY <1>1, <1>9, OperateInv
<1>10. CASE CalmDown
  BY <1>1, <1>10, StutterInv DEF CalmDown
<1>11. CASE UNCHANGED vars
  BY <1>1, <1>11, StutterInv DEF vars
<1> QED
  BY <1>2, <1>3, <1>4, <1>5, <1>6, <1>7, <1>8, <1>9, <1>10, <1>11 DEF Next

\* Outbox, log, databases and attempts fit together in every reachable state: the
\* argument behind the theorems that follow.
THEOREM InvariantHolds == Spec => []IInv
BY InitInv, NextInv, PTL DEF Spec

\* Rows and checkpoint of a claimed database always show one past state of the
\* captured tables of its source.
THEOREM ReplicaCorrect == Spec => []ReplicaIsCapturedState
<1>1. IInv => ReplicaIsCapturedState
  BY DEF IInv, TargetInv, ReplicaIsCapturedState
<1> QED
  BY <1>1, InvariantHolds, PTL

\* The last event of a source always describes the captured tables as they are.
THEOREM CaptureComplete == Spec => []CaptureIsComplete
<1>1. IInv => CaptureIsComplete
  BY DEF IInv, SqliteInv, CaptureIsComplete
<1> QED
  BY <1>1, InvariantHolds, PTL

\* No event leaves the outbox before MySQL committed it.
THEOREM NothingLost == Spec => []NoEventLost
<1>1. IInv => NoEventLost
  <2> SUFFICES ASSUME IInv, NEW p \in Primaries, NEW n \in base[p] + 1 .. Len(log[p]),
                      n \notin outbox[p]
               PROVE  n <= committed[p]
    BY DEF NoEventLost
  <2>1. /\ base[p] \in Nat /\ acknowledged[p] \in Nat /\ committed[p] \in Nat
        /\ DOMAIN log[p] = 1..Len(log[p]) /\ Len(log[p]) \in Nat
    BY DEF IInv, TypeOK, CaptureTypeOK, TargetTypeOK
  <2>2. n \in Current(p)
    BY <2>1 DEF Current
  <2>3. outbox[p] = {m \in Current(p) : acknowledged[p] < m} /\ acknowledged[p] <= committed[p]
    BY DEF IInv, SqliteInv, QueueIsUnacknowledged
  <2> QED
    BY <2>1, <2>2, <2>3
<1> QED
  BY <1>1, InvariantHolds, PTL

-----------------------------------------------------------------------------
(* What a step may never do *)

\* What a step other than an operator's does to the markers and rows.
MarkerStep ==
  \/ UNCHANGED <<owner, checkpoint, replica>>
  \/ \E t \in Targets, id \in SourceIds \cup {NoRow} :
       /\ owner[t] \notin SourceIds
       /\ owner' = [owner EXCEPT ![t] = id]
       /\ checkpoint' = checkpoint \/ checkpoint' = [checkpoint EXCEPT ![t] = 0]
       /\ UNCHANGED replica
  \/ \E t \in Targets, tx \in Transaction :
       /\ owner[t] \in SourceIds
       /\ IsPrefix(owner[t], tx.checkpoint, tx.rows)
       /\ checkpoint[t] <= tx.checkpoint
       /\ owner' = owner
       /\ checkpoint' = [checkpoint EXCEPT ![t] = tx.checkpoint]
       /\ replica' = [replica EXCEPT ![t] = tx.rows]

LEMMA FailMarker ==
  ASSUME NEW p, NEW from, NEW e, Fail(p, from, e)
  PROVE  MarkerStep
BY DEF Fail, targetVars, MarkerStep

LEMMA InitializationMarker ==
  ASSUME IInv, NEW p \in Primaries, Initialization(p)
  PROVE  MarkerStep
<1>1. dsn[p] \in Targets /\ SourceId(p) \in SourceIds
  BY OwnSourceId DEF IInv, TypeOK, WorkerTypeOK
<1>2. CASE CreateCheckpointTable(p)
  <2>1. CASE ~HasMarker(dsn[p]) /\ CreateMarker(dsn[p])
    BY <1>1, <2>1, SourceIdFacts DEF CreateMarker, HasMarker, MarkerStep
  <2> QED
    BY <1>2, <2>1, FailMarker DEF CreateCheckpointTable
<1>3. ASSUME NEW from, NEW to, InsertCheckpointRow(p, from, to)
      PROVE  MarkerStep
  <2>1. CASE owner[dsn[p]] = NoRow /\ InsertMarker(dsn[p], SourceId(p))
    BY <1>1, <2>1, SourceIdFacts DEF InsertMarker, MarkerStep
  <2> QED
    BY <1>3, <2>1, FailMarker DEF InsertCheckpointRow, CanInsert
<1>4. CASE ListTables(p) \/ CheckOwner(p) \/ ValidateSchema(p)
  BY <1>4, FailMarker DEF ListTables, CheckOwner, ValidateSchema, targetVars, MarkerStep
<1>5. CASE MarkInitialized(p)
  BY <1>5, FailMarker DEF MarkInitialized, MarkReady, MarkerStep
<1>6. ASSUME NEW k \in Keys, CreateBackupTable(p, k)
      PROVE  MarkerStep
  BY <1>6 DEF CreateBackupTable, CreateTable, MarkerStep
<1> QED
  BY <1>2, <1>3, <1>4, <1>5, <1>6 DEF Initialization

LEMMA BatchMarker ==
  ASSUME IInv, NEW p \in Primaries, Batch(p)
  PROVE  MarkerStep
<1>1. CASE CommitBatch(p)
  <2>1. pc[p] = "apply" /\ Install(dsn[p], TxOf(p))
    BY <1>1 DEF CommitBatch, Step
  <2> QED
    BY <2>1, OpenTxFacts DEF Install, MarkerStep
<1>2. CASE ReadBatch(p) \/ CompareCheckpoint(p) \/ Acknowledge(p)
  BY <1>2, FailMarker DEF ReadBatch, CompareCheckpoint, Acknowledge, targetVars, MarkerStep
<1>3. CASE ReadCheckpoint(p)
  BY <1>3, FailMarker DEF ReadCheckpoint, targetVars, MarkerStep
<1>4. CASE OpenTransaction(p)
  BY <1>4, FailMarker DEF OpenTransaction, targetVars, MarkerStep
<1>5. ASSUME NEW n \in local[p].batch, ApplyEvent(p, n)
      PROVE  MarkerStep
  BY <1>5, FailMarker DEF ApplyEvent, targetVars, MarkerStep
<1> QED
  BY <1>1, <1>2, <1>3, <1>4, <1>5 DEF Batch

LEMMA NextMarker ==
  ASSUME IInv, [Next]_vars
  PROVE  MarkerStep \/ \E t, u \in Targets : Operate(t, u)
<1>1. ASSUME NEW p \in Primaries, WorkerStep(p)
      PROVE  MarkerStep
  <2>1. CASE BeginAttempt(p)
    BY <2>1 DEF BeginAttempt, targetVars, MarkerStep
  <2> QED
    BY <1>1, <2>1, InitializationMarker, BatchMarker DEF WorkerStep
<1>2. ASSUME NEW p \in Primaries, NEW t \in Targets, Start(p, t) \/ CheckEmptyTarget(p, t)
      PROVE  MarkerStep
  BY <1>2 DEF Start, CheckEmptyTarget, targetVars, MarkerStep
<1>3. ASSUME NEW p \in Primaries, StartDisabled(p) \/ Stop(p) \/ Reinitialize(p)
      PROVE  MarkerStep
  BY <1>3 DEF StartDisabled, Stop, Reinitialize, targetVars, MarkerStep
<1>4. ASSUME NEW p \in Primaries, NEW k \in Keys, NEW r \in Row, Write(p, k, r)
      PROVE  MarkerStep
  BY <1>4 DEF Write, targetVars, MarkerStep
<1>5. ASSUME NEW p \in Primaries, CommitUnanswered(p)
      PROVE  MarkerStep
  BY <1>5 DEF CommitUnanswered, LoseAnswer, MarkerStep
<1>6. ASSUME NEW p \in Primaries, NEW from \in AttemptState, Timeout(p, from)
      PROVE  MarkerStep
  BY <1>6, FailMarker DEF Timeout
<1>7. ASSUME NEW t \in Targets, ResolveAnswer(t)
      PROVE  MarkerStep
  <2>1. PICK tx \in unresolved[t] :
          \/ Install(t, tx)
          \/ UNCHANGED <<owner, checkpoint, ready, tables, replica, committed>>
    BY <1>7 DEF ResolveAnswer, ResolveCommit
  <2>2. /\ tx \in Transaction /\ checkpoint[t] <= tx.checkpoint
        /\ owner[t] \in SourceIds /\ IsPrefix(owner[t], tx.checkpoint, tx.rows)
    BY <2>1 DEF IInv, TargetInv, TypeOK, TargetTypeOK
  <2>3. CASE Install(t, tx)
    BY <2>2, <2>3 DEF Install, MarkerStep
  <2> QED
    BY <2>1, <2>3 DEF MarkerStep
<1>8. CASE CalmDown \/ UNCHANGED vars
  BY <1>8 DEF CalmDown, vars, targetVars, MarkerStep
<1> QED
  BY <1>1, <1>2, <1>3, <1>4, <1>5, <1>6, <1>7, <1>8 DEF Next

\* A claimed database never passes to another source.
THEOREM OwnershipFinal == Spec => OwnershipIsFinal
<1>1. IInv /\ [Next]_vars => [\A t \in Targets :
                                owner[t] \in SourceIds => owner'[t] \in {owner[t], NoMarker}]_vars
  <2> SUFFICES ASSUME IInv, [Next]_vars, NEW t \in Targets, owner[t] \in SourceIds
               PROVE  owner'[t] \in {owner[t], NoMarker}
    OBVIOUS
  <2>1. owner \in [Targets -> SourceIds \cup {NoMarker, NoRow}]
    BY DEF IInv, TypeOK, TargetTypeOK
  <2>2. CASE MarkerStep
    BY <2>1, <2>2 DEF MarkerStep
  <2>3. ASSUME NEW s \in Targets, NEW u \in Targets, Operate(s, u)
        PROVE  owner'[t] \in {owner[t], NoMarker}
    BY <2>1, <2>3, SourceIdFacts DEF Operate, RestoreOlder, Recreate, CopyTo, IsEmpty
  <2> QED
    BY <2>2, <2>3, NextMarker
<1> QED
  BY <1>1, InvariantHolds, PTL DEF Spec, OwnershipIsFinal

\* Only an operator takes a checkpoint back.
THEOREM CheckpointAdvances == Spec => CheckpointOnlyAdvances
<1>1. IInv /\ [Next]_vars => [(\E t \in Targets : checkpoint'[t] < checkpoint[t]) =>
                                 \E t, u \in Targets : Operate(t, u)]_vars
  <2> SUFFICES ASSUME IInv, [Next]_vars, NEW t \in Targets, checkpoint'[t] < checkpoint[t], MarkerStep
               PROVE  FALSE
    BY NextMarker
  <2>1. checkpoint \in [Targets -> Nat] /\ owner \in [Targets -> SourceIds \cup {NoMarker, NoRow}]
    BY DEF IInv, TypeOK, TargetTypeOK
  <2>2. \A u \in Targets : owner[u] \notin SourceIds => checkpoint[u] = 0
    BY DEF IInv, TargetInv
  <2>3. \A tx \in Transaction : tx.checkpoint \in Nat
    BY DEF Transaction
  <2> QED
    BY <2>1, <2>2, <2>3 DEF MarkerStep
<1> QED
  BY <1>1, InvariantHolds, PTL DEF Spec, CheckpointOnlyAdvances
-----------------------------------------------------------------------------
(* Complete schemas *)

\* A step of one instance that drops no table.
LEMMA SchemaStep ==
  ASSUME SchemaInv, TypeOK', NEW p \in Primaries, Others(p),
         \A t \in Targets : tables[t] \subseteq tables'[t], ReadyTargetsAreComplete',
         pc'[p] \in Claiming => dsn'[p] \notin ForeignTargets,
         pc'[p] = "mark" => tables'[dsn'[p]] = Keys
  PROVE  SchemaInv'
<1>1. ASSUME NEW q \in Primaries
      PROVE  /\ pc'[q] \in Claiming => dsn'[q] \notin ForeignTargets
             /\ pc'[q] = "mark" => tables'[dsn'[q]] = Keys
  <2>1. CASE q = p
    BY <2>1
  <2>2. CASE q # p
    <3>1. pc'[q] = pc[q] /\ dsn'[q] = dsn[q] /\ dsn'[q] \in Targets
      BY <2>2 DEF Others, TypeOK, WorkerTypeOK
    <3>2. tables'[dsn'[q]] \subseteq Keys /\ tables[dsn'[q]] \subseteq tables'[dsn'[q]]
      BY <3>1 DEF TypeOK, TargetTypeOK
    <3> QED
      BY <3>1, <3>2 DEF SchemaInv
  <2> QED
    BY <2>1, <2>2
<1> QED
  BY <1>1 DEF SchemaInv

\* A step of one instance that leaves the databases' schemas and markers alone.
LEMMA SchemaSame ==
  ASSUME SchemaInv, TypeOK', NEW p \in Primaries, Others(p), UNCHANGED <<owner, ready, tables>>,
         pc'[p] \in Claiming => dsn'[p] \notin ForeignTargets,
         pc'[p] = "mark" => tables[dsn'[p]] = Keys
  PROVE  SchemaInv'
<1>1. ReadyTargetsAreComplete'
  BY DEF SchemaInv, ReadyTargetsAreComplete, SourceIds
<1> QED
  BY <1>1, SchemaStep

LEMMA SchemaFail ==
  ASSUME SchemaInv, TypeOK, TypeOK', NEW p \in Primaries, NEW from, NEW e, Fail(p, from, e)
  PROVE  SchemaInv'
<1>1. Others(p) /\ pc'[p] = "idle" /\ UNCHANGED targetVars
  BY FinishOthers DEF Fail, Finish, TypeOK, WorkerTypeOK
<1> QED
  BY <1>1, SchemaSame DEF targetVars, Claiming

\* The next statement of an attempt that stays where it may be.
LEMMA SchemaNext ==
  ASSUME SchemaInv, TypeOK, TypeOK', NEW p \in Primaries, NEW from, NEW to, NEW l, Step(p, from, to, l),
         UNCHANGED <<owner, ready, tables>>,
         to \in Claiming => from \in Claiming \/ dsn[p] \notin ForeignTargets,
         to = "mark" => tables[dsn[p]] = Keys
  PROVE  SchemaInv'
<1>1. Others(p) /\ pc[p] = from /\ pc'[p] = to /\ dsn' = dsn
  BY StepOthers
<1> QED
  BY <1>1, SchemaSame DEF SchemaInv

LEMMA SchemaInitialization ==
  ASSUME SchemaInv, TypeOK, TypeOK', NEW p \in Primaries, Initialization(p)
  PROVE  SchemaInv'
<1> DEFINE t == dsn[p]
<1>1. t \in Targets /\ SourceId(p) \in SourceIds
  BY OwnSourceId DEF TypeOK, WorkerTypeOK
<1>2. TargetTypeOK /\ ReadyTargetsAreComplete
  BY DEF TypeOK, SchemaInv
<1>3. t \in ForeignTargets => owner[t] = NoMarker
  BY <1>1, <1>2 DEF ReadyTargetsAreComplete
<1>4. CASE ListTables(p)
  <2>1. CASE HasMarker(t) /\ Step(p, "list", "owner", [local[p] EXCEPT !.seen = tables[t]]) /\ UNCHANGED targetVars
    <3>1. UNCHANGED <<owner, ready, tables>> /\ t \notin ForeignTargets
      BY <1>3, <2>1 DEF targetVars, HasMarker
    <3> QED
      BY <2>1, <3>1, SchemaNext
  <2>2. CASE IsEmpty(t) /\ Step(p, "list", "create", local[p]) /\ UNCHANGED targetVars
    <3>1. UNCHANGED <<owner, ready, tables>> /\ t \notin ForeignTargets
      BY <2>2 DEF targetVars, IsEmpty
    <3> QED
      BY <2>2, <3>1, SchemaNext
  <2> QED
    BY <1>4, <2>1, <2>2, SchemaFail DEF ListTables
<1>5. CASE CreateCheckpointTable(p)
  <2>1. CASE ~HasMarker(t) /\ Step(p, "create", "insert", local[p]) /\ CreateMarker(t)
    <3>1. Others(p) /\ pc[p] = "create" /\ pc'[p] = "insert" /\ dsn' = dsn
      BY <2>1, StepOthers
    <3>2. t \notin ForeignTargets
      BY <3>1 DEF SchemaInv, Claiming
    <3>3. ~ready[t]
      BY <1>1, <1>2, <2>1, SourceIdFacts DEF ReadyTargetsAreComplete, HasMarker
    <3>4. owner' = [owner EXCEPT ![t] = NoRow] /\ ready' = ready /\ tables' = tables
      BY <2>1 DEF CreateMarker
    <3>5. ReadyTargetsAreComplete'
      BY <1>1, <1>2, <3>2, <3>3, <3>4 DEF ReadyTargetsAreComplete, TargetTypeOK, SourceIds
    <3> QED
      BY <3>1, <3>2, <3>4, <3>5, SchemaStep
  <2> QED
    BY <1>5, <2>1, SchemaFail DEF CreateCheckpointTable
<1>6. ASSUME NEW from \in {"insert", "claim"}, NEW to \in {"owner", "ddl"}, InsertCheckpointRow(p, from, to)
      PROVE  SchemaInv'
  <2>1. CASE \E l : Step(p, from, to, l) /\ CanInsert(t) /\ InsertMarker(t, SourceId(p))
    <3>1. Others(p) /\ pc[p] = from /\ pc'[p] = to /\ dsn' = dsn
      BY <2>1, StepOthers
    <3>2. t \notin ForeignTargets
      BY <3>1 DEF SchemaInv, Claiming
    <3>3. /\ owner' = [owner EXCEPT ![t] = SourceId(p)] /\ ready' = [ready EXCEPT ![t] = FALSE]
          /\ tables' = tables
      BY <2>1 DEF InsertMarker
    <3>4. ReadyTargetsAreComplete'
      BY <1>1, <1>2, <3>2, <3>3 DEF ReadyTargetsAreComplete, TargetTypeOK, SourceIds
    <3>5. to # "mark"
      OBVIOUS
    <3> QED
      BY <3>1, <3>2, <3>3, <3>4, <3>5, SchemaStep
  <2> QED
    BY <1>6, <2>1, SchemaFail DEF InsertCheckpointRow
<1>7. CASE CheckOwner(p)
  <2>1. ASSUME NEW to \in {"claim", "ddl"}, NEW l, Step(p, "owner", to, l), UNCHANGED targetVars
        PROVE  SchemaInv'
    BY <2>1, SchemaNext DEF targetVars, Claiming
  <2> QED
    BY <1>7, <2>1, SchemaFail DEF CheckOwner
<1>8. ASSUME NEW k \in Keys, CreateBackupTable(p, k)
      PROVE  SchemaInv'
  <2>1. PICK l : Step(p, "ddl", "ddl", l)
    BY <1>8 DEF CreateBackupTable
  <2>2. Others(p) /\ pc[p] = "ddl" /\ pc'[p] = "ddl" /\ dsn' = dsn
    BY <2>1, StepOthers
  <2>3. t \notin ForeignTargets
    BY <2>2 DEF SchemaInv, Claiming
  <2>4. tables' = [tables EXCEPT ![t] = tables[t] \cup {k}] /\ UNCHANGED <<owner, ready>>
    BY <1>8 DEF CreateBackupTable, CreateTable
  <2>5. \A u \in Targets : tables[u] \subseteq tables'[u] /\ (u # t => tables'[u] = tables[u])
    BY <1>1, <1>2, <2>4 DEF TargetTypeOK
  <2>6. ReadyTargetsAreComplete'
    BY <1>2, <2>3, <2>4, <2>5 DEF ReadyTargetsAreComplete, SourceIds
  <2> QED
    BY <2>2, <2>3, <2>5, <2>6, SchemaStep
<1>9. CASE ValidateSchema(p)
  <2>1. CASE SchemaComplete(t) /\ Step(p, "ddl", "mark", local[p]) /\ UNCHANGED targetVars
    BY <2>1, SchemaNext DEF targetVars, SchemaComplete, Claiming
  <2>2. CASE /\ pc' = [pc EXCEPT ![p] = "read"]
             /\ UNCHANGED <<captureVars, targetVars, dsn, local, calm>>
    <3>1. Others(p) /\ pc'[p] = "read" /\ UNCHANGED <<owner, ready, tables>>
      BY <2>2 DEF Others, TypeOK, WorkerTypeOK, targetVars
    <3> QED
      BY <3>1, SchemaSame DEF Claiming
  <2> QED
    BY <1>9, <2>1, <2>2, SchemaFail DEF ValidateSchema
<1>10. CASE MarkInitialized(p)
  <2>1. pc[p] = "mark" /\ pc' = [pc EXCEPT ![p] = "read"] /\ UNCHANGED <<dsn, local>>
    BY <1>10 DEF MarkInitialized
  <2>2. Others(p) /\ pc'[p] = "read"
    BY <2>1 DEF Others, TypeOK, WorkerTypeOK
  <2>3. t \notin ForeignTargets /\ tables[t] = Keys
    BY <2>1 DEF SchemaInv, Claiming
  <2>4. ready' = [ready EXCEPT ![t] = ready[t] \/ owner[t] = SourceId(p)] /\ UNCHANGED <<owner, tables>>
    BY <1>10 DEF MarkInitialized, MarkReady
  <2>5. ASSUME NEW u \in Targets, ready'[u]
        PROVE  owner[u] \in SourceIds /\ Keys \ CacheKeys \subseteq tables[u]
    <3>1. CASE u = t /\ owner[t] = SourceId(p)
      BY <1>1, <2>3, <3>1
    <3>2. CASE u # t \/ owner[t] # SourceId(p)
      <4>1. ready[u]
        BY <1>1, <1>2, <2>4, <2>5, <3>2 DEF TargetTypeOK
      <4> QED
        BY <1>2, <4>1 DEF ReadyTargetsAreComplete
    <3> QED
      BY <3>1, <3>2
  <2>6. ReadyTargetsAreComplete'
    BY <1>2, <2>4, <2>5 DEF ReadyTargetsAreComplete, SourceIds
  <2> QED
    BY <2>2, <2>4, <2>6, SchemaStep DEF Claiming
<1> QED
  BY <1>4, <1>5, <1>6, <1>7, <1>8, <1>9, <1>10 DEF Initialization

LEMMA SchemaBatch ==
  ASSUME SchemaInv, TypeOK, TypeOK', NEW p \in Primaries, Batch(p)
  PROVE  SchemaInv'
<1>1. ASSUME NEW from, NEW to \in {"probe", "begin", "compare", "apply", "ack"}, NEW l, Step(p, from, to, l),
             UNCHANGED <<owner, ready, tables>>
      PROVE  SchemaInv'
  BY <1>1, SchemaNext DEF Claiming
<1>2. ASSUME NEW ok, Finish(p, ok), UNCHANGED targetVars
      PROVE  SchemaInv'
  <2>1. Others(p) /\ pc'[p] = "idle"
    BY <1>2, FinishOthers DEF Finish, TypeOK, WorkerTypeOK
  <2> QED
    BY <1>2, <2>1, SchemaSame DEF targetVars, Claiming
<1>3. CASE ReadBatch(p) \/ ReadCheckpoint(p)
  BY <1>1, <1>3, SchemaFail DEF ReadBatch, ReadCheckpoint, targetVars
<1>4. CASE CompareCheckpoint(p)
  BY <1>2, <1>4, SchemaFail DEF CompareCheckpoint
<1>5. CASE OpenTransaction(p)
  BY <1>1, <1>5, SchemaFail DEF OpenTransaction, targetVars
<1>6. ASSUME NEW n \in local[p].batch, ApplyEvent(p, n)
      PROVE  SchemaInv'
  BY <1>1, <1>6, SchemaFail DEF ApplyEvent, targetVars
<1>7. CASE CommitBatch(p)
  BY <1>1, <1>7 DEF CommitBatch, Install
<1>8. CASE Acknowledge(p)
  BY <1>2, <1>8 DEF Acknowledge
<1> QED
  BY <1>3, <1>4, <1>5, <1>6, <1>7, <1>8 DEF Batch

\* The process starts, stops, or gives up.
LEMMA SchemaControl ==
  ASSUME SchemaInv, TypeOK, TypeOK', NEW p \in Primaries, NEW t \in Targets,
         \/ Start(p, t) \/ StartDisabled(p) \/ Stop(p) \/ CheckEmptyTarget(p, t) \/ Reinitialize(p)
         \/ CommitUnanswered(p)
  PROVE  SchemaInv'
<1>1. Others(p) /\ pc'[p] \in ProcessState /\ UNCHANGED <<owner, ready, tables>>
  BY DEF Start, StartDisabled, Stop, CheckEmptyTarget, Reinitialize, CommitUnanswered, Finish, GoTo, LoseAnswer,
         ProcessState, Others, TypeOK, WorkerTypeOK, targetVars
<1> QED
  BY <1>1, SchemaSame DEF ProcessState, Claiming

\* Whoever has begun to use a database keeps its operator away.
LEMMA SchemaOperate ==
  ASSUME SchemaInv, TypeOK, TypeOK', NEW t \in Targets, NEW u \in Targets, Operate(t, u)
  PROVE  SchemaInv'
<1>1. TargetTypeOK /\ ReadyTargetsAreComplete /\ UNCHANGED <<pc, dsn>> /\ Quiet(u)
  BY DEF Operate, TypeOK, SchemaInv
<1>2. /\ \A s \in Targets \ {u} : owner'[s] = owner[s] /\ ready'[s] = ready[s] /\ tables'[s] = tables[s]
      /\ ready'[u] => owner'[u] \in SourceIds /\ Keys \ CacheKeys \subseteq tables'[u]
      /\ u \in ForeignTargets => owner'[u] = NoMarker /\ tables'[u] = {}
  <2>1. CASE t = u /\ RestoreOlder(t)
    BY <1>1, <2>1 DEF RestoreOlder, ReadyTargetsAreComplete
  <2>2. CASE t = u /\ Recreate(t)
    BY <1>1, <2>2 DEF Recreate, TargetTypeOK
  <2>3. CASE t # u /\ CopyTo(t, u)
    <3>1. u \notin ForeignTargets
      BY <2>3 DEF CopyTo, IsEmpty
    <3> QED
      BY <1>1, <2>3, <3>1 DEF CopyTo, TargetTypeOK, ReadyTargetsAreComplete
  <2> QED
    BY <2>1, <2>2, <2>3 DEF Operate
<1>3. ReadyTargetsAreComplete'
  BY <1>1, <1>2 DEF ReadyTargetsAreComplete, SourceIds
<1>4. ASSUME NEW p \in Primaries
      PROVE  pc[p] = "mark" => tables'[dsn[p]] = tables[dsn[p]]
  <2>1. dsn[p] = u => pc[p] # "mark"
    BY <1>1 DEF Quiet, ProcessState
  <2>2. dsn[p] \in Targets
    BY DEF TypeOK, WorkerTypeOK
  <2> QED
    BY <1>2, <2>1, <2>2
<1> QED
  BY <1>1, <1>3, <1>4 DEF SchemaInv

LEMMA SchemaFixed ==
  ASSUME SchemaInv, UNCHANGED <<owner, ready, tables, pc, dsn>>
  PROVE  SchemaInv'
BY DEF SchemaInv, ReadyTargetsAreComplete, SourceIds

LEMMA SchemaInit == Init => SchemaInv
BY DEF Init, TargetInit, WorkerInit, SchemaInv, ReadyTargetsAreComplete, Claiming

LEMMA SchemaKept ==
  ASSUME SchemaInv, TypeOK, TypeOK', [Next]_vars
  PROVE  SchemaInv'
<1>1. ASSUME NEW p \in Primaries, WorkerStep(p)
      PROVE  SchemaInv'
  <2>1. CASE BeginAttempt(p)
    <3>1. UNCHANGED targetVars /\ \E to \in {"read", "list"} : \E l : Step(p, "idle", to, l)
      BY <2>1 DEF BeginAttempt
    <3> QED
      BY <3>1, SchemaNext DEF targetVars, Claiming
  <2> QED
    BY <1>1, <2>1, SchemaInitialization, SchemaBatch DEF WorkerStep
<1>2. ASSUME NEW p \in Primaries, NEW t \in Targets,
             \/ Start(p, t) \/ StartDisabled(p) \/ Stop(p) \/ CheckEmptyTarget(p, t) \/ Reinitialize(p)
             \/ CommitUnanswered(p)
      PROVE  SchemaInv'
  BY <1>2, SchemaControl
<1>3. ASSUME NEW p \in Primaries, StartDisabled(p) \/ Stop(p) \/ Reinitialize(p) \/ CommitUnanswered(p)
      PROVE  SchemaInv'
  <2>1. dsn[p] \in Targets
    BY DEF TypeOK, WorkerTypeOK
  <2> QED
    BY <1>2, <1>3, <2>1
<1>4. ASSUME NEW p \in Primaries, NEW k \in Keys, NEW r \in Row, Write(p, k, r)
      PROVE  SchemaInv'
  BY <1>4, SchemaFixed DEF Write, targetVars
<1>5. ASSUME NEW p \in Primaries, NEW from \in AttemptState, Timeout(p, from)
      PROVE  SchemaInv'
  BY <1>5, SchemaFail DEF Timeout
<1>6. ASSUME NEW t \in Targets, ResolveAnswer(t)
      PROVE  SchemaInv'
  BY <1>6, SchemaFixed DEF ResolveAnswer, ResolveCommit, Install
<1>7. ASSUME NEW t \in Targets, NEW u \in Targets, Operate(t, u)
      PROVE  SchemaInv'
  BY <1>7, SchemaOperate
<1>8. CASE CalmDown \/ UNCHANGED vars
  BY <1>8, SchemaFixed DEF CalmDown, vars, targetVars
<1> QED
  BY <1>1, <1>2, <1>3, <1>4, <1>5, <1>6, <1>7, <1>8 DEF Next

\* A marker says initialized only of a database that has its tables, and another
\* application's database is never touched, for any number of instances that create
\* tables, time out and start again beside each other.
THEOREM ReadyIsComplete == Spec => []ReadyTargetsAreComplete
<1>1. Init => TypeOK /\ SchemaInv
  BY InitType, SchemaInit
<1>2. TypeOK /\ SchemaInv /\ [Next]_vars => (TypeOK /\ SchemaInv)'
  BY NextType, SchemaKept
<1>3. SchemaInv => ReadyTargetsAreComplete
  BY DEF SchemaInv
<1> QED
  BY <1>1, <1>2, <1>3, PTL DEF Spec

-----------------------------------------------------------------------------
(* Every step of the backup is a step of PrefixMirror or invisible to it *)

\* The claims PrefixMirror sees.
claims == [t \in Targets |-> ClaimOf(t)]

LEMMA MirrorSame ==
  ASSUME UNCHANGED <<log, owner, checkpoint, replica>>
  PROVE  UNCHANGED Mirror!vars
BY DEF Mirror!vars, ClaimOf

LEMMA ClaimFacts ==
  ASSUME TypeOK, NEW t \in Targets
  PROVE  /\ claims[t] = ClaimOf(t)
         /\ owner[t] \in SourceIds <=> claims[t] # NoMarker
         /\ owner[t] \in SourceIds => claims[t] = owner[t]
BY SourceIdFacts DEF claims, ClaimOf, TypeOK, TargetTypeOK

LEMMA MirrorInit == Init => Mirror!Init
BY DEF Init, CaptureInit, TargetInit, Mirror!Init, ClaimOf

LEMMA MirrorRecord ==
  ASSUME TypeOK, NEW p \in Primaries, LogGrows, \A q \in Primaries \ {p} : log'[q] = log[q],
         UNCHANGED targetVars
  PROVE  Mirror!Record(p)
<1>1. /\ log[p] \in Seq(Event) /\ DOMAIN log[p] = 1..Len(log[p]) /\ Len(log[p]) \in Nat
  BY DEF TypeOK, CaptureTypeOK
<1> QED
  BY <1>1 DEF Mirror!Record, LogGrows, targetVars, ClaimOf

LEMMA LogFacts ==
  ASSUME TypeOK, NEW id \in SourceIds
  PROVE  /\ id[1] \in Primaries /\ Len(log[id[1]]) \in Nat
         /\ DOMAIN log[id[1]] = 1..Len(log[id[1]])
<1>1. id[1] \in Primaries
  BY SourceIdFacts
<1>2. log[id[1]] \in Seq(Event)
  BY <1>1 DEF TypeOK, CaptureTypeOK
<1> QED
  BY <1>1, <1>2

LEMMA MirrorShow ==
  ASSUME TypeOK, NEW t \in Targets, NEW n, NEW db, owner[t] \in SourceIds, IsPrefix(owner[t], n, db),
         UNCHANGED <<log, owner>>,
         checkpoint' = [checkpoint EXCEPT ![t] = n], replica' = [replica EXCEPT ![t] = db]
  PROVE  Mirror!Show(t, n)
<1>1. claims[t] = owner[t]
  BY ClaimFacts
<1>2. \/ n = 0 /\ replica' = [replica EXCEPT ![t] = EmptyDB]
      \/ /\ n \in 1..Len(log[claims[t][1]])
         /\ log[claims[t][1]][n].source = claims[t][2]
         /\ replica' = [replica EXCEPT ![t] = log[claims[t][1]][n].image]
  BY <1>1, LogFacts DEF IsPrefix
<1>3. UNCHANGED claims
  BY DEF claims, ClaimOf
<1> QED
  BY <1>2, <1>3 DEF Mirror!Show, claims

LEMMA CommitRefines ==
  ASSUME IInv, NEW t \in Targets, NEW tx \in Transaction, owner[t] \in SourceIds,
         IsPrefix(owner[t], tx.checkpoint, tx.rows), checkpoint[t] <= tx.checkpoint,
         UNCHANGED <<log, owner>>,
         checkpoint' = [checkpoint EXCEPT ![t] = tx.checkpoint],
         replica' = [replica EXCEPT ![t] = tx.rows]
  PROVE  Mirror!Advance(t) \/ UNCHANGED Mirror!vars
<1>1. /\ TypeOK /\ checkpoint \in [Targets -> Nat] /\ tx.checkpoint \in Nat
      /\ replica \in [Targets -> [Keys -> Row]]
  BY DEF IInv, TypeOK, TargetTypeOK, Transaction
<1>2. Mirror!Show(t, tx.checkpoint)
  BY <1>1, MirrorShow
<1>3. CASE checkpoint[t] < tx.checkpoint
  <2>1. tx.checkpoint \in DOMAIN log[owner[t][1]]
    BY <1>1, <1>3 DEF IsPrefix
  <2>2. tx.checkpoint \in checkpoint[t] + 1 .. Len(log[owner[t][1]])
    BY <1>1, <1>3, <2>1, LogFacts
  <2>3. claims[t] = owner[t] /\ claims[t] # NoMarker
    BY <1>1, ClaimFacts
  <2> QED
    BY <1>2, <2>2, <2>3 DEF Mirror!Advance, claims
<1>4. CASE checkpoint[t] = tx.checkpoint
  <2>1. IsPrefix(owner[t], checkpoint[t], replica[t])
    BY DEF IInv, TargetInv
  <2>2. replica[t] = tx.rows
    <3>1. 0 \notin DOMAIN log[owner[t][1]]
      BY <1>1, LogFacts
    <3> QED
      BY <1>4, <2>1, <3>1 DEF IsPrefix
  <2> QED
    BY <1>1, <1>4, <2>2, MirrorSame
<1>5. checkpoint[t] < tx.checkpoint \/ checkpoint[t] = tx.checkpoint
  <2>1. \A m, n \in Nat : m <= n => m < n \/ m = n
    OBVIOUS
  <2>2. checkpoint[t] \in Nat
    BY <1>1
  <2> QED
    BY <1>1, <2>1, <2>2
<1> QED
  BY <1>3, <1>4, <1>5

LEMMA ClaimRefines ==
  ASSUME IInv, NEW t \in Targets, NEW id \in SourceIds \cup {NoRow}, owner[t] \notin SourceIds,
         owner' = [owner EXCEPT ![t] = id],
         checkpoint' = checkpoint \/ checkpoint' = [checkpoint EXCEPT ![t] = 0],
         UNCHANGED <<log, replica>>
  PROVE  (\E i \in Primaries, s \in 0..MaxSources : Mirror!Claim(t, <<i, s>>)) \/ UNCHANGED Mirror!vars
<1>1. TypeOK /\ checkpoint' = checkpoint
  BY DEF IInv, TargetInv, TypeOK, TargetTypeOK
<1>2. claims[t] = NoMarker /\ owner \in [Targets -> SourceIds \cup {NoMarker, NoRow}]
  BY <1>1, ClaimFacts DEF TypeOK, TargetTypeOK
<1>3. CASE id = NoRow
  <2>1. UNCHANGED claims
    BY <1>2, <1>3 DEF claims, ClaimOf
  <2> QED
    BY <1>1, <2>1 DEF Mirror!vars, claims
<1>4. CASE id \in SourceIds
  <2>1. PICK i \in Primaries, s \in 0..MaxSources : id = <<i, s>>
    BY <1>4 DEF SourceIds
  <2>2. claims' = [claims EXCEPT ![t] = id]
    BY <1>2, <1>4, SourceIdFacts DEF claims, ClaimOf
  <2> QED
    BY <1>1, <1>2, <2>1, <2>2 DEF Mirror!Claim, claims
<1> QED
  BY <1>3, <1>4

LEMMA OperateRefines ==
  ASSUME IInv, NEW t \in Targets, NEW u \in Targets, Operate(t, u)
  PROVE  Mirror!Rewind(t) \/ Mirror!Vacate(t) \/ Mirror!Duplicate(t, u)
<1>1. TypeOK /\ TargetTypeOK /\ UNCHANGED log
  BY DEF IInv, TypeOK, Operate, captureVars
<1>2. CASE RestoreOlder(t)
  <2>1. PICK c \in PastCheckpoints(t) :
          /\ checkpoint' = [checkpoint EXCEPT ![t] = c]
          /\ replica' = [replica EXCEPT ![t] = ImageAt(owner[t], c)]
    BY <1>2 DEF RestoreOlder
  <2>2. owner[t] \in SourceIds /\ checkpoint[t] > 0 /\ checkpoint[t] \in Nat /\ UNCHANGED owner
    BY <1>1, <1>2 DEF RestoreOlder, TargetTypeOK
  <2>3. c \in 0 .. checkpoint[t] - 1
    BY <2>2 DEF PastCheckpoints
  <2>4. IsPrefix(owner[t], c, ImageAt(owner[t], c))
    <3>1. CASE c = 0
      BY <3>1 DEF ImageAt, IsPrefix
    <3>2. CASE c # 0
      <4>1. PICK p \in Primaries : c \in DOMAIN log[p] /\ owner[t] = <<p, log[p][c].source>>
        BY <3>2 DEF PastCheckpoints
      <4> QED
        BY <3>2, <4>1 DEF IsPrefix, ImageAt
    <3> QED
      BY <3>1, <3>2
  <2>5. Mirror!Show(t, c)
    BY <1>1, <2>1, <2>2, <2>4, MirrorShow
  <2>6. claims[t] # NoMarker
    BY <1>1, <2>2, ClaimFacts
  <2> QED
    BY <2>3, <2>5, <2>6 DEF Mirror!Rewind, claims
<1>3. CASE Recreate(t)
  <2>1. claims' = [claims EXCEPT ![t] = NoMarker]
    BY <1>1, <1>3 DEF Recreate, claims, ClaimOf, TargetTypeOK
  <2> QED
    BY <1>1, <1>3, <2>1 DEF Recreate, Mirror!Vacate, claims
<1>4. CASE CopyTo(t, u)
  <2>1. claims[t] # NoMarker /\ claims[u] = NoMarker
    BY <1>1, <1>4, ClaimFacts, SourceIdFacts DEF CopyTo, IsEmpty
  <2>2. claims' = [claims EXCEPT ![u] = claims[t]]
    BY <1>1, <1>4 DEF CopyTo, claims, ClaimOf, TargetTypeOK
  <2> QED
    BY <1>1, <1>4, <2>1, <2>2 DEF CopyTo, Mirror!Duplicate, claims
<1> QED
  BY <1>2, <1>3, <1>4 DEF Operate

\* The log grows in the steps that touch no database, and only there.
LEMMA NextLog ==
  ASSUME TypeOK, [Next]_vars
  PROVE  \/ UNCHANGED log
         \/ /\ UNCHANGED targetVars
            /\ \E p \in Primaries : LogGrows /\ \A q \in Primaries \ {p} : log'[q] = log[q]
<1> DEFINE Recorded == \E p \in Primaries : LogGrows /\ \A q \in Primaries \ {p} : log'[q] = log[q]
<1>1. CaptureTypeOK
  BY DEF TypeOK
<1>2. ASSUME NEW p \in Primaries, NewSource(p) \/ KeepSource(p)
      PROVE  Recorded
  BY <1>1, <1>2, EnableBackupGrows, NewSourceOthers DEF SqliteSame
<1>3. ASSUME NEW p \in Primaries, NEW t \in Targets, Start(p, t) \/ CheckEmptyTarget(p, t)
      PROVE  UNCHANGED log \/ (UNCHANGED targetVars /\ Recorded)
  BY <1>2, <1>3 DEF Start, EnableBackup, CheckEmptyTarget, captureVars
<1>4. ASSUME NEW p \in Primaries, StartDisabled(p) \/ Stop(p) \/ Reinitialize(p)
      PROVE  UNCHANGED log \/ (UNCHANGED targetVars /\ Recorded)
  BY <1>2, <1>4 DEF StartDisabled, Stop, Reinitialize, captureVars
<1>5. ASSUME NEW p \in Primaries, NEW k \in Keys, NEW r \in Row, Write(p, k, r)
      PROVE  UNCHANGED targetVars /\ Recorded
  <2>1. WriteRow(p, k, r)
    BY <1>5 DEF Write
  <2>2. \A q \in Primaries \ {p} : log'[q] = log[q]
    BY <1>1, <2>1 DEF WriteRow, CaptureTypeOK
  <2> QED
    BY <1>1, <1>5, <2>1, <2>2, WriteRowGrows DEF Write
<1> HIDE DEF Recorded
<1>6. ASSUME NEW p, NEW from, NEW e, Fail(p, from, e)
      PROVE  UNCHANGED log
  BY <1>6 DEF Fail, SaveError
<1>7. ASSUME NEW p \in Primaries, Initialization(p)
      PROVE  UNCHANGED log
  BY <1>6, <1>7 DEF Initialization, ListTables, CreateCheckpointTable, InsertCheckpointRow, CheckOwner,
     CreateBackupTable, ValidateSchema, MarkInitialized, captureVars
<1>8. ASSUME NEW p \in Primaries, Batch(p)
      PROVE  UNCHANGED log
  BY <1>6, <1>8 DEF Batch, ReadBatch, ReadCheckpoint, CompareCheckpoint, OpenTransaction, ApplyEvent,
     CommitBatch, Acknowledge, AckEvents, captureVars
<1>9. ASSUME NEW p \in Primaries, WorkerStep(p) \/ CommitUnanswered(p)
      PROVE  UNCHANGED log
  BY <1>7, <1>8, <1>9 DEF WorkerStep, BeginAttempt, CommitUnanswered, SaveError, captureVars
<1>10. ASSUME NEW p \in Primaries, NEW from \in AttemptState, Timeout(p, from)
       PROVE  UNCHANGED log
  BY <1>6, <1>10 DEF Timeout
<1>11. ASSUME NEW t \in Targets, NEW u \in Targets, ResolveAnswer(t) \/ Operate(t, u)
       PROVE  UNCHANGED log
  BY <1>11 DEF ResolveAnswer, Operate, captureVars
<1>12. CASE CalmDown \/ UNCHANGED vars
  BY <1>12 DEF CalmDown, vars, captureVars
<1> QED
  BY <1>3, <1>4, <1>5, <1>9, <1>10, <1>11, <1>12 DEF Next, Recorded

LEMMA MirrorNext == IInv /\ [Next]_vars => [Mirror!Next]_(Mirror!vars)
<1> SUFFICES ASSUME IInv, [Next]_vars PROVE Mirror!Next \/ UNCHANGED Mirror!vars
  OBVIOUS
<1>1. TypeOK
  BY DEF IInv
<1>2. CASE UNCHANGED log /\ MarkerStep
  <2>1. CASE UNCHANGED <<owner, checkpoint, replica>>
    BY <1>2, <2>1, MirrorSame
  <2>2. ASSUME NEW t \in Targets, NEW id \in SourceIds \cup {NoRow}, owner[t] \notin SourceIds,
               owner' = [owner EXCEPT ![t] = id], UNCHANGED replica,
               checkpoint' = checkpoint \/ checkpoint' = [checkpoint EXCEPT ![t] = 0]
        PROVE  Mirror!Next \/ UNCHANGED Mirror!vars
    BY <1>2, <2>2, ClaimRefines DEF Mirror!Next
  <2>3. ASSUME NEW t \in Targets, NEW tx \in Transaction, owner[t] \in SourceIds,
               IsPrefix(owner[t], tx.checkpoint, tx.rows), checkpoint[t] <= tx.checkpoint,
               owner' = owner, checkpoint' = [checkpoint EXCEPT ![t] = tx.checkpoint],
               replica' = [replica EXCEPT ![t] = tx.rows]
        PROVE  Mirror!Next \/ UNCHANGED Mirror!vars
    BY <1>2, <2>3, CommitRefines DEF Mirror!Next
  <2> QED
    BY <1>2, <2>1, <2>2, <2>3 DEF MarkerStep
<1>3. ASSUME NEW t \in Targets, NEW u \in Targets, Operate(t, u)
      PROVE  Mirror!Next
  BY <1>3, OperateRefines DEF Mirror!Next
<1>4. CASE UNCHANGED targetVars /\ \E p \in Primaries : LogGrows /\ \A q \in Primaries \ {p} : log'[q] = log[q]
  BY <1>1, <1>4, MirrorRecord DEF Mirror!Next
<1> QED
  BY <1>1, <1>2, <1>3, <1>4, NextLog, NextMarker

\* Every behaviour of the backup, seen through its databases, is one of the mirror.
THEOREM Refinement == Spec => ImplementsMirror
BY MirrorInit, MirrorNext, InvariantHolds, PTL DEF Spec, Mirror!Spec, ImplementsMirror
=============================================================================
