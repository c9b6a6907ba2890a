----------------------------- MODULE BackupTypes -----------------------------
(***************************************************************************)
(* TypeOK of BackupWorker is inductive: the first theorem about the backup *)
(* and the ground the proofs of BackupCaptureProofs and BackupSafety stand *)
(* on, with the lemmas about seeding and about the growth of the log.      *)
(***************************************************************************)
EXTENDS BackupWorker, FiniteSetTheorems, SequenceTheorems, TLAPS

LEMMA SeedOrderType ==
  ASSUME NEW S, IsFiniteSet(S), NEW f \in SeedOrders(S)
  PROVE  f \in Seq(S) /\ Len(f) \in Nat /\ DOMAIN f = 1..Len(f)
<1>1. Cardinality(S) \in Nat
  BY FS_CardinalityType
<1>2. f \in [1..Cardinality(S) -> S]
  BY DEF SeedOrders
<1> QED
  BY <1>1, <1>2

LEMMA SeedsType ==
  ASSUME CaptureTypeOK, NEW p \in Primaries, NEW id \in Nat, NEW image \in [Keys -> Row],
         NEW S \in SUBSET Keys, NEW f \in SeedOrders(S)
  PROVE  /\ Seeds(p, id, f, image) \in Seq(Event)
         /\ Len(Seeds(p, id, f, image)) = Len(f)
         /\ Len(f) \in Nat
<1>1. f \in Seq(S) /\ Len(f) \in Nat /\ DOMAIN f = 1..Len(f)
  BY SeedOrderType, FS_Subset, CaptureAssumption
<1>2. \A i \in 1..Len(f) : f[i] \in Keys
  BY <1>1
<1>3. \A i \in 1..Len(f) : Seeds(p, id, f, image)[i] \in Event
  BY <1>1, <1>2 DEF Seeds, Event, CaptureTypeOK, Row
<1>4. Seeds(p, id, f, image) = [i \in 1..Len(f) |-> Seeds(p, id, f, image)[i]]
  BY DEF Seeds
<1> QED
  BY <1>1, <1>3, <1>4

LEMMA ImageType ==
  ASSUME CaptureTypeOK, NEW p \in Primaries
  PROVE  Image(p) \in [Keys -> Row]
<1>1. EmptyDB \in [Keys -> Row]
  BY DEF EmptyDB, Row
<1>2. ASSUME Len(log[p]) > base[p]
      PROVE  log[p][Len(log[p])] \in Event
  <2>1. log[p] \in Seq(Event) /\ base[p] \in Nat
    BY DEF CaptureTypeOK
  <2> QED
    BY <1>2, <2>1
<1> QED
  BY <1>1, <1>2 DEF Image, Event

-----------------------------------------------------------------------------
(* What each SQLite transaction does to the type of the capture variables *)

LEMMA InstallCaptureType ==
  ASSUME CaptureTypeOK, NEW p \in Primaries, NEW id \in Nat, NEW keys \in SUBSET Keys,
         NEW image \in [Keys -> Row], NEW kept \in SUBSET (DOMAIN log[p]),
         InstallCapture(p, id, keys, image, kept)
  PROVE  /\ captured' \in [Primaries -> SUBSET Keys]
         /\ log' \in [Primaries -> Seq(Event)]
         /\ outbox' \in [Primaries -> SUBSET Nat]
         /\ \A q \in Primaries : outbox'[q] \subseteq DOMAIN log'[q]
<1>1. PICK f \in SeedOrders(SeedRows(p, keys)) :
        /\ captured' = [captured EXCEPT ![p] = @ \cup keys]
        /\ log' = [log EXCEPT ![p] = @ \o Seeds(p, id, f, image)]
        /\ outbox' = [outbox EXCEPT ![p] = kept \cup NextSequences(p, Len(f))]
  BY DEF InstallCapture
<1>2. SeedRows(p, keys) \in SUBSET Keys
  BY DEF SeedRows
<1>3. /\ Seeds(p, id, f, image) \in Seq(Event)
      /\ Len(Seeds(p, id, f, image)) = Len(f) /\ Len(f) \in Nat
  BY <1>2, SeedsType
<1> DEFINE seeds == Seeds(p, id, f, image)
<1>4. log[p] \in Seq(Event)
  BY DEF CaptureTypeOK
<1>5. /\ log[p] \o seeds \in Seq(Event)
      /\ DOMAIN (log[p] \o seeds) = 1..(Len(log[p]) + Len(f))
      /\ DOMAIN log[p] = 1..Len(log[p]) /\ Len(log[p]) \in Nat
  <2> HIDE DEF seeds
  <2> QED
    BY <1>3, <1>4 DEF seeds
<1>6. /\ NextSequences(p, Len(f)) \subseteq 1..(Len(log[p]) + Len(f))
      /\ kept \subseteq 1..(Len(log[p]) + Len(f))
  BY <1>3, <1>5 DEF NextSequences
<1> HIDE DEF seeds
<1> QED
  BY <1>1, <1>5, <1>6 DEF CaptureTypeOK, seeds

LEMMA EnableBackupType ==
  ASSUME CaptureTypeOK, NEW p \in Primaries, NewSource(p) \/ KeepSource(p)
  PROVE  CaptureTypeOK'
<1>1. Image(p) \in [Keys -> Row] /\ EmptyDB \in [Keys -> Row]
  BY ImageType DEF EmptyDB, Row
<1>2. CacheKeys \ captured[p] \in SUBSET Keys
  BY CaptureAssumption
<1>3. source[p] \in 0..MaxSources /\ outbox[p] \subseteq DOMAIN log[p] /\ Len(log[p]) \in Nat
  BY DEF CaptureTypeOK
<1>4. CASE NewSource(p)
  <2>1. /\ captured' \in [Primaries -> SUBSET Keys] /\ log' \in [Primaries -> Seq(Event)]
        /\ outbox' \in [Primaries -> SUBSET Nat]
        /\ \A q \in Primaries : outbox'[q] \subseteq DOMAIN log'[q]
    <3>1. InstallCapture(p, source[p] + 1, Keys, EmptyDB, {}) /\ source[p] + 1 \in Nat
      BY <1>3, <1>4 DEF NewSource
    <3>2. Keys \in SUBSET Keys /\ {} \in SUBSET (DOMAIN log[p])
      OBVIOUS
    <3> QED
      BY <1>1, <3>1, <3>2, InstallCaptureType
  <2>2. source' \in [Primaries -> 0..MaxSources]
    <3>1. source' = [source EXCEPT ![p] = source[p] + 1] /\ source[p] < MaxSources
      BY <1>4 DEF NewSource
    <3>2. source[p] + 1 \in 0..MaxSources
      BY <1>3, <3>1, CaptureAssumption
    <3> QED
      BY <3>1, <3>2 DEF CaptureTypeOK
  <2>3. base' \in [Primaries -> Nat] /\ acknowledged' \in [Primaries -> Nat]
    BY <1>3, <1>4 DEF NewSource, CaptureTypeOK, StartProgress
  <2>4. lastSuccess' \in [Primaries -> BOOLEAN]
    BY <1>4 DEF NewSource, CaptureTypeOK
  <2>5. lastError' \in [Primaries -> ErrorKind] /\ rows' \in [Primaries -> [Keys -> Row]]
    BY <1>4 DEF NewSource, CaptureTypeOK, ErrorKind
  <2> QED
    BY <2>1, <2>2, <2>3, <2>4, <2>5 DEF CaptureTypeOK
<1>5. CASE KeepSource(p)
  <2>1. /\ captured' \in [Primaries -> SUBSET Keys] /\ log' \in [Primaries -> Seq(Event)]
        /\ outbox' \in [Primaries -> SUBSET Nat]
        /\ \A q \in Primaries : outbox'[q] \subseteq DOMAIN log'[q]
    <3>1. /\ InstallCapture(p, source[p], CacheKeys \ captured[p], Image(p), outbox[p])
          /\ source[p] \in Nat
      BY <1>3, <1>5, CaptureAssumption DEF KeepSource
    <3>2. outbox[p] \in SUBSET (DOMAIN log[p])
      BY <1>3
    <3> QED
      BY <1>1, <1>2, <3>1, <3>2, InstallCaptureType
  <2> QED
    BY <1>5, <2>1 DEF KeepSource, CaptureTypeOK
<1> QED
  BY <1>4, <1>5

LEMMA WriteRowType ==
  ASSUME CaptureTypeOK, NEW p \in Primaries, NEW k \in Keys, NEW r \in Row, WriteRow(p, k, r)
  PROVE  CaptureTypeOK'
<1>1. rows' \in [Primaries -> [Keys -> Row]]
  BY DEF WriteRow, CaptureTypeOK
<1>2. CASE Captures(p, k)
  <2> DEFINE e == [source |-> source[p], key |-> k, row |-> r, image |-> [Image(p) EXCEPT ![k] = r]]
  <2>1. e \in Event
    <3>1. Image(p) \in [Keys -> Row]
      BY ImageType
    <3>2. source[p] \in Nat
      BY CaptureAssumption DEF CaptureTypeOK
    <3> QED
      BY <3>1, <3>2 DEF Event
  <2>2. log[p] \in Seq(Event)
    BY DEF CaptureTypeOK
  <2>3. log' = [log EXCEPT ![p] = Append(@, e)]
    BY <1>2 DEF WriteRow
  <2> HIDE DEF e
  <2>4. /\ Append(log[p], e) \in Seq(Event)
        /\ DOMAIN Append(log[p], e) = 1..(Len(log[p]) + 1)
        /\ DOMAIN log[p] = 1..Len(log[p]) /\ Len(log[p]) \in Nat
    BY <2>1, <2>2
  <2>5. outbox' = [outbox EXCEPT ![p] = @ \cup NextSequences(p, 1)]
    BY <1>2 DEF WriteRow
  <2>6. NextSequences(p, 1) = {Len(log[p]) + 1}
    BY <2>4 DEF NextSequences
  <2>7. log' \in [Primaries -> Seq(Event)]
    BY <2>3, <2>4 DEF CaptureTypeOK
  <2>8. \A q \in Primaries : outbox'[q] \subseteq DOMAIN log'[q] /\ outbox'[q] \subseteq Nat
    BY <2>3, <2>4, <2>5, <2>6 DEF CaptureTypeOK
  <2>9. outbox' \in [Primaries -> SUBSET Nat]
    BY <2>5, <2>8 DEF CaptureTypeOK
  <2> QED
    BY <1>1, <2>7, <2>8, <2>9 DEF WriteRow, CaptureTypeOK
<1>3. CASE ~Captures(p, k)
  BY <1>1, <1>3 DEF WriteRow, CaptureTypeOK
<1> QED
  BY <1>2, <1>3

\* An event keeps its sequence: the log is only ever appended to.
LogGrows == \A q \in Primaries : /\ DOMAIN log[q] \subseteq DOMAIN log'[q]
                                 /\ \A n \in DOMAIN log[q] : log'[q][n] = log[q][n]

LEMMA InstallCaptureGrows ==
  ASSUME CaptureTypeOK, NEW p \in Primaries, NEW id \in Nat, NEW keys \in SUBSET Keys,
         NEW image \in [Keys -> Row], NEW kept, InstallCapture(p, id, keys, image, kept)
  PROVE  LogGrows
<1>1. PICK f \in SeedOrders(SeedRows(p, keys)) :
        log' = [log EXCEPT ![p] = @ \o Seeds(p, id, f, image)]
  BY DEF InstallCapture
<1>2. SeedRows(p, keys) \in SUBSET Keys
  BY DEF SeedRows
<1>3. Seeds(p, id, f, image) \in Seq(Event)
  BY <1>2, SeedsType
<1> DEFINE seeds == Seeds(p, id, f, image)
<1>4. log[p] \in Seq(Event) /\ log \in [Primaries -> Seq(Event)]
  BY DEF CaptureTypeOK
<1>5. seeds \in Seq(Event)
  BY <1>3
<1>6. log' = [log EXCEPT ![p] = @ \o seeds]
  BY <1>1
<1> HIDE DEF seeds
<1>7. /\ DOMAIN log[p] \subseteq DOMAIN (log[p] \o seeds)
      /\ \A n \in DOMAIN log[p] : (log[p] \o seeds)[n] = log[p][n]
  BY <1>4, <1>5
<1> QED
  BY <1>4, <1>6, <1>7 DEF LogGrows

LEMMA EnableBackupGrows ==
  ASSUME CaptureTypeOK, NEW p \in Primaries, NewSource(p) \/ KeepSource(p)
  PROVE  LogGrows
<1>1. Image(p) \in [Keys -> Row] /\ EmptyDB \in [Keys -> Row]
  BY ImageType DEF EmptyDB, Row
<1>2. source[p] \in Nat /\ source[p] + 1 \in Nat
  BY CaptureAssumption DEF CaptureTypeOK
<1>3. CacheKeys \ captured[p] \in SUBSET Keys /\ Keys \in SUBSET Keys
  BY CaptureAssumption
<1>4. CASE NewSource(p)
  <2>1. InstallCapture(p, source[p] + 1, Keys, EmptyDB, {})
    BY <1>4 DEF NewSource
  <2> QED
    BY <1>1, <1>2, <1>3, <2>1, InstallCaptureGrows
<1>5. CASE KeepSource(p)
  <2>1. InstallCapture(p, source[p], CacheKeys \ captured[p], Image(p), outbox[p])
    BY <1>5 DEF KeepSource
  <2> QED
    BY <1>1, <1>2, <1>3, <2>1, InstallCaptureGrows
<1> QED
  BY <1>4, <1>5

LEMMA WriteRowGrows ==
  ASSUME CaptureTypeOK, NEW p \in Primaries, NEW k \in Keys, NEW r \in Row, WriteRow(p, k, r)
  PROVE  LogGrows
<1>1. CASE Captures(p, k)
  <2>1. PICK e : log' = [log EXCEPT ![p] = Append(@, e)]
    BY <1>1 DEF WriteRow
  <2>2. log[p] \in Seq(Event) /\ log \in [Primaries -> Seq(Event)]
    BY DEF CaptureTypeOK
  <2>3. /\ DOMAIN log[p] \subseteq DOMAIN Append(log[p], e)
        /\ \A n \in DOMAIN log[p] : Append(log[p], e)[n] = log[p][n]
    BY <2>2
  <2> QED
    BY <2>1, <2>2, <2>3 DEF LogGrows
<1>2. CASE ~Captures(p, k)
  BY <1>2 DEF WriteRow, LogGrows
<1> QED
  BY <1>1, <1>2

LEMMA AckEventsType ==
  ASSUME CaptureTypeOK, NEW p \in Primaries, NEW through \in Nat, AckEvents(p, through)
  PROVE  CaptureTypeOK'
BY DEF AckEvents, CaptureTypeOK, Confirmed, ErrorKind

LEMMA SaveErrorType ==
  ASSUME CaptureTypeOK, NEW p \in Primaries, NEW e \in ErrorKind, NEW canFail \in BOOLEAN,
         SaveError(p, e, canFail)
  PROVE  CaptureTypeOK'
BY DEF SaveError, CaptureTypeOK

-----------------------------------------------------------------------------
(* What the control operators do to the type of the worker's variables *)

LEMMA NoLocalType == NoLocal \in Local
BY DEF NoLocal, Local, EmptyDB, Row

LEMMA StepType ==
  ASSUME WorkerTypeOK, NEW p \in Primaries, NEW from, NEW to \in ProcessState \cup AttemptState,
         NEW l \in Local, Step(p, from, to, l)
  PROVE  WorkerTypeOK'
BY DEF Step, GoTo, WorkerTypeOK

LEMMA FinishType ==
  ASSUME WorkerTypeOK, NEW p \in Primaries, NEW ok \in BOOLEAN, Finish(p, ok)
  PROVE  WorkerTypeOK'
<1>1. pc' \in [Primaries -> ProcessState \cup AttemptState]
  BY DEF Finish, WorkerTypeOK, ProcessState
<1>2. initialized' \in [Primaries -> BOOLEAN]
  BY Zenon DEF Finish, WorkerTypeOK
<1>3. local' \in [Primaries -> Local]
  BY NoLocalType DEF Finish, WorkerTypeOK
<1> QED
  BY <1>1, <1>2, <1>3 DEF Finish, WorkerTypeOK

LEMMA GoToType ==
  ASSUME WorkerTypeOK, NEW p \in Primaries, NEW to \in ProcessState \cup AttemptState,
         GoTo(p, to), UNCHANGED local
  PROVE  WorkerTypeOK'
BY DEF GoTo, WorkerTypeOK

LEMMA CaptureStutter ==
  ASSUME CaptureTypeOK, UNCHANGED captureVars
  PROVE  CaptureTypeOK'
BY DEF CaptureTypeOK, captureVars

LEMMA TargetStutter ==
  ASSUME TargetTypeOK, UNCHANGED targetVars
  PROVE  TargetTypeOK'
BY DEF TargetTypeOK, targetVars

LEMMA StepKeepsType ==
  ASSUME TypeOK, NEW p \in Primaries, NEW from, NEW to \in ProcessState \cup AttemptState,
         NEW l \in Local, l.batch \subseteq DOMAIN log[p], Step(p, from, to, l),
         UNCHANGED captureVars
  PROVE  CaptureTypeOK' /\ WorkerTypeOK' /\ BatchesKnown'
<1>1. WorkerTypeOK'
  BY StepType DEF TypeOK
<1>2. CaptureTypeOK'
  BY CaptureStutter DEF TypeOK
<1>3. BatchesKnown'
  BY DEF Step, BatchesKnown, TypeOK, WorkerTypeOK, captureVars
<1> QED
  BY <1>1, <1>2, <1>3

LEMMA QuietStepType ==
  ASSUME TypeOK, NEW p \in Primaries, NEW from, NEW to \in ProcessState \cup AttemptState,
         NEW l \in Local, l.batch \subseteq DOMAIN log[p], Step(p, from, to, l),
         UNCHANGED <<captureVars, targetVars>>
  PROVE  TypeOK'
BY StepKeepsType, TargetStutter DEF TypeOK

LEMMA FinishKeepsBatches ==
  ASSUME TypeOK, NEW p \in Primaries, NEW ok, Finish(p, ok), UNCHANGED log
  PROVE  BatchesKnown'
<1>1. NoLocal.batch = {}
  BY DEF NoLocal
<1> QED
  BY <1>1 DEF Finish, BatchesKnown, TypeOK, WorkerTypeOK

LEMMA FailType ==
  ASSUME TypeOK, NEW p \in Primaries, NEW from, NEW e \in ErrorKind, Fail(p, from, e)
  PROVE  TypeOK'
<1>1. Finish(p, FALSE) /\ SaveError(p, e, ~calm) /\ UNCHANGED targetVars
  BY DEF Fail
<1>2. WorkerTypeOK'
  BY <1>1, FinishType DEF TypeOK
<1>3. CaptureTypeOK'
  <2>1. (~calm) \in BOOLEAN
    OBVIOUS
  <2> QED
    BY <1>1, <2>1, SaveErrorType DEF TypeOK
<1>4. BatchesKnown'
  BY <1>1, FinishKeepsBatches DEF SaveError
<1> QED
  BY <1>1, <1>2, <1>3, <1>4, TargetStutter DEF TypeOK

-----------------------------------------------------------------------------
(* TypeOK is inductive: the process *)

LEMMA GrowthKeepsBatches ==
  ASSUME BatchesKnown, LogGrows, UNCHANGED local
  PROVE  BatchesKnown'
BY DEF BatchesKnown, LogGrows

LEMMA ProcessType ==
  ASSUME TypeOK, NEW p \in Primaries, NEW t \in Targets,
         \/ Start(p, t) \/ StartDisabled(p) \/ Stop(p)
         \/ CheckEmptyTarget(p, t) \/ Reinitialize(p)
  PROVE  TypeOK'
<1> USE DEF ProcessState
<1>1. CASE Start(p, t)
  <2>1. NewSource(p) \/ KeepSource(p)
    BY <1>1 DEF Start, EnableBackup
  <2>2. CaptureTypeOK' /\ LogGrows
    BY <2>1, EnableBackupType, EnableBackupGrows DEF TypeOK
  <2>3. TargetTypeOK' /\ BatchesKnown'
    BY <1>1, <2>2, TargetStutter, GrowthKeepsBatches DEF Start, TypeOK
  <2>4. WorkerTypeOK'
    BY <1>1 DEF Start, TypeOK, WorkerTypeOK
  <2> QED
    BY <2>2, <2>3, <2>4 DEF TypeOK
<1>2. CASE StartDisabled(p)
  BY <1>2, GoToType, CaptureStutter, TargetStutter
  DEF StartDisabled, TypeOK, BatchesKnown, captureVars
<1>3. CASE Stop(p)
  <2>1. WorkerTypeOK'
    BY <1>3, NoLocalType DEF Stop, TypeOK, WorkerTypeOK
  <2>2. NoLocal.batch = {}
    BY DEF NoLocal
  <2>3. BatchesKnown'
    BY <1>3, <2>2 DEF Stop, BatchesKnown, TypeOK, WorkerTypeOK, captureVars
  <2> QED
    BY <1>3, <2>1, <2>3, CaptureStutter, TargetStutter DEF Stop, TypeOK
<1>4. CASE CheckEmptyTarget(p, t)
  BY <1>4, GoToType, CaptureStutter, TargetStutter
  DEF CheckEmptyTarget, TypeOK, BatchesKnown, captureVars
<1>5. CASE Reinitialize(p)
  <2>1. CaptureTypeOK' /\ LogGrows
    BY <1>5, EnableBackupType, EnableBackupGrows DEF TypeOK, Reinitialize
  <2> QED
    BY <1>5, <2>1, GoToType, TargetStutter, GrowthKeepsBatches DEF Reinitialize, TypeOK
<1> QED
  BY <1>1, <1>2, <1>3, <1>4, <1>5

LEMMA WriteType ==
  ASSUME TypeOK, NEW p \in Primaries, NEW k \in Keys, NEW r \in Row, Write(p, k, r)
  PROVE  TypeOK'
<1>1. WriteRow(p, k, r) /\ UNCHANGED <<targetVars, pc, dsn, initialized, local, calm>>
  BY DEF Write
<1>2. CaptureTypeOK' /\ LogGrows
  BY <1>1, WriteRowType, WriteRowGrows DEF TypeOK
<1>3. TargetTypeOK' /\ BatchesKnown'
  BY <1>1, <1>2, TargetStutter, GrowthKeepsBatches DEF TypeOK
<1>4. WorkerTypeOK'
  BY <1>1 DEF TypeOK, WorkerTypeOK
<1> QED
  BY <1>2, <1>3, <1>4 DEF TypeOK

-----------------------------------------------------------------------------
(* TypeOK is inductive: the attempts *)

LEMMA LocalType ==
  ASSUME TypeOK, NEW p \in Primaries
  PROVE  /\ local[p] \in Local /\ NoLocal \in Local
         /\ local[p].batch \subseteq DOMAIN log[p] /\ NoLocal.batch \subseteq DOMAIN log[p]
         /\ dsn[p] \in Targets
<1>1. NoLocal.batch = {}
  BY DEF NoLocal
<1> QED
  BY <1>1, NoLocalType DEF TypeOK, WorkerTypeOK, BatchesKnown

LEMMA InitializationType ==
  ASSUME TypeOK, NEW p \in Primaries, Initialization(p)
  PROVE  TypeOK'
<1> DEFINE States == ProcessState \cup AttemptState
<1>1. {"list", "create", "insert", "claim", "owner", "ddl", "mark", "read"} \subseteq States
  BY DEF AttemptState
<1>2. {"reinitialize", "unowned", "other", "schema", "conflict"} \subseteq ErrorKind
  BY DEF ErrorKind
<1>3. /\ local[p] \in Local /\ local[p].batch \subseteq DOMAIN log[p]
      /\ dsn[p] \in Targets
  BY LocalType
<1>4. TargetTypeOK
  BY DEF TypeOK
<1>5. SourceId(p) \in SourceIds
  BY DEF SourceId, SourceIds, TypeOK, CaptureTypeOK
<1> HIDE DEF States
<1>6. ASSUME NEW from, NEW e \in {"reinitialize", "unowned", "other", "schema", "conflict"},
             Fail(p, from, e)
      PROVE  TypeOK'
  BY <1>2, <1>6, FailType
<1>7. CASE ListTables(p)
  <2>1. [local[p] EXCEPT !.seen = tables[dsn[p]]] \in Local
    BY <1>3, <1>4 DEF Local, TargetTypeOK
  <2>2. [local[p] EXCEPT !.seen = tables[dsn[p]]].batch = local[p].batch
    BY <1>3 DEF Local
  <2> QED
    BY <1>1, <1>3, <1>6, <1>7, <2>1, <2>2, QuietStepType DEF ListTables, States
<1>8. CASE CreateCheckpointTable(p)
  <2>1. CASE CreateMarker(dsn[p]) /\ Step(p, "create", "insert", local[p]) /\ UNCHANGED captureVars
    <3>1. TargetTypeOK'
      BY <1>3, <1>4, <2>1 DEF CreateMarker, TargetTypeOK
    <3> QED
      BY <1>1, <1>3, <2>1, <3>1, StepKeepsType DEF TypeOK, States
  <2> QED
    BY <1>6, <1>8, <2>1 DEF CreateCheckpointTable
<1>9. ASSUME NEW from, NEW to \in {"owner", "ddl"}, InsertCheckpointRow(p, from, to)
      PROVE  TypeOK'
  <2> DEFINE l == [local[p] EXCEPT !.todo = IF to = "ddl" THEN Keys ELSE {},
                                   !.fresh = (to = "ddl")]
  <2>1. l \in Local /\ l.batch = local[p].batch
    BY <1>3 DEF Local
  <2>2. CASE InsertMarker(dsn[p], SourceId(p)) /\ Step(p, from, to, l) /\ UNCHANGED captureVars
    <3>1. TargetTypeOK'
      BY <1>3, <1>4, <1>5, <2>2 DEF InsertMarker, TargetTypeOK
    <3>2. to \in States
      BY <1>1
    <3> QED
      BY <1>3, <2>1, <2>2, <3>1, <3>2, StepKeepsType DEF TypeOK, States
  <2> QED
    BY <1>6, <1>9, <2>2 DEF InsertCheckpointRow
<1>10. CASE CheckOwner(p)
  <2> DEFINE needed == IF ready[dsn[p]] THEN CacheKeys \ local[p].seen ELSE Keys
             l == [local[p] EXCEPT !.todo = needed, !.fresh = ~ready[dsn[p]]]
  <2>1. l \in Local /\ l.batch = local[p].batch
    BY <1>3, <1>4, CaptureAssumption DEF Local, TargetTypeOK
  <2>2. CASE Step(p, "owner", "claim", local[p]) /\ UNCHANGED <<captureVars, targetVars>>
    BY <1>1, <1>3, <2>2, QuietStepType DEF States
  <2>3. CASE Step(p, "owner", "ddl", l) /\ UNCHANGED <<captureVars, targetVars>>
    <3> HIDE DEF l
    <3> QED
      BY <1>1, <1>3, <2>1, <2>3, QuietStepType DEF States
  <2> QED
    BY <1>6, <1>10, <2>2, <2>3 DEF CheckOwner
<1>11. ASSUME NEW k \in Keys, CreateBackupTable(p, k)
       PROVE  TypeOK'
  <2> DEFINE l == [local[p] EXCEPT !.todo = @ \ {k}]
  <2>1. l \in Local /\ l.batch = local[p].batch
    BY <1>3 DEF Local
  <2>2. CreateTable(dsn[p], k) /\ Step(p, "ddl", "ddl", l) /\ UNCHANGED captureVars
    BY <1>11 DEF CreateBackupTable
  <2>3. TargetTypeOK'
    BY <1>3, <1>4, <2>2 DEF CreateTable, TargetTypeOK
  <2> HIDE DEF l
  <2> QED
    BY <1>1, <1>3, <2>1, <2>2, <2>3, StepKeepsType DEF TypeOK, States
<1>12. ASSUME pc' = [pc EXCEPT ![p] = "read"], initialized' = [initialized EXCEPT ![p] = TRUE],
              UNCHANGED <<captureVars, dsn, local, calm>>
       PROVE  CaptureTypeOK' /\ WorkerTypeOK' /\ BatchesKnown'
  <2>1. WorkerTypeOK'
    BY <1>1, <1>12 DEF WorkerTypeOK, TypeOK, States
  <2> QED
    BY <1>12, <2>1, CaptureStutter DEF TypeOK, BatchesKnown, captureVars
<1>13. CASE ValidateSchema(p)
  <2>1. CASE Step(p, "ddl", "mark", local[p]) /\ UNCHANGED <<captureVars, targetVars>>
    BY <1>1, <1>3, <2>1, QuietStepType DEF States
  <2>2. CASE /\ pc' = [pc EXCEPT ![p] = "read"] /\ initialized' = [initialized EXCEPT ![p] = TRUE]
             /\ UNCHANGED <<captureVars, targetVars, dsn, local, calm>>
    BY <1>12, <2>2, TargetStutter DEF TypeOK
  <2> QED
    BY <1>6, <1>13, <2>1, <2>2 DEF ValidateSchema
<1>14. CASE MarkInitialized(p)
  <2>1. CASE /\ MarkReady(dsn[p], SourceId(p)) /\ pc' = [pc EXCEPT ![p] = "read"]
             /\ initialized' = [initialized EXCEPT ![p] = TRUE]
             /\ UNCHANGED <<captureVars, dsn, local, calm>>
    <3>1. TargetTypeOK'
      <4>1. ready' \in [Targets -> BOOLEAN]
        BY Zenon, <1>4, <2>1 DEF MarkReady, TargetTypeOK
      <4> QED
        BY <1>4, <2>1, <4>1 DEF MarkReady, TargetTypeOK
    <3> QED
      BY <1>12, <2>1, <3>1 DEF TypeOK
  <2> QED
    BY <1>6, <1>14, <2>1 DEF MarkInitialized
<1> QED
  BY <1>7, <1>8, <1>9, <1>10, <1>11, <1>13, <1>14 DEF Initialization

LEMMA EventType ==
  ASSUME CaptureTypeOK, NEW p \in Primaries, NEW n \in DOMAIN log[p]
  PROVE  n \in Nat /\ log[p][n] \in Event
<1>1. log[p] \in Seq(Event)
  BY DEF CaptureTypeOK
<1> QED
  BY <1>1

LEMMA InstallType ==
  ASSUME TargetTypeOK, NEW t \in Targets, NEW tx \in Transaction, Install(t, tx),
         unresolved' \in [Targets -> SUBSET Transaction]
  PROVE  TargetTypeOK'
<1>1. tx.checkpoint \in Nat /\ tx.rows \in [Keys -> Row]
  BY DEF Transaction
<1>2. committed' \in [Primaries -> Nat]
  BY <1>1 DEF Install, TargetTypeOK
<1> QED
  BY <1>1, <1>2 DEF Install, TargetTypeOK

LEMMA BatchType ==
  ASSUME TypeOK, NEW p \in Primaries, Batch(p)
  PROVE  TypeOK'
<1> DEFINE States == ProcessState \cup AttemptState
<1>1. {"read", "probe", "compare", "begin", "apply", "ack"} \subseteq States
  BY DEF AttemptState
<1>2. {"other", "schema", "conflict", "regressed"} \subseteq ErrorKind
  BY DEF ErrorKind
<1>3. /\ local[p] \in Local /\ local[p].batch \subseteq DOMAIN log[p]
      /\ NoLocal \in Local /\ NoLocal.batch \subseteq DOMAIN log[p]
      /\ dsn[p] \in Targets
  BY LocalType
<1>4. TargetTypeOK /\ CaptureTypeOK
  BY DEF TypeOK
<1> HIDE DEF States
<1>5. ASSUME NEW from, NEW e \in {"other", "schema", "conflict", "regressed"}, Fail(p, from, e)
      PROVE  TypeOK'
  BY <1>2, <1>5, FailType
<1>6. CASE ReadBatch(p)
  <2>1. CASE Step(p, "read", "probe", NoLocal)
    BY <1>1, <1>3, <1>6, <2>1, QuietStepType DEF ReadBatch, States
  <2>2. ASSUME NEW B \in OldestEvents(p),
               Step(p, "read", "begin", [NoLocal EXCEPT !.minimum = acknowledged[p], !.batch = B])
        PROVE  TypeOK'
    <3> DEFINE l == [NoLocal EXCEPT !.minimum = acknowledged[p], !.batch = B]
    <3>1. B \subseteq outbox[p] /\ outbox[p] \subseteq DOMAIN log[p] /\ outbox[p] \subseteq Nat
      BY <1>4 DEF OldestEvents, CaptureTypeOK
    <3>2. l \in Local /\ l.batch = B
      BY <1>3, <1>4, <3>1 DEF Local, CaptureTypeOK
    <3>3. Step(p, "read", "begin", l) /\ UNCHANGED <<captureVars, targetVars>>
      BY <1>6, <2>2 DEF ReadBatch
    <3> HIDE DEF l
    <3>4. l.batch \subseteq DOMAIN log[p]
      BY <3>1, <3>2
    <3> QED
      BY <1>1, <3>2, <3>3, <3>4, QuietStepType DEF States
  <2> QED
    BY <1>6, <2>1, <2>2 DEF ReadBatch
<1>7. CASE ReadCheckpoint(p)
  <2> DEFINE l == [local[p] EXCEPT !.checkpoint = checkpoint[dsn[p]], !.mine = Me(p)]
  <2>1. l \in Local /\ l.batch = local[p].batch
    BY <1>3, <1>4 DEF Local, TargetTypeOK, Me
  <2>2. CASE Step(p, "probe", "compare", l) /\ UNCHANGED <<captureVars, targetVars>>
    <3> HIDE DEF l
    <3> QED
      BY <1>1, <1>3, <2>1, <2>2, QuietStepType DEF States
  <2> QED
    BY <1>5, <1>7, <2>2 DEF ReadCheckpoint
<1>8. CASE CompareCheckpoint(p)
  <2>1. CASE Finish(p, TRUE) /\ UNCHANGED <<captureVars, targetVars>>
    BY <2>1, FinishType, FinishKeepsBatches, CaptureStutter, TargetStutter DEF TypeOK, captureVars
  <2>2. CASE Finish(p, TRUE) /\ AckEvents(p, local[p].checkpoint) /\ UNCHANGED targetVars
    <3>1. local[p].checkpoint \in Nat
      BY <1>3 DEF Local
    <3> QED
      BY <2>2, <3>1, FinishType, FinishKeepsBatches, AckEventsType, TargetStutter
      DEF TypeOK, AckEvents
  <2> QED
    BY <1>5, <1>8, <2>1, <2>2 DEF CompareCheckpoint
<1>9. CASE OpenTransaction(p)
  <2> DEFINE l == [local[p] EXCEPT !.rows = replica[dsn[p]], !.checkpoint = checkpoint[dsn[p]]]
  <2>1. l \in Local /\ l.batch = local[p].batch
    BY <1>3, <1>4 DEF Local, TargetTypeOK
  <2>2. CASE Step(p, "begin", "apply", l) /\ UNCHANGED <<captureVars, targetVars>>
    <3> HIDE DEF l
    <3> QED
      BY <1>1, <1>3, <2>1, <2>2, QuietStepType DEF States
  <2> QED
    BY <1>5, <1>9, <2>2 DEF OpenTransaction
<1>10. ASSUME NEW n \in local[p].batch, ApplyEvent(p, n)
       PROVE  TypeOK'
  <2>1. n \in Nat /\ log[p][n] \in Event
    BY <1>3, <1>4, EventType
  <2>2. log[p][n].key \in Keys /\ log[p][n].row \in Row
    BY <2>1 DEF Event
  <2> DEFINE l1 == [local[p] EXCEPT !.batch = @ \ {n}]
             l2 == [local[p] EXCEPT !.batch = @ \ {n}, !.checkpoint = n,
                                    !.rows[log[p][n].key] = log[p][n].row]
  <2>3. l1 \in Local /\ l1.batch = local[p].batch \ {n}
    BY <1>3 DEF Local
  <2>4. l2 \in Local /\ l2.batch = local[p].batch \ {n}
    BY <1>3, <2>1, <2>2 DEF Local
  <2>5. CASE Step(p, "apply", "apply", l1) /\ UNCHANGED <<captureVars, targetVars>>
    <3> HIDE DEF l1
    <3> QED
      BY <1>1, <1>3, <2>3, <2>5, QuietStepType DEF States
  <2>6. CASE Step(p, "apply", "apply", l2) /\ UNCHANGED <<captureVars, targetVars>>
    <3> HIDE DEF l2
    <3> QED
      BY <1>1, <1>3, <2>4, <2>6, QuietStepType DEF States
  <2> QED
    BY <1>5, <1>10, <2>5, <2>6 DEF ApplyEvent
<1>11. CASE CommitBatch(p)
  <2> DEFINE l == [NoLocal EXCEPT !.checkpoint = local[p].checkpoint]
  <2>1. l \in Local /\ l.batch = NoLocal.batch
    BY <1>3 DEF Local
  <2>2. Step(p, "apply", "ack", l) /\ Install(dsn[p], TxOf(p)) /\ UNCHANGED <<captureVars, unresolved>>
    BY <1>11 DEF CommitBatch
  <2>3. TxOf(p) \in Transaction
    BY <1>3 DEF TxOf, Transaction, Local
  <2>4. TargetTypeOK'
    BY <1>3, <1>4, <2>2, <2>3, InstallType DEF TargetTypeOK
  <2> HIDE DEF l
  <2> QED
    BY <1>1, <1>3, <2>1, <2>2, <2>4, StepKeepsType DEF TypeOK, States
<1>12. CASE Acknowledge(p)
  <2>1. local[p].checkpoint \in Nat
    BY <1>3 DEF Local
  <2> QED
    BY <1>12, <2>1, FinishType, FinishKeepsBatches, AckEventsType, TargetStutter
    DEF TypeOK, AckEvents, Acknowledge
<1> QED
  BY <1>6, <1>7, <1>8, <1>9, <1>10, <1>11, <1>12 DEF Batch

LEMMA BeginAttemptType ==
  ASSUME TypeOK, NEW p \in Primaries, BeginAttempt(p)
  PROVE  TypeOK'
<1> DEFINE l == [NoLocal EXCEPT !.require = ~initialized[p] /\ RequireExisting(p)]
<1>1. NoLocal \in Local /\ NoLocal.batch \subseteq DOMAIN log[p]
  BY LocalType
<1>2. (~initialized[p] /\ RequireExisting(p)) \in BOOLEAN
  BY DEF RequireExisting
<1>3. l \in Local /\ l.batch = NoLocal.batch
  BY <1>1, <1>2 DEF Local
<1>4. PICK to \in {"read", "list"} : Step(p, "idle", to, l) /\ UNCHANGED <<captureVars, targetVars>>
  BY DEF BeginAttempt
<1> HIDE DEF l
<1>5. to \in ProcessState \cup AttemptState
  BY DEF AttemptState
<1> QED
  BY <1>1, <1>3, <1>4, <1>5, QuietStepType

LEMMA CommitUnansweredType ==
  ASSUME TypeOK, NEW p \in Primaries, CommitUnanswered(p)
  PROVE  TypeOK'
<1>1. local[p] \in Local /\ dsn[p] \in Targets
  BY LocalType
<1>2. TxOf(p) \in Transaction
  BY <1>1 DEF TxOf, Transaction, Local
<1>3. TargetTypeOK'
  BY <1>1, <1>2 DEF CommitUnanswered, LoseAnswer, TypeOK, TargetTypeOK
<1>4. CaptureTypeOK'
  BY SaveErrorType DEF CommitUnanswered, TypeOK, ErrorKind
<1>5. WorkerTypeOK' /\ BatchesKnown'
  BY FinishType, FinishKeepsBatches DEF CommitUnanswered, SaveError, TypeOK
<1> QED
  BY <1>3, <1>4, <1>5 DEF TypeOK

-----------------------------------------------------------------------------
(* TypeOK is inductive: MySQL and its operator *)

LEMMA ResolveAnswerType ==
  ASSUME TypeOK, NEW t \in Targets, ResolveAnswer(t)
  PROVE  TypeOK'
<1>1. PICK tx \in unresolved[t] :
        /\ unresolved' = [unresolved EXCEPT ![t] = {}]
        /\ \/ Install(t, tx)
           \/ UNCHANGED <<owner, checkpoint, ready, tables, replica, committed>>
  BY DEF ResolveAnswer, ResolveCommit
<1>2. tx \in Transaction /\ unresolved' \in [Targets -> SUBSET Transaction]
  BY <1>1 DEF TypeOK, TargetTypeOK
<1>3. TargetTypeOK'
  <2>1. CASE Install(t, tx)
    BY <1>2, <2>1, InstallType DEF TypeOK
  <2>2. CASE UNCHANGED <<owner, checkpoint, ready, tables, replica, committed>>
    BY <1>2, <2>2 DEF TypeOK, TargetTypeOK
  <2> QED
    BY <1>1, <2>1, <2>2
<1>4. CaptureTypeOK' /\ WorkerTypeOK' /\ BatchesKnown'
  BY CaptureStutter DEF ResolveAnswer, TypeOK, WorkerTypeOK, BatchesKnown, captureVars
<1> QED
  BY <1>3, <1>4 DEF TypeOK

LEMMA EmptyType == EmptyDB \in [Keys -> Row]
BY DEF EmptyDB, Row

LEMMA PastCheckpointsType ==
  ASSUME TypeOK, NEW t \in Targets, NEW c \in PastCheckpoints(t)
  PROVE  c \in Nat /\ (owner[t] \in SourceIds => ImageAt(owner[t], c) \in [Keys -> Row])
<1>1. CASE c = 0
  BY <1>1, EmptyType DEF ImageAt
<1>2. CASE c # 0
  <2>1. PICK p \in Primaries : c \in DOMAIN log[p] /\ owner[t] = <<p, log[p][c].source>>
    BY <1>2 DEF PastCheckpoints
  <2>2. c \in Nat /\ log[p][c] \in Event
    BY <2>1, EventType DEF TypeOK
  <2> QED
    BY <1>2, <2>1, <2>2 DEF ImageAt, Event
<1> QED
  BY <1>1, <1>2

LEMMA OperateType ==
  ASSUME TypeOK, NEW t \in Targets, NEW u \in Targets, Operate(t, u)
  PROVE  TypeOK'
<1>1. TargetTypeOK'
  <2>1. TargetTypeOK
    BY DEF TypeOK
  <2>2. CASE RestoreOlder(t)
    <3>1. PICK c \in PastCheckpoints(t) : /\ checkpoint' = [checkpoint EXCEPT ![t] = c]
                                          /\ replica' = [replica EXCEPT ![t] = ImageAt(owner[t], c)]
      BY <2>2 DEF RestoreOlder
    <3>2. c \in Nat /\ ImageAt(owner[t], c) \in [Keys -> Row]
      BY <2>2, PastCheckpointsType DEF RestoreOlder
    <3> QED
      BY <2>1, <2>2, <3>1, <3>2 DEF RestoreOlder, TargetTypeOK
  <2>3. CASE Recreate(t)
    BY <2>1, <2>3, EmptyType DEF Recreate, TargetTypeOK
  <2>4. CASE CopyTo(t, u)
    BY <2>1, <2>4 DEF CopyTo, TargetTypeOK
  <2> QED
    BY <2>2, <2>3, <2>4 DEF Operate
<1>2. CaptureTypeOK' /\ WorkerTypeOK' /\ BatchesKnown'
  BY CaptureStutter DEF Operate, TypeOK, WorkerTypeOK, BatchesKnown, captureVars
<1> QED
  BY <1>1, <1>2 DEF TypeOK

LEMMA InitType == Init => TypeOK
<1> SUFFICES ASSUME Init PROVE TypeOK
  OBVIOUS
<1>1. EmptyDB \in [Keys -> Row] /\ NoLocal \in Local /\ NoLocal.batch = {}
  BY EmptyType, NoLocalType DEF NoLocal
<1>2. CaptureTypeOK
  <2>1. captured \in [Primaries -> SUBSET Keys]
    BY DEF Init, CaptureInit
  <2>2. source \in [Primaries -> 0..MaxSources]
    BY CaptureAssumption DEF Init, CaptureInit
  <2>3. log \in [Primaries -> Seq(Event)]
    BY DEF Init, CaptureInit
  <2> QED
    BY <2>1, <2>2, <2>3 DEF Init, CaptureInit, CaptureTypeOK, ErrorKind
<1>3. TargetTypeOK
  BY <1>1 DEF Init, TargetInit, TargetTypeOK
<1>4. WorkerTypeOK /\ BatchesKnown
  BY <1>1 DEF Init, WorkerInit, WorkerTypeOK, BatchesKnown, ProcessState
<1> QED
  BY <1>2, <1>3, <1>4 DEF TypeOK

LEMMA NextType == TypeOK /\ [Next]_vars => TypeOK'
<1> SUFFICES ASSUME TypeOK, [Next]_vars PROVE TypeOK'
  OBVIOUS
<1>1. ASSUME NEW p \in Primaries, NEW t \in Targets, Start(p, t) \/ CheckEmptyTarget(p, t)
      PROVE  TypeOK'
  BY <1>1, ProcessType
<1>2. ASSUME NEW p \in Primaries, StartDisabled(p) \/ Stop(p) \/ Reinitialize(p)
      PROVE  TypeOK'
  <2>1. dsn[p] \in Targets
    BY LocalType
  <2> QED
    BY <1>2, <2>1, ProcessType
<1>3. ASSUME NEW p \in Primaries, NEW k \in Keys, NEW r \in Row, Write(p, k, r)
      PROVE  TypeOK'
  BY <1>3, WriteType
<1>4. ASSUME NEW p \in Primaries, WorkerStep(p)
      PROVE  TypeOK'
  BY <1>4, BeginAttemptType, InitializationType, BatchType DEF WorkerStep
<1>5. ASSUME NEW p \in Primaries, CommitUnanswered(p)
      PROVE  TypeOK'
  BY <1>5, CommitUnansweredType
<1>6. ASSUME NEW p \in Primaries, NEW from \in AttemptState, Timeout(p, from)
      PROVE  TypeOK'
  BY <1>6, FailType DEF Timeout, ErrorKind
<1>7. ASSUME NEW t \in Targets, ResolveAnswer(t)
      PROVE  TypeOK'
  BY <1>7, ResolveAnswerType
<1>8. ASSUME NEW t \in Targets, NEW u \in Targets, Operate(t, u)
      PROVE  TypeOK'
  BY <1>8, OperateType
<1>9. CASE CalmDown
  BY <1>9, CaptureStutter, TargetStutter
  DEF CalmDown, TypeOK, WorkerTypeOK, BatchesKnown, captureVars
<1>10. CASE UNCHANGED vars
  BY <1>10, CaptureStutter, TargetStutter
  DEF vars, TypeOK, WorkerTypeOK, BatchesKnown, captureVars
<1> QED
  BY <1>1, <1>2, <1>3, <1>4, <1>5, <1>6, <1>7, <1>8, <1>9, <1>10 DEF Next

\* Every value stays in its type, in every instance of the model.
THEOREM TypeCorrect == Spec => []TypeOK
BY InitType, NextType, PTL DEF Spec
=============================================================================
