---------------------------- MODULE BackupCapture ----------------------------
(***************************************************************************)
(* The SQLite side of the backup: application rows, the capture triggers   *)
(* that copy every committed change into backup_outbox, and the row of     *)
(* backup_metadata.  It holds no specification of its own: BackupWorker    *)
(* composes it with MySQL and with the worker that empties the outbox.     *)
(*                                                                         *)
(* A key stands for a row of one table and for that table: a key in        *)
(* CacheKeys belongs to one of the market-cache tables, which an older     *)
(* build did not capture.  A business transaction with several writes is   *)
(* several Write steps: its events are only ever read one by one.          *)
(***************************************************************************)
EXTENDS Naturals, Sequences, FiniteSets

CONSTANTS Primaries,    \* application instances, each with its own SQLite file
          Keys,         \* application rows
          CacheKeys,    \* the rows that live in market-cache tables
          Values,       \* what a row can hold
          Absent,       \* the row does not exist
          MaxSeq,       \* bound: events an instance ever captures
          MaxSources    \* bound: source identities an instance ever draws

ASSUME CaptureAssumption == /\ IsFiniteSet(Keys)
                            /\ CacheKeys \subseteq Keys
                            /\ Absent \notin Values
                            /\ MaxSeq \in Nat
                            /\ MaxSources \in Nat \ {0}

VARIABLES rows,          \* the application tables
          captured,      \* keys whose table has its three capture triggers
          source,        \* how many source ids were drawn; the last is current, 0: no metadata
          log,           \* every event ever captured, at its AUTOINCREMENT sequence
          base,          \* the last sequence used when the current source was drawn
          outbox,        \* sequences still stored in backup_outbox
          acknowledged,  \* backup_metadata.acknowledged
          lastSuccess,   \* backup_metadata.last_success is not empty
          lastError      \* backup_metadata.last_error

captureVars == <<rows, captured, source, log, base, outbox, acknowledged, lastSuccess, lastError>>

Row == Values \cup {Absent}
EmptyDB == [k \in Keys |-> Absent]
ErrorKind == {"none", "conflict", "unowned", "reinitialize", "schema", "regressed", "other"}

\* The part of an event that MySQL sees is key and row; image is a history
\* variable: the captured tables right after the change the event describes.
Event == [source : Nat, key : Keys, row : Row, image : [Keys -> Row]]

\* Every source id is 128 random bits: no two instances or resets share one.
SourceId(p) == <<p, source[p]>>

Image(p) == IF Len(log[p]) > base[p] THEN log[p][Len(log[p])].image ELSE EmptyDB

\* A database that an older build captured without the market-cache tables, or
\* one that never saw a backup.
CaptureInit ==
  /\ rows \in [Primaries -> [Keys -> Row]]
  /\ source \in [Primaries -> {0, 1}]
  /\ captured = [p \in Primaries |-> IF source[p] = 0 THEN {} ELSE Keys \ CacheKeys]
  /\ \A p \in Primaries : \A k \in captured[p] : rows[p][k] = Absent
  /\ log = [p \in Primaries |-> <<>>]
  /\ base = [p \in Primaries |-> 0]
  /\ outbox = [p \in Primaries |-> {}]
  /\ acknowledged = [p \in Primaries |-> 0]
  /\ lastSuccess = [p \in Primaries |-> FALSE]
  /\ lastError = [p \in Primaries |-> "none"]

-----------------------------------------------------------------------------
(* Capture *)

\* The events that seed the rows of S: one upsert per row, every row once.  The
\* code orders them by table and key; any order is allowed here.
SeedOrders(S) == {f \in [1..Cardinality(S) -> S] : \A k \in S : \E i \in DOMAIN f : f[i] = k}

Seeds(p, id, f, image) ==
  [i \in 1..Len(f) |-> [source |-> id, key |-> f[i], row |-> rows[p][f[i]],
                        image |-> [k \in Keys |-> IF \E j \in 1..i : f[j] = k THEN rows[p][k]
                                                                             ELSE image[k]]]]

SeedRows(p, keys) == {k \in keys : rows[p][k] # Absent}

\* AUTOINCREMENT never reuses a sequence, not even one that was deleted.
NextSequences_OffByOne(p, n) == Len(log[p]) + 1 .. Len(log[p]) + n + 1
NextSequences(p, n) == Len(log[p]) + 1 .. Len(log[p]) + n

InstallCapture(p, id, keys, image, kept) ==
  \E f \in SeedOrders(SeedRows(p, keys)) :
    /\ Len(log[p]) + Len(f) <= MaxSeq
    /\ captured' = [captured EXCEPT ![p] = @ \cup keys]
    /\ log' = [log EXCEPT ![p] = @ \o Seeds(p, id, f, image)]
    /\ outbox' = [outbox EXCEPT ![p] = kept \cup NextSequences(p, Len(f))]

\* EnableBackup on a database that has a source: only market-cache tables that
\* lack triggers are captured and seeded; identity and checkpoint stay.
KeepSource(p) ==
  /\ source[p] > 0
  /\ InstallCapture(p, source[p], CacheKeys \ captured[p], Image(p), outbox[p])
  /\ UNCHANGED <<rows, source, base, acknowledged, lastSuccess, lastError>>

\* What a new source starts from: progress and queue of the old one are dropped.
StartProgress_Kept(p) == acknowledged[p]
StartProgress(p) == 0

\* EnableBackup without a source, and ReinitializeBackup.
NewSource(p) ==
  /\ source[p] < MaxSources
  /\ source' = [source EXCEPT ![p] = @ + 1]
  /\ base' = [base EXCEPT ![p] = Len(log[p])]
  /\ InstallCapture(p, source[p] + 1, Keys, EmptyDB, {})
  /\ acknowledged' = [acknowledged EXCEPT ![p] = StartProgress(p)]
  /\ lastSuccess' = [lastSuccess EXCEPT ![p] = FALSE]
  /\ lastError' = [lastError EXCEPT ![p] = "none"]
  /\ UNCHANGED rows

EnableBackup(p) == IF source[p] = 0 THEN NewSource(p) ELSE KeepSource(p)

\* The row's table has its triggers.
Captures_NoCache(p, k) == k \in captured[p] \ CacheKeys
Captures(p, k) == k \in captured[p]

\* One INSERT, UPDATE or DELETE of the application, and what its trigger adds to
\* the outbox in the same SQLite transaction.
WriteRow(p, k, r) ==
  /\ r = Absent => rows[p][k] # Absent
  /\ rows' = [rows EXCEPT ![p][k] = r]
  /\ IF Captures(p, k)
     THEN /\ Len(log[p]) < MaxSeq
          /\ log' = [log EXCEPT ![p] = Append(@, [source |-> source[p], key |-> k, row |-> r,
                                                  image |-> [Image(p) EXCEPT ![k] = r]])]
          /\ outbox' = [outbox EXCEPT ![p] = @ \cup NextSequences(p, 1)]
     ELSE UNCHANGED <<log, outbox>>
  /\ UNCHANGED <<captured, source, base, acknowledged, lastSuccess, lastError>>

-----------------------------------------------------------------------------
(* What the worker does to SQLite *)

Confirmed_All(p, through) == outbox[p]
Confirmed(p, through) == {n \in outbox[p] : n <= through}

\* AckBackupEvents, one SQLite transaction.
AckEvents(p, through) ==
  /\ acknowledged' = [acknowledged EXCEPT ![p] = IF @ < through THEN through ELSE @]
  /\ outbox' = [outbox EXCEPT ![p] = @ \ Confirmed(p, through)]
  /\ lastSuccess' = [lastSuccess EXCEPT ![p] = TRUE]
  /\ lastError' = [lastError EXCEPT ![p] = "none"]
  /\ UNCHANGED <<rows, captured, source, base, log>>

\* The UPDATE of last_error at the end of a failed attempt; it has a timeout of its own.
SaveError_Later(p, e, canFail) ==
  /\ lastError' = [lastError EXCEPT ![p] = IF @ = "none" THEN @ ELSE e]
  /\ UNCHANGED <<rows, captured, source, base, log, outbox, acknowledged, lastSuccess>>
SaveError(p, e, canFail) ==
  /\ \/ lastError' = [lastError EXCEPT ![p] = e]
     \/ canFail /\ UNCHANGED lastError
  /\ UNCHANGED <<rows, captured, source, base, log, outbox, acknowledged, lastSuccess>>

CaptureTypeOK ==
  /\ rows \in [Primaries -> [Keys -> Row]]
  /\ captured \in [Primaries -> SUBSET Keys]
  /\ source \in [Primaries -> 0..MaxSources]
  /\ log \in [Primaries -> Seq(Event)]
  /\ base \in [Primaries -> Nat]
  /\ outbox \in [Primaries -> SUBSET Nat]
  /\ \A p \in Primaries : outbox[p] \subseteq DOMAIN log[p]
  /\ acknowledged \in [Primaries -> Nat]
  /\ lastSuccess \in [Primaries -> BOOLEAN]
  /\ lastError \in [Primaries -> ErrorKind]
=============================================================================
