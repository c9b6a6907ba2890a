----------------------------- MODULE BackupTarget -----------------------------
(***************************************************************************)
(* The MySQL side of the backup: databases, each with the marker table     *)
(* backup_checkpoint, the replicated tables, and transactions whose COMMIT *)
(* was sent but not answered.  Operators here are single MySQL statements  *)
(* or transactions; BackupWorker decides who issues them and when.         *)
(***************************************************************************)
EXTENDS BackupCapture

CONSTANTS Targets,         \* MySQL databases
          ForeignTargets,  \* the ones that hold tables of another application
          NoMarker,        \* the database has no backup_checkpoint table
          NoRow            \* it has the table, without its row

ASSUME TargetAssumption == /\ ForeignTargets \subseteq Targets
                           /\ NoMarker # NoRow
                           /\ \A p \in Primaries, n \in 0..MaxSources : <<p, n>> \notin {NoMarker, NoRow}

VARIABLES owner,       \* backup_checkpoint.source_id
          checkpoint,  \* backup_checkpoint.sequence
          ready,       \* backup_checkpoint.initialized = 1
          tables,      \* keys whose replicated table exists
          replica,     \* the replicated rows
          unresolved,  \* transactions (at most one) whose COMMIT nobody saw the answer of
          committed    \* history: highest sequence of an instance ever committed anywhere

targetVars == <<owner, checkpoint, ready, tables, replica, unresolved, committed>>

SourceIds == Primaries \X (0..MaxSources)
Transaction == [rows : [Keys -> Row], checkpoint : Nat]

TargetInit ==
  /\ owner = [t \in Targets |-> NoMarker]
  /\ checkpoint = [t \in Targets |-> 0]
  /\ ready = [t \in Targets |-> FALSE]
  /\ tables = [t \in Targets |-> {}]
  /\ replica = [t \in Targets |-> EmptyDB]
  /\ unresolved = [t \in Targets |-> {}]
  /\ committed = [p \in Primaries |-> 0]

HasMarker(t) == owner[t] # NoMarker
IsEmpty_Marker(t) == owner[t] = NoMarker /\ tables[t] = {}
IsEmpty(t) == owner[t] = NoMarker /\ tables[t] = {} /\ t \notin ForeignTargets

\* CREATE TABLE backup_checkpoint; DDL commits by itself.
CreateMarker(t) ==
  /\ owner' = [owner EXCEPT ![t] = NoRow]
  /\ UNCHANGED <<checkpoint, ready, tables, replica, unresolved, committed>>

\* INSERT INTO backup_checkpoint(id,source_id) VALUES(1,?).
InsertMarker(t, id) ==
  /\ owner' = [owner EXCEPT ![t] = id]
  /\ checkpoint' = [checkpoint EXCEPT ![t] = 0]
  /\ ready' = [ready EXCEPT ![t] = FALSE]
  /\ UNCHANGED <<tables, replica, unresolved, committed>>

CreateTable(t, k) ==
  /\ tables' = [tables EXCEPT ![t] = @ \cup {k}]
  /\ UNCHANGED <<owner, checkpoint, ready, replica, unresolved, committed>>

\* UPDATE backup_checkpoint SET initialized=1 WHERE id=1 AND source_id=?.
MarkReady(t, id) ==
  /\ ready' = [ready EXCEPT ![t] = @ \/ owner[t] = id]
  /\ UNCHANGED <<owner, checkpoint, tables, replica, unresolved, committed>>

\* The effect of COMMIT: rows and checkpoint together.
Install(t, tx) ==
  /\ replica' = [replica EXCEPT ![t] = tx.rows]
  /\ checkpoint' = [checkpoint EXCEPT ![t] = tx.checkpoint]
  /\ committed' = [committed EXCEPT ![owner[t][1]] = IF @ < tx.checkpoint THEN tx.checkpoint ELSE @]
  /\ UNCHANGED <<owner, ready, tables>>

\* COMMIT was sent, its answer is lost: the server still holds the row locks.
LoseAnswer(t, tx) ==
  /\ unresolved' = [unresolved EXCEPT ![t] = {tx}]
  /\ UNCHANGED <<owner, checkpoint, ready, tables, replica, committed>>

\* The server finishes such a transaction, either way.
ResolveCommit(t) ==
  \E tx \in unresolved[t] :
    /\ unresolved' = [unresolved EXCEPT ![t] = {}]
    /\ \/ Install(t, tx)
       \/ UNCHANGED <<owner, checkpoint, ready, tables, replica, committed>>

-----------------------------------------------------------------------------
(* What an operator does to a database that nobody writes at the moment *)

\* The checkpoints at which a database of this source can have been copied.
PastCheckpoints(t) ==
  {0} \cup {c \in 1..checkpoint[t] - 1 :
              \E p \in Primaries : /\ c \in DOMAIN log[p]
                                   /\ owner[t] = <<p, log[p][c].source>>}

ImageAt(id, c) == IF c = 0 THEN EmptyDB ELSE log[id[1]][c].image

\* An older copy of the database is put back.
RestoreOlder(t) ==
  /\ owner[t] \in SourceIds
  /\ checkpoint[t] > 0
  /\ \E c \in PastCheckpoints(t) :
       /\ checkpoint' = [checkpoint EXCEPT ![t] = c]
       /\ replica' = [replica EXCEPT ![t] = ImageAt(owner[t], c)]
  /\ UNCHANGED <<owner, ready, tables, unresolved, committed>>

\* The database is dropped and created again, empty.
Recreate(t) ==
  /\ owner' = [owner EXCEPT ![t] = NoMarker]
  /\ checkpoint' = [checkpoint EXCEPT ![t] = 0]
  /\ ready' = [ready EXCEPT ![t] = FALSE]
  /\ tables' = [tables EXCEPT ![t] = {}]
  /\ replica' = [replica EXCEPT ![t] = EmptyDB]
  /\ UNCHANGED <<unresolved, committed>>

\* A copy of database t becomes database u.
CopyTo(t, u) ==
  /\ IsEmpty(u)
  /\ owner[t] \in SourceIds
  /\ owner' = [owner EXCEPT ![u] = owner[t]]
  /\ checkpoint' = [checkpoint EXCEPT ![u] = checkpoint[t]]
  /\ ready' = [ready EXCEPT ![u] = ready[t]]
  /\ tables' = [tables EXCEPT ![u] = tables[t]]
  /\ replica' = [replica EXCEPT ![u] = replica[t]]
  /\ UNCHANGED <<unresolved, committed>>

TargetTypeOK ==
  /\ owner \in [Targets -> SourceIds \cup {NoMarker, NoRow}]
  /\ checkpoint \in [Targets -> Nat]
  /\ ready \in [Targets -> BOOLEAN]
  /\ tables \in [Targets -> SUBSET Keys]
  /\ replica \in [Targets -> [Keys -> Row]]
  /\ unresolved \in [Targets -> SUBSET Transaction]
  /\ committed \in [Primaries -> Nat]
=============================================================================
