--------------------------- MODULE BackupInvariant ---------------------------
(***************************************************************************)
(* The inductive invariant behind the safety properties of BackupWorker.   *)
(* It says what the properties leave open: why the queue, the log and an   *)
(* open transaction fit together at every point where a crash, a timeout   *)
(* or another instance may come in.                                        *)
(***************************************************************************)
EXTENDS BackupMirror

\* Sources follow each other in the log: base is where the current one begins.
LogOrder(p) ==
  /\ base[p] <= Len(log[p])
  /\ source[p] = 0 => captured[p] = {}
  /\ \A n \in DOMAIN log[p] : /\ log[p][n].source <= source[p]
                              /\ log[p][n].source = source[p] <=> base[p] < n

\* Every event of the current source takes the captured tables from one image to
\* the next.
Before(p, n) == IF n = base[p] + 1 THEN EmptyDB ELSE log[p][n - 1].image

ImageChain(p) ==
  \A n \in DOMAIN log[p] :
    base[p] < n => log[p][n].image = [Before(p, n) EXCEPT ![log[p][n].key] = log[p][n].row]

\* The events of the current source, and the checkpoints it can have reached.
Current(p) == {n \in DOMAIN log[p] : base[p] < n}
Reached(p, c) == c = 0 \/ c \in Current(p)

\* The outbox is what was captured since the acknowledgement, without a hole.
QueueIsUnacknowledged(p) ==
  /\ outbox[p] = {n \in Current(p) : acknowledged[p] < n}
  /\ Reached(p, acknowledged[p])
  /\ acknowledged[p] <= committed[p]

SqliteInv(p) == /\ LogOrder(p)
                /\ ImageChain(p)
                /\ source[p] > 0 => ShowsTables(p)
                /\ QueueIsUnacknowledged(p)

\* A claimed database shows a captured state, and so would it after any commit
\* whose answer is still open; an unclaimed one shows nothing.
TargetInv(t) ==
  /\ owner[t] \in SourceIds =>
       /\ IsPrefix(owner[t], checkpoint[t], replica[t])
       /\ \A tx \in unresolved[t] : /\ IsPrefix(owner[t], tx.checkpoint, tx.rows)
                                    /\ checkpoint[t] <= tx.checkpoint
  /\ owner[t] \notin SourceIds =>
       checkpoint[t] = 0 /\ replica[t] = EmptyDB /\ unresolved[t] = {}

\* The batch holds every event between c and its last one.
Gapless(p, c) ==
  \A n \in local[p].batch :
    /\ n \in Current(p)
    /\ \A m \in Current(p) : c < m /\ m <= n => m \in local[p].batch

AttemptInv(p) ==
  /\ pc[p] = "begin" => local[p].minimum = acknowledged[p] /\ Gapless(p, acknowledged[p])
  /\ pc[p] = "apply" => /\ Me(p)
                        /\ unresolved[dsn[p]] = {}
                        /\ checkpoint[dsn[p]] <= local[p].checkpoint
                        /\ IsPrefix(SourceId(p), local[p].checkpoint, local[p].rows)
                        /\ Gapless(p, local[p].checkpoint)
  /\ pc[p] = "ack" => /\ Reached(p, local[p].checkpoint)
                      /\ local[p].checkpoint <= committed[p]

\* The inductive invariant: outbox, log, databases and the attempt in progress
\* always fit together, so a batch can neither skip nor repeat an event.
IInv == /\ TypeOK
        /\ \A p \in Primaries : SqliteInv(p) /\ AttemptInv(p)
        /\ \A t \in Targets : TargetInv(t)

\* From the statements that make a database a backup until its marker says so.
Claiming == {"create", "insert", "claim", "owner", "ddl", "mark"}

\* Tables are never dropped while somebody works on a database, so that the schema is
\* complete at the statement that says it is; and nobody works on a foreign one.
SchemaInv ==
  /\ ReadyTargetsAreComplete
  /\ \A p \in Primaries : /\ pc[p] \in Claiming => dsn[p] \notin ForeignTargets
                          /\ pc[p] = "mark" => tables[dsn[p]] = Keys
=============================================================================
