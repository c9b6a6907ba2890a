----------------------------- MODULE BackupMirror -----------------------------
(***************************************************************************)
(* BackupWorker implements PrefixMirror: a database whose marker names no  *)
(* source is unclaimed, a checkpoint is a position in the log.             *)
(***************************************************************************)
EXTENDS BackupWorker

ClaimOf(t) == IF owner[t] \in {NoMarker, NoRow} THEN NoMarker ELSE owner[t]

Mirror == INSTANCE PrefixMirror
            WITH Instances <- Primaries, Databases <- Targets, Empty <- EmptyDB,
                 SourceNumbers <- 0..MaxSources,
                 Nobody <- NoMarker, history <- log, claim <- [t \in Targets |-> ClaimOf(t)],
                 position <- checkpoint, content <- replica

\* Seen from outside, a MySQL backup is a mirror that shows one past state of its
\* owner and moves forward only, except when an operator replaces it.
ImplementsMirror == Mirror!Spec
=============================================================================
