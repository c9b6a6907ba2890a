----------------------------- MODULE PrefixMirror -----------------------------
(***************************************************************************)
(* What the backup promises, without outbox, worker or transactions: every *)
(* instance has a history of database states, and every claimed database   *)
(* shows one state of its owner's history.  It moves forward on its own;   *)
(* only an operator moves it back, empties it or copies it.                *)
(***************************************************************************)
EXTENDS Naturals, Sequences

CONSTANTS Instances,   \* who writes a history
          Databases,   \* where it is mirrored
          SourceNumbers,  \* what numbers the sources of an instance
          Empty,       \* the state a mirror starts from
          Nobody       \* the owner of an unclaimed database

VARIABLES history,    \* per instance: a sequence of records with a source number and an image
          claim,      \* per database: <<instance, source number>> or Nobody
          position,   \* per database: the entry of the history it shows, 0 before the first
          content     \* per database: what it shows

vars == <<history, claim, position, content>>

Init ==
  /\ history = [i \in Instances |-> <<>>]
  /\ claim = [d \in Databases |-> Nobody]
  /\ position = [d \in Databases |-> 0]
  /\ content = [d \in Databases |-> Empty]

\* The instance's database changed, any number of times.
Record(i) ==
  /\ Len(history[i]) <= Len(history'[i])
  /\ \A n \in 1..Len(history[i]) : history'[i][n] = history[i][n]
  /\ \A j \in Instances \ {i} : history'[j] = history[j]
  /\ UNCHANGED <<claim, position, content>>

Claim(d, id) ==
  /\ claim[d] = Nobody
  /\ claim' = [claim EXCEPT ![d] = id]
  /\ UNCHANGED <<history, position, content>>

Show(d, n) ==
  /\ \/ n = 0 /\ content' = [content EXCEPT ![d] = Empty]
     \/ /\ n \in 1..Len(history[claim[d][1]])
        /\ history[claim[d][1]][n].source = claim[d][2]
        /\ content' = [content EXCEPT ![d] = history[claim[d][1]][n].image]
  /\ position' = [position EXCEPT ![d] = n]
  /\ UNCHANGED <<history, claim>>

Advance(d) ==
  /\ claim[d] # Nobody
  /\ \E n \in position[d] + 1 .. Len(history[claim[d][1]]) : Show(d, n)

\* Operator: an older copy is put back; the database is emptied; it is copied.
Rewind(d) == claim[d] # Nobody /\ \E n \in 0 .. position[d] - 1 : Show(d, n)

Vacate(d) ==
  /\ claim' = [claim EXCEPT ![d] = Nobody]
  /\ position' = [position EXCEPT ![d] = 0]
  /\ content' = [content EXCEPT ![d] = Empty]
  /\ UNCHANGED history

Duplicate(d, e) ==
  /\ claim[d] # Nobody /\ claim[e] = Nobody
  /\ claim' = [claim EXCEPT ![e] = claim[d]]
  /\ position' = [position EXCEPT ![e] = position[d]]
  /\ content' = [content EXCEPT ![e] = content[d]]
  /\ UNCHANGED history

Next ==
  \/ \E i \in Instances : Record(i)
  \/ \E d \in Databases, i \in Instances, s \in SourceNumbers : Claim(d, <<i, s>>)
  \/ \E d \in Databases : Advance(d) \/ Rewind(d) \/ Vacate(d)
  \/ \E d, e \in Databases : Duplicate(d, e)

Spec == Init /\ [][Next]_vars
=============================================================================
