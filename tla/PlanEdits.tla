-------------------------------- MODULE PlanEdits --------------------------------
(***************************************************************************)
(* What the interface promises to somebody who plans: every request to     *)
(* change income or goals is decided once, however often it is sent.  It   *)
(* takes effect on what its sender was looking at, or not at all.          *)
(*                                                                         *)
(* The plan is the set of the requests whose content is in force; Blank    *)
(* stands for an income nobody has entered yet.  Numbers of rows, their    *)
(* versions and stored answers are matters of the implementation.          *)
(***************************************************************************)
EXTENDS Naturals

CONSTANTS Requests, Labels, Blank, NoWish

VARIABLES want,     \* what a request asks for
          current,  \* the plan
          applied,  \* how often a request has taken effect
          refused   \* requests whose sender has been told no

vars == <<want, current, applied, refused>>

Wishes == [kind : {"create", "change", "remove"}, saw : Requests \cup {Blank}, label : Labels]

Init ==
  /\ want = [r \in Requests |-> NoWish]
  /\ current = {Blank}
  /\ applied = [r \in Requests |-> 0]
  /\ refused = {}

\* Somebody looks at a part of the plan, and decides.
Wish(r) ==
  /\ want[r] = NoWish
  /\ \E w \in Wishes : /\ IF w.kind = "create" THEN w.saw = Blank ELSE w.saw \in current
                       /\ want' = [want EXCEPT ![r] = w]
  /\ UNCHANGED <<current, applied, refused>>

\* What the sender saw is still there.
UpToDate(r) == want[r].kind = "create" \/ want[r].saw \in current

\* Its label belongs to another request.
Taken(r) == \E q \in Requests : q # r /\ applied[q] > 0 /\ want[q].label = want[r].label

Undecided(r) == want[r] # NoWish /\ applied[r] = 0 /\ r \notin refused

Apply(r) ==
  /\ Undecided(r) /\ UpToDate(r) /\ ~Taken(r)
  /\ current' = (IF want[r].kind = "create" THEN current ELSE current \ {want[r].saw})
                  \cup (IF want[r].kind = "remove" THEN {} ELSE {r})
  /\ applied' = [applied EXCEPT ![r] = 1]
  /\ UNCHANGED <<want, refused>>

Refuse(r) ==
  /\ Undecided(r) /\ (Taken(r) \/ ~UpToDate(r))
  /\ refused' = refused \cup {r}
  /\ UNCHANGED <<want, current, applied>>

Next == \E r \in Requests : Wish(r) \/ Apply(r) \/ Refuse(r)

Spec == Init /\ [][Next]_vars
=============================================================================
