---------------------------------- MODULE Plans ----------------------------------
(***************************************************************************)
(* Income and retirement goals of one user, and the requests that change   *)
(* them, sent again as often as their senders like.                        *)
(*                                                                         *)
(* A request is checked when it arrives (module Access) and decided in one *)
(* transaction of Mutate later: the answer saved under its key is given    *)
(* again, or the change is applied and remembered, or it is refused with   *)
(* 404 or 409.  A preview rolls its transaction back and is no step.       *)
(* Requests with equal content and key are copies of one request.  What    *)
(* remains of a row's content is the request that wrote it.                *)
(***************************************************************************)
EXTENDS Access

CONSTANTS Requests, Keys,
          MaxItems,   \* bound: numbers of goal items
          Work,       \* bound: requests and, counted twice, tokens
          Blank, NoWish, NoRow, Nobody

ASSUME PlansAssumption ==
  /\ IsFiniteSet(Requests) /\ MaxItems \in Nat /\ Work \in Nat
  /\ Blank \notin Requests /\ Nobody \notin Requests \cup {Blank}
  /\ NoWish \notin [op : {"income", "create", "edit", "delete"}, key : Keys, slot : Nat,
                    version : Nat, saw : Requests \cup {Blank}]
  /\ NoWish \notin [kind : {"create", "change", "remove"}, saw : Requests \cup {Blank},
                    label : {"income", "create", "edit", "delete"} \X Keys]
  /\ NoRow \notin [version : Nat, by : Requests \cup {Blank}]

VARIABLES row,       \* row 0 is income_settings, the others are retirement_goal_items
          lastItem,  \* the highest number a goal item has had
          saved,     \* mutation_requests: the request a key of an operation stands for
          audit,     \* entries of operation_logs by request
          asked,     \* requests that have been made up, and what their senders saw
          refused    \* requests that were answered 404 or 409 (history variable)

planVars == <<row, lastItem, saved, audit, asked, refused>>
vars == <<accessVars, planVars>>

Ops == {"income", "create", "edit", "delete"}
Labels == Ops \X Keys
Income == 0
Items == 1..MaxItems
Row == [version : Nat, by : Requests \cup {Blank}]
Wish == {w \in [op : Ops, key : Keys, slot : {Income} \cup Items, version : Nat, saw : Requests \cup {Blank}] :
           w.slot = Income <=> w.op \in {"income", "create"}}

PlansInit ==
  /\ AccessInit
  /\ row = [i \in {Income} \cup Items |-> IF i = Income THEN [version |-> 0, by |-> Blank] ELSE NoRow]
  /\ lastItem = 0
  /\ saved = [l \in Labels |-> Nobody]
  /\ audit = [r \in Requests |-> 0]
  /\ asked = [r \in Requests |-> NoWish]
  /\ refused = {}

-----------------------------------------------------------------------------
(* Requests *)

Label(r) == <<asked[r].op, asked[r].key>>
Busy == Cardinality({r \in Requests : asked[r] # NoWish}) + 2 * Len(issued)

\* Somebody reads the plan and makes up a request; a change names the row it is for and
\* the version that was read.
Ask(r) ==
  /\ asked[r] = NoWish /\ Busy < Work
  /\ \E op \in Ops, key \in Keys :
       \E slot \in (IF op \in {"edit", "delete"} THEN {i \in Items : row[i] # NoRow} ELSE {Income}) :
         asked' = [asked EXCEPT ![r] =
           [op |-> op, key |-> key, slot |-> slot,
            version |-> IF op = "create" THEN 0 ELSE row[slot].version,
            saw |-> IF op = "create" THEN Blank ELSE row[slot].by]]
  /\ UNCHANGED <<accessVars, row, lastItem, saved, audit, refused>>

\* It is sent, for the first time or once more.
Send(c, r) == /\ asked[r] # NoWish /\ Arrive(c, asked[r].op, r)
              /\ UNCHANGED planVars

-----------------------------------------------------------------------------
(* Mutate *)

\* GetGoalItem and checkVersion; a new item needs nothing.
Matches_AnyVersion(r) == asked[r].op = "create" \/ row[asked[r].slot] # NoRow
Matches(r) ==
  asked[r].op = "create" \/ (row[asked[r].slot] # NoRow /\ row[asked[r].slot].version = asked[r].version)

\* The saved answer comes first, so that the request that made it is answered alike.
Decision_VersionFirst(r) ==
  IF ~Matches(r) THEN "refuse"
  ELSE IF saved[Label(r)] = r THEN "replay" ELSE IF saved[Label(r)] = Nobody THEN "apply" ELSE "refuse"
Decision(r) ==
  IF saved[Label(r)] = r THEN "replay"
  ELSE IF saved[Label(r)] = Nobody /\ Matches(r) THEN "apply" ELSE "refuse"

\* Row numbers are not used again (AUTOINCREMENT), and every UPDATE raises the version
\* (trigger of the table); a new row has version 1.
NextItem_Reused == Max({i \in Items : row[i] # NoRow} \cup {0}) + 1
NextItem == lastItem + 1
Raised_Never(version) == IF version = 0 THEN 1 ELSE version
Raised(version) == version + 1

CreateItem(r) ==
  /\ NextItem \in Items  \* bound
  /\ row' = [row EXCEPT ![NextItem] = [version |-> 1, by |-> r]]
  /\ lastItem' = NextItem

\* PatchIncome, or WriteGoalItem on a row that is there.
Overwrite(r) ==
  /\ row' = [row EXCEPT ![asked[r].slot] = [version |-> Raised(@.version), by |-> r]]
  /\ UNCHANGED lastItem

Deleted_Emptied == [version |-> 0, by |-> Nobody]
Deleted == NoRow
DeleteItem(r) ==
  /\ row' = [row EXCEPT ![asked[r].slot] = Deleted]
  /\ UNCHANGED lastItem

Change(r) == CASE asked[r].op = "create" -> CreateItem(r)
               [] asked[r].op \in {"income", "edit"} -> Overwrite(r)
               [] asked[r].op = "delete" -> DeleteItem(r)

\* Change, answer and log entry are one transaction.
Remember(r) == /\ saved' = [saved EXCEPT ![Label(r)] = r]
               /\ audit' = [audit EXCEPT ![r] = @ + 1]

Working(c) == conn[c] # Idle /\ IsPlan(conn[c].op)

Apply(c) ==
  /\ Working(c) /\ Decision(conn[c].job) = "apply"
  /\ Change(conn[c].job) /\ Remember(conn[c].job)
  /\ Hangup(c) /\ UNCHANGED <<session, tokens, issued, listed, asked, refused>>

Replay(c) ==
  /\ Working(c) /\ Decision(conn[c].job) = "replay"
  /\ Hangup(c) /\ UNCHANGED <<session, tokens, issued, listed, planVars>>

Refuse(c) ==
  /\ Working(c) /\ Decision(conn[c].job) = "refuse"
  /\ refused' = refused \cup {conn[c].job}
  /\ Hangup(c) /\ UNCHANGED <<session, tokens, issued, listed, row, lastItem, saved, audit, asked>>

AccessStep == AccessNext /\ (issued' = issued \/ Busy + 2 <= Work) /\ UNCHANGED planVars

PlansNext ==
  \/ AccessStep
  \/ \E r \in Requests : Ask(r) \/ \E c \in Conns : Send(c, r)
  \/ \E c \in Conns : Apply(c) \/ Replay(c) \/ Refuse(c)

PlansSpec == PlansInit /\ [][PlansNext]_vars

-----------------------------------------------------------------------------
(* Properties *)

\* Rows, answers, tokens and requests at work are of their kinds; no row has a number
\* that was never given out.
Job == [op : Ops, job : Requests, by : Sessions \cup Secrets]
         \cup [op : {"issue"}, job : Scopes, by : Sessions \cup Secrets]
         \cup [op : {"revoke"}, job : Shown, by : Sessions \cup Secrets]
AccessTypeOK ==
  /\ session \in [Sessions -> {"unused", "live", "over"}]
  /\ tokens \subseteq TokenRow /\ listed \subseteq Shown
  /\ issued \in Seq(Scopes) /\ Len(issued) <= MaxTokens
  /\ conn \in [Conns -> Job \cup {Idle}]
PlansTypeOK ==
  /\ AccessTypeOK
  /\ row \in [{Income} \cup Items -> Row \cup {NoRow}] /\ row[Income] # NoRow
  /\ lastItem \in {0} \cup Items
  /\ \A i \in Items : i > lastItem => row[i] = NoRow
  /\ saved \in [Labels -> Requests \cup {Nobody}]
  /\ audit \in [Requests -> Nat]
  /\ asked \in [Requests -> Wish \cup {NoWish}]
  /\ refused \subseteq Requests
  /\ \A c \in Conns : Working(c) => asked[conn[c].job] # NoWish /\ asked[conn[c].job].op = conn[c].op

\* Versions, numbers and keys do what PlanEdits promises: a request is decided once,
\* copies included, and applied only on what its sender saw.
WishOf(r) ==
  IF asked[r] = NoWish THEN NoWish
  ELSE [kind |-> IF asked[r].op = "create" THEN "create" ELSE IF asked[r].op = "delete" THEN "remove" ELSE "change",
        saw |-> asked[r].saw, label |-> Label(r)]
Plan == {row[i].by : i \in {i \in {Income} \cup Items : row[i] # NoRow}}
Edits == INSTANCE PlanEdits WITH want <- [r \in Requests |-> WishOf(r)], current <- Plan, applied <- audit
ImplementsEdits == Edits!Spec

\* The plan is changed by whom a session let in or a token to write, a goal removed
\* only under a session.
ChangesAreEntitled ==
  [][row' # row =>
       \E c \in Conns :
         /\ conn[c] # Idle /\ conn'[c] = Idle
         /\ \/ conn[c].by \in Sessions
            \/ issued[conn[c].by] = "write" /\ \A i \in Items : row[i] # NoRow => row'[i] # NoRow]_vars

\* Nothing arrives under a token any more that is revoked or expired, whatever else the
\* request brings, and the token does not come back; nor does a session.
RevocationHolds ==
  [][/\ \A x \in 1..Len(issued) : ~Valid(x) =>
          /\ ~Valid(x)'
          /\ \A c \in Conns : conn'[c] # Idle /\ conn'[c].by = x => conn'[c] = conn[c]
     /\ \A s \in Sessions : session[s] = "over" =>
          \A c \in Conns : conn'[c] # Idle /\ conn'[c].by = s => conn'[c] = conn[c]]_vars

\* Only the token that the list showed under a number is revoked with it.
RevokesWhatWasListed ==
  [][\A t \in tokens : (\A u \in tokens' : u.secret # t.secret) =>
       \E c \in Conns : conn[c] # Idle /\ conn[c].op = "revoke" /\ conn[c].job.secret = t.secret]_vars
=============================================================================
