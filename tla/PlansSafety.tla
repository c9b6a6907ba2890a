------------------------------ MODULE PlansSafety ------------------------------
(***************************************************************************)
(* What holds of plans and of those who change them, whatever is sent how  *)
(* often: rows and requests keep their kinds, only who is entitled to it   *)
(* is let in, and numbers, versions and keys implement what PlanEdits      *)
(* promises.                                                               *)
(***************************************************************************)
EXTENDS Plans, TLAPS

-----------------------------------------------------------------------------
(* Types *)

\* A request that arrives under a session or a token is one that can be at work.
LEMMA ArriveTypes ==
  ASSUME AccessTypeOK, NEW c \in Conns, NEW op, NEW job, Arrive(c, op, job),
         \/ op \in Ops /\ job \in Requests
         \/ op = "issue" /\ job \in Scopes
         \/ op = "revoke" /\ job \in Shown
  PROVE  /\ AccessTypeOK' /\ conn[c] = Idle
         /\ \E by \in Sessions \cup Secrets : conn' = [conn EXCEPT ![c] = [op |-> op, job |-> job, by |-> by]]
  <1>1. PICK bearer \in {NoBearer} \cup 1..Len(issued), cookie \in Sessions :
          conn' = [conn EXCEPT ![c] = [op |-> op, job |-> job,
                                       by |-> IF bearer # NoBearer THEN bearer ELSE cookie]]
    BY DEF Arrive
  <1>2. (IF bearer # NoBearer THEN bearer ELSE cookie) \in Sessions \cup Secrets
    <2>1. Len(issued) \in Nat /\ Len(issued) <= MaxTokens BY DEF AccessTypeOK
    <2>2. 1..Len(issued) \subseteq Secrets BY <2>1, AccessAssumption DEF Secrets
    <2> QED BY <2>2
  <1>3. PICK by \in Sessions \cup Secrets : conn' = [conn EXCEPT ![c] = [op |-> op, job |-> job, by |-> by]]
    BY <1>1, <1>2
  <1>4. [op |-> op, job |-> job, by |-> by] \in Job BY <1>3 DEF Job
  <1>5. conn' \in [Conns -> Job \cup {Idle}] BY <1>3, <1>4 DEF AccessTypeOK
  <1> QED BY <1>3, <1>5 DEF AccessTypeOK, Arrive

\* Who hangs up is at work no more; the others are as before.
LEMMA HangupTypes ==
  ASSUME conn \in [Conns -> Job \cup {Idle}], NEW c \in Conns, Hangup(c)
  PROVE  /\ conn' \in [Conns -> Job \cup {Idle}]
         /\ \A d \in Conns : conn'[d] = Idle \/ conn'[d] = conn[d]
  BY DEF Hangup

\* What a request at work is for.
LEMMA JobTypes ==
  ASSUME AccessTypeOK, NEW c \in Conns, conn[c] # Idle
  PROVE  /\ IsPlan(conn[c].op) => conn[c].job \in Requests /\ conn[c].op \in Ops
         /\ conn[c].op = "issue" => conn[c].job \in Scopes
         /\ conn[c].op = "revoke" => conn[c].job \in Shown
         /\ conn[c].by \in Sessions \cup Secrets
  <1>1. conn[c] \in Job BY DEF AccessTypeOK
  <1>2. CASE conn[c] \in [op : Ops, job : Requests, by : Sessions \cup Secrets]
    <2>1. conn[c].op \in Ops /\ conn[c].job \in Requests /\ conn[c].by \in Sessions \cup Secrets BY <1>2
    <2> QED BY <2>1 DEF Ops
  <1>3. CASE conn[c] \in [op : {"issue"}, job : Scopes, by : Sessions \cup Secrets]
    <2>1. conn[c].op = "issue" /\ conn[c].job \in Scopes /\ conn[c].by \in Sessions \cup Secrets BY <1>3
    <2> QED BY <2>1 DEF IsPlan
  <1>4. CASE conn[c] \in [op : {"revoke"}, job : Shown, by : Sessions \cup Secrets]
    <2>1. conn[c].op = "revoke" /\ conn[c].job \in Shown /\ conn[c].by \in Sessions \cup Secrets BY <1>4
    <2> QED BY <2>1 DEF IsPlan
  <1> QED BY <1>1, <1>2, <1>3, <1>4 DEF Job

\* Tokens, sessions and connections under the steps that leave the plan alone; what is
\* at work afterwards on the plan was at work before.
LEMMA AccessTypes ==
  ASSUME AccessTypeOK, AccessNext
  PROVE  /\ AccessTypeOK'
         /\ \A d \in Conns : conn'[d] = Idle \/ conn'[d] = conn[d] \/ ~IsPlan(conn'[d].op)
  <1>1. ASSUME NEW s \in Sessions, Login(s) \/ Logout(s) \/ SessionExpires(s)
        PROVE  AccessTypeOK' /\ conn' = conn
    BY <1>1 DEF Login, Logout, SessionExpires, EndSession, AccessTypeOK
  <1>2. ASSUME NEW t \in tokens, TokenExpires(t) PROVE AccessTypeOK' /\ conn' = conn
    <2>1. t \in TokenRow BY DEF AccessTypeOK
    <2>2. [t EXCEPT !.fresh = FALSE] \in TokenRow BY <2>1 DEF TokenRow
    <2> QED BY <1>2, <2>2 DEF TokenExpires, AccessTypeOK
  <1>3. ASSUME ListTokens PROVE AccessTypeOK' /\ conn' = conn
    <2>1. \A t \in tokens : [id |-> t.id, secret |-> t.secret] \in Shown BY DEF AccessTypeOK, TokenRow, Shown
    <2> QED BY <1>3, <2>1 DEF ListTokens, AccessTypeOK
  <1>4. ASSUME NEW c \in Conns, AskToken(c) PROVE AccessTypeOK' /\ \A d \in Conns : conn'[d] = conn[d] \/ ~IsPlan(conn'[d].op)
    <2>1. PICK scope \in Scopes : Arrive(c, "issue", scope) BY <1>4 DEF AskToken
    <2>2. AccessTypeOK' /\ \E by \in Sessions \cup Secrets : conn' = [conn EXCEPT ![c] = [op |-> "issue", job |-> scope, by |-> by]]
      BY <2>1, ArriveTypes
    <2> QED BY <2>2 DEF AccessTypeOK, IsPlan
  <1>5. ASSUME NEW c \in Conns, AskRevocation(c) PROVE AccessTypeOK' /\ \A d \in Conns : conn'[d] = conn[d] \/ ~IsPlan(conn'[d].op)
    <2>1. PICK x \in listed : Arrive(c, "revoke", x) BY <1>5 DEF AskRevocation
    <2>2. x \in Shown BY DEF AccessTypeOK
    <2>3. AccessTypeOK' /\ \E by \in Sessions \cup Secrets : conn' = [conn EXCEPT ![c] = [op |-> "revoke", job |-> x, by |-> by]]
      BY <2>1, <2>2, ArriveTypes
    <2> QED BY <2>3 DEF AccessTypeOK, IsPlan
  <1>6. ASSUME NEW c \in Conns, IssueToken(c) PROVE AccessTypeOK' /\ \A d \in Conns : conn'[d] = Idle \/ conn'[d] = conn[d]
    <2>1. conn[c].job \in Scopes BY <1>6, JobTypes DEF IssueToken
    <2>2. issued \in Seq(Scopes) /\ Len(issued) \in Nat /\ Len(issued) < MaxTokens BY <1>6 DEF IssueToken, AccessTypeOK
    <2>3. Len(issued) + 1 \in 1..MaxTokens BY <2>2, AccessAssumption
    <2>4. [id |-> NextToken, secret |-> Len(issued) + 1, scope |-> conn[c].job, fresh |-> TRUE] \in TokenRow
      BY <2>1, <2>3 DEF TokenRow, Secrets, NextToken
    <2>5. tokens' \subseteq TokenRow BY <1>6, <2>4 DEF IssueToken, AccessTypeOK
    <2>6. issued' \in Seq(Scopes) /\ Len(issued') <= MaxTokens BY <1>6, <2>1, <2>2, AccessAssumption DEF IssueToken
    <2>7. /\ conn' \in [Conns -> Job \cup {Idle}]
          /\ \A d \in Conns : conn'[d] = Idle \/ conn'[d] = conn[d]
      BY <1>6, HangupTypes DEF IssueToken, AccessTypeOK
    <2> QED BY <1>6, <2>5, <2>6, <2>7 DEF IssueToken, AccessTypeOK
  <1>7. ASSUME NEW c \in Conns, RevokeToken(c) \/ LoseRequest(c)
        PROVE  AccessTypeOK' /\ \A d \in Conns : conn'[d] = Idle \/ conn'[d] = conn[d]
    <2>1. /\ conn' \in [Conns -> Job \cup {Idle}]
          /\ \A d \in Conns : conn'[d] = Idle \/ conn'[d] = conn[d]
      BY <1>7, HangupTypes DEF RevokeToken, LoseRequest, AccessTypeOK
    <2> QED BY <1>7, <2>1 DEF RevokeToken, LoseRequest, AccessTypeOK
  <1> QED BY <1>1, <1>2, <1>3, <1>4, <1>5, <1>6, <1>7 DEF AccessNext
-----------------------------------------------------------------------------

\* The request somebody makes up, by what is read of the row it is for.
LEMMA Asking ==
  ASSUME PlansTypeOK, NEW r \in Requests, Ask(r)
  PROVE  \E w \in Wish :
           /\ asked[r] = NoWish /\ asked' = [asked EXCEPT ![r] = w] /\ w # NoWish
           /\ IF w.op = "create" THEN w.saw = Blank
              ELSE row[w.slot] # NoRow /\ w.version = row[w.slot].version /\ w.saw = row[w.slot].by
  <1>1. PICK op \in Ops, key \in Keys :
          \E slot \in (IF op \in {"edit", "delete"} THEN {i \in Items : row[i] # NoRow} ELSE {Income}) :
            asked' = [asked EXCEPT ![r] =
              [op |-> op, key |-> key, slot |-> slot,
               version |-> IF op = "create" THEN 0 ELSE row[slot].version,
               saw |-> IF op = "create" THEN Blank ELSE row[slot].by]]
    BY DEF Ask
  <1>2. PICK slot \in (IF op \in {"edit", "delete"} THEN {i \in Items : row[i] # NoRow} ELSE {Income}) :
          asked' = [asked EXCEPT ![r] =
            [op |-> op, key |-> key, slot |-> slot,
             version |-> IF op = "create" THEN 0 ELSE row[slot].version,
             saw |-> IF op = "create" THEN Blank ELSE row[slot].by]]
    BY <1>1
  <1>3. slot \in {Income} \cup Items /\ row[slot] # NoRow /\ row[slot] \in Row
    BY DEF PlansTypeOK
  <1>4. row[slot].version \in Nat /\ row[slot].by \in Requests \cup {Blank} BY <1>3 DEF Row
  <1>5. slot = Income <=> op \in {"income", "create"} BY DEF Ops, Items, Income
  <1>6. PICK w : w = [op |-> op, key |-> key, slot |-> slot,
                      version |-> IF op = "create" THEN 0 ELSE row[slot].version,
                      saw |-> IF op = "create" THEN Blank ELSE row[slot].by]
    OBVIOUS
  <1>7. w.op = op /\ w.slot = slot /\ w.version = (IF op = "create" THEN 0 ELSE row[slot].version)
        /\ w.saw = (IF op = "create" THEN Blank ELSE row[slot].by)
    BY <1>6
  <1>8. w \in [op : Ops, key : Keys, slot : {Income} \cup Items, version : Nat, saw : Requests \cup {Blank}]
    BY <1>3, <1>4, <1>6
  <1>9. w \in Wish BY <1>5, <1>7, <1>8 DEF Wish
  <1>10. w # NoWish BY <1>8, PlansAssumption DEF Ops, Items, Income
  <1>11. asked[r] = NoWish BY DEF Ask
  <1> QED BY <1>2, <1>3, <1>6, <1>7, <1>9, <1>10, <1>11

LEMMA AskTypes ==
  ASSUME PlansTypeOK, NEW r \in Requests, Ask(r) PROVE PlansTypeOK'
  <1>1. PICK w \in Wish : asked[r] = NoWish /\ asked' = [asked EXCEPT ![r] = w] /\ w # NoWish BY Asking
  <1>2. asked' \in [Requests -> Wish \cup {NoWish}] BY <1>1 DEF PlansTypeOK
  <1>3. UNCHANGED <<accessVars, row, lastItem, saved, audit, refused>> BY DEF Ask
  <1>4. ASSUME NEW c \in Conns, Working(c)
        PROVE  asked'[conn[c].job] # NoWish /\ asked'[conn[c].job].op = conn[c].op
    <2>1. conn[c].job # r /\ asked[conn[c].job] # NoWish /\ asked[conn[c].job].op = conn[c].op
      BY <1>1, <1>4 DEF PlansTypeOK
    <2> QED BY <1>1, <2>1
  <1>5. AccessTypeOK' BY <1>3 DEF PlansTypeOK, AccessTypeOK, accessVars
  <1> QED BY <1>2, <1>3, <1>4, <1>5 DEF PlansTypeOK, Working, accessVars

LEMMA SendTypes ==
  ASSUME PlansTypeOK, NEW c \in Conns, NEW r \in Requests, Send(c, r) PROVE PlansTypeOK'
  <1>1. asked[r] \in Wish /\ asked[r].op \in Ops /\ UNCHANGED planVars BY DEF PlansTypeOK, Send, Wish
  <1>2. /\ AccessTypeOK' /\ conn[c] = Idle
        /\ \E by \in Sessions \cup Secrets : conn' = [conn EXCEPT ![c] = [op |-> asked[r].op, job |-> r, by |-> by]]
    BY <1>1, ArriveTypes DEF Send, PlansTypeOK
  <1>3. PICK by \in Sessions \cup Secrets : conn' = [conn EXCEPT ![c] = [op |-> asked[r].op, job |-> r, by |-> by]]
    BY <1>2
  <1>4. ASSUME NEW d \in Conns, Working(d)'
        PROVE  asked[conn'[d].job] # NoWish /\ asked[conn'[d].job].op = conn'[d].op
    <2>1. CASE d = c BY <1>3, <2>1 DEF PlansTypeOK, AccessTypeOK, Send
    <2>2. CASE d # c
      <3>1. conn'[d] = conn[d] BY <1>3, <2>2 DEF PlansTypeOK, AccessTypeOK
      <3> QED BY <1>4, <3>1 DEF PlansTypeOK, Working
    <2> QED BY <2>1, <2>2
  <1> QED BY <1>1, <1>2, <1>4 DEF PlansTypeOK, planVars

\* Who is at work afterwards was at work before.
LEMMA StillAtWork ==
  ASSUME PlansTypeOK, asked' = asked,
         \A d \in Conns : conn'[d] = Idle \/ conn'[d] = conn[d] \/ ~IsPlan(conn'[d].op)
  PROVE  \A d \in Conns : Working(d)' => asked'[conn'[d].job] # NoWish /\ asked'[conn'[d].job].op = conn'[d].op
  BY DEF PlansTypeOK, Working

\* The job of a working connection.
LEMMA WorkingOn ==
  ASSUME PlansTypeOK, NEW c \in Conns, Working(c)
  PROVE  conn[c].job \in Requests /\ asked[conn[c].job] \in Wish /\ asked[conn[c].job] # NoWish
  <1>1. conn[c].job \in Requests BY JobTypes DEF PlansTypeOK, Working
  <1> QED BY <1>1 DEF PlansTypeOK

\* A change leaves rows, and gives out at most the next number.
LEMMA ChangeTypes ==
  ASSUME PlansTypeOK, NEW r \in Requests, asked[r] \in Wish, Matches(r), Change(r)
  PROVE  /\ row' \in [{Income} \cup Items -> Row \cup {NoRow}] /\ row'[Income] # NoRow
         /\ lastItem' \in {0} \cup Items
         /\ \A i \in Items : i > lastItem' => row'[i] = NoRow
  <1> USE DEF Items, Income
  <1>1. asked[r].op \in Ops /\ asked[r].slot \in {Income} \cup Items
        /\ (asked[r].slot = Income <=> asked[r].op \in {"income", "create"})
    BY DEF Wish
  <1>2. lastItem \in Nat /\ MaxItems \in Nat BY PlansAssumption DEF PlansTypeOK
  <1>3. \A v \in Nat : [version |-> v, by |-> r] \in Row /\ [version |-> v, by |-> r] # NoRow
    BY PlansAssumption DEF Row
  <1>4. CASE asked[r].op = "create"
    <2>1. CreateItem(r) BY <1>4 DEF Change
    <2>2. row' = [row EXCEPT ![lastItem + 1] = [version |-> 1, by |-> r]] /\ lastItem' = lastItem + 1
          /\ lastItem + 1 \in 1..MaxItems
      BY <2>1 DEF CreateItem, NextItem
    <2>3. [version |-> 1, by |-> r] \in Row BY <1>3
    <2>4. row' \in [{0} \cup 1..MaxItems -> Row \cup {NoRow}] BY <2>2, <2>3 DEF PlansTypeOK
    <2>5. row'[0] # NoRow BY <1>2, <2>2 DEF PlansTypeOK
    <2>6. \A i \in 1..MaxItems : i > lastItem + 1 => row'[i] = NoRow BY <1>2, <2>2 DEF PlansTypeOK
    <2> QED BY <2>2, <2>4, <2>5, <2>6
  <1>5. CASE asked[r].op \in {"income", "edit"}
    <2>1. Overwrite(r) BY <1>5 DEF Change
    <2>2. row[asked[r].slot] # NoRow BY <1>5 DEF Matches
    <2>3. row[asked[r].slot] \in Row BY <1>1, <2>2 DEF PlansTypeOK
    <2>4. row[asked[r].slot].version \in Nat BY <2>3 DEF Row
    <2>5. row' = [row EXCEPT ![asked[r].slot] = [version |-> row[asked[r].slot].version + 1, by |-> r]] /\ lastItem' = lastItem
      BY <1>1, <2>1 DEF Overwrite, Raised, PlansTypeOK
    <2>6. /\ [version |-> row[asked[r].slot].version + 1, by |-> r] \in Row
          /\ [version |-> row[asked[r].slot].version + 1, by |-> r] # NoRow
      BY <1>3, <2>4
    <2>7. row' \in [{0} \cup 1..MaxItems -> Row \cup {NoRow}] BY <2>5, <2>6 DEF PlansTypeOK
    <2>8. row'[0] # NoRow BY <1>1, <2>5, <2>6 DEF PlansTypeOK
    <2>9. \A i \in 1..MaxItems : i > lastItem => row'[i] = NoRow BY <1>1, <1>2, <2>2, <2>5 DEF PlansTypeOK
    <2> QED BY <2>5, <2>7, <2>8, <2>9 DEF PlansTypeOK
  <1>6. CASE asked[r].op = "delete"
    <2>1. row' = [row EXCEPT ![asked[r].slot] = NoRow] /\ lastItem' = lastItem BY <1>6 DEF Change, DeleteItem, Deleted
    <2>2. asked[r].slot # 0 BY <1>1, <1>6
    <2> QED BY <2>1, <2>2 DEF PlansTypeOK
  <1> QED BY <1>1, <1>4, <1>5, <1>6 DEF Ops

LEMMA ApplyTypes ==
  ASSUME PlansTypeOK, NEW c \in Conns, Apply(c) PROVE PlansTypeOK'
  <1>1. PICK r : r = conn[c].job OBVIOUS
  <1>2. r \in Requests /\ asked[r] \in Wish BY <1>1, WorkingOn DEF Apply
  <1>3. Matches(r) /\ Change(r) /\ Remember(r) BY <1>1 DEF Apply, Decision
  <1>4. /\ row' \in [{Income} \cup Items -> Row \cup {NoRow}] /\ row'[Income] # NoRow
        /\ lastItem' \in {0} \cup Items
        /\ \A i \in Items : i > lastItem' => row'[i] = NoRow
    BY <1>2, <1>3, ChangeTypes
  <1>5. saved' \in [Labels -> Requests \cup {Nobody}] /\ audit' \in [Requests -> Nat]
    <2>1. saved' = [saved EXCEPT ![Label(r)] = r] /\ audit' = [audit EXCEPT ![r] = audit[r] + 1]
      BY <1>3 DEF Remember
    <2>2. saved' \in [Labels -> Requests \cup {Nobody}] BY <1>2, <2>1 DEF PlansTypeOK
    <2>3. audit' \in [Requests -> Nat] BY <1>2, <2>1 DEF PlansTypeOK
    <2> QED BY <2>2, <2>3
  <1>6. /\ conn' \in [Conns -> Job \cup {Idle}]
        /\ \A d \in Conns : conn'[d] = Idle \/ conn'[d] = conn[d]
    BY HangupTypes DEF Apply, PlansTypeOK, AccessTypeOK
  <1>7. UNCHANGED <<session, tokens, issued, listed, asked, refused>> BY DEF Apply
  <1>8. \A d \in Conns : Working(d)' => asked'[conn'[d].job] # NoWish /\ asked'[conn'[d].job].op = conn'[d].op
    BY <1>6, <1>7, StillAtWork
  <1>9. AccessTypeOK' BY <1>6, <1>7 DEF PlansTypeOK, AccessTypeOK
  <1> QED BY <1>4, <1>5, <1>7, <1>8, <1>9 DEF PlansTypeOK

LEMMA AnswerTypes ==
  ASSUME PlansTypeOK, NEW c \in Conns, Replay(c) \/ Refuse(c) PROVE PlansTypeOK'
  <1>1. conn[c].job \in Requests BY WorkingOn DEF Replay, Refuse
  <1>2. /\ conn' \in [Conns -> Job \cup {Idle}]
        /\ \A d \in Conns : conn'[d] = Idle \/ conn'[d] = conn[d]
    BY HangupTypes DEF Replay, Refuse, PlansTypeOK, AccessTypeOK
  <1>3. UNCHANGED <<session, tokens, issued, listed, row, lastItem, saved, audit, asked>>
    BY DEF Replay, Refuse, planVars
  <1>4. refused' \subseteq Requests BY <1>1 DEF Replay, Refuse, planVars, PlansTypeOK
  <1>5. \A d \in Conns : Working(d)' => asked'[conn'[d].job] # NoWish /\ asked'[conn'[d].job].op = conn'[d].op
    BY <1>2, <1>3, StillAtWork
  <1>6. AccessTypeOK' BY <1>2, <1>3 DEF PlansTypeOK, AccessTypeOK
  <1> QED BY <1>3, <1>4, <1>5, <1>6 DEF PlansTypeOK

LEMMA AccessStepTypes ==
  ASSUME PlansTypeOK, AccessStep PROVE PlansTypeOK'
  <1>1. AccessTypeOK' /\ \A d \in Conns : conn'[d] = Idle \/ conn'[d] = conn[d] \/ ~IsPlan(conn'[d].op)
    BY AccessTypes DEF AccessStep, PlansTypeOK
  <1>2. UNCHANGED planVars BY DEF AccessStep
  <1>3. \A d \in Conns : Working(d)' => asked'[conn'[d].job] # NoWish /\ asked'[conn'[d].job].op = conn'[d].op
    BY <1>1, <1>2, StillAtWork DEF planVars
  <1> QED BY <1>1, <1>2, <1>3 DEF PlansTypeOK, planVars

LEMMA InitTypes == ASSUME PlansInit PROVE PlansTypeOK
  <1>1. [version |-> 0, by |-> Blank] \in Row /\ [version |-> 0, by |-> Blank] # NoRow BY PlansAssumption DEF Row
  <1>2. AccessTypeOK BY AccessAssumption DEF PlansInit, AccessInit, AccessTypeOK
  <1>3. row[Income] # NoRow /\ row \in [{Income} \cup Items -> Row \cup {NoRow}] BY <1>1 DEF PlansInit
  <1>4. \A i \in Items : row[i] = NoRow BY DEF PlansInit, Income, Items
  <1>5. \A c \in Conns : ~Working(c) BY DEF PlansInit, AccessInit, Working
  <1> QED BY <1>2, <1>3, <1>4, <1>5 DEF PlansInit, PlansTypeOK

LEMMA StepTypes == ASSUME PlansTypeOK, [PlansNext]_vars PROVE PlansTypeOK'
  <1>1. CASE UNCHANGED vars BY <1>1 DEF vars, accessVars, planVars, PlansTypeOK, AccessTypeOK, Working
  <1>2. CASE PlansNext BY <1>2, AccessStepTypes, AskTypes, SendTypes, ApplyTypes, AnswerTypes DEF PlansNext
  <1> QED BY <1>1, <1>2

\* Rows, answers, tokens and requests at work keep their kinds, whatever is sent how
\* often and in whatever order.
THEOREM PlansTypes == PlansSpec => []PlansTypeOK
  <1>1. PlansInit => PlansTypeOK BY InitTypes
  <1>2. PlansTypeOK /\ [PlansNext]_vars => PlansTypeOK' BY StepTypes
  <1> QED BY <1>1, <1>2, PTL DEF PlansSpec


-----------------------------------------------------------------------------
(* Who is let in *)

\* A token is its row, its secret and the scope it was issued with.
TokensAreIssued ==
  \A t \in tokens : t.secret <= Len(issued) /\ t.scope = issued[t.secret] /\ t.id = t.secret

\* The page shows a secret beside the number of its row, and no other number.
ListIsTrue == \A x \in listed : x.id = x.secret

\* Who may change the plan: a session, or a token to write, which removes no goal.
Entitled(by, op) ==
  \/ by \in Sessions
  \/ by \in 1..Len(issued) /\ issued[by] = "write" /\ op # "delete"

RequestsAreEntitled ==
  \A c \in Conns : conn[c] # Idle =>
    /\ conn[c].op = "revoke" => conn[c].job.id = conn[c].job.secret
    /\ IsPlan(conn[c].op) => Entitled(conn[c].by, conn[c].op)

AccessInv == AccessTypeOK /\ TokensAreIssued /\ ListIsTrue /\ RequestsAreEntitled

\* Lengths and entries of the sequence of issued scopes.
LEMMA IssuedFacts ==
  ASSUME AccessTypeOK
  PROVE  /\ Len(issued) \in Nat /\ MaxTokens \in Nat /\ Len(issued) <= MaxTokens
         /\ \A t \in tokens : t.secret \in Nat /\ t.secret >= 1 /\ t.id \in Nat
                              /\ t.scope \in Scopes /\ t.fresh \in BOOLEAN
  BY AccessAssumption DEF AccessTypeOK, TokenRow, Secrets

\* Admission under a token needs the token, under a session the session.
LEMMA Admission ==
  ASSUME AccessTypeOK, NEW c \in Conns, NEW op, NEW job, Arrive(c, op, job)
  PROVE  \E by :
           /\ conn' = [conn EXCEPT ![c] = [op |-> op, job |-> job, by |-> by]]
           /\ \/ by \in Sessions /\ session[by] = "live"
              \/ /\ by \in 1..Len(issued) /\ IsPlan(op)
                 /\ \E t \in tokens : t.secret = by /\ t.fresh /\ ScopeAllows(t, op)
  <1>1. PICK bearer \in {NoBearer} \cup 1..Len(issued), cookie \in Sessions :
          /\ Admits(bearer, cookie, op)
          /\ conn' = [conn EXCEPT ![c] = [op |-> op, job |-> job,
                                          by |-> IF bearer # NoBearer THEN bearer ELSE cookie]]
    BY DEF Arrive
  <1>2. CASE bearer = NoBearer
    <2>1. session[cookie] = "live" BY <1>1, <1>2 DEF Admits
    <2>2. conn' = [conn EXCEPT ![c] = [op |-> op, job |-> job, by |-> cookie]] BY <1>1, <1>2
    <2> QED BY <2>1, <2>2
  <1>3. CASE bearer # NoBearer
    <2>1. bearer \in 1..Len(issued) BY <1>3
    <2>2. IsPlan(op) /\ \E t \in tokens : t.secret = bearer /\ t.fresh /\ ScopeAllows(t, op) BY <1>1, <1>3 DEF Admits
    <2>3. conn' = [conn EXCEPT ![c] = [op |-> op, job |-> job, by |-> bearer]] BY <1>1, <1>3
    <2> QED BY <2>1, <2>2, <2>3
  <1> QED BY <1>2, <1>3

\* A step of the connections only, which lets at most one request in, to somebody entitled.
LEMMA ArriveInv ==
  ASSUME AccessInv, AccessTypeOK', NEW c \in Conns, NEW op, NEW job, Arrive(c, op, job),
         op = "revoke" => job.id = job.secret
  PROVE  AccessInv'
  <1>1. PICK by :
          /\ conn' = [conn EXCEPT ![c] = [op |-> op, job |-> job, by |-> by]]
          /\ \/ by \in Sessions /\ session[by] = "live"
             \/ /\ by \in 1..Len(issued) /\ IsPlan(op)
                /\ \E t \in tokens : t.secret = by /\ t.fresh /\ ScopeAllows(t, op)
    BY Admission DEF AccessInv
  <1>2. UNCHANGED <<tokens, issued, listed>> BY DEF Arrive
  <1>3. Entitled(by, op) \/ ~IsPlan(op)
    <2>1. CASE by \in Sessions BY <2>1 DEF Entitled
    <2>2. CASE by \notin Sessions
      <3>1. by \in 1..Len(issued) /\ \E t \in tokens : t.secret = by /\ ScopeAllows(t, op) BY <1>1, <2>2
      <3>2. issued[by] = "write" /\ op # "delete" BY <3>1 DEF ScopeAllows, AccessInv, TokensAreIssued
      <3> QED BY <3>1, <3>2 DEF Entitled
    <2> QED BY <2>1, <2>2
  <1>4. ASSUME NEW d \in Conns, conn'[d] # Idle
        PROVE  /\ conn'[d].op = "revoke" => conn'[d].job.id = conn'[d].job.secret
               /\ IsPlan(conn'[d].op) => Entitled(conn'[d].by, conn'[d].op)
    <2>1. CASE d = c
      <3>1. conn'[d] = [op |-> op, job |-> job, by |-> by] BY <1>1, <2>1 DEF AccessInv, AccessTypeOK
      <3> QED BY <1>3, <3>1
    <2>2. CASE d # c
      <3>1. conn'[d] = conn[d] BY <1>1, <2>2 DEF AccessInv, AccessTypeOK
      <3> QED BY <1>4, <3>1 DEF AccessInv, RequestsAreEntitled
    <2> QED BY <2>1, <2>2
  <1>5. RequestsAreEntitled' BY <1>2, <1>4 DEF RequestsAreEntitled, Entitled
  <1> QED BY <1>2, <1>5 DEF AccessInv, TokensAreIssued, ListIsTrue

\* Requests leave; tokens, secrets and list are as before.
LEMMA LeaveInv ==
  ASSUME AccessInv, AccessTypeOK', UNCHANGED <<tokens, issued, listed>>,
         \A d \in Conns : conn'[d] = Idle \/ conn'[d] = conn[d]
  PROVE  AccessInv'
  BY DEF AccessInv, TokensAreIssued, ListIsTrue, RequestsAreEntitled, Entitled

LEMMA AccessStepInv ==
  ASSUME AccessInv, AccessTypeOK', AccessNext PROVE AccessInv'
  <1> USE DEF AccessInv
  <1>1. ASSUME NEW s \in Sessions, Login(s) \/ Logout(s) \/ SessionExpires(s) PROVE AccessInv'
    BY <1>1, LeaveInv DEF Login, Logout, SessionExpires
  <1>2. ASSUME NEW t \in tokens, TokenExpires(t) PROVE AccessInv'
    <2>1. t \in TokenRow BY DEF AccessTypeOK
    <2>2. \A u \in tokens' : \E v \in tokens : u.id = v.id /\ u.secret = v.secret /\ u.scope = v.scope
      BY <1>2, <2>1 DEF TokenExpires, TokenRow
    <2>3. TokensAreIssued' BY <1>2, <2>2 DEF TokenExpires, TokensAreIssued
    <2> QED BY <1>2, <2>3 DEF TokenExpires, ListIsTrue, RequestsAreEntitled, Entitled
  <1>3. ASSUME ListTokens PROVE AccessInv'
    <2>1. ListIsTrue' BY <1>3 DEF ListTokens, ListIsTrue, TokensAreIssued
    <2> QED BY <1>3, <2>1 DEF ListTokens, TokensAreIssued, RequestsAreEntitled, Entitled
  <1>4. ASSUME NEW c \in Conns, AskToken(c) PROVE AccessInv'
    BY <1>4, ArriveInv DEF AskToken
  <1>5. ASSUME NEW c \in Conns, AskRevocation(c) PROVE AccessInv'
    BY <1>5, ArriveInv DEF AskRevocation, ListIsTrue
  <1>6. ASSUME NEW c \in Conns, IssueToken(c) PROVE AccessInv'
    <2>1. conn[c].job \in Scopes BY <1>6, JobTypes DEF IssueToken
    <2>2. Len(issued) \in Nat /\ issued \in Seq(Scopes) BY IssuedFacts DEF AccessTypeOK
    <2>3. issued' = Append(issued, conn[c].job) BY <1>6 DEF IssueToken
    <2>4. /\ Len(issued') = Len(issued) + 1 /\ issued'[Len(issued) + 1] = conn[c].job
          /\ \A i \in 1..Len(issued) : issued'[i] = issued[i]
      BY <2>1, <2>2, <2>3
    <2>5. ASSUME NEW t \in tokens' PROVE t.secret <= Len(issued') /\ t.scope = issued'[t.secret] /\ t.id = t.secret
      <3>1. CASE t \in tokens
        <4>1. t.secret \in 1..Len(issued) BY <3>1, IssuedFacts DEF TokensAreIssued
        <4> QED BY <2>2, <2>4, <3>1, <4>1 DEF TokensAreIssued
      <3>2. CASE t \notin tokens
        <4>1. t = [id |-> NextToken, secret |-> Len(issued) + 1, scope |-> conn[c].job, fresh |-> TRUE]
          BY <1>6, <3>2 DEF IssueToken
        <4> QED BY <2>2, <2>4, <4>1 DEF NextToken
      <3> QED BY <3>1, <3>2
    <2>6. \A d \in Conns : conn'[d] = Idle \/ conn'[d] = conn[d] BY <1>6, HangupTypes DEF IssueToken, AccessTypeOK
    <2>7. \A by, op : Entitled(by, op) => Entitled(by, op)' BY <2>2, <2>4 DEF Entitled
    <2>8. RequestsAreEntitled' BY <2>6, <2>7 DEF RequestsAreEntitled
    <2> QED BY <1>6, <2>5, <2>8 DEF IssueToken, TokensAreIssued, ListIsTrue
  <1>7. ASSUME NEW c \in Conns, RevokeToken(c) PROVE AccessInv'
    <2>1. \A d \in Conns : conn'[d] = Idle \/ conn'[d] = conn[d] BY <1>7, HangupTypes DEF RevokeToken, AccessTypeOK
    <2>2. RequestsAreEntitled' BY <1>7, <2>1 DEF RevokeToken, RequestsAreEntitled, Entitled
    <2> QED BY <1>7, <2>2 DEF RevokeToken, TokensAreIssued, ListIsTrue
  <1>8. ASSUME NEW c \in Conns, LoseRequest(c) PROVE AccessInv'
    <2>1. \A d \in Conns : conn'[d] = Idle \/ conn'[d] = conn[d] BY <1>8, HangupTypes DEF LoseRequest, AccessTypeOK
    <2> QED BY <1>8, <2>1, LeaveInv DEF LoseRequest
  <1> QED BY <1>1, <1>2, <1>3, <1>4, <1>5, <1>6, <1>7, <1>8 DEF AccessNext

LEMMA AccessInitInv == ASSUME PlansInit PROVE AccessInv
  <1>1. AccessTypeOK BY InitTypes DEF PlansTypeOK
  <1> QED BY <1>1 DEF PlansInit, AccessInit, AccessInv, TokensAreIssued, ListIsTrue, RequestsAreEntitled

\* What the requests for the plan do to the connections.
LEMMA PlanStepInv ==
  ASSUME PlansTypeOK, AccessInv, [PlansNext]_vars PROVE AccessInv'
  <1>1. PlansTypeOK' /\ AccessTypeOK' BY StepTypes DEF PlansTypeOK
  <1>2. CASE AccessStep BY <1>1, <1>2, AccessStepInv DEF AccessStep
  <1>3. CASE UNCHANGED accessVars BY <1>1, <1>3, LeaveInv DEF accessVars
  <1>4. ASSUME NEW c \in Conns, NEW r \in Requests, Send(c, r) PROVE AccessInv'
    <2>1. asked[r].op # "revoke" BY <1>4 DEF Send, PlansTypeOK, Wish, Ops
    <2> QED BY <1>1, <1>4, <2>1, ArriveInv DEF Send
  <1>5. ASSUME NEW c \in Conns, Apply(c) \/ Replay(c) \/ Refuse(c) PROVE AccessInv'
    <2>1. \A d \in Conns : conn'[d] = Idle \/ conn'[d] = conn[d]
      BY <1>5, HangupTypes DEF Apply, Replay, Refuse, PlansTypeOK, AccessTypeOK
    <2> QED BY <1>1, <1>5, <2>1, LeaveInv DEF Apply, Replay, Refuse
  <1> QED BY <1>2, <1>3, <1>4, <1>5 DEF PlansNext, Ask, vars

\* A token that counts no more neither comes back nor lets anybody in, and neither does
\* a session that is over: the check of a request looks at what holds when it arrives.
LEMMA RevokedStaysOut ==
  ASSUME PlansTypeOK, AccessInv, PlansNext, NEW x \in 1..Len(issued), ~Valid(x)
  PROVE  /\ ~Valid(x)'
         /\ \A c \in Conns : conn'[c] # Idle /\ conn'[c].by = x => conn'[c] = conn[c]
  <1> USE DEF PlansTypeOK, AccessInv
  <1>1. Len(issued) \in Nat /\ x \in Nat /\ x \notin Sessions BY IssuedFacts, AccessAssumption
  <1>2. ASSUME tokens' \subseteq tokens PROVE ~Valid(x)' BY <1>2 DEF Valid
  <1>3. ASSUME NEW c \in Conns, NEW op, NEW job, Arrive(c, op, job)
        PROVE  /\ tokens' = tokens
               /\ \A d \in Conns : conn'[d] # Idle /\ conn'[d].by = x => conn'[d] = conn[d]
    <2>1. PICK by :
            /\ conn' = [conn EXCEPT ![c] = [op |-> op, job |-> job, by |-> by]]
            /\ by \in Sessions \/ \E t \in tokens : t.secret = by /\ t.fresh
      <3>1. AccessTypeOK OBVIOUS
      <3> HIDE DEF PlansTypeOK, AccessInv
      <3> QED BY <1>3, <3>1, Admission
    <2>2. ~\E t \in tokens : t.secret = x /\ t.fresh BY DEF Valid
    <2>3. by # x BY <1>1, <2>1, <2>2
    <2> QED BY <1>3, <2>1, <2>3 DEF Arrive, AccessTypeOK
  <1>4. ASSUME \A d \in Conns : conn'[d] = Idle \/ conn'[d] = conn[d]
        PROVE  \A c \in Conns : conn'[c] # Idle /\ conn'[c].by = x => conn'[c] = conn[c]
    BY <1>4
  <1>5. ASSUME NEW c \in Conns, Hangup(c) PROVE \A d \in Conns : conn'[d] = Idle \/ conn'[d] = conn[d]
    BY <1>5, HangupTypes DEF AccessTypeOK
  <1>6. CASE AccessStep
    <2>1. ASSUME NEW s \in Sessions, Login(s) \/ Logout(s) \/ SessionExpires(s) PROVE UNCHANGED <<tokens, conn>>
      BY <2>1 DEF Login, Logout, SessionExpires
    <2>2. ASSUME NEW t \in tokens, TokenExpires(t) PROVE ~Valid(x)' /\ conn' = conn
      <3>1. t \in TokenRow BY DEF AccessTypeOK
      <3> QED BY <2>2, <3>1 DEF TokenExpires, Valid, TokenRow
    <2>3. ASSUME NEW c \in Conns, AskToken(c) \/ AskRevocation(c)
          PROVE  \E op, job : Arrive(c, op, job)
      BY <2>3 DEF AskToken, AskRevocation
    <2>4. ASSUME NEW c \in Conns, IssueToken(c) PROVE ~Valid(x)'
      BY <1>1, <2>4 DEF IssueToken, Valid
    <2>5. ASSUME NEW c \in Conns, RevokeToken(c) \/ LoseRequest(c) PROVE tokens' \subseteq tokens /\ Hangup(c)
      BY <2>5 DEF RevokeToken, LoseRequest
    <2>6. CASE ListTokens BY <1>2, <2>6 DEF ListTokens
    <2>7. ASSUME NEW c \in Conns, IssueToken(c) PROVE Hangup(c) BY <2>7 DEF IssueToken
    <2> QED BY <1>2, <1>3, <1>4, <1>5, <1>6, <2>1, <2>2, <2>3, <2>4, <2>5, <2>6, <2>7 DEF AccessStep, AccessNext
  <1>7. ASSUME NEW r \in Requests, Ask(r) PROVE UNCHANGED <<tokens, conn>> BY <1>7 DEF Ask, accessVars
  <1>8. ASSUME NEW c \in Conns, Apply(c) \/ Replay(c) \/ Refuse(c) PROVE tokens' = tokens /\ Hangup(c)
    BY <1>8 DEF Apply, Replay, Refuse
  <1> QED BY <1>2, <1>3, <1>4, <1>5, <1>6, <1>7, <1>8 DEF PlansNext, Send

LEMMA OverStaysOut ==
  ASSUME PlansTypeOK, PlansNext, NEW s \in Sessions, session[s] = "over", NEW c \in Conns,
         conn'[c] # Idle, conn'[c].by = s
  PROVE  conn'[c] = conn[c]
  <1> USE DEF PlansTypeOK
  <1>1. s \notin Nat BY AccessAssumption
  <1>2. ASSUME NEW d \in Conns, NEW op, NEW job, Arrive(d, op, job) PROVE conn'[c] = conn[c]
    <2>1. PICK by :
            /\ conn' = [conn EXCEPT ![d] = [op |-> op, job |-> job, by |-> by]]
            /\ (by \in Sessions /\ session[by] = "live") \/ by \in 1..Len(issued)
      BY <1>2, Admission
    <2>2. by # s BY <1>1, <2>1
    <2> QED BY <2>1, <2>2 DEF AccessTypeOK
  <1>3. ASSUME NEW d \in Conns, Hangup(d) PROVE conn'[c] = conn[c] BY <1>3, HangupTypes DEF AccessTypeOK
  <1>4. CASE AccessStep
    <2>1. ASSUME NEW z \in Sessions, Login(z) \/ Logout(z) \/ SessionExpires(z) PROVE conn' = conn
      BY <2>1 DEF Login, Logout, SessionExpires
    <2>2. ASSUME NEW d \in Conns, AskToken(d) \/ AskRevocation(d) PROVE \E op, job : Arrive(d, op, job)
      BY <2>2 DEF AskToken, AskRevocation
    <2>3. ASSUME NEW d \in Conns, IssueToken(d) \/ RevokeToken(d) \/ LoseRequest(d) PROVE Hangup(d)
      BY <2>3 DEF IssueToken, RevokeToken, LoseRequest
    <2> QED BY <1>2, <1>3, <1>4, <2>1, <2>2, <2>3 DEF AccessStep, AccessNext, TokenExpires, ListTokens
  <1>5. ASSUME NEW r \in Requests, Ask(r) PROVE conn' = conn BY <1>5 DEF Ask, accessVars
  <1>6. ASSUME NEW d \in Conns, Apply(d) \/ Replay(d) \/ Refuse(d) PROVE Hangup(d)
    BY <1>6 DEF Apply, Replay, Refuse
  <1> QED BY <1>2, <1>3, <1>4, <1>5, <1>6 DEF PlansNext, Send

\* A token disappears with its number, and under its number the list showed its secret.
LEMMA OnlyListedRevoked ==
  ASSUME PlansTypeOK, AccessInv, [PlansNext]_vars, NEW t \in tokens, \A u \in tokens' : u.secret # t.secret
  PROVE  \E c \in Conns : conn[c] # Idle /\ conn[c].op = "revoke" /\ conn[c].job.secret = t.secret
  <1> USE DEF PlansTypeOK, AccessInv
  <1>1. t \notin tokens' OBVIOUS
  <1>2. ASSUME NEW u \in tokens, TokenExpires(u) PROVE FALSE
    <2>1. u \in TokenRow BY DEF AccessTypeOK
    <2>2. u = t BY <1>1, <1>2 DEF TokenExpires
    <2>3. [u EXCEPT !.fresh = FALSE] \in tokens' BY <1>2 DEF TokenExpires
    <2> QED BY <2>1, <2>2, <2>3 DEF TokenRow
  <1>3. ASSUME NEW c \in Conns, RevokeToken(c)
        PROVE  conn[c] # Idle /\ conn[c].op = "revoke" /\ conn[c].job.secret = t.secret
    <2>1. conn[c] # Idle /\ conn[c].op = "revoke" /\ t.id = conn[c].job.id BY <1>1, <1>3 DEF RevokeToken
    <2> QED BY <2>1 DEF TokensAreIssued, RequestsAreEntitled
  <1>4. CASE AccessStep
    <2>1. ASSUME NEW c \in Conns,
                 AskToken(c) \/ IssueToken(c) \/ AskRevocation(c) \/ LoseRequest(c)
          PROVE  tokens \subseteq tokens'
      BY <2>1 DEF AskToken, IssueToken, AskRevocation, LoseRequest, Arrive
    <2>2. ASSUME NEW s \in Sessions, Login(s) \/ Logout(s) \/ SessionExpires(s) PROVE tokens' = tokens
      BY <2>2 DEF Login, Logout, SessionExpires
    <2> QED BY <1>1, <1>2, <1>3, <1>4, <2>1, <2>2 DEF AccessStep, AccessNext, ListTokens
  <1>5. CASE ~AccessStep
    <2>1. tokens' = tokens
      BY <1>5 DEF PlansNext, Ask, Send, Arrive, Apply, Replay, Refuse, vars, accessVars
    <2> QED BY <1>1, <2>1
  <1> QED BY <1>4, <1>5

\* The only step that changes the plan answers a request, and what it does to the rows
\* is what its operation says.
LEMMA OnlyEntitledChange ==
  ASSUME PlansTypeOK, AccessInv, [PlansNext]_vars, row' # row
  PROVE  \E c \in Conns :
           /\ conn[c] # Idle /\ conn'[c] = Idle
           /\ \/ conn[c].by \in Sessions
              \/ issued[conn[c].by] = "write" /\ \A i \in Items : row[i] # NoRow => row'[i] # NoRow
  <1>1. PICK c \in Conns : Apply(c)
    BY DEF PlansNext, AccessStep, Ask, Send, Replay, Refuse, vars, planVars
  <1>2. PICK r : r = conn[c].job OBVIOUS
  <1>3. /\ conn[c] # Idle /\ IsPlan(conn[c].op) /\ Change(r) /\ Matches(r)
        /\ conn' = [conn EXCEPT ![c] = Idle]
    BY <1>1, <1>2 DEF Apply, Working, Decision, Hangup
  <1>4. r \in Requests /\ asked[r] \in Wish /\ asked[r].op = conn[c].op
    BY <1>1, <1>2, WorkingOn DEF Apply, PlansTypeOK
  <1>5. conn'[c] = Idle BY <1>3 DEF PlansTypeOK, AccessTypeOK
  <1>6. Entitled(conn[c].by, conn[c].op) BY <1>3 DEF AccessInv, RequestsAreEntitled
  <1>7. ASSUME asked[r].op # "delete", NEW i \in Items, row[i] # NoRow PROVE row'[i] # NoRow
    <2>1. \A v : [version |-> v, by |-> r] # NoRow \/ v \notin Nat BY <1>4, PlansAssumption
    <2>2. CASE asked[r].op = "create"
      <3>1. row' = [row EXCEPT ![NextItem] = [version |-> 1, by |-> r]] BY <1>3, <2>2 DEF Change, CreateItem
      <3> QED BY <1>7, <2>1, <3>1 DEF PlansTypeOK
    <2>3. CASE asked[r].op # "create"
      <3>1. asked[r].op \in {"income", "edit"} /\ asked[r].slot \in {Income} \cup Items
        BY <1>4, <1>7, <2>3 DEF Wish, Ops
      <3>2. row[asked[r].slot] \in Row BY <1>3, <2>3, <3>1 DEF Matches, PlansTypeOK
      <3>3. row[asked[r].slot].version + 1 \in Nat BY <3>2 DEF Row
      <3>4. row' = [row EXCEPT ![asked[r].slot] = [version |-> row[asked[r].slot].version + 1, by |-> r]]
        BY <1>3, <3>1 DEF Change, Overwrite, Raised, PlansTypeOK
      <3> QED BY <1>7, <2>1, <3>3, <3>4 DEF PlansTypeOK
    <2> QED BY <2>2, <2>3
  <1> QED BY <1>3, <1>4, <1>5, <1>6, <1>7 DEF Entitled

LEMMA AccessInvariant == PlansSpec => [](PlansTypeOK /\ AccessInv)
  <1>1. PlansInit => PlansTypeOK /\ AccessInv BY InitTypes, AccessInitInv
  <1>2. PlansTypeOK /\ AccessInv /\ [PlansNext]_vars => (PlansTypeOK /\ AccessInv)' BY StepTypes, PlanStepInv
  <1> QED BY <1>1, <1>2, PTL DEF PlansSpec

\* Whatever is sent, logged out, revoked or issued in between: a change of the plan is
\* made for a session or for a token with the scope to write, a goal removed for a
\* session.
THEOREM OnlyTheEntitledChange == PlansSpec => ChangesAreEntitled
  <1>1. PlansTypeOK /\ AccessInv /\ [PlansNext]_vars =>
          [row' # row =>
             \E c \in Conns :
               /\ conn[c] # Idle /\ conn'[c] = Idle
               /\ \/ conn[c].by \in Sessions
                  \/ issued[conn[c].by] = "write" /\ \A i \in Items : row[i] # NoRow => row'[i] # NoRow]_vars
    BY OnlyEntitledChange
  <1> QED BY <1>1, AccessInvariant, PTL DEF PlansSpec, ChangesAreEntitled

\* Revoked and expired tokens, and sessions that are over, let nobody in again.
THEOREM RevokedIsOut == PlansSpec => RevocationHolds
  <1>1. PlansTypeOK /\ AccessInv /\ [PlansNext]_vars =>
          [/\ \A x \in 1..Len(issued) : ~Valid(x) =>
                /\ ~Valid(x)'
                /\ \A c \in Conns : conn'[c] # Idle /\ conn'[c].by = x => conn'[c] = conn[c]
           /\ \A s \in Sessions : session[s] = "over" =>
                \A c \in Conns : conn'[c] # Idle /\ conn'[c].by = s => conn'[c] = conn[c]]_vars
    <2> SUFFICES ASSUME PlansTypeOK, AccessInv, PlansNext
                 PROVE  /\ \A x \in 1..Len(issued) : ~Valid(x) =>
                             /\ ~Valid(x)'
                             /\ \A c \in Conns : conn'[c] # Idle /\ conn'[c].by = x => conn'[c] = conn[c]
                        /\ \A s \in Sessions : session[s] = "over" =>
                             \A c \in Conns : conn'[c] # Idle /\ conn'[c].by = s => conn'[c] = conn[c]
      OBVIOUS
    <2>1. \A x \in 1..Len(issued) : ~Valid(x) =>
            /\ ~Valid(x)'
            /\ \A c \in Conns : conn'[c] # Idle /\ conn'[c].by = x => conn'[c] = conn[c]
      BY RevokedStaysOut
    <2>2. \A s \in Sessions : session[s] = "over" =>
            \A c \in Conns : conn'[c] # Idle /\ conn'[c].by = s => conn'[c] = conn[c]
      BY OverStaysOut
    <2> QED BY <2>1, <2>2
  <1> QED BY <1>1, AccessInvariant, PTL DEF PlansSpec, RevocationHolds

\* A token is revoked only by a request for the token its sender clicked on.
THEOREM ListedIsRevoked == PlansSpec => RevokesWhatWasListed
  <1>1. PlansTypeOK /\ AccessInv /\ [PlansNext]_vars =>
          [\A t \in tokens : (\A u \in tokens' : u.secret # t.secret) =>
             \E c \in Conns : conn[c] # Idle /\ conn[c].op = "revoke" /\ conn[c].job.secret = t.secret]_vars
    BY OnlyListedRevoked
  <1> QED BY <1>1, AccessInvariant, PTL DEF PlansSpec, RevokesWhatWasListed

-----------------------------------------------------------------------------
(* Requests and the rows they are for.  The invariant ties a request to    *)
(* what its sender saw: the row it names has the version it names only     *)
(* while that content is in force.                                         *)


Rows == {Income} \cup Items
Changes(r) == asked[r] # NoWish /\ asked[r].op # "create"

\* Numbers in requests have been given out.
SlotsGiven == \A r \in Requests : asked[r] # NoWish => asked[r].slot <= lastItem

\* A request is logged once, and then its key stands for it.
LoggedOnce ==
  /\ \A r \in Requests : audit[r] = IF asked[r] # NoWish /\ saved[Label(r)] = r THEN 1 ELSE 0
  /\ \A l \in Labels : saved[l] # Nobody => asked[saved[l]] # NoWish /\ Label(saved[l]) = l

\* A request has written one row, when it was applied.
WritersOnce ==
  /\ \A i, j \in Rows : row[i] # NoRow /\ row[j] # NoRow /\ row[i].by = row[j].by => i = j
  /\ \A i \in Rows : row[i] # NoRow => row[i].by = Blank \/ audit[row[i].by] = 1

\* What a sender saw was written, and the version names it.
Seen ==
  \A r \in Requests : Changes(r) =>
    /\ asked[r].saw = Blank \/ audit[asked[r].saw] = 1
    /\ \A i \in Rows : row[i] # NoRow =>
         /\ i = asked[r].slot => /\ asked[r].version <= row[i].version
                                 /\ asked[r].version = row[i].version => row[i].by = asked[r].saw
         /\ row[i].by = asked[r].saw => i = asked[r].slot /\ row[i].version = asked[r].version

\* Who was refused would be refused again.
RefusedForGood ==
  \A r \in refused : /\ asked[r] # NoWish /\ saved[Label(r)] # r
                     /\ saved[Label(r)] = Nobody => ~Matches(r)

PlanInv == PlansTypeOK /\ SlotsGiven /\ LoggedOnce /\ WritersOnce /\ Seen /\ RefusedForGood
-----------------------------------------------------------------------------
(* The invariant *)

\* The invariant speaks of the plan only.
LEMMA PlanUnchanged == ASSUME PlanInv, PlansTypeOK', UNCHANGED planVars PROVE PlanInv'
  BY DEF PlanInv, planVars, SlotsGiven, LoggedOnce, WritersOnce, Seen, RefusedForGood, Label, Matches, Changes

LEMMA InitInv == ASSUME PlansInit PROVE PlanInv
  <1>1. PlansTypeOK BY InitTypes
  <1>2. /\ \A r \in Requests : asked[r] = NoWish /\ audit[r] = 0
        /\ \A l \in Labels : saved[l] = Nobody
        /\ \A i \in Items : row[i] = NoRow
        /\ row[Income] = [version |-> 0, by |-> Blank] /\ refused = {}
    BY DEF PlansInit, Income, Items
  <1>3. SlotsGiven /\ LoggedOnce /\ Seen /\ RefusedForGood
    BY <1>2 DEF SlotsGiven, LoggedOnce, Seen, RefusedForGood, Changes
  <1>4. WritersOnce BY <1>2 DEF WritersOnce, Rows
  <1> QED BY <1>1, <1>3, <1>4 DEF PlanInv

LEMMA AskInv ==
  ASSUME PlanInv, NEW r \in Requests, Ask(r) PROVE PlanInv'
  <1>1. PICK w \in Wish :
          /\ asked[r] = NoWish /\ asked' = [asked EXCEPT ![r] = w] /\ w # NoWish
          /\ IF w.op = "create" THEN w.saw = Blank
             ELSE row[w.slot] # NoRow /\ w.version = row[w.slot].version /\ w.saw = row[w.slot].by
    BY Asking DEF PlanInv
  <1>2. UNCHANGED <<row, lastItem, saved, audit, refused>> BY DEF Ask
  <1>3. PlansTypeOK /\ PlansTypeOK' BY AskTypes DEF PlanInv
  <1>4. asked'[r] = w /\ \A q \in Requests : q # r => asked'[q] = asked[q] BY <1>1, <1>3 DEF PlansTypeOK
  <1>5. w.slot \in Rows /\ (w.slot = Income <=> w.op \in {"income", "create"}) BY DEF Wish, Rows
  <1>6. w.slot <= lastItem
    <2>1. lastItem \in Nat BY <1>3, PlansAssumption DEF PlansTypeOK, Items
    <2>2. CASE w.slot = Income BY <2>1, <2>2 DEF Income
    <2>3. CASE w.slot # Income
      <3>1. w.slot \in Items /\ row[w.slot] # NoRow BY <1>1, <1>5, <2>3 DEF Rows
      <3>2. ~(w.slot > lastItem) BY <1>3, <3>1 DEF PlansTypeOK
      <3> QED BY <2>1, <3>1, <3>2, PlansAssumption DEF Items
    <2> QED BY <2>2, <2>3
  <1>7. SlotsGiven' BY <1>2, <1>4, <1>6 DEF PlanInv, SlotsGiven
  <1>8. \A l \in Labels : saved[l] # r
    <2>1. r # Nobody BY PlansAssumption
    <2> QED BY <1>1, <2>1 DEF PlanInv, LoggedOnce
  <1>9. LoggedOnce'
    <2>1. Label(r)' \in Labels BY <1>4 DEF Label, Labels, Wish
    <2>2. audit[r] = 0 BY <1>1 DEF PlanInv, LoggedOnce
    <2>3. \A q \in Requests : q # r => Label(q)' = Label(q) BY <1>4 DEF Label
    <2>4. ASSUME NEW q \in Requests
          PROVE  audit[q] = IF asked'[q] # NoWish /\ saved[Label(q)'] = q THEN 1 ELSE 0
      <3>1. CASE q = r BY <1>8, <2>1, <2>2, <3>1
      <3>2. CASE q # r
        <4>1. asked'[q] = asked[q] /\ Label(q)' = Label(q) BY <1>4, <2>3, <3>2
        <4> QED BY <4>1 DEF PlanInv, LoggedOnce
      <3> QED BY <3>1, <3>2
    <2>5. ASSUME NEW l \in Labels, saved[l] # Nobody
          PROVE  asked'[saved[l]] # NoWish /\ <<asked'[saved[l]].op, asked'[saved[l]].key>> = l
      <3>1. saved[l] \in Requests /\ saved[l] # r BY <1>3, <1>8, <2>5 DEF PlansTypeOK
      <3>2. asked'[saved[l]] = asked[saved[l]] BY <1>4, <3>1
      <3>3. asked[saved[l]] # NoWish /\ <<asked[saved[l]].op, asked[saved[l]].key>> = l
        BY <2>5 DEF PlanInv, LoggedOnce, Label
      <3> QED BY <3>2, <3>3
    <2>6. \A q \in Requests : audit[q] = IF asked'[q] # NoWish /\ saved[<<asked'[q].op, asked'[q].key>>] = q THEN 1 ELSE 0
      BY <2>4 DEF Label
    <2> QED BY <1>2, <2>5, <2>6 DEF LoggedOnce, Label
  <1>10. WritersOnce' BY <1>2 DEF PlanInv, WritersOnce
  <1>11. Seen'
    <2> SUFFICES ASSUME NEW q \in Requests, Changes(q)'
                 PROVE  /\ asked'[q].saw = Blank \/ audit[asked'[q].saw] = 1
                        /\ \A i \in Rows : row[i] # NoRow =>
                             /\ i = asked'[q].slot => /\ asked'[q].version <= row[i].version
                                                      /\ asked'[q].version = row[i].version => row[i].by = asked'[q].saw
                             /\ row[i].by = asked'[q].saw => i = asked'[q].slot /\ row[i].version = asked'[q].version
      BY <1>2 DEF Seen
    <2>1. CASE q # r BY <1>4, <2>1 DEF PlanInv, Seen, Changes
    <2>2. CASE q = r
      <3>1. row[w.slot] # NoRow /\ w.version = row[w.slot].version /\ w.saw = row[w.slot].by /\ asked'[q] = w
        BY <1>1, <1>4, <2>2 DEF Changes
      <3>2. w.saw = Blank \/ audit[w.saw] = 1 BY <1>5, <3>1 DEF PlanInv, WritersOnce
      <3>3. \A i \in Rows : row[i] # NoRow /\ row[i].by = w.saw => i = w.slot
        BY <1>5, <3>1 DEF PlanInv, WritersOnce
      <3>4. w.version \in Nat BY DEF Wish
      <3> QED BY <3>1, <3>2, <3>3, <3>4
    <2> QED BY <2>1, <2>2
  <1>12. RefusedForGood'
    <2>1. \A q \in refused : q \in Requests /\ q # r BY <1>1, <1>3 DEF PlanInv, RefusedForGood, PlansTypeOK
    <2> QED BY <1>2, <1>4, <2>1 DEF PlanInv, RefusedForGood, Label, Matches
  <1> QED BY <1>3, <1>7, <1>9, <1>10, <1>11, <1>12 DEF PlanInv

\* What a change does to the plan: one row, which is new or the one its sender saw.
Effect(r, slot) ==
  /\ asked[r] \in Wish /\ asked[r] # NoWish /\ Label(r) \in Labels
  /\ saved[Label(r)] = Nobody /\ Matches(r) /\ audit[r] = 0
  /\ UNCHANGED <<asked, refused>>
  /\ saved' = [saved EXCEPT ![Label(r)] = r] /\ audit' = [audit EXCEPT ![r] = 1]
  /\ \A i \in Rows : i # slot => row'[i] = row[i]
  /\ IF asked[r].op = "delete" THEN row'[slot] = NoRow ELSE row'[slot] # NoRow /\ row'[slot].by = r
  /\ asked[r].op = "create" => slot = lastItem + 1 /\ row[slot] = NoRow /\ lastItem' = lastItem + 1
  /\ asked[r].op # "create" => /\ slot = asked[r].slot /\ row[slot] # NoRow /\ lastItem' = lastItem
                               /\ row[slot].version = asked[r].version /\ row[slot].by = asked[r].saw
                               /\ asked[r].op # "delete" => row'[slot].version = row[slot].version + 1

LEMMA ApplyEffect ==
  ASSUME PlanInv, NEW c \in Conns, Apply(c)
  PROVE  conn[c].job \in Requests /\ \E slot \in Rows : Effect(conn[c].job, slot)
  <1> USE DEF Items, Income, Rows
  <1>1. PICK r : r = conn[c].job OBVIOUS
  <1>2. PlansTypeOK BY DEF PlanInv
  <1>3. r \in Requests /\ asked[r] \in Wish /\ asked[r] # NoWish BY <1>1, <1>2, WorkingOn DEF Apply
  <1>4. Label(r) \in Labels BY <1>3 DEF Wish, Label, Labels
  <1>5. saved[Label(r)] # r /\ saved[Label(r)] = Nobody /\ Matches(r) /\ Change(r) /\ Remember(r)
    BY <1>1 DEF Apply, Decision
  <1>6. audit[r] = 0 BY <1>3, <1>5 DEF PlanInv, LoggedOnce
  <1>7. saved' = [saved EXCEPT ![Label(r)] = r] /\ audit' = [audit EXCEPT ![r] = 1]
    BY <1>5, <1>6 DEF Remember
  <1>8. UNCHANGED <<asked, refused>> BY DEF Apply
  <1>9. lastItem \in Nat /\ MaxItems \in Nat BY <1>2, PlansAssumption DEF PlansTypeOK
  <1>10. asked[r].op \in Ops /\ asked[r].slot \in Rows BY <1>3 DEF Wish
  <1>11. CASE asked[r].op = "create"
    <2>1. row' = [row EXCEPT ![lastItem + 1] = [version |-> 1, by |-> r]] /\ lastItem' = lastItem + 1
          /\ lastItem + 1 \in 1..MaxItems
      BY <1>5, <1>11 DEF Change, CreateItem, NextItem
    <2>2. [version |-> 1, by |-> r] # NoRow BY <1>3, PlansAssumption
    <2>3. row[lastItem + 1] = NoRow BY <1>2, <1>9, <2>1 DEF PlansTypeOK
    <2>4. row'[lastItem + 1] = [version |-> 1, by |-> r] /\ \A i \in Rows : i # lastItem + 1 => row'[i] = row[i]
      BY <1>2, <2>1 DEF PlansTypeOK
    <2>5. row'[lastItem + 1] # NoRow /\ row'[lastItem + 1].by = r BY <2>2, <2>4
    <2>6. Effect(r, lastItem + 1)
      BY <1>3, <1>4, <1>5, <1>6, <1>7, <1>8, <1>11, <2>1, <2>3, <2>4, <2>5 DEF Effect
    <2> QED BY <1>1, <1>3, <2>1, <2>6
  <1>12. CASE asked[r].op # "create"
    <2>1. PICK slot \in Rows : slot = asked[r].slot BY <1>10
    <2>2. row[slot] # NoRow /\ row[slot].version = asked[r].version BY <1>5, <1>12, <2>1 DEF Matches
    <2>3. row[slot].by = asked[r].saw BY <1>3, <1>12, <2>1, <2>2 DEF PlanInv, Seen, Changes
    <2>4. row[slot].version \in Nat BY <1>2, <2>2 DEF PlansTypeOK, Row
    <2>5. lastItem' = lastItem /\ \A i \in Rows : i # slot => row'[i] = row[i]
      BY <1>2, <1>5, <1>10, <1>12, <2>1 DEF Change, Overwrite, DeleteItem, PlansTypeOK, Ops
    <2>6. CASE asked[r].op = "delete"
      <3>1. row'[slot] = NoRow BY <1>2, <1>5, <2>1, <2>6 DEF Change, DeleteItem, Deleted, PlansTypeOK
      <3>2. Effect(r, slot) BY <1>3, <1>4, <1>5, <1>6, <1>7, <1>8, <2>1, <2>2, <2>3, <2>5, <2>6, <3>1 DEF Effect
      <3> QED BY <1>1, <1>3, <3>2
    <2>7. CASE asked[r].op # "delete"
      <3>1. asked[r].op \in {"income", "edit"} BY <1>10, <1>12, <2>7 DEF Ops
      <3>2. Overwrite(r) BY <1>5, <3>1 DEF Change
      <3>3. row'[slot] = [version |-> row[slot].version + 1, by |-> r]
        BY <1>2, <2>1, <3>2 DEF Overwrite, Raised, PlansTypeOK
      <3>4. row'[slot] # NoRow BY <1>3, <2>4, <3>3, PlansAssumption
      <3>5. row'[slot].by = r /\ row'[slot].version = row[slot].version + 1 BY <3>3
      <3>6. Effect(r, slot)
        BY <1>3, <1>4, <1>5, <1>6, <1>7, <1>8, <1>12, <2>1, <2>2, <2>3, <2>5, <2>7, <3>4, <3>5 DEF Effect
      <3> QED BY <1>1, <1>3, <3>6
    <2> QED BY <2>6, <2>7
  <1> QED BY <1>11, <1>12

\* Nobody has seen the content of a request that has not been applied.
LEMMA Fresh ==
  ASSUME PlanInv, NEW r \in Requests, audit[r] = 0
  PROVE  /\ \A i \in Rows : row[i] # NoRow => row[i].by # r
         /\ \A q \in Requests : Changes(q) => asked[q].saw # r
  BY PlansAssumption DEF PlanInv, WritersOnce, Seen

LEMMA ApplyInv ==
  ASSUME PlanInv, NEW c \in Conns, Apply(c) PROVE PlanInv'
  <1> USE DEF Items, Income, Rows
  <1>1. PICK r \in Requests, slot \in Rows : Effect(r, slot) BY ApplyEffect
  <1>2. PlansTypeOK /\ PlansTypeOK' BY ApplyTypes DEF PlanInv
  <1>3. UNCHANGED <<asked, refused>> /\ audit[r] = 0 /\ saved[Label(r)] = Nobody /\ Label(r) \in Labels
        /\ asked[r] # NoWish /\ Matches(r)
    BY <1>1 DEF Effect
  <1>4. audit'[r] = 1 /\ \A q \in Requests : q # r => audit'[q] = audit[q] BY <1>1, <1>2 DEF Effect, PlansTypeOK
  <1>5. saved'[Label(r)] = r /\ \A l \in Labels : l # Label(r) => saved'[l] = saved[l]
    BY <1>1, <1>2 DEF Effect, PlansTypeOK
  <1>6. \A i \in Rows : i # slot => row'[i] = row[i] BY <1>1 DEF Effect
  <1>7. row'[slot] # NoRow => row'[slot].by = r BY <1>1 DEF Effect
  <1>8. /\ \A i \in Rows : row[i] # NoRow => row[i].by # r
        /\ \A q \in Requests : Changes(q) => asked[q].saw # r
    BY <1>3, Fresh
  <1>9. lastItem \in Nat /\ lastItem' \in Nat /\ lastItem' >= lastItem
    BY <1>1, <1>2, PlansAssumption DEF Effect, PlansTypeOK
  <1>10. \A q \in Requests : asked[q] # NoWish => asked[q].slot \in Nat /\ asked[q].slot <= lastItem
         /\ asked[q].version \in Nat
    BY <1>2 DEF PlanInv, SlotsGiven, PlansTypeOK, Wish
  <1>11. \A i \in Rows : row[i] # NoRow => row[i].version \in Nat BY <1>2 DEF PlansTypeOK, Row
  <1>12. SlotsGiven' BY <1>3, <1>9, <1>10 DEF SlotsGiven
  <1>13. LoggedOnce'
    <2>1. \A q \in Requests : asked[q] # NoWish => Label(q) \in Labels BY <1>2 DEF PlansTypeOK, Label, Labels, Wish
    <2>2. ASSUME NEW q \in Requests
          PROVE  audit'[q] = IF asked[q] # NoWish /\ saved'[Label(q)] = q THEN 1 ELSE 0
      <3>1. CASE q = r BY <1>3, <1>4, <1>5, <3>1
      <3>2. CASE q # r
        <4>1. audit'[q] = IF asked[q] # NoWish /\ saved[Label(q)] = q THEN 1 ELSE 0
          BY <1>4, <3>2 DEF PlanInv, LoggedOnce
        <4>2. asked[q] # NoWish => (saved'[Label(q)] = q <=> saved[Label(q)] = q)
          <5>1. q # Nobody BY PlansAssumption
          <5> QED BY <1>3, <1>5, <2>1, <3>2, <5>1
        <4> QED BY <4>1, <4>2
      <3> QED BY <3>1, <3>2
    <2>3. ASSUME NEW l \in Labels, saved'[l] # Nobody
          PROVE  asked[saved'[l]] # NoWish /\ Label(saved'[l]) = l
      <3>1. CASE l = Label(r) BY <1>3, <1>5, <3>1
      <3>2. CASE l # Label(r) BY <1>5, <2>3, <3>2 DEF PlanInv, LoggedOnce
      <3> QED BY <3>1, <3>2
    <2> QED BY <1>3, <2>2, <2>3 DEF LoggedOnce, Label
  <1>14. WritersOnce'
    <2>1. ASSUME NEW i \in Rows, NEW j \in Rows, row'[i] # NoRow, row'[j] # NoRow, row'[i].by = row'[j].by
          PROVE  i = j
      <3>1. CASE i = slot \/ j = slot BY <1>6, <1>7, <1>8, <2>1, <3>1
      <3>2. CASE i # slot /\ j # slot BY <1>6, <2>1, <3>2 DEF PlanInv, WritersOnce
      <3> QED BY <3>1, <3>2
    <2>2. ASSUME NEW i \in Rows, row'[i] # NoRow
          PROVE  row'[i].by = Blank \/ audit'[row'[i].by] = 1
      <3>1. CASE i = slot BY <1>4, <1>7, <2>2, <3>1
      <3>2. CASE i # slot
        <4>1. row'[i] = row[i] /\ row[i] # NoRow BY <1>6, <2>2, <3>2
        <4>2. row[i].by \in Requests \cup {Blank} BY <1>2, <4>1 DEF PlansTypeOK, Row
        <4>3. row[i].by = Blank \/ audit[row[i].by] = 1 BY <4>1 DEF PlanInv, WritersOnce
        <4> QED BY <1>4, <1>8, <4>1, <4>2, <4>3
      <3> QED BY <3>1, <3>2
    <2> QED BY <2>1, <2>2 DEF WritersOnce
  <1>15. Seen'
    <2> SUFFICES ASSUME NEW q \in Requests, Changes(q)
                 PROVE  /\ asked[q].saw = Blank \/ audit'[asked[q].saw] = 1
                        /\ \A i \in Rows : row'[i] # NoRow =>
                             /\ i = asked[q].slot => /\ asked[q].version <= row'[i].version
                                                     /\ asked[q].version = row'[i].version => row'[i].by = asked[q].saw
                             /\ row'[i].by = asked[q].saw => i = asked[q].slot /\ row'[i].version = asked[q].version
      BY <1>3 DEF Seen, Changes
    <2>1. asked[q].saw \in Requests \cup {Blank} /\ asked[q] # NoWish BY <1>2 DEF PlansTypeOK, Wish, Changes
    <2>2. asked[q].saw = Blank \/ audit[asked[q].saw] = 1 BY DEF PlanInv, Seen
    <2>3. asked[q].saw = Blank \/ audit'[asked[q].saw] = 1 BY <1>4, <1>8, <2>1, <2>2
    <2>4. ASSUME NEW i \in Rows, row'[i] # NoRow
          PROVE  /\ i = asked[q].slot => /\ asked[q].version <= row'[i].version
                                         /\ asked[q].version = row'[i].version => row'[i].by = asked[q].saw
                 /\ row'[i].by = asked[q].saw => i = asked[q].slot /\ row'[i].version = asked[q].version
      <3>1. CASE i # slot BY <1>6, <2>4, <3>1 DEF PlanInv, Seen
      <3>2. CASE i = slot
        <4>1. row'[i].by # asked[q].saw BY <1>7, <1>8, <2>4, <3>2
        <4>2. ASSUME i = asked[q].slot PROVE asked[q].version < row'[i].version
          <5>1. asked[r].op # "create" /\ asked[r].op # "delete"
            BY <1>1, <1>9, <1>10, <2>1, <2>4, <3>2, <4>2 DEF Effect
          <5>2. row'[i].version = row[i].version + 1 /\ row[i] # NoRow BY <1>1, <3>2, <5>1 DEF Effect
          <5>3. asked[q].version <= row[i].version BY <4>2, <5>2 DEF PlanInv, Seen
          <5> QED BY <1>10, <1>11, <2>1, <5>2, <5>3
        <4>3. i = asked[q].slot => asked[q].version <= row'[i].version /\ asked[q].version # row'[i].version
          <5>1. ASSUME i = asked[q].slot PROVE row'[i].version \in Nat BY <1>2, <2>4 DEF PlansTypeOK, Row
          <5> QED BY <1>10, <2>1, <4>2, <5>1
        <4> QED BY <4>1, <4>3
      <3> QED BY <3>1, <3>2
    <2> QED BY <2>3, <2>4
  <1>16. ASSUME NEW q \in refused
         PROVE  asked[q] # NoWish /\ saved'[Label(q)] # q /\ (saved'[Label(q)] = Nobody => ~Matches(q)')
    <2>1. q \in Requests /\ asked[q] # NoWish /\ saved[Label(q)] # q BY <1>2 DEF PlanInv, RefusedForGood, PlansTypeOK
    <2>2. Label(q) \in Labels BY <1>2, <2>1 DEF PlansTypeOK, Label, Labels, Wish
    <2>3. q # r BY <1>3 DEF PlanInv, RefusedForGood
    <2>4. saved'[Label(q)] # q BY <1>5, <2>1, <2>2, <2>3
    <2>5. ASSUME saved'[Label(q)] = Nobody PROVE ~Matches(q)'
      <3>1. r # Nobody BY PlansAssumption
      <3>2. ~Matches(q) BY <1>5, <2>2, <2>5, <3>1 DEF PlanInv, RefusedForGood
      <3>3. asked[q].op # "create" /\ asked[q].slot \in Rows BY <1>2, <2>1, <3>2 DEF Matches, PlansTypeOK, Wish
      <3>4. CASE asked[q].slot # slot BY <1>3, <1>6, <3>2, <3>3, <3>4 DEF Matches
      <3>5. CASE asked[q].slot = slot
        <4>1. asked[r].op # "create" BY <1>1, <1>9, <1>10, <2>1, <3>5 DEF Effect
        <4>2. row[slot] # NoRow BY <1>1, <4>1 DEF Effect
        <4>3. asked[q].version < row[slot].version
          <5>1. asked[q].version <= row[slot].version BY <2>1, <3>3, <3>5, <4>2 DEF PlanInv, Seen, Changes
          <5>2. row[slot].version # asked[q].version BY <3>2, <3>3, <3>5, <4>2 DEF Matches
          <5> QED BY <1>10, <1>11, <2>1, <4>2, <5>1, <5>2
        <4>4. row'[slot] = NoRow \/ row'[slot].version = row[slot].version + 1 BY <1>1, <4>1 DEF Effect
        <4>5. row'[slot] = NoRow \/ row'[slot].version # asked[q].version BY <1>10, <1>11, <2>1, <4>2, <4>3, <4>4
        <4> QED BY <1>3, <3>3, <3>5, <4>5 DEF Matches
      <3> QED BY <3>4, <3>5
    <2> QED BY <2>1, <2>4, <2>5
  <1>17. RefusedForGood' BY <1>3, <1>16 DEF RefusedForGood, Label, Matches
  <1> QED BY <1>2, <1>12, <1>13, <1>14, <1>15, <1>17 DEF PlanInv

LEMMA RefuseInv ==
  ASSUME PlanInv, NEW c \in Conns, Refuse(c) PROVE PlanInv'
  <1>1. PICK r : r = conn[c].job OBVIOUS
  <1>2. PlansTypeOK /\ PlansTypeOK' BY AnswerTypes DEF PlanInv
  <1>3. r \in Requests /\ asked[r] # NoWish BY <1>1, <1>2, WorkingOn DEF Refuse
  <1>4. saved[Label(r)] # r /\ (saved[Label(r)] = Nobody => ~Matches(r)) BY <1>1 DEF Refuse, Decision
  <1>5. UNCHANGED <<row, lastItem, saved, audit, asked>> /\ refused' = refused \cup {r} BY <1>1 DEF Refuse
  <1>6. RefusedForGood' BY <1>3, <1>4, <1>5 DEF PlanInv, RefusedForGood, Label, Matches
  <1>7. SlotsGiven' /\ LoggedOnce' /\ WritersOnce' /\ Seen'
    BY <1>5 DEF PlanInv, SlotsGiven, LoggedOnce, WritersOnce, Seen, Label, Changes
  <1> QED BY <1>2, <1>6, <1>7 DEF PlanInv

LEMMA StepInv == ASSUME PlanInv, [PlansNext]_vars PROVE PlanInv'
  <1>1. PlansTypeOK' BY StepTypes DEF PlanInv
  <1>2. CASE UNCHANGED planVars BY <1>1, <1>2, PlanUnchanged
  <1>3. CASE \E r \in Requests : Ask(r) BY <1>3, AskInv
  <1>4. CASE \E c \in Conns : Apply(c) BY <1>4, ApplyInv
  <1>5. CASE \E c \in Conns : Refuse(c) BY <1>5, RefuseInv
  <1>6. UNCHANGED planVars \/ (\E r \in Requests : Ask(r)) \/ (\E c \in Conns : Apply(c) \/ Refuse(c))
    BY DEF PlansNext, AccessStep, Send, Replay, vars
  <1> QED BY <1>2, <1>3, <1>4, <1>5, <1>6
-----------------------------------------------------------------------------
(* The refinement *)

want == [r \in Requests |-> WishOf(r)]

LEMMA PlanFacts ==
  ASSUME PlansTypeOK
  PROVE  /\ Plan = {row[i].by : i \in {i \in Rows : row[i] # NoRow}}
         /\ \A r \in Requests : want[r] = WishOf(r)
         /\ \A r \in Requests : asked[r] # NoWish =>
              /\ WishOf(r) \in Edits!Wishes /\ WishOf(r) # NoWish
              /\ WishOf(r).saw = asked[r].saw /\ WishOf(r).label = Label(r)
              /\ WishOf(r).kind = "create" <=> asked[r].op = "create"
              /\ WishOf(r).kind = "remove" <=> asked[r].op = "delete"
  <1>1. ASSUME NEW r \in Requests, asked[r] # NoWish
        PROVE  /\ WishOf(r) \in Edits!Wishes /\ WishOf(r) # NoWish
               /\ WishOf(r).saw = asked[r].saw /\ WishOf(r).label = Label(r)
               /\ WishOf(r).kind = "create" <=> asked[r].op = "create"
               /\ WishOf(r).kind = "remove" <=> asked[r].op = "delete"
    <2>1. asked[r] \in Wish BY <1>1 DEF PlansTypeOK
    <2>2. Label(r) \in Labels /\ asked[r].saw \in Requests \cup {Blank} BY <2>1 DEF Wish, Label, Labels
    <2>3. PICK kind \in {"create", "change", "remove"} :
            /\ WishOf(r) = [kind |-> kind, saw |-> asked[r].saw, label |-> Label(r)]
            /\ kind = "create" <=> asked[r].op = "create"
            /\ kind = "remove" <=> asked[r].op = "delete"
      BY <1>1 DEF WishOf
    <2>4. WishOf(r) \in Edits!Wishes BY <2>2, <2>3 DEF Edits!Wishes
    <2>5. WishOf(r) # NoWish BY <2>2, <2>3, PlansAssumption DEF Labels, Ops
    <2> QED BY <2>3, <2>4, <2>5
  <1> QED BY <1>1 DEF Plan, Rows, want

LEMMA EditsInit == PlansInit => Edits!Init
  <1> SUFFICES ASSUME PlansInit PROVE Edits!Init OBVIOUS
  <1>1. /\ \A r \in Requests : asked[r] = NoWish /\ \A i \in Items : row[i] = NoRow
        /\ row[Income] = [version |-> 0, by |-> Blank]
        /\ audit = [r \in Requests |-> 0] /\ refused = {}
    BY DEF PlansInit, Income, Items
  <1>2. row[Income] # NoRow BY InitTypes DEF PlansTypeOK
  <1>3. \A i \in Items : row[i] = NoRow BY DEF PlansInit, Income, Items
  <1>4. Plan = {Blank} BY <1>1, <1>2, <1>3 DEF Plan
  <1> QED BY <1>1, <1>4 DEF Edits!Init, WishOf

LEMMA EditsSame == ASSUME UNCHANGED planVars PROVE UNCHANGED Edits!vars
  BY DEF planVars, Edits!vars, WishOf, Label, Plan

LEMMA AskRefines == ASSUME PlanInv, NEW r \in Requests, Ask(r) PROVE Edits!Wish(r)
  <1>1. PICK w \in Wish :
          /\ asked[r] = NoWish /\ asked' = [asked EXCEPT ![r] = w] /\ w # NoWish
          /\ IF w.op = "create" THEN w.saw = Blank
             ELSE row[w.slot] # NoRow /\ w.version = row[w.slot].version /\ w.saw = row[w.slot].by
    BY Asking DEF PlanInv
  <1>2. PlansTypeOK /\ PlansTypeOK' /\ UNCHANGED <<row, audit, refused>> BY AskTypes DEF PlanInv, Ask
  <1>3. asked'[r] = w /\ \A q \in Requests : q # r => asked'[q] = asked[q] BY <1>1, <1>2 DEF PlansTypeOK
  <1>4. WishOf(r)' \in Edits!Wishes /\ WishOf(r)'.saw = w.saw /\ (WishOf(r)'.kind = "create" <=> w.op = "create")
    <2>1. <<w.op, w.key>> \in Labels /\ w.saw \in Requests \cup {Blank} BY DEF Wish, Labels
    <2>2. PICK kind \in {"create", "change", "remove"} :
            /\ WishOf(r)' = [kind |-> kind, saw |-> w.saw, label |-> <<w.op, w.key>>]
            /\ kind = "create" <=> w.op = "create"
      BY <1>1, <1>3 DEF WishOf, Label
    <2>3. WishOf(r)' \in Edits!Wishes BY <2>1, <2>2 DEF Edits!Wishes
    <2> QED BY <2>2, <2>3
  <1>5. \A q \in Requests : q # r => WishOf(q)' = WishOf(q) BY <1>3 DEF WishOf, Label
  <1>6. want' = [want EXCEPT ![r] = WishOf(r)'] BY <1>5 DEF want
  <1>7. want[r] = NoWish BY <1>1 DEF want, WishOf
  <1>8. IF w.op = "create" THEN w.saw = Blank ELSE w.saw \in Plan
    <2>1. w.slot \in Rows BY DEF Wish, Rows
    <2> QED BY <1>1, <1>2, <2>1, PlanFacts
  <1>9. UNCHANGED Plan BY <1>2 DEF Plan
  <1> QED BY <1>2, <1>4, <1>6, <1>7, <1>8, <1>9 DEF Edits!Wish, want

\* A key belongs to the request that was logged under it.
LEMMA Owners ==
  ASSUME PlanInv, NEW r \in Requests, asked[r] # NoWish
  PROVE  /\ saved[Label(r)] = Nobody => audit[r] = 0 /\ ~Edits!Taken(r)
         /\ saved[Label(r)] # r => audit[r] = 0
         /\ saved[Label(r)] \notin {r, Nobody} => Edits!Taken(r)
  <1>1. PlansTypeOK /\ r # Nobody BY PlansAssumption DEF PlanInv
  <1>2. saved[Label(r)] # r => audit[r] = 0 BY DEF PlanInv, LoggedOnce
  <1>3. ASSUME saved[Label(r)] = Nobody, NEW q \in Requests, q # r, audit[q] > 0 PROVE want[q].label # want[r].label
    <2>1. asked[q] # NoWish /\ saved[Label(q)] = q BY <1>3 DEF PlanInv, LoggedOnce
    <2>2. Label(q) # Label(r) BY <1>3, <2>1, PlansAssumption
    <2> QED BY <1>1, <2>1, <2>2, PlanFacts
  <1>4. ASSUME saved[Label(r)] \notin {r, Nobody}
        PROVE  \E q \in Requests : q # r /\ audit[q] > 0 /\ want[q].label = want[r].label
    <2>1. PICK q : q = saved[Label(r)] OBVIOUS
    <2>2. Label(r) \in Labels BY <1>1 DEF PlansTypeOK, Wish, Label, Labels
    <2>3. q \in Requests /\ q # r /\ q # Nobody BY <1>1, <1>4, <2>1, <2>2 DEF PlansTypeOK
    <2>4. asked[q] # NoWish /\ Label(q) = Label(r) BY <2>1, <2>2, <2>3 DEF PlanInv, LoggedOnce
    <2>5. audit[q] = 1 BY <2>1, <2>3, <2>4 DEF PlanInv, LoggedOnce
    <2> QED BY <1>1, <2>3, <2>4, <2>5, PlanFacts
  <1> QED BY <1>1, <1>2, <1>3, <1>4 DEF Edits!Taken, want

\* The version a change names is current exactly while its sender's row is.
LEMMA MatchesSeen ==
  ASSUME PlanInv, NEW r \in Requests, asked[r] # NoWish
  PROVE  Matches(r) <=> Edits!UpToDate(r)
  <1>1. PlansTypeOK /\ asked[r] \in Wish /\ asked[r].slot \in Rows BY DEF PlanInv, PlansTypeOK, Wish, Rows
  <1>2. CASE asked[r].op = "create" BY <1>1, <1>2, PlanFacts DEF Matches, Edits!UpToDate, want
  <1>3. CASE asked[r].op # "create"
    <2>1. Changes(r) BY <1>3 DEF Changes
    <2>2. (row[asked[r].slot] # NoRow /\ row[asked[r].slot].version = asked[r].version) <=> asked[r].saw \in Plan
      <3>1. ASSUME row[asked[r].slot] # NoRow, row[asked[r].slot].version = asked[r].version
            PROVE  asked[r].saw \in Plan
        <4>1. row[asked[r].slot].by = asked[r].saw BY <1>1, <2>1, <3>1 DEF PlanInv, Seen
        <4> QED BY <1>1, <3>1, <4>1, PlanFacts
      <3>2. ASSUME asked[r].saw \in Plan
            PROVE  row[asked[r].slot] # NoRow /\ row[asked[r].slot].version = asked[r].version
        <4>1. PICK i \in Rows : row[i] # NoRow /\ row[i].by = asked[r].saw BY <1>1, <3>2, PlanFacts
        <4> QED BY <2>1, <4>1 DEF PlanInv, Seen
      <3> QED BY <3>1, <3>2
    <2>3. want[r].saw = asked[r].saw /\ want[r].kind # "create" BY <1>1, <1>3, PlanFacts
    <2> QED BY <1>3, <2>2, <2>3 DEF Matches, Edits!UpToDate, want
  <1> QED BY <1>2, <1>3

LEMMA ApplyRefines == ASSUME PlanInv, NEW c \in Conns, Apply(c) PROVE Edits!Apply(conn[c].job)
  <1>1. PICK r : r = conn[c].job OBVIOUS
  <1>2. PICK slot \in Rows : Effect(r, slot) BY <1>1, ApplyEffect
  <1>3. r \in Requests /\ PlansTypeOK BY <1>1, ApplyEffect DEF PlanInv
  <1>4. /\ asked[r] # NoWish /\ saved[Label(r)] = Nobody /\ Matches(r) /\ audit[r] = 0
        /\ UNCHANGED <<asked, refused>> /\ audit' = [audit EXCEPT ![r] = 1]
    BY <1>2 DEF Effect
  <1>5. Edits!Undecided(r)
    <2>1. r \notin refused BY <1>4 DEF PlanInv, RefusedForGood
    <2> QED BY <1>3, <1>4, <2>1, PlanFacts DEF Edits!Undecided, want
  <1>6. Edits!UpToDate(r) /\ ~Edits!Taken(r) BY <1>3, <1>4, MatchesSeen, Owners
  <1>7. UNCHANGED want BY <1>4 DEF want, WishOf, Label
  <1>8. /\ want[r].saw = asked[r].saw
        /\ want[r].kind = "create" <=> asked[r].op = "create"
        /\ want[r].kind = "remove" <=> asked[r].op = "delete"
    BY <1>3, <1>4, PlanFacts
  <1>9. /\ \A i \in Rows : i # slot => row'[i] = row[i]
        /\ IF asked[r].op = "delete" THEN row'[slot] = NoRow ELSE row'[slot] # NoRow /\ row'[slot].by = r
        /\ IF asked[r].op = "create" THEN row[slot] = NoRow ELSE row[slot] # NoRow /\ row[slot].by = asked[r].saw
    BY <1>2 DEF Effect
  <1>10. Plan' = {row'[i].by : i \in {i \in Rows : row'[i] # NoRow}} BY DEF Plan, Rows
  <1>11. \A x : x \in Plan' <=> (x \in Plan /\ (asked[r].op # "create" => x # asked[r].saw)) \/ (x = r /\ asked[r].op # "delete")
    <2>1. ASSUME NEW i \in Rows, row'[i] # NoRow
          PROVE  \/ row'[i].by \in Plan /\ (asked[r].op # "create" => row'[i].by # asked[r].saw)
                 \/ row'[i].by = r /\ asked[r].op # "delete"
      <3>1. CASE i = slot BY <1>9, <2>1, <3>1
      <3>2. CASE i # slot
        <4>1. row[i] = row'[i] /\ row[i] # NoRow BY <1>9, <2>1, <3>2
        <4>2. row'[i].by \in Plan BY <1>3, <4>1, PlanFacts
        <4>3. asked[r].op # "create" => row[i].by # asked[r].saw
          BY <1>9, <3>2, <4>1 DEF PlanInv, WritersOnce
        <4> QED BY <4>1, <4>2, <4>3
      <3> QED BY <3>1, <3>2
    <2>2. ASSUME NEW i \in Rows, row[i] # NoRow, asked[r].op # "create" => row[i].by # asked[r].saw
          PROVE  row[i].by \in Plan'
      <3>1. i # slot BY <1>9, <2>2
      <3>2. row'[i] # NoRow /\ row'[i].by = row[i].by BY <1>9, <2>2, <3>1
      <3> QED BY <1>10, <3>2
    <2>3. asked[r].op # "delete" => r \in Plan' BY <1>9, <1>10
    <2>4. \A x \in Plan' : \E i \in Rows : row'[i] # NoRow /\ x = row'[i].by BY <1>10
    <2>5. \A x \in Plan : \E i \in Rows : row[i] # NoRow /\ x = row[i].by BY <1>3, PlanFacts
    <2> QED BY <2>1, <2>2, <2>3, <2>4, <2>5
  <1>12. Plan' = (IF want[r].kind = "create" THEN Plan ELSE Plan \ {want[r].saw})
                    \cup (IF want[r].kind = "remove" THEN {} ELSE {r})
    BY <1>8, <1>11
  <1>13. Edits!Apply(r) BY <1>4, <1>5, <1>6, <1>7, <1>12 DEF Edits!Apply, want
  <1> QED BY <1>1, <1>13

LEMMA RefuseRefines ==
  ASSUME PlanInv, NEW c \in Conns, Refuse(c) PROVE Edits!Refuse(conn[c].job) \/ UNCHANGED Edits!vars
  <1>1. PICK r : r = conn[c].job OBVIOUS
  <1>2. r \in Requests /\ asked[r] # NoWish /\ PlansTypeOK BY <1>1, WorkingOn DEF Refuse, PlanInv
  <1>3. saved[Label(r)] # r /\ (saved[Label(r)] = Nobody => ~Matches(r)) BY <1>1 DEF Refuse, Decision
  <1>4. UNCHANGED <<row, lastItem, saved, audit, asked>> /\ refused' = refused \cup {r} BY <1>1 DEF Refuse
  <1>5. UNCHANGED <<want, Plan, audit>> BY <1>4 DEF want, WishOf, Label, Plan
  <1>6. CASE r \in refused
    <2>1. refused' = refused BY <1>4, <1>6
    <2> QED BY <1>5, <2>1 DEF Edits!vars, want
  <1>7. CASE r \notin refused
    <2>1. Edits!Undecided(r)
      <3>1. audit[r] = 0 BY <1>2, <1>3, Owners
      <3> QED BY <1>2, <1>7, <3>1, PlanFacts DEF Edits!Undecided, want
    <2>2. Edits!Taken(r) \/ ~Edits!UpToDate(r) BY <1>2, <1>3, Owners, MatchesSeen
    <2>3. Edits!Refuse(r) BY <1>4, <1>5, <2>1, <2>2 DEF Edits!Refuse, want
    <2> QED BY <1>1, <2>3
  <1> QED BY <1>6, <1>7

LEMMA StepRefines == ASSUME PlanInv, [PlansNext]_vars PROVE [Edits!Next]_(Edits!vars)
  <1>1. CASE UNCHANGED planVars BY <1>1, EditsSame
  <1>2. ASSUME NEW r \in Requests, Ask(r) PROVE Edits!Next BY <1>2, AskRefines DEF Edits!Next
  <1>3. ASSUME NEW c \in Conns, Apply(c) PROVE Edits!Next
    <2>1. conn[c].job \in Requests /\ Edits!Apply(conn[c].job) BY <1>3, ApplyEffect, ApplyRefines
    <2> QED BY <2>1 DEF Edits!Next
  <1>4. ASSUME NEW c \in Conns, Refuse(c) PROVE [Edits!Next]_(Edits!vars)
    <2>1. conn[c].job \in Requests BY <1>4, WorkingOn DEF Refuse, PlanInv
    <2>2. Edits!Refuse(conn[c].job) \/ UNCHANGED Edits!vars BY <1>4, RefuseRefines
    <2> QED BY <2>1, <2>2 DEF Edits!Next
  <1>5. UNCHANGED planVars \/ (\E r \in Requests : Ask(r)) \/ (\E c \in Conns : Apply(c) \/ Refuse(c))
    BY DEF PlansNext, AccessStep, Send, Replay, vars
  <1> QED BY <1>1, <1>2, <1>3, <1>4, <1>5

\* Versions, row numbers, keys and saved answers do what PlanEdits promises, for any
\* number of requests, keys, connections and rows: a request is decided once, however
\* often it is sent, and takes effect on what its sender saw or not at all.
THEOREM PlansImplementEdits == PlansSpec => ImplementsEdits
  <1>1. PlansInit => PlanInv /\ Edits!Init BY InitInv, EditsInit
  <1>2. PlanInv /\ [PlansNext]_vars => PlanInv' /\ [Edits!Next]_(Edits!vars) BY StepInv, StepRefines
  <1> QED BY <1>1, <1>2, PTL DEF PlansSpec, ImplementsEdits, Edits!Spec
==============================================================================
