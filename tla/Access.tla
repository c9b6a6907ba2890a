--------------------------------- MODULE Access ---------------------------------
(***************************************************************************)
(* Sessions of the web page, API tokens, and the requests they let in.     *)
(*                                                                         *)
(* A request is checked when it arrives and works afterwards: it is on a   *)
(* connection from its admission until its answer.  A request that is not  *)
(* admitted (401, 403) is no step.  Expired sessions are deleted when      *)
(* somebody logs in, which no request can tell from having expired.        *)
(***************************************************************************)
EXTENDS Naturals, FiniteSetsExt, Sequences

CONSTANTS Sessions,   \* cookies; each is given out once
          Conns,      \* requests at work at a time
          MaxTokens,  \* bound: tokens that are issued
          Idle, NoBearer

ASSUME AccessAssumption ==
  /\ MaxTokens \in Nat /\ NoBearer \notin Nat
  /\ \A s \in Sessions : s \notin Nat /\ s # NoBearer

VARIABLES session,
          tokens,   \* rows of api_tokens
          issued,   \* the scopes of all tokens ever issued: their secrets are 1, 2, ...
          listed,   \* what the page shows of the tokens
          conn

accessVars == <<session, tokens, issued, listed, conn>>

Secrets == 1..MaxTokens
Scopes == {"read", "write"}
TokenRow == [id : 1..MaxTokens, secret : Secrets, scope : Scopes, fresh : BOOLEAN]
Shown == [id : 1..MaxTokens, secret : Secrets]

AccessInit ==
  /\ session = [s \in Sessions |-> "unused"]
  /\ tokens = {} /\ issued = <<>> /\ listed = {}
  /\ conn = [c \in Conns |-> Idle]

\* What a request is for: to work on the plan, or to manage tokens.
IsPlan(op) == op \in {"income", "create", "edit", "delete"}

Valid(secret) == \E t \in tokens : t.secret = secret /\ t.fresh
ScopeAllows(t, op) == t.scope = "write" /\ op # "delete"

\* authorize, and need in the handlers: who names a token is judged by the token alone.
Admits_Fallback(bearer, cookie, op) ==
  \/ session[cookie] = "live"
  \/ \E t \in tokens : t.secret = bearer /\ t.fresh /\ IsPlan(op) /\ ScopeAllows(t, op)
Admits_AnyScope(bearer, cookie, op) ==
  IF bearer # NoBearer THEN \E t \in tokens : t.secret = bearer /\ t.fresh /\ IsPlan(op)
  ELSE session[cookie] = "live"
Admits(bearer, cookie, op) ==
  IF bearer # NoBearer
  THEN \E t \in tokens : t.secret = bearer /\ t.fresh /\ IsPlan(op) /\ ScopeAllows(t, op)
  ELSE session[cookie] = "live"

\* A request for a job arrives, with a cookie, which may be dead, and perhaps a token.
Arrive(c, op, job) ==
  /\ conn[c] = Idle
  /\ \E bearer \in {NoBearer} \cup 1..Len(issued), cookie \in Sessions :
       /\ Admits(bearer, cookie, op)
       /\ conn' = [conn EXCEPT ![c] = [op |-> op, job |-> job,
                                       by |-> IF bearer # NoBearer THEN bearer ELSE cookie]]
  /\ UNCHANGED <<session, tokens, issued, listed>>

Hangup(c) == conn' = [conn EXCEPT ![c] = Idle]

-----------------------------------------------------------------------------

Login(s) ==
  /\ session[s] = "unused" /\ session' = [session EXCEPT ![s] = "live"]
  /\ UNCHANGED <<tokens, issued, listed, conn>>

EndSession(s) == session[s] = "live" /\ session' = [session EXCEPT ![s] = "over"]
Logout(s) == EndSession(s) /\ UNCHANGED <<tokens, issued, listed, conn>>
SessionExpires(s) == EndSession(s) /\ UNCHANGED <<tokens, issued, listed, conn>>

TokenExpires(t) ==
  /\ t.fresh /\ tokens' = (tokens \ {t}) \cup {[t EXCEPT !.fresh = FALSE]}
  /\ UNCHANGED <<session, issued, listed, conn>>

\* AUTOINCREMENT: a row never gets the number of an earlier one.
NextToken_Reused == Max({t.id : t \in tokens} \cup {0}) + 1
NextToken == Len(issued) + 1

AskToken(c) == \E scope \in Scopes : Arrive(c, "issue", scope)
IssueToken(c) ==
  /\ conn[c] # Idle /\ conn[c].op = "issue" /\ Len(issued) < MaxTokens
  /\ tokens' = tokens \cup {[id |-> NextToken, secret |-> Len(issued) + 1, scope |-> conn[c].job, fresh |-> TRUE]}
  /\ issued' = Append(issued, conn[c].job)
  /\ Hangup(c) /\ UNCHANGED <<session, listed>>

\* The page reads the list; who clicks on a token of it sends its number.
ListTokens ==
  /\ \E s \in Sessions : session[s] = "live"
  /\ listed' = {[id |-> t.id, secret |-> t.secret] : t \in tokens}
  /\ UNCHANGED <<session, tokens, issued, conn>>

AskRevocation(c) == \E x \in listed : Arrive(c, "revoke", x)
RevokeToken(c) ==
  /\ conn[c] # Idle /\ conn[c].op = "revoke"
  /\ tokens' = {t \in tokens : t.id # conn[c].job.id}
  /\ Hangup(c) /\ UNCHANGED <<session, issued, listed>>

\* The request is given up before it has done anything.
LoseRequest(c) ==
  /\ conn[c] # Idle /\ Hangup(c)
  /\ UNCHANGED <<session, tokens, issued, listed>>

AccessNext ==
  \/ \E s \in Sessions : Login(s) \/ Logout(s) \/ SessionExpires(s)
  \/ \E t \in tokens : TokenExpires(t)
  \/ ListTokens
  \/ \E c \in Conns : \/ AskToken(c) \/ IssueToken(c) \/ AskRevocation(c) \/ RevokeToken(c)
                      \/ LoseRequest(c)
=============================================================================
