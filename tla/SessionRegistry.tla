-------------------------- MODULE SessionRegistry ---------------------------
(***************************************************************************)
(* What the session operations promise of the tables of PostgreSQL: a      *)
(* login, a rotation and a revocation each happen in one step, and a login *)
(* leaves its account with the session it begins and no other.             *)
(***************************************************************************)
CONSTANTS Users, Sessions, Tokens, None

VARIABLES session,  \* session[s]: its state, account, current token and, once
                    \* it is revoked, the reason
          token     \* token[t]: its session, whether it was exchanged, and the
                    \* token it was exchanged for

vars == <<session, token>>

Init ==
  /\ session = [s \in Sessions |->
       [state |-> "absent", user |-> None, token |-> None, reason |-> None]]
  /\ token = [t \in Tokens |-> [session |-> None, used |-> FALSE, parent |-> None]]

Live(s) == session[s].state = "active"

LiveSessions(u) == {s \in Sessions : Live(s) /\ session[s].user = u}

Unissued(t) == token[t].session = None

Ended(set, reason) ==
  [s \in Sessions |->
     IF s \in set THEN [session[s] EXCEPT !.state = "revoked", !.reason = reason]
                  ELSE session[s]]

Login(u, s, t) ==
  /\ session[s].state = "absent" /\ Unissued(t)
  /\ session' = [Ended(LiveSessions(u), "NEW_LOGIN") EXCEPT ![s] =
       [state |-> "active", user |-> u, token |-> t, reason |-> None]]
  /\ token' = [token EXCEPT ![t].session = s]

Rotate(s, t) ==
  /\ Live(s) /\ Unissued(t)
  /\ session' = [session EXCEPT ![s].token = t]
  /\ token' = [token EXCEPT
       ![session[s].token].used = TRUE,
       ![t] = [session |-> s, used |-> FALSE, parent |-> session[s].token]]

Logout(s) ==
  /\ Live(s)
  /\ session' = Ended({s}, "LOGOUT")
  /\ UNCHANGED token

\* A token of the session was presented again after its exchange.
Reuse(s) ==
  /\ Live(s)
  /\ \E t \in Tokens : token[t].session = s /\ token[t].used
  /\ session' = Ended({s}, "REFRESH_REUSE")
  /\ UNCHANGED token

PasswordReset(u) ==
  /\ session' = Ended(LiveSessions(u), "PASSWORD_RESET")
  /\ UNCHANGED token

Next ==
  \/ \E u \in Users, s \in Sessions, t \in Tokens : Login(u, s, t)
  \/ \E s \in Sessions, t \in Tokens : Rotate(s, t)
  \/ \E s \in Sessions : Logout(s) \/ Reuse(s)
  \/ \E u \in Users : PasswordReset(u)

Spec == Init /\ [][Next]_vars
=============================================================================
