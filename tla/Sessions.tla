------------------------------ MODULE Sessions ------------------------------
(***************************************************************************)
(* AuthService and RefreshTokenService beside the administration of users.  *)
(* A session is a family of refresh tokens, of which each refresh consumes  *)
(* one and issues the next; revocations are bulk updates, which see only    *)
(* the rows that exist when the statement starts and wait for the locks on  *)
(* them.  The token that request r creates is r, and so is the family of a  *)
(* login.                                                                   *)
(***************************************************************************)
EXTENDS UserAdmin

CONSTANT Issued      \* Issued[t]: the user of a token issued earlier

ASSUME SessionsAssumption ==
  Issued \in [DOMAIN Issued -> Seeded] /\ DOMAIN Issued \cap Req = {}

VARIABLES
  token,   \* the table refresh_tokens
  expired, \* the tokens past their expiry
  tok,     \* the token a request presents
  scan     \* the rows its bulk update has found

sessionVars == <<token, expired, tok, scan>>

Token == DOMAIN Issued \cup Req
TokenRow ==
  [status: {"none", "ACTIVE", "CONSUMED", "REVOKED"}, owner: UserId \cup {Null},
   family: Token \cup {Null}]
\* No row, or none any more: the other columns are what requests read of it.
NoToken == [status |-> "none", owner |-> Null, family |-> Null]

SessionInit ==
  /\ token = [t \in Token |->
       IF t \in DOMAIN Issued THEN [status |-> "ACTIVE", owner |-> Issued[t], family |-> t]
                              ELSE NoToken]
  /\ expired = {}
  /\ tok = [r \in Req |-> Null]
  /\ scan = [r \in Req |-> {}]

Stored == {t \in Token : token[t].status # "none"}
TokenLock(t) == Exclusive("token", t)

\* A request that has ended keeps nothing.
Forgets(r) ==
  /\ Takes(r, Null, Keep)
  /\ tok' = [tok EXCEPT ![r] = Null]
  /\ scan' = [scan EXCEPT ![r] = {}]

-----------------------------------------------------------------------------
(* Login and refresh. *)

\* login: the user is found by address, active, with the right password ...
BeginLogin(r) ==
  \E u \in UserId :
    /\ Authenticated(u)
    /\ Starts(r, "login", "issue")
    /\ Takes(r, u, Keep)
    /\ UNCHANGED <<user, sessionVars>>

\* ... and issue starts a family for it.
Issue(r) ==
  /\ pc[r] = "issue"
  /\ token' = [token EXCEPT ![r] = [status |-> "ACTIVE", owner |-> tgt[r], family |-> r]]
  /\ Finishes(r, "done")
  /\ Forgets(r)
  /\ UNCHANGED <<user, expired>>

\* refresh: the token verifies, and its user is live and active ...
BeginRefresh(r) ==
  \E t \in Stored \ expired :
    /\ Authenticated(token[t].owner)
    /\ Starts(r, "refresh", "lockToken")
    /\ tok' = [tok EXCEPT ![r] = t]
    /\ UNCHANGED <<userVars, token, expired, scan>>

\* Mutants of LockToken: the row is read without FOR UPDATE; a revoked token is
\* rotated like an active one.
ReadTokenUnlocked(r) ==
  /\ pc[r] = "lockToken"
  /\ CASE token[tok[r]].status = "ACTIVE"   -> Continues(r, "rotate")
       [] token[tok[r]].status = "CONSUMED" -> Continues(r, "scanFamily")
       [] OTHER -> Finishes(r, "failed")
  /\ UNCHANGED <<userVars, sessionVars>>

RotateRevoked(r) ==
  /\ pc[r] = "lockToken"
  /\ CASE token[tok[r]].status \in {"ACTIVE", "REVOKED"} ->
            Acquire(r, TokenLock(tok[r])) /\ pc' = [pc EXCEPT ![r] = "rotate"] /\ UNCHANGED op
       [] token[tok[r]].status = "CONSUMED" ->
            Acquire(r, TokenLock(tok[r])) /\ pc' = [pc EXCEPT ![r] = "scanFamily"] /\ UNCHANGED op
       [] OTHER -> Finishes(r, "failed")
  /\ UNCHANGED <<userVars, sessionVars>>

\* ... rotate then locks the row FOR UPDATE: an active token is rotated, a
\* consumed one ends its family, any other is refused.
LockToken(r) ==
  /\ pc[r] = "lockToken"
  /\ CanLock(r, TokenLock(tok[r]))
  /\ IF token[tok[r]].status \in {"ACTIVE", "CONSUMED"}
       THEN /\ Acquire(r, TokenLock(tok[r]))
            /\ pc' = [pc EXCEPT ![r] =
                 IF token[tok[r]].status = "ACTIVE" THEN "rotate" ELSE "scanFamily"]
            /\ UNCHANGED op
       ELSE Finishes(r, "failed")
  /\ UNCHANGED <<userVars, sessionVars>>

\* The token is consumed and its successor created, in one transaction.
Rotate(r) ==
  /\ pc[r] = "rotate"
  /\ token' = [token EXCEPT ![tok[r]].status = "CONSUMED",
                            ![r] = [token[tok[r]] EXCEPT !.status = "ACTIVE"]]
  /\ Finishes(r, "done")
  /\ Forgets(r)
  /\ UNCHANGED <<user, expired>>

-----------------------------------------------------------------------------
(* Revocation. *)

\* logout: the row of the token, if there is one, names the family.
BeginLogout(r) ==
  \E t \in Stored \ expired :
    /\ Starts(r, "logout", "scanFamily")
    /\ tok' = [tok EXCEPT ![r] = t]
    /\ UNCHANGED <<userVars, token, expired, scan>>

BeginLogoutAll(r) ==
  \E u \in UserId :
    /\ Authenticated(u)
    /\ Starts(r, "logoutAll", "revokeUser")
    /\ Takes(r, u, Keep)
    /\ UNCHANGED <<user, sessionVars>>

Finds(r, S) ==
  /\ scan' = [scan EXCEPT ![r] = S]
  /\ Continues(r, "revoke")
  /\ UNCHANGED <<userVars, token, expired, tok>>

\* The bulk update by family, of logout and of rotate on a consumed token ...
ScanFamily(r) ==
  /\ pc[r] = "scanFamily"
  /\ Finds(r, {t \in Stored : token[t].family = token[tok[r]].family})

\* ... and revokeAllForUser.
ScanUser(r) ==
  /\ pc[r] = "revokeUser"
  /\ Finds(r, {t \in Stored : token[t].owner = tgt[r]})

\* The rows found are written when none of them is locked by another.
Revoke(r) ==
  /\ pc[r] = "revoke"
  /\ \A t \in scan[r] : CanLock(r, TokenLock(t))
  /\ token' = [t \in Token |-> IF t \in scan[r] \cap Stored
                                 THEN [token[t] EXCEPT !.status = "REVOKED"] ELSE token[t]]
  /\ Finishes(r, IF op[r] = "refresh" THEN "failed" ELSE "done")
  /\ Forgets(r)
  /\ UNCHANGED <<user, expired>>

\* Time passes over the expiry of a token.
Expire(t) ==
  /\ t \in Stored \ expired
  /\ expired' = expired \cup {t}
  /\ UNCHANGED <<reqVars, userVars, token, tok, scan>>

\* purgeExpired, hourly: whatever its status, a row is deleted once it expired.
PurgeExpired ==
  /\ Stored \cap expired # {}
  /\ \A t \in expired, r \in Req : TokenLock(t) \notin held[r]
  /\ token' = [t \in Token |-> IF t \in expired THEN [token[t] EXCEPT !.status = "none"]
                                 ELSE token[t]]
  /\ UNCHANGED <<reqVars, userVars, expired, tok, scan>>

-----------------------------------------------------------------------------
(* The specification. *)

\* The request fails, its transaction ends, or the process stops.
AbortSession(r) ==
  /\ Running(r)
  /\ Finishes(r, "failed")
  /\ Forgets(r)
  /\ UNCHANGED <<user, token, expired>>

BeginSession(r) ==
  \/ BeginUserAdmin(r) /\ UNCHANGED sessionVars
  \/ BeginLogin(r) \/ BeginRefresh(r) \/ BeginLogout(r) \/ BeginLogoutAll(r)

SessionStep(r) ==
  \/ UserAdminStep(r) /\ UNCHANGED sessionVars
  \/ Issue(r) \/ LockToken(r) \/ Rotate(r) \/ ScanFamily(r) \/ ScanUser(r) \/ Revoke(r)

SessionClock == PurgeExpired \/ \E t \in Token : Expire(t)

vars == <<reqVars, userVars, sessionVars>>
Init == RequestsInit /\ UserInit /\ SessionInit
Next ==
  \/ \E r \in Req : BeginSession(r) \/ SessionStep(r) \/ AbortSession(r)
  \/ SessionClock
Spec == Init /\ [][Next]_vars

-----------------------------------------------------------------------------
(* Properties. *)

\* The type of every variable.
TypeOK ==
  /\ user \in [UserId -> UserRow]
  /\ tgt \in [Req -> UserId \cup {Null}]
  /\ dto \in [Req -> Dto]
  /\ pc \in [Req -> Labels]
  /\ op \in [Req -> Operations]
  /\ token \in [Token -> TokenRow]
  /\ expired \subseteq Token
  /\ tok \in [Req -> Token \cup {Null}]
  /\ scan \in [Req -> SUBSET Token]
  /\ held \in [Req -> SUBSET ({PoolLock} \cup {TokenLock(t) : t \in Token})]

\* rotate: "consume + create ... are atomic": a session has at most one token that
\* can be refreshed, although requests present the same token at once, replay
\* consumed ones and are cut off at any statement.
OneActivePerFamily ==
  \A s, t \in Token :
    token[s].status = "ACTIVE" /\ token[t].status = "ACTIVE"
      /\ token[s].family = token[t].family => s = t

\* A token only ages: once consumed it is never active again, and once revoked it
\* stays revoked until it is purged.
TokensOnlyAge ==
  [][\A t \in Token :
       /\ token[t].status = "CONSUMED" => token'[t].status # "ACTIVE"
       /\ token[t].status = "REVOKED" => token'[t].status \in {"REVOKED", "none"}]_vars
=============================================================================
