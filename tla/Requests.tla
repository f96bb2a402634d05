------------------------------ MODULE Requests ------------------------------
(***************************************************************************)
(* A request of the services that administer users, sessions, master data   *)
(* and the calendar: the step it takes next, the operation it runs and the  *)
(* locks of its transaction.  Statements outside a transaction commit by    *)
(* themselves.                                                              *)
(***************************************************************************)
EXTENDS Naturals, FiniteSets, PgLocks

CONSTANT Null

VARIABLES
  pc,    \* the step each request takes next
  op     \* the operation it runs

reqVars == <<pc, op, held>>

Operations ==
  {"none", "createUser", "updateUser", "removeUser", "resetPassword", "changePassword",
   "login", "refresh", "logout", "logoutAll", "boot", "createRow", "setActive", "deleteRow",
   "updateCompany", "generate"}

\* The steps of users and sessions, and those of the other services.
SessionLabels ==
  {"insertUser", "lockPool", "readTarget", "countAdmins", "writeUser", "setPassword", "issue",
   "lockToken", "rotate", "scanFamily", "revokeUser", "revoke"}
OtherLabels ==
  {"findCompany", "createCompany", "countAccounts", "insertAccounts", "countTaxCodes",
   "insertTaxCodes", "insertRow", "changeRow", "currentYear", "listPeriods", "readStart",
   "createPeriods"}
Labels == SessionLabels \cup OtherLabels \cup {"start", "done", "failed"}

RequestsInit ==
  /\ pc = [r \in Req |-> "start"]
  /\ op = [r \in Req |-> "none"]
  /\ held = [r \in Req |-> {}]

\* The request arrives as operation o and goes on to step l.
Starts(r, o, l) ==
  /\ pc[r] = "start"
  /\ op' = [op EXCEPT ![r] = o]
  /\ pc' = [pc EXCEPT ![r] = l]
  /\ UNCHANGED held

\* It goes on, keeping its locks.
Continues(r, l) == pc' = [pc EXCEPT ![r] = l] /\ UNCHANGED <<op, held>>

\* Its transaction, if it has one, is over, and so are its locks.
Finishes(r, l) == pc' = [pc EXCEPT ![r] = l] /\ ReleaseAll(r) /\ UNCHANGED op

Running(r) == pc[r] \notin {"start", "done", "failed"}
=============================================================================
