----------------------------- MODULE UserAdmin ------------------------------
(***************************************************************************)
(* UserAdminService and UsersService: users are created, changed, deleted   *)
(* and given passwords.  Only operations that can shrink the pool of active *)
(* administrators run in a transaction, under one advisory lock.            *)
(***************************************************************************)
EXTENDS Requests

CONSTANTS
  Seeded,    \* the users that exist from the start, all active administrators
  Emails,
  EmailOf,   \* EmailOf[u]: the address of a seeded user
  Changes    \* the changes of role and activity that clients ask for

ASSUME UserAdminAssumption ==
  /\ Seeded # {} /\ Seeded \cap Req = {}
  /\ EmailOf \in [Seeded -> Emails]
  /\ \A u, v \in Seeded : EmailOf[u] = EmailOf[v] => u = v
  /\ Null \notin Emails \cup Seeded \cup Req
  /\ Emails \cap (Seeded \cup Req) = {}
  /\ Changes \subseteq [role: {"ADMIN", "STAFF", "keep"}, active: {"yes", "no", "keep"},
                        email: {Null}]
  /\ \A d \in Changes : d.role # "keep" \/ d.active # "keep"

VARIABLES
  user,   \* the table users; the user that request r creates is r
  tgt,    \* the user a request works on
  dto     \* the role and the activity it sets, or "keep", and a new address

userVars == <<user, tgt, dto>>

UserId == Seeded \cup Req
Roles  == {"ADMIN", "STAFF"}

UserRow ==
  [state: {"none", "live", "deleted"}, role: Roles, active: {"yes", "no"},
   pending: {"yes", "no"}, email: Emails \cup UserId \cup {Null}]
Dto == [role: Roles \cup {"keep"}, active: {"yes", "no", "keep"}, email: Emails \cup {Null}]
Keep == [role |-> "keep", active |-> "keep", email |-> Null]

NewUser(e, role) ==
  [state |-> "live", role |-> role, active |-> "yes", pending |-> "yes", email |-> e]

UserInit ==
  /\ user = [u \in UserId |->
       IF u \in Seeded
         THEN [NewUser(EmailOf[u], "ADMIN") EXCEPT !.pending = "no"]
         ELSE [state |-> "none", role |-> "STAFF", active |-> "no", pending |-> "no",
               email |-> Null]]
  /\ tgt = [r \in Req |-> Null]
  /\ dto = [r \in Req |-> Keep]

\* Mutant of TombstoneValue: the suffix does not name the row.
TombstoneWithoutId(u) == "deleted"

\* tombstoneValue: a value that no other row has, and no address equals.
TombstoneValue(u) == u

Known == {u \in UserId : user[u].state # "none"}
Live(u) == user[u].state = "live"
ActiveAdmin(u) == Live(u) /\ user[u].role = "ADMIN" /\ user[u].active = "yes"

\* JwtStrategy.validate re-reads the caller; PasswordChangeGuard and RolesGuard
\* then decide on what it read.
Authenticated(a) == Live(a) /\ user[a].active = "yes"
MayUseApi(a)     == Authenticated(a) /\ user[a].pending = "no"
MayAdminister(a) == MayUseApi(a) /\ user[a].role = "ADMIN"

Takes(r, u, d) ==
  /\ tgt' = [tgt EXCEPT ![r] = u]
  /\ dto' = [dto EXCEPT ![r] = d]

-----------------------------------------------------------------------------
(* Creation. *)

\* UsersService.create: the address is looked up among the live users ...
BeginCreateUser(r) ==
  \E a \in UserId, e \in Emails, role \in Roles :
    /\ MayAdminister(a)
    /\ \A u \in UserId : Live(u) => user[u].email # e
    /\ Starts(r, "createUser", "insertUser")
    /\ Takes(r, r, [Keep EXCEPT !.role = role, !.email = e])
    /\ UNCHANGED user

\* ... and the unique index on email, tombstones included, decides.
EmailTaken(e) == \E u \in UserId : user[u].email = e

InsertUser(r) ==
  /\ pc[r] = "insertUser"
  /\ IF EmailTaken(dto[r].email)
       THEN Finishes(r, "failed") /\ UNCHANGED user
       ELSE /\ user' = [user EXCEPT ![r] = NewUser(dto[r].email, dto[r].role)]
            /\ Finishes(r, "done")
  /\ UNCHANGED <<tgt, dto>>

-----------------------------------------------------------------------------
(* Changes of role and activity, and deletion, under the advisory lock. *)

PoolLock == Exclusive("userAdmin", "pool")

\* update: nobody changes their own role or deactivates themselves.
BeginUpdateUser(r) ==
  \E a, u \in Known, d \in Changes :
    /\ MayAdminister(a)
    /\ u = a => d.role = "keep" /\ d.active # "no"
    /\ Starts(r, "updateUser", "lockPool")
    /\ Takes(r, u, d)
    /\ UNCHANGED user

\* remove: nobody deletes themselves.
BeginRemoveUser(r) ==
  \E a \in Known : \E u \in Known \ {a} :
    /\ MayAdminister(a)
    /\ Starts(r, "removeUser", "lockPool")
    /\ Takes(r, u, Keep)
    /\ UNCHANGED user

\* Mutant of LockPool: each request only counts for itself.
PoolUnlocked(r) ==
  /\ pc[r] = "lockPool"
  /\ Continues(r, "readTarget")
  /\ UNCHANGED userVars

LockPool(r) ==
  /\ pc[r] = "lockPool"
  /\ Acquire(r, PoolLock)
  /\ pc' = [pc EXCEPT ![r] = "readTarget"]
  /\ UNCHANGED <<op, userVars>>

\* leavesAdminPool: the step would take an active administrator out of the pool.
LeavesAdminPool(r) ==
  /\ ActiveAdmin(tgt[r])
  /\ \/ op[r] = "removeUser"
     \/ dto[r].role = "STAFF"
     \/ dto[r].active = "no"

\* The target must be live; only when it leaves the pool are the others counted.
ReadTarget(r) ==
  /\ pc[r] = "readTarget"
  /\ IF Live(tgt[r])
       THEN Continues(r, IF LeavesAdminPool(r) THEN "countAdmins" ELSE "writeUser")
       ELSE Finishes(r, "failed")
  /\ UNCHANGED userVars

CountAdmins(r) ==
  /\ pc[r] = "countAdmins"
  /\ IF \E u \in UserId \ {tgt[r]} : ActiveAdmin(u)
       THEN Continues(r, "writeUser")
       ELSE Finishes(r, "failed")
  /\ UNCHANGED userVars

Overwrite(old, new) == IF new = "keep" THEN old ELSE new

\* What the update statement writes: only the columns the request names.
Written(r) ==
  LET row == user[tgt[r]] IN
    IF op[r] = "removeUser"
      THEN [row EXCEPT !.state = "deleted", !.email = TombstoneValue(tgt[r])]
      ELSE [row EXCEPT !.role = Overwrite(@, dto[r].role), !.active = Overwrite(@, dto[r].active)]

\* The write commits and releases the lock; the sessions are revoked afterwards.
WriteUser(r) ==
  /\ pc[r] = "writeUser"
  /\ user' = [user EXCEPT ![tgt[r]] = Written(r)]
  /\ Finishes(r, "revokeUser")
  /\ UNCHANGED <<tgt, dto>>

-----------------------------------------------------------------------------
(* Passwords. *)

\* resetPassword: one update, filtered to live rows by the soft-delete extension.
ResetPassword(r) ==
  \E a, u \in Known :
    /\ MayAdminister(a)
    /\ IF Live(u)
         THEN /\ Starts(r, "resetPassword", "revokeUser")
              /\ user' = [user EXCEPT ![u].pending = "yes"]
         ELSE Starts(r, "resetPassword", "failed") /\ UNCHANGED user
    /\ Takes(r, u, Keep)

\* changePassword: the current password is verified on one read ...
BeginChangePassword(r) ==
  \E u \in UserId :
    /\ Authenticated(u)
    /\ Starts(r, "changePassword", "setPassword")
    /\ Takes(r, u, Keep)
    /\ UNCHANGED user

\* ... and the update matches nothing if the user was deleted meanwhile.
SetPassword(r) ==
  /\ pc[r] = "setPassword"
  /\ IF Live(tgt[r])
       THEN /\ user' = [user EXCEPT ![tgt[r]].pending = "no"]
            /\ Continues(r, "revokeUser")
       ELSE Finishes(r, "failed") /\ UNCHANGED user
  /\ UNCHANGED <<tgt, dto>>

BeginUserAdmin(r) ==
  \/ BeginCreateUser(r) \/ BeginUpdateUser(r) \/ BeginRemoveUser(r)
  \/ ResetPassword(r)   \/ BeginChangePassword(r)

UserAdminStep(r) ==
  \/ InsertUser(r) \/ LockPool(r) \/ ReadTarget(r) \/ CountAdmins(r) \/ WriteUser(r)
  \/ SetPassword(r)

-----------------------------------------------------------------------------
(* Properties. *)

\* "Cannot remove the last active ADMIN": whatever administrators do to each
\* other at once, one active administrator is always left.
AdminRemains == \E u \in UserId : ActiveAdmin(u)

\* UsersService.create: "the unique constraint is the real guard": no two live
\* users share an address, although creations race and deletions free addresses.
EmailsUnique ==
  \A u, v \in UserId : Live(u) /\ Live(v) /\ user[u].email = user[v].email => u = v
=============================================================================
