------------------------------ MODULE PgLocks ------------------------------
(***************************************************************************)
(* PostgreSQL's transaction-scoped locks, as the services use them: the    *)
(* advisory lock of a fiscal year (pg_advisory_xact_lock and its _shared   *)
(* form), and the row locks that SELECT ... FOR SHARE, SELECT ... FOR      *)
(* UPDATE and UPDATE take.  A lock names a kind of object, the object and  *)
(* a mode.  A transaction keeps every lock it acquires until it commits or *)
(* rolls back; there is no partial release.  External code: modelled from  *)
(* the way the code in src/ uses it.                                       *)
(***************************************************************************)
CONSTANT Req      \* the requests (HTTP handlers), each running one transaction

VARIABLE held     \* held[r]: the locks that the transaction of r holds

Share(kind, id)     == <<kind, id, "S">>
Exclusive(kind, id) == <<kind, id, "X">>

\* Two locks on one object are compatible only when both are shared.
Conflict(k, l) ==
  /\ k[1] = l[1]
  /\ k[2] = l[2]
  /\ k[3] = "X" \/ l[3] = "X"

\* A lock is granted when no other transaction holds a conflicting one; a
\* transaction never conflicts with itself.
CanLock(r, l) == \A q \in Req \ {r} : \A k \in held[q] : ~Conflict(k, l)

Acquire(r, l) ==
  /\ CanLock(r, l)
  /\ held' = [held EXCEPT ![r] = @ \cup {l}]

ReleaseAll(r) == held' = [held EXCEPT ![r] = {}]

\* What the lock manager guarantees: no two transactions hold conflicting locks.
LocksCompatible ==
  \A q, r \in Req :
    q # r => \A k \in held[q], l \in held[r] : ~Conflict(k, l)
=============================================================================
