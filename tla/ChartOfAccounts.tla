-------------------------- MODULE ChartOfAccounts ---------------------------
(***************************************************************************)
(* AccountsService on a chart that is in use: update and deactivate, and    *)
(* softDelete, which counts posted lines and then deletes in two statements *)
(* that nothing ties together.                                              *)
(***************************************************************************)
EXTENDS Posting

CONSTANT Edited   \* the accounts that clients update or delete

ASSUME ChartAssumption == Edited \subseteq Accounts

\* findById, then the operation goes on with account a.
BeginAccount(r, o, next) ==
  \E a \in Edited :
    /\ Arrives(r, o)
    /\ IF acct[a] # "deleted"
         THEN /\ op' = [op EXCEPT ![r] = o]
              /\ acctId' = [acctId EXCEPT ![r] = a]
              /\ Goto(r, next)
              /\ UNCHANGED <<db, held, tgt, date, num, buf>>
         ELSE Reject(r)

BeginUpdateAccount(r) == BeginAccount(r, "updateAccount", "setActive")
BeginDeleteAccount(r) == BeginAccount(r, "deleteAccount", "countLines")

\* One UPDATE of a row that the soft-delete filter still lets through.
SetAccount(r, status) ==
  IF acct[acctId[r]] # "deleted"
    THEN /\ acct' = [acct EXCEPT ![acctId[r]] = status]
         /\ Goto(r, "done")
         /\ UNCHANGED <<journal, lines, nextNumber, periodStatus, closing, ctx, held>>
    ELSE Reject(r)

\* update and deactivate: is_active is set, to either value.
UpdateAccount(r) ==
  \E status \in {"active", "inactive"} : pc[r] = "setActive" /\ SetAccount(r, status)

\* Mutant of CountLines: the count is never made.
SkipCount(r) ==
  /\ pc[r] = "countLines"
  /\ Goto(r, "tombstone")
  /\ UNCHANGED <<db, ctx, held>>

\* softDelete: the count of lines of POSTED and REVERSED entries ...
CountLines(r) ==
  /\ pc[r] = "countLines"
  /\ IF \E e \in Posted : acctId[r] \in Used(lines[e])
       THEN Reject(r)
       ELSE Goto(r, "tombstone") /\ UNCHANGED <<db, ctx, held>>

\* ... and tombstoneDelete, whatever has been posted since.
TombstoneAccount(r) == pc[r] = "tombstone" /\ SetAccount(r, "deleted")
=============================================================================
