------------------------------ MODULE Posting -------------------------------
(***************************************************************************)
(* The journal operations: JournalService and PostingService.  A request    *)
(* that posts, promotes a draft or reverses runs the two phases of module   *)
(* Ledger; creating and deleting a draft are single statements.             *)
(***************************************************************************)
EXTENDS Ledger

CONSTANTS
  Templates,   \* the line sets a client may submit, balanced or not
  Equity,      \* the account with role OPENING_BALANCE_EQUITY
  Plan         \* Plan[r]: the operations request r may turn out to be

ASSUME PostingAssumption ==
  /\ Templates \subseteq Lines
  /\ Equity \in Accounts \ ProfitLoss

\* A request arrives as operation o.
Arrives(r, o) ==
  /\ pc[r] = "start"
  /\ o \in Plan[r]

\* What the request carries into its next step.
Carry(r, o, e, p, v) ==
  /\ op' = [op EXCEPT ![r] = o]
  /\ tgt' = [tgt EXCEPT ![r] = e]
  /\ date' = [date EXCEPT ![r] = p]
  /\ buf' = [buf EXCEPT ![r] = v]
  /\ UNCHANGED <<num, acctId>>

-----------------------------------------------------------------------------
(* JournalService.createAndPost and postOpeningBalances, into              *)
(* PostingService.post.                                                    *)

\* createAndPost submits the lines as they are, with the caller as creator.
BeginPost(r) ==
  \E v \in Templates, p \in Periods :
    /\ Arrives(r, "post")
    /\ IF /\ AssertBalanced(v)
          /\ ~IsSegregationViolation("MANUAL", UserOf[r], UserOf[r])
         THEN /\ Carry(r, "post", Null, p, v)
              /\ Goto(r, "findPeriod")
              /\ UNCHANGED <<db, held>>
         ELSE Reject(r)

\* postOpeningBalances plugs the difference into the opening balance equity,
\* an account that must not be deleted whether it is needed or not.
Plugged(v) == [v EXCEPT ![Equity] = @ - Total(v, Accounts)]

BeginOpening(r) ==
  \E v \in Templates, p \in Periods :
    /\ Arrives(r, "opening")
    /\ IF acct[Equity] # "deleted"
         THEN /\ Carry(r, "opening", Null, p, Plugged(v))
              /\ Goto(r, "findPeriod")
              /\ UNCHANGED <<db, held>>
         ELSE Reject(r)

WritePosted(r) ==
  /\ pc[r] = "write"
  /\ op[r] \in {"post", "opening"}
  /\ CreatePostedEntry(r, IF op[r] = "post" THEN "MANUAL" ELSE "OPENING")
  /\ Commit(r)
  /\ UNCHANGED <<periodStatus, closing, acct, ctx>>

-----------------------------------------------------------------------------
(* Drafts. *)

DraftRow(r, p) ==
  [status |-> "DRAFT", deletedAt |-> Null, source |-> "MANUAL", date |-> p,
   number |-> 0, createdBy |-> UserOf[r], postedBy |-> Null, reversalOf |-> Null]

\* JournalService.createDraft: one insert, without any posting check.
CreateDraft(r) ==
  \E v \in Templates, p \in Periods :
    /\ Arrives(r, "createDraft")
    /\ journal' = [journal EXCEPT ![r] = DraftRow(r, p)]
    /\ lines' = [lines EXCEPT ![r] = v]
    /\ Goto(r, "done")
    /\ UNCHANGED <<nextNumber, periodStatus, closing, acct, ctx, held>>

IsDraft(e) == journal[e].status = "DRAFT" /\ journal[e].deletedAt = Null

\* softDeleteDraft: one UPDATE whose predicate is the guard; it waits for the
\* row lock and then re-evaluates the predicate.
DeleteDraft(r) ==
  \E e \in Req :
    /\ Arrives(r, "deleteDraft")
    /\ journal[e].status # "none"
    /\ CanLock(r, Exclusive("entry", e))
    /\ IF IsDraft(e)
         THEN /\ journal' = [journal EXCEPT ![e].deletedAt = "set"]
              /\ Goto(r, "done")
              /\ UNCHANGED <<lines, nextNumber, periodStatus, closing, acct, ctx, held>>
         ELSE Reject(r)

\* Mutants of BeginPostDraft: a draft is trusted to balance; its creator is not
\* compared with the caller.
PromoteUnbalanced(r) ==
  \E e \in Req :
    /\ Arrives(r, "postDraft")
    /\ journal[e].status # "none"
    /\ IF IsDraft(e) /\ ~IsSegregationViolation("MANUAL", journal[e].createdBy, UserOf[r])
         THEN /\ Carry(r, "postDraft", e, journal[e].date, NoLines)
              /\ Goto(r, "findPeriod")
              /\ UNCHANGED <<db, held>>
         ELSE Reject(r)

PromoteOwnDraft(r) ==
  \E e \in Req :
    /\ Arrives(r, "postDraft")
    /\ journal[e].status # "none"
    /\ IF IsDraft(e) /\ AssertBalanced(lines[e])
         THEN /\ Carry(r, "postDraft", e, journal[e].date, NoLines)
              /\ Goto(r, "findPeriod")
              /\ UNCHANGED <<db, held>>
         ELSE Reject(r)

\* postDraft: the first read, and the checks on what it returned.
BeginPostDraft(r) ==
  \E e \in Req :
    /\ Arrives(r, "postDraft")
    /\ journal[e].status # "none"
    /\ IF /\ IsDraft(e)
          /\ AssertBalanced(lines[e])
          /\ ~IsSegregationViolation("MANUAL", journal[e].createdBy, UserOf[r])
         THEN /\ Carry(r, "postDraft", e, journal[e].date, NoLines)
              /\ Goto(r, "findPeriod")
              /\ UNCHANGED <<db, held>>
         ELSE Reject(r)

\* The first statement of the transaction: the draft FOR UPDATE, re-checked
\* before a number is drawn.
LockDraft(r) ==
  /\ pc[r] = "lockDraft"
  /\ CanLock(r, Exclusive("entry", tgt[r]))
  /\ IF IsDraft(tgt[r])
       THEN /\ Acquire(r, Exclusive("entry", tgt[r]))
            /\ Goto(r, "lockYear")
            /\ UNCHANGED <<db, ctx>>
       ELSE Rollback(r)

WriteDraftPosted(r) ==
  /\ pc[r] = "write"
  /\ op[r] = "postDraft"
  /\ journal' = [journal EXCEPT ![tgt[r]] =
       [@ EXCEPT !.status = "POSTED", !.number = num[r], !.postedBy = UserOf[r]]]
  /\ Increment(r)
  /\ Commit(r)
  /\ UNCHANGED <<lines, periodStatus, closing, acct, ctx>>

-----------------------------------------------------------------------------
(* Reversal: prepareReversal and reverseInTx, with the original's date. *)

BeginReverse(r) ==
  \E e \in Req :
    /\ Arrives(r, "reverse")
    /\ journal[e].status # "none"
    /\ IF journal[e].status = "POSTED"
         THEN /\ Carry(r, "reverse", e, journal[e].date, Swapped(lines[e]))
              /\ Goto(r, "findPeriod")
              /\ UNCHANGED <<db, held>>
         ELSE Reject(r)

WriteReversal(r) ==
  /\ pc[r] = "write"
  /\ op[r] = "reverse"
  /\ IF AlreadyReversed(tgt[r])
       THEN Rollback(r)
       ELSE /\ CreateReversal(r)
            /\ Commit(r)
            /\ UNCHANGED <<periodStatus, closing, acct, ctx>>
=============================================================================
