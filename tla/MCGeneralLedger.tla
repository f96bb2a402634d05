-------------------------- MODULE MCGeneralLedger ---------------------------
(***************************************************************************)
(* Small instances of the general ledger for TLC: two fiscal years, the     *)
(* first with two periods, six accounts of the chart and unit amounts.      *)
(***************************************************************************)
EXTENDS GeneralLedger, TLC

CONSTANTS r1, r2, r3, r4, alice, bob

MCYears == {2025, 2026}
MCPeriods == {"2025-11", "2025-12", "2026-01"}
MCYearOf == ("2025-11" :> 2025) @@ ("2025-12" :> 2025) @@ ("2026-01" :> 2026)
MCLastPeriod == (2025 :> "2025-12") @@ (2026 :> "2026-01")

\* Cash, loans, retained earnings, opening balance equity, sales and their header.
MCAccounts == {"1-1000", "2-2000", "3-2000", "3-9000", "4-0000", "4-1000"}
MCProfitLoss == {"4-0000", "4-1000"}
MCHeaders == {"4-0000"}

Entry(d, c) == [a \in MCAccounts |-> IF a = d THEN 1 ELSE IF a = c THEN -1 ELSE 0]
Sale     == Entry("1-1000", "4-1000")
OneSided == Entry("1-1000", "none")
OnHeader == Entry("1-1000", "4-0000")
JournalTemplates == {Sale, OneSided, OnHeader}
CloseTemplates == {Sale}

\* Drafts, posts and reversals by two users racing on the same entries, and the
\* accounts they are on, beside the close of a year.
JournalPlan ==
  (r1 :> {"createDraft", "post"}) @@ (r2 :> {"postDraft", "createDraft", "opening"})
    @@ (r3 :> {"postDraft", "deleteDraft", "reverse", "updateAccount", "closeYear"})
    @@ (r4 :> {"postDraft", "deleteDraft", "reverse", "deleteAccount"})

\* Posts, drafts, opening balances and account edits racing the close and the
\* reopening of periods and years.
ClosePlan ==
  (r1 :> {"post", "createDraft"})
    @@ (r2 :> {"closeYear", "reverse", "closePeriod", "postDraft", "opening"})
    @@ (r3 :> {"closeYear", "updateAccount", "deleteAccount"})
    @@ (r4 :> {"reopenYear", "reopenPeriod", "deleteDraft"})

\* A post and the deletion of an account.
DeletePlan ==
  (r1 :> {"post"}) @@ (r2 :> {"deleteAccount"}) @@ (r3 :> {}) @@ (r4 :> {})

MCUserOf == [r \in Req |-> IF r \in {r1, r3} THEN alice ELSE bob]
=============================================================================
