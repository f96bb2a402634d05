----------------------------- MODULE MCReports ------------------------------
(***************************************************************************)
(* The reports over the small general ledger: one of its requests may be a  *)
(* report on the second period.                                             *)
(***************************************************************************)
EXTENDS MCGeneralLedger, Reports

MCPeriodNo == ("2025-11" :> 1) @@ ("2025-12" :> 2) @@ ("2026-01" :> 3)
MCRanges == {<<"2025-12", "2025-12">>}
=============================================================================
