---------------------------- MODULE MCBackOffice ----------------------------
(***************************************************************************)
(* A small instance: two administrators, one open session, the whole seeded *)
(* chart, and four requests in one of five scenes.                          *)
(***************************************************************************)
EXTENDS BackOffice, TLC

CONSTANTS r1, r2, r3, r4, ann, ben, t0, e1, e2, e3

MCEmailOf == (ann :> e1) @@ (ben :> e2)
MCChanges == {[Keep EXCEPT !.role = "STAFF"], [Keep EXCEPT !.active = "no"],
              [Keep EXCEPT !.role = "ADMIN", !.active = "yes"]}
MCIssued == t0 :> ann

MCInputs ==
  [account |-> {Leaf("1-1900", "ASSET", "CURRENT_ASSET", "DEBIT", "OPERATING", "NONE", "1-0000"),
                Leaf("1-1910", "ASSET", "TAX_PAYABLE", "DEBIT", "NONE", "NONE", "1-0000"),
                Leaf("1-1920", "ASSET", "CURRENT_ASSET", "DEBIT", "NONE", "AR_CONTROL", "1-0000"),
                Leaf("1-1930", "ASSET", "CURRENT_ASSET", "DEBIT", "NONE", "NONE", "1-1000")},
   taxCode |-> {[code |-> "PPN-OUT-12", kind |-> "PPN_OUTPUT", rate |-> 12, account |-> "2-1100"],
                [code |-> "PPN-IN-12", kind |-> "PPN_INPUT", rate |-> 12, account |-> "2-1100"],
                [code |-> "PPN-ALL", kind |-> "PPN_OUTPUT", rate |-> 100, account |-> "2-1100"]},
   partner |-> {[code |-> "P1", isCustomer |-> TRUE, isVendor |-> FALSE],
                [code |-> "P2", isCustomer |-> FALSE, isVendor |-> FALSE]}]

\* Administrators change and delete each other while passwords change.
UsersScene ==
  (r1 :> {"updateUser", "removeUser"}) @@ (r2 :> {"updateUser", "removeUser"})
    @@ (r3 :> {"changePassword", "resetPassword"}) @@ (r4 :> {})

\* Two creations race, with the deletion of a user whose address they may take.
CreationScene ==
  (r1 :> {"removeUser"}) @@ (r2 :> {"createUser"}) @@ (r3 :> {"createUser"}) @@ (r4 :> {})

\* One session is refreshed, replayed, logged out and reset at once.
SessionsScene ==
  (r1 :> {"refresh"}) @@ (r2 :> {"refresh", "login"})
    @@ (r3 :> {"refresh", "logout", "logoutAll"}) @@ (r4 :> {})

\* Two instances boot while the first to be ready already serves.
SeedScene ==
  (r1 :> {"boot"}) @@ (r2 :> {"boot"}) @@ (r3 :> {"createRow", "setActive", "deleteRow"})
    @@ (r4 :> {"createRow", "deleteRow"})

\* Years are generated while the start month changes.
CalendarScene ==
  (r1 :> {"boot"}) @@ (r2 :> {"generate", "updateCompany"})
    @@ (r3 :> {"generate", "updateCompany"}) @@ (r4 :> {"generate"})

MCScenes == {UsersScene, CreationScene, SessionsScene, SeedScene, CalendarScene}
=============================================================================
