----------------------------- MODULE BackOffice -----------------------------
(***************************************************************************)
(* The services around the ledger in one system: instances boot and seed    *)
(* the database while others already serve requests that administer users,  *)
(* sessions, master data and the calendar.                                  *)
(***************************************************************************)
EXTENDS Sessions, MasterData, FiscalCalendar

CONSTANT Scenes    \* each scene gives every request the operations it may be

ASSUME ScenesAssumption == \A s \in Scenes : DOMAIN s = Req

VARIABLE scene     \* the scene that is played, fixed at the start

officeVars == <<vars, masterVars, calendarVars, scene>>

OfficeInit ==
  /\ Init
  /\ MasterInit
  /\ CalendarInit
  /\ scene \in Scenes

\* onModuleInit of the services of one instance, in the order of their modules:
\* company settings, accounts, tax codes, periods.
Boot(r) ==
  /\ Starts(r, "boot", "findCompany")
  /\ UNCHANGED <<userVars, sessionVars, masterVars, calendarVars>>

BootStep(r) ==
  \/ (FindCompany(r, "countAccounts") \/ CreateCompany(r, "countAccounts"))
       /\ UNCHANGED masterVars
  \/ SeedStep(r, "currentYear") /\ UNCHANGED calendarVars

\* An instance listens once it has booted.
Serving == \E r \in Req : op[r] = "boot" /\ pc[r] = "done"

OfficeBegin(r) ==
  /\ \/ Boot(r)
     \/ BeginSession(r) /\ UNCHANGED <<masterVars, calendarVars>>
     \/ Serving /\ BeginMasterData(r) /\ UNCHANGED <<userVars, sessionVars, calendarVars>>
     \/ Serving /\ BeginCalendar(r) /\ UNCHANGED <<userVars, sessionVars, masterVars>>
  /\ op'[r] \in scene[r]

OfficeStep(r) ==
  \/ SessionStep(r) /\ UNCHANGED <<masterVars, calendarVars>>
  \/ BootStep(r) /\ UNCHANGED <<userVars, sessionVars>>
  \/ MasterDataStep(r) /\ UNCHANGED <<userVars, sessionVars, calendarVars>>
  \/ CalendarStep(r) /\ UNCHANGED <<userVars, sessionVars, masterVars>>

OfficeAbort(r) == AbortSession(r) /\ UNCHANGED <<masterVars, calendarVars>>

\* Tokens expire in the scenes that use them.
OfficeClock ==
  /\ \E r \in Req : "refresh" \in scene[r]
  /\ SessionClock
  /\ UNCHANGED <<masterVars, calendarVars>>

OfficeIdle == (\A r \in Req : ~Running(r)) /\ UNCHANGED officeVars

OfficeNext ==
  \/ /\ (\E r \in Req : OfficeBegin(r) \/ OfficeStep(r) \/ OfficeAbort(r)) \/ OfficeClock
     /\ UNCHANGED scene
  \/ OfficeIdle

\* Safety only: nothing here waits for anything but the pool of administrators and
\* the rows of tokens, and PostgreSQL breaks a wait cycle by ending a transaction.
OfficeSpec == OfficeInit /\ [][OfficeNext]_officeVars

\* The unique indexes are the real guard behind the lookups of create: whatever
\* races, no two live users share an address, no two live rows a code, and no two
\* accounts, deleted or not, a singleton role.
KeysUnique == EmailsUnique /\ CodesUnique /\ RolesHeldOnce

\* softDelete and tombstoneDelete are final: a user, account, tax code or partner
\* that was deleted is never changed again or revived, whatever had read it before.
DeletedIsFinal ==
  [][/\ \A u \in UserId : user[u].state = "deleted" => user'[u] = user[u]
     /\ \A x \in rows : ~x.live => x \in rows']_officeVars
=============================================================================
