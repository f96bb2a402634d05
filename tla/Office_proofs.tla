---------------------------- MODULE Office_proofs ----------------------------
(***************************************************************************)
(* The services around the ledger, for any number of requests, users,       *)
(* tokens and booting instances: users and sessions, the fiscal calendar,   *)
(* the seeded tables.                                                        *)
(***************************************************************************)
EXTENDS BackOffice, FiniteSetTheorems, FunctionTheorems, TLAPS

-----------------------------------------------------------------------------
(* Users and sessions: the inductive invariant. *)

\* Nothing carries the id of a request before it has ended well.
Unborn(r) ==
  pc[r] # "done" =>
    /\ token[r].status = "none"
    /\ user[r].state = "none" /\ user[r].email = Null
    /\ \A t \in Token : token[t].family # r

\* The token a request presents; the one it rotates is active, and locked.
Presents(r) ==
  /\ pc[r] \in {"lockToken", "rotate", "scanFamily"} => tok[r] \in Token
  /\ pc[r] = "rotate" => token[tok[r]].status = "ACTIVE" /\ TokenLock(tok[r]) \in held[r]

\* The user a request changes; what it has counted holds while it has the lock.
Administers(r) ==
  /\ pc[r] = "insertUser" => dto[r].role \in Roles /\ dto[r].email \in Emails
  /\ pc[r] = "setPassword" => tgt[r] \in UserId
  /\ pc[r] \in {"lockPool", "readTarget", "countAdmins", "writeUser"} =>
       tgt[r] \in UserId /\ op[r] \in {"updateUser", "removeUser"}
  /\ pc[r] \in {"readTarget", "countAdmins", "writeUser"} => PoolLock \in held[r]
  /\ pc[r] \in {"countAdmins", "writeUser"} => Live(tgt[r])
  /\ pc[r] = "writeUser" /\ LeavesAdminPool(r) =>
       \E u \in UserId \ {tgt[r]} : ActiveAdmin(u)

\* The unique index on email, tombstones included.
EmailIndex ==
  /\ \A u \in UserId : user[u].state # "none" => user[u].email # Null
  /\ \A u \in UserId : user[u].email \in UserId => user[u].email = u
  /\ \A u, v \in UserId : user[u].email # Null /\ user[u].email = user[v].email => u = v

SessionInv ==
  /\ TypeOK
  /\ LocksCompatible
  /\ \A r \in Req : Unborn(r) /\ Presents(r) /\ Administers(r)
  /\ EmailIndex
  /\ AdminRemains
  /\ OneActivePerFamily

\* A request of the other services, seen from here.
Elsewhere(r) ==
  /\ pc[r] # "done"
  /\ pc' \in [Req -> Labels] /\ pc'[r] \notin SessionLabels
  /\ op' \in [Req -> Operations]
  /\ \A q \in Req \ {r} : pc'[q] = pc[q] /\ op'[q] = op[q]
  /\ UNCHANGED held \/ ReleaseAll(r)
  /\ UNCHANGED <<userVars, sessionVars>>

\* What the other requests know of themselves does not change.
OfficeFrame(r) ==
  \A q \in Req \ {r} :
    /\ pc'[q] = pc[q] /\ op'[q] = op[q]
    /\ tgt'[q] = tgt[q] /\ dto'[q] = dto[q] /\ tok'[q] = tok[q]
    /\ held'[q] = held[q]

\* What r may take from others, and only where no other holds the lock.
Yields(r) ==
  /\ \A t \in Token :
       token[t].status = "ACTIVE" => token'[t].status = "ACTIVE" \/ CanLock(r, TokenLock(t))
  /\ \A u \in UserId :
       Live(u) =>
         \/ user'[u].state = "live" /\ user'[u].role = user[u].role /\ user'[u].active = user[u].active
         \/ CanLock(r, PoolLock)

\* The database as it is before any request.
LEMMA SessionInit_Inv == OfficeInit => SessionInv
<1> SUFFICES ASSUME OfficeInit PROVE SessionInv
  OBVIOUS
<1>0. Init /\ RequestsInit /\ UserInit /\ SessionInit
  BY DEF OfficeInit, Init
<1>1. TypeOK
  <2>1. user \in [UserId -> UserRow]
    BY <1>0, UserAdminAssumption DEF UserInit, UserRow, UserId, NewUser, Roles
  <2>2. token \in [Token -> TokenRow]
    BY <1>0, SessionsAssumption DEF SessionInit, Token, TokenRow, NoToken, UserId
  <2>3. tgt \in [Req -> UserId \cup {Null}] /\ dto \in [Req -> Dto]
    BY <1>0 DEF UserInit, Keep, Dto, Roles
  <2>4. /\ pc \in [Req -> Labels] /\ op \in [Req -> Operations] /\ expired \subseteq Token
        /\ tok \in [Req -> Token \cup {Null}] /\ scan \in [Req -> SUBSET Token]
        /\ held \in [Req -> SUBSET ({PoolLock} \cup {TokenLock(t) : t \in Token})]
    BY <1>0 DEF RequestsInit, SessionInit, Labels, Operations
  <2> QED BY <2>1, <2>2, <2>3, <2>4 DEF TypeOK
<1>2. LocksCompatible
  BY <1>0 DEF RequestsInit, LocksCompatible
<1>3. ASSUME NEW r \in Req PROVE Unborn(r) /\ Presents(r) /\ Administers(r)
  <2>1. r \notin DOMAIN Issued /\ r \notin Seeded /\ r # Null
    BY SessionsAssumption, UserAdminAssumption
  <2>2. token[r].status = "none" /\ \A t \in Token : token[t].family # r
    BY <1>0, <2>1 DEF SessionInit, Token, NoToken
  <2>3. user[r].state = "none" /\ user[r].email = Null
    BY <1>0, <2>1 DEF UserInit, UserId
  <2>4. pc[r] = "start"
    BY <1>0 DEF RequestsInit
  <2> QED BY <2>2, <2>3, <2>4 DEF Unborn, Presents, Administers
<1>4. /\ \A u \in Seeded : user[u].email = EmailOf[u] /\ ActiveAdmin(u)
      /\ \A u \in UserId \ Seeded : user[u].email = Null /\ user[u].state = "none"
  BY <1>0 DEF UserInit, UserId, NewUser, ActiveAdmin, Live
<1>5. EmailIndex
  BY <1>4, UserAdminAssumption DEF EmailIndex, UserId
<1>6. AdminRemains
  BY <1>4, UserAdminAssumption DEF AdminRemains, UserId
<1>7. OneActivePerFamily
  BY <1>0 DEF SessionInit, NoToken, OneActivePerFamily
<1> QED BY <1>1, <1>2, <1>3, <1>5, <1>6, <1>7 DEF SessionInv

\* Every step is a step of this part, or one of a request of the other services.
LEMMA OfficeSplit ==
  ASSUME TypeOK, [OfficeNext]_officeVars
  PROVE  [Next]_vars \/ \E r \in Req : Elsewhere(r)
<1> USE DEF TypeOK
<1>1. ASSUME NEW r \in Req, NEW l \in Labels \ SessionLabels, pc[r] # "done",
             \/ Continues(r, l) \/ Finishes(r, l) \/ \E o \in Operations : Starts(r, o, l),
             UNCHANGED <<userVars, sessionVars>>
      PROVE  Elsewhere(r)
  BY <1>1 DEF Elsewhere, Continues, Finishes, Starts
<1>2. ASSUME NEW r \in Req, BootStep(r) /\ UNCHANGED <<userVars, sessionVars>> PROVE Elsewhere(r)
  <2>1. pc[r] # "done" /\ \E l \in Labels \ SessionLabels : Continues(r, l) \/ Finishes(r, l)
    BY <1>2 DEF BootStep, FindCompany, CreateCompany, SeedStep, CountRows, InsertSeed, SessionLabels, OtherLabels, Labels
  <2> QED BY <1>1, <1>2, <2>1
<1>3. ASSUME NEW r \in Req, MasterDataStep(r) /\ UNCHANGED <<userVars, sessionVars>> PROVE Elsewhere(r)
  <2>1. pc[r] # "done" /\ \E l \in Labels \ SessionLabels : Continues(r, l) \/ Finishes(r, l)
    BY <1>3 DEF MasterDataStep, InsertRow, ChangeRow, SessionLabels, OtherLabels, Labels
  <2> QED BY <1>1, <1>3, <2>1
<1>4. ASSUME NEW r \in Req, CalendarStep(r) /\ UNCHANGED <<userVars, sessionVars>> PROVE Elsewhere(r)
  <2>1. pc[r] # "done" /\ \E l \in Labels \ SessionLabels : Continues(r, l) \/ Finishes(r, l)
    BY <1>4 DEF CalendarStep, CurrentYear, ListPeriods, ReadStart, CreatePeriods, SessionLabels, OtherLabels, Labels
  <2> QED BY <1>1, <1>4, <2>1
<1>5. ASSUME NEW r \in Req, Boot(r) PROVE Elsewhere(r)
  <2>1. Starts(r, "boot", "findCompany") /\ UNCHANGED <<userVars, sessionVars>>
    BY <1>5 DEF Boot
  <2>2. pc[r] # "done" /\ "findCompany" \in Labels \ SessionLabels /\ "boot" \in Operations
    BY <2>1 DEF Starts, SessionLabels, OtherLabels, Labels, Operations
  <2> QED BY <1>1, <2>1, <2>2
<1>6. ASSUME NEW r \in Req, BeginMasterData(r) /\ UNCHANGED <<userVars, sessionVars>> PROVE Elsewhere(r)
  <2>1. pc[r] # "done" /\ \E l \in Labels \ SessionLabels, o \in Operations : Starts(r, o, l)
    BY <1>6 DEF BeginMasterData, BeginCreateRow, BeginChangeRow, SessionLabels, OtherLabels, Labels, Operations, Starts
  <2> QED BY <1>1, <1>6, <2>1
<1>7. ASSUME NEW r \in Req, BeginCalendar(r) /\ UNCHANGED <<userVars, sessionVars>> PROVE Elsewhere(r)
  <2>1. pc[r] # "done" /\ \E l \in Labels \ SessionLabels, o \in Operations : Starts(r, o, l)
    BY <1>7 DEF BeginCalendar, UpdateCompany, BeginGenerate, SessionLabels, OtherLabels, Labels, Operations, Starts
  <2> QED BY <1>1, <1>7, <2>1
<1>8. CASE UNCHANGED officeVars
  BY <1>8 DEF officeVars
<1>9. ASSUME NEW r \in Req, OfficeBegin(r) \/ OfficeStep(r) \/ OfficeAbort(r)
      PROVE  Next \/ Elsewhere(r)
  BY <1>2, <1>3, <1>4, <1>5, <1>6, <1>7, <1>9 DEF OfficeBegin, OfficeStep, OfficeAbort, Next
<1> QED
  BY <1>8, <1>9 DEF OfficeNext, OfficeIdle, OfficeClock, Next

-----------------------------------------------------------------------------
(* Users and sessions: rely and guarantee. *)

\* A step of r that yields leaves the other requests what they know.
LEMMA OthersKnow ==
  ASSUME SessionInv, NEW r \in Req, OfficeFrame(r), Yields(r), NEW q \in Req, q # r
  PROVE  Presents(q)' /\ Administers(q)'
<1>0. Presents(q) /\ Administers(q) /\ TypeOK
  BY DEF SessionInv
<1>1. /\ pc'[q] = pc[q] /\ op'[q] = op[q] /\ tgt'[q] = tgt[q] /\ dto'[q] = dto[q]
      /\ tok'[q] = tok[q] /\ held'[q] = held[q]
  BY DEF OfficeFrame
<1>2. Presents(q)'
  <2>1. CASE pc[q] = "rotate"
    <3>1. tok[q] \in Token /\ token[tok[q]].status = "ACTIVE" /\ TokenLock(tok[q]) \in held[q]
      BY <1>0, <2>1 DEF Presents
    <3>2. ~CanLock(r, TokenLock(tok[q]))
      BY <3>1 DEF CanLock, Conflict, TokenLock, Exclusive
    <3>3. token'[tok[q]].status = "ACTIVE"
      BY <3>1, <3>2 DEF Yields
    <3> QED BY <1>1, <3>1, <3>3 DEF Presents, TokenLock
  <2>2. CASE pc[q] # "rotate"
    BY <1>0, <1>1, <2>2 DEF Presents
  <2> QED BY <2>1, <2>2
<1>3. Administers(q)'
  <2>1. CASE pc[q] \in {"countAdmins", "writeUser"}
    <3>1. tgt[q] \in UserId /\ PoolLock \in held[q] /\ Live(tgt[q])
      BY <1>0, <2>1 DEF Administers
    <3>2. ~CanLock(r, PoolLock)
      BY <3>1 DEF CanLock, Conflict, PoolLock, Exclusive
    <3>3. \A u \in UserId : Live(u) =>
            user'[u].state = "live" /\ user'[u].role = user[u].role /\ user'[u].active = user[u].active
      BY <3>2 DEF Yields
    <3>4. Live(tgt[q])' /\ (ActiveAdmin(tgt[q])' <=> ActiveAdmin(tgt[q]))
      BY <1>1, <3>1, <3>3 DEF Live, ActiveAdmin
    <3>5. \A u \in UserId : ActiveAdmin(u) => ActiveAdmin(u)'
      BY <3>3 DEF Live, ActiveAdmin
    <3>6. LeavesAdminPool(q)' => LeavesAdminPool(q)
      BY <1>1, <3>4 DEF LeavesAdminPool
    <3>7. pc[q] = "writeUser" /\ LeavesAdminPool(q) => \E u \in UserId \ {tgt[q]} : ActiveAdmin(u)'
      BY <1>0, <3>5 DEF Administers
    <3> QED BY <1>0, <1>1, <2>1, <3>1, <3>4, <3>6, <3>7 DEF Administers, PoolLock
  <2>2. CASE pc[q] \notin {"countAdmins", "writeUser"}
    BY <1>0, <1>1, <2>2 DEF Administers, PoolLock
  <2> QED BY <2>1, <2>2
<1> QED BY <1>2, <1>3

\* A step that changes neither table.
LEMMA TablesSame ==
  ASSUME SessionInv, NEW r \in Req, OfficeFrame(r), UNCHANGED <<user, token>>, pc[r] # "done",
         TypeOK', LocksCompatible', Presents(r)', Administers(r)'
  PROVE  SessionInv'
<1>1. Yields(r)
  BY DEF Yields, Live
<1>2. ASSUME NEW q \in Req PROVE Unborn(q)' /\ Presents(q)' /\ Administers(q)'
  <2>1. Unborn(q)'
    BY DEF SessionInv, Unborn, OfficeFrame
  <2> QED BY <1>1, <2>1, OthersKnow
<1>3. EmailIndex' /\ AdminRemains' /\ OneActivePerFamily'
  BY DEF SessionInv, EmailIndex, AdminRemains, ActiveAdmin, Live, OneActivePerFamily
<1> QED BY <1>2, <1>3 DEF SessionInv

\* The locks stay compatible when one is granted or all of r's are released.
LEMMA GrantCompatible ==
  ASSUME held \in [Req -> SUBSET ({PoolLock} \cup {TokenLock(t) : t \in Token})],
         LocksCompatible, NEW r \in Req, NEW l, Acquire(r, l)
  PROVE  LocksCompatible' /\ \A q \in Req \ {r} : held'[q] = held[q]
<1>1. held'[r] = held[r] \cup {l} /\ \A q \in Req \ {r} : held'[q] = held[q]
  BY DEF Acquire
<1>2. ASSUME NEW q \in Req \ {r}, NEW k \in held[q] PROVE ~Conflict(k, l) /\ ~Conflict(l, k)
  BY DEF Acquire, CanLock, Conflict
<1>3. ASSUME NEW p \in Req, NEW q \in Req, p # q, NEW k \in held'[p], NEW m \in held'[q]
      PROVE  ~Conflict(k, m)
  <2>1. CASE p # r /\ q # r
    BY <1>1, <1>3, <2>1 DEF LocksCompatible
  <2>2. CASE p = r
    BY <1>1, <1>2, <1>3, <2>2 DEF LocksCompatible
  <2>3. CASE q = r
    BY <1>1, <1>2, <1>3, <2>3 DEF LocksCompatible
  <2> QED BY <2>1, <2>2, <2>3
<1> QED BY <1>1, <1>3 DEF LocksCompatible

LEMMA ReleaseAllCompatible ==
  ASSUME held \in [Req -> SUBSET ({PoolLock} \cup {TokenLock(t) : t \in Token})],
         LocksCompatible, NEW r \in Req, ReleaseAll(r)
  PROVE  /\ LocksCompatible' /\ \A q \in Req \ {r} : held'[q] = held[q]
         /\ held' \in [Req -> SUBSET ({PoolLock} \cup {TokenLock(t) : t \in Token})]
BY DEF LocksCompatible, ReleaseAll

\* The requests of the other services.
LEMMA ElsewhereInv ==
  ASSUME SessionInv, NEW r \in Req, Elsewhere(r)
  PROVE  SessionInv'
<1>0. TypeOK /\ LocksCompatible
  BY DEF SessionInv
<1>1. /\ LocksCompatible' /\ \A q \in Req \ {r} : held'[q] = held[q]
      /\ held' \in [Req -> SUBSET ({PoolLock} \cup {TokenLock(t) : t \in Token})]
  <2>1. CASE UNCHANGED held
    BY <1>0, <2>1 DEF LocksCompatible, TypeOK
  <2>2. CASE ReleaseAll(r)
    BY <1>0, <2>2, ReleaseAllCompatible DEF TypeOK
  <2> QED BY <2>1, <2>2 DEF Elsewhere
<1>2. TypeOK'
  BY <1>0, <1>1 DEF TypeOK, Elsewhere, userVars, sessionVars
<1>3. OfficeFrame(r)
  BY <1>1 DEF OfficeFrame, Elsewhere, userVars, sessionVars
<1>4. Presents(r)' /\ Administers(r)'
  BY DEF Elsewhere, SessionLabels, Presents, Administers
<1> QED BY <1>1, <1>2, <1>3, <1>4, TablesSame DEF Elsewhere, userVars, sessionVars

-----------------------------------------------------------------------------
(* Users and sessions: one lemma per group of actions. *)

\* A request arrives; only resetPassword has written anything yet.
LEMMA BeginSessionInv ==
  ASSUME SessionInv, NEW r \in Req, BeginSession(r), ~(ResetPassword(r) /\ UNCHANGED sessionVars)
  PROVE  SessionInv'
<1>0. TypeOK /\ LocksCompatible
  BY DEF SessionInv
<1> USE DEF TypeOK
<1>a. \A t \in Token : token[t].status # "none" => t \in Token
  OBVIOUS
<1>1. ASSUME NEW o \in Operations, NEW l \in Labels, Starts(r, o, l),
             NEW u \in UserId, NEW d \in Dto, Takes(r, u, d), UNCHANGED <<user, sessionVars>>,
             l \in {"insertUser", "lockPool", "setPassword", "issue", "revokeUser"},
             l = "insertUser" => d.role \in Roles /\ d.email \in Emails,
             l = "lockPool" => o \in {"updateUser", "removeUser"}
      PROVE  SessionInv'
  <2>1. /\ pc[r] = "start" /\ pc'[r] = l /\ op'[r] = o /\ tgt'[r] = u /\ dto'[r] = d
        /\ UNCHANGED <<held, token, tok, scan, expired>>
    BY <1>0, <1>1 DEF Starts, Takes, sessionVars
  <2>2. OfficeFrame(r)
    BY <1>0, <1>1 DEF Starts, Takes, sessionVars, OfficeFrame
  <2>3. TypeOK'
    BY <1>0, <1>1 DEF Starts, Takes, sessionVars
  <2>4. LocksCompatible'
    BY <1>0, <2>1 DEF LocksCompatible
  <2>5. Presents(r)' /\ Administers(r)'
    BY <1>1, <2>1 DEF Presents, Administers
  <2> HIDE DEF TypeOK
  <2> QED BY <1>1, <2>1, <2>2, <2>3, <2>4, <2>5, TablesSame
<1>2. ASSUME NEW o \in Operations, NEW l \in {"lockToken", "scanFamily"}, Starts(r, o, l),
             NEW t \in Token, tok' = [tok EXCEPT ![r] = t], UNCHANGED <<userVars, token, expired, scan>>
      PROVE  SessionInv'
  <2>1. pc[r] = "start" /\ pc'[r] = l /\ tok'[r] = t /\ l \in Labels /\ UNCHANGED <<held, user, token>>
    BY <1>0, <1>2 DEF Starts, Labels, SessionLabels, userVars
  <2>2. OfficeFrame(r)
    BY <1>0, <1>2 DEF Starts, userVars, OfficeFrame
  <2>3. TypeOK'
    BY <1>0, <1>2, <2>1 DEF Starts, userVars
  <2>4. LocksCompatible'
    BY <1>0, <2>1 DEF LocksCompatible
  <2>5. Presents(r)' /\ Administers(r)'
    BY <1>2, <2>1 DEF Presents, Administers
  <2> HIDE DEF TypeOK
  <2> QED BY <2>1, <2>2, <2>3, <2>4, <2>5, TablesSame
<1> HIDE DEF TypeOK
<1>3. Keep \in Dto /\ Changes \subseteq Dto
  BY UserAdminAssumption DEF Keep, Dto, Roles
<1>4. /\ {"createUser", "updateUser", "removeUser", "changePassword", "login", "refresh", "logout",
          "logoutAll"} \subseteq Operations
      /\ {"insertUser", "lockPool", "setPassword", "issue", "revokeUser"} \subseteq Labels
  BY DEF Operations, Labels, SessionLabels
<1>5. CASE BeginCreateUser(r) /\ UNCHANGED sessionVars
  <2> DEFINE d(role, e) == [Keep EXCEPT !.role = role, !.email = e]
  <2>1. \A role \in Roles, e \in Emails :
          d(role, e) \in Dto /\ d(role, e).role = role /\ d(role, e).email = e
    BY DEF Keep, Dto
  <2>2. \E e \in Emails, role \in Roles :
          Starts(r, "createUser", "insertUser") /\ Takes(r, r, d(role, e)) /\ UNCHANGED user
    BY <1>5, Zenon DEF BeginCreateUser
  <2>3. r \in UserId
    BY DEF UserId
  <2> HIDE DEF d
  <2> QED BY <1>1, <1>4, <1>5, <2>1, <2>2, <2>3
<1>6. CASE BeginUpdateUser(r) /\ UNCHANGED sessionVars
  <2>1. PICK u \in Known, d \in Changes :
          Starts(r, "updateUser", "lockPool") /\ Takes(r, u, d) /\ UNCHANGED user
    BY <1>6 DEF BeginUpdateUser
  <2>2. u \in UserId /\ d \in Dto
    BY <1>3 DEF Known
  <2> QED BY <1>1, <1>4, <1>6, <2>1, <2>2
<1>7. CASE BeginRemoveUser(r) /\ UNCHANGED sessionVars
  <2>1. PICK u \in Known : Starts(r, "removeUser", "lockPool") /\ Takes(r, u, Keep) /\ UNCHANGED user
    BY <1>7 DEF BeginRemoveUser
  <2>2. u \in UserId
    BY DEF Known
  <2> QED BY <1>1, <1>3, <1>4, <1>7, <2>1, <2>2
<1>8. CASE BeginChangePassword(r) /\ UNCHANGED sessionVars
  BY <1>1, <1>3, <1>4, <1>8 DEF BeginChangePassword
<1>9. CASE BeginLogin(r)
  BY <1>1, <1>3, <1>4, <1>9 DEF BeginLogin
<1>10. CASE BeginLogoutAll(r)
  BY <1>1, <1>3, <1>4, <1>10 DEF BeginLogoutAll
<1>11. CASE BeginRefresh(r)
  <2>1. PICK t \in Stored : Starts(r, "refresh", "lockToken") /\ tok' = [tok EXCEPT ![r] = t]
                            /\ UNCHANGED <<userVars, token, expired, scan>>
    BY <1>11 DEF BeginRefresh
  <2> QED BY <1>2, <1>4, <2>1 DEF Stored
<1>12. CASE BeginLogout(r)
  <2>1. PICK t \in Stored : Starts(r, "logout", "scanFamily") /\ tok' = [tok EXCEPT ![r] = t]
                            /\ UNCHANGED <<userVars, token, expired, scan>>
    BY <1>12 DEF BeginLogout
  <2> QED BY <1>2, <1>4, <2>1 DEF Stored
<1> QED
  BY <1>5, <1>6, <1>7, <1>8, <1>9, <1>10, <1>11, <1>12 DEF BeginSession, BeginUserAdmin

\* What a step of r does to the requests themselves, its locks and what they hold.
RequestsFit(r) ==
  /\ tgt' \in [Req -> UserId \cup {Null}] /\ dto' \in [Req -> Dto]
  /\ pc' \in [Req -> Labels] /\ op' \in [Req -> Operations]
  /\ tok' \in [Req -> Token \cup {Null}] /\ scan' \in [Req -> SUBSET Token]
  /\ held' \in [Req -> SUBSET ({PoolLock} \cup {TokenLock(t) : t \in Token})]
  /\ LocksCompatible'
  /\ OfficeFrame(r)

\* A transaction that ends.
LEMMA EndsFit ==
  ASSUME SessionInv, NEW r \in Req, NEW l \in {"done", "failed", "revokeUser"}, Finishes(r, l),
         Forgets(r) \/ UNCHANGED <<tgt, dto, tok, scan>>
  PROVE  RequestsFit(r) /\ pc'[r] = l /\ Presents(r)' /\ Administers(r)'
<1>0. TypeOK /\ LocksCompatible
  BY DEF SessionInv
<1>1. /\ LocksCompatible' /\ \A q \in Req \ {r} : held'[q] = held[q]
      /\ held' \in [Req -> SUBSET ({PoolLock} \cup {TokenLock(t) : t \in Token})]
  BY <1>0, ReleaseAllCompatible DEF TypeOK, Finishes
<1>2. Keep \in Dto
  BY DEF Keep, Dto
<1>3. /\ tgt' \in [Req -> UserId \cup {Null}] /\ dto' \in [Req -> Dto]
      /\ tok' \in [Req -> Token \cup {Null}] /\ scan' \in [Req -> SUBSET Token]
      /\ \A q \in Req \ {r} : tgt'[q] = tgt[q] /\ dto'[q] = dto[q] /\ tok'[q] = tok[q]
  BY <1>0, <1>2 DEF TypeOK, Forgets, Takes
<1>4. /\ pc' \in [Req -> Labels] /\ op' \in [Req -> Operations] /\ pc'[r] = l
      /\ \A q \in Req \ {r} : pc'[q] = pc[q] /\ op'[q] = op[q]
  BY <1>0 DEF TypeOK, Finishes, Labels, SessionLabels
<1>5. Presents(r)' /\ Administers(r)'
  BY <1>4 DEF Presents, Administers
<1> QED BY <1>1, <1>3, <1>4, <1>5 DEF RequestsFit, OfficeFrame

\* A request that goes on without taking a lock.
LEMMA GoesOnFit ==
  ASSUME SessionInv, NEW r \in Req, NEW l \in Labels, Continues(r, l),
         UNCHANGED <<tgt, dto, tok>>, scan' \in [Req -> SUBSET Token]
  PROVE  RequestsFit(r) /\ pc'[r] = l
<1>0. TypeOK /\ LocksCompatible
  BY DEF SessionInv
<1>1. LocksCompatible' /\ UNCHANGED held
  BY <1>0 DEF LocksCompatible, Continues
<1> QED BY <1>0, <1>1 DEF TypeOK, RequestsFit, OfficeFrame, Continues

\* A request that is granted a lock.
LEMMA GrantFit ==
  ASSUME SessionInv, NEW r \in Req, NEW l \in Labels, pc' = [pc EXCEPT ![r] = l], UNCHANGED op,
         NEW k \in {PoolLock} \cup {TokenLock(t) : t \in Token}, Acquire(r, k),
         UNCHANGED <<tgt, dto, tok, scan>>
  PROVE  RequestsFit(r) /\ pc'[r] = l /\ k \in held'[r]
<1>0. TypeOK /\ LocksCompatible
  BY DEF SessionInv
<1>1. LocksCompatible' /\ \A q \in Req \ {r} : held'[q] = held[q]
  BY <1>0, GrantCompatible DEF TypeOK
<1>2. /\ held' \in [Req -> SUBSET ({PoolLock} \cup {TokenLock(t) : t \in Token})]
      /\ k \in held'[r]
  BY <1>0 DEF TypeOK, Acquire
<1> QED BY <1>0, <1>1, <1>2 DEF TypeOK, RequestsFit, OfficeFrame

\* Steps that only read.
LEMMA ReadsInv ==
  ASSUME SessionInv, NEW r \in Req, RequestsFit(r), pc[r] # "done", UNCHANGED <<user, token, expired>>,
         Presents(r)', Administers(r)'
  PROVE  SessionInv'
<1>1. TypeOK' /\ LocksCompatible' /\ OfficeFrame(r)
  BY DEF RequestsFit, TypeOK, SessionInv
<1> QED BY <1>1, TablesSame

\* Steps that write users ...
LEMMA UsersInv ==
  ASSUME SessionInv, NEW r \in Req, RequestsFit(r), pc[r] # "done", UNCHANGED <<token, expired>>,
         Presents(r)', Administers(r)',
         user' \in [UserId -> UserRow], EmailIndex', AdminRemains',
         \A q \in Req \ {r} : pc[q] # "done" => user'[q] = user[q],
         pc'[r] = "done" \/ user'[r] = user[r],
         CanLock(r, PoolLock) \/ \A u \in UserId : Live(u) =>
           user'[u].state = "live" /\ user'[u].role = user[u].role /\ user'[u].active = user[u].active
  PROVE  SessionInv'
<1>1. TypeOK' /\ LocksCompatible' /\ OfficeFrame(r)
  BY DEF RequestsFit, TypeOK, SessionInv
<1>2. Yields(r)
  BY DEF Yields
<1>3. ASSUME NEW q \in Req PROVE Unborn(q)' /\ Presents(q)' /\ Administers(q)'
  <2>1. Unborn(q)'
    BY <1>1 DEF SessionInv, Unborn, OfficeFrame
  <2> QED BY <1>1, <1>2, <2>1, OthersKnow
<1>4. OneActivePerFamily'
  BY DEF SessionInv, OneActivePerFamily
<1> QED BY <1>1, <1>3, <1>4 DEF SessionInv

\* ... and steps that write tokens.
LEMMA TokensInv ==
  ASSUME SessionInv, NEW r \in Req, RequestsFit(r), pc[r] # "done", UNCHANGED <<user, expired>>,
         Presents(r)', Administers(r)',
         token' \in [Token -> TokenRow], OneActivePerFamily',
         \A q \in Req \ {r} : pc[q] # "done" =>
           token'[q].status = "none" /\ \A t \in Token : token'[t].family # q,
         pc'[r] = "done" \/ (token'[r].status = "none" /\ \A t \in Token : token'[t].family # r),
         \A t \in Token :
           token[t].status = "ACTIVE" => token'[t].status = "ACTIVE" \/ CanLock(r, TokenLock(t))
  PROVE  SessionInv'
<1>1. TypeOK' /\ LocksCompatible' /\ OfficeFrame(r)
  BY DEF RequestsFit, TypeOK, SessionInv
<1>2. Yields(r)
  BY DEF Yields, Live
<1>3. ASSUME NEW q \in Req PROVE Unborn(q)' /\ Presents(q)' /\ Administers(q)'
  <2>1. Unborn(q)'
    BY <1>1 DEF SessionInv, Unborn, OfficeFrame
  <2> QED BY <1>1, <1>2, <2>1, OthersKnow
<1>4. EmailIndex' /\ AdminRemains'
  BY DEF SessionInv, EmailIndex, AdminRemains, ActiveAdmin, Live
<1> QED BY <1>1, <1>3, <1>4 DEF SessionInv

\* A lock that r holds is one it could take.
LEMMA OwnLock ==
  ASSUME LocksCompatible, NEW r \in Req, NEW c, NEW k, Exclusive(c, k) \in held[r]
  PROVE  CanLock(r, Exclusive(c, k))
BY DEF LocksCompatible, CanLock, Conflict, Exclusive

LEMMA InsertUserInv ==
  ASSUME SessionInv, NEW r \in Req, InsertUser(r), UNCHANGED sessionVars
  PROVE  SessionInv'
<1>0. /\ TypeOK /\ EmailIndex /\ AdminRemains /\ Unborn(r) /\ pc[r] = "insertUser"
      /\ dto[r].role \in Roles /\ dto[r].email \in Emails
      /\ UNCHANGED <<tgt, dto, token, expired, tok, scan>> /\ r \in UserId
  BY DEF SessionInv, Administers, InsertUser, sessionVars, UserId
<1>1. CASE EmailTaken(dto[r].email)
  BY <1>0, <1>1, EndsFit, ReadsInv DEF InsertUser
<1>2. CASE ~EmailTaken(dto[r].email)
  <2> DEFINE n == NewUser(dto[r].email, dto[r].role)
  <2>1. /\ n \in UserRow /\ n.state = "live" /\ n.email = dto[r].email
    BY <1>0 DEF NewUser, UserRow
  <2>2. user' = [user EXCEPT ![r] = n] /\ Finishes(r, "done")
    BY <1>2 DEF InsertUser
  <2> HIDE DEF n
  <2>3. user'[r] = n /\ \A u \in UserId \ {r} : user'[u] = user[u]
    BY <1>0, <2>2 DEF TypeOK
  <2>4. user' \in [UserId -> UserRow]
    BY <1>0, <2>1, <2>2 DEF TypeOK
  <2>5. user[r].state = "none"
    BY <1>0 DEF Unborn
  <2>6. EmailIndex'
    <3>1. \A u \in UserId : user[u].email # n.email
      BY <1>2, <2>1 DEF EmailTaken
    <3>2. n.email # Null /\ n.email \notin UserId
      BY <1>0, <2>1, UserAdminAssumption DEF UserId
    <3> QED BY <1>0, <2>3, <3>1, <3>2 DEF EmailIndex
  <2>7. AdminRemains'
    BY <1>0, <2>3, <2>5 DEF AdminRemains, ActiveAdmin, Live
  <2>8. \A q \in Req \ {r} : user'[q] = user[q]
    BY <2>3 DEF UserId
  <2>9. RequestsFit(r) /\ pc'[r] = "done" /\ Presents(r)' /\ Administers(r)'
    BY <1>0, <2>2, EndsFit
  <2>10. \A u \in UserId : Live(u) =>
           user'[u].state = "live" /\ user'[u].role = user[u].role /\ user'[u].active = user[u].active
    BY <2>3, <2>5 DEF Live
  <2> QED BY <1>0, <2>4, <2>6, <2>7, <2>8, <2>9, <2>10, UsersInv
<1> QED BY <1>1, <1>2

\* The transaction of update and remove, up to its write.
LEMMA PoolInv ==
  ASSUME SessionInv, NEW r \in Req, LockPool(r) \/ ReadTarget(r) \/ CountAdmins(r),
         UNCHANGED sessionVars
  PROVE  SessionInv'
<1>0. TypeOK /\ Administers(r) /\ UNCHANGED <<user, tgt, dto, token, expired, tok, scan>>
  BY DEF SessionInv, sessionVars, LockPool, ReadTarget, CountAdmins, userVars
<1>a. {"readTarget", "countAdmins", "writeUser"} \subseteq Labels /\ scan' \in [Req -> SUBSET Token]
  BY <1>0 DEF Labels, SessionLabels, TypeOK
<1>b. /\ ActiveAdmin(tgt[r])' <=> ActiveAdmin(tgt[r])
      /\ Live(tgt[r])' <=> Live(tgt[r])
      /\ \A u \in UserId : ActiveAdmin(u)' <=> ActiveAdmin(u)
  BY <1>0 DEF ActiveAdmin, Live
<1>1. CASE LockPool(r)
  <2>1. pc[r] = "lockPool" /\ Acquire(r, PoolLock) /\ pc' = [pc EXCEPT ![r] = "readTarget"] /\ UNCHANGED op
    BY <1>1 DEF LockPool
  <2>2. RequestsFit(r) /\ pc'[r] = "readTarget" /\ PoolLock \in held'[r]
    BY <1>0, <1>a, <2>1, GrantFit
  <2>3. Presents(r)' /\ Administers(r)'
    BY <1>0, <2>1, <2>2 DEF Presents, Administers, PoolLock
  <2> QED BY <1>0, <2>1, <2>2, <2>3, ReadsInv
<1>2. CASE ReadTarget(r)
  <2>0. pc[r] = "readTarget" /\ tgt[r] \in UserId /\ op[r] \in {"updateUser", "removeUser"} /\ PoolLock \in held[r]
    BY <1>0, <1>2 DEF ReadTarget, Administers
  <2>1. CASE ~Live(tgt[r])
    BY <1>0, <1>2, <2>0, <2>1, EndsFit, ReadsInv DEF ReadTarget
  <2>2. CASE Live(tgt[r]) /\ LeavesAdminPool(r)
    <3>1. Continues(r, "countAdmins")
      BY <1>2, <2>2 DEF ReadTarget
    <3>2. RequestsFit(r) /\ pc'[r] = "countAdmins"
      BY <1>0, <1>a, <3>1, GoesOnFit
    <3>3. Presents(r)' /\ Administers(r)'
      BY <1>0, <1>b, <2>0, <2>2, <3>1, <3>2 DEF Presents, Administers, PoolLock, Continues
    <3> QED BY <1>0, <2>0, <3>2, <3>3, ReadsInv
  <2>3. CASE Live(tgt[r]) /\ ~LeavesAdminPool(r)
    <3>1. Continues(r, "writeUser")
      BY <1>2, <2>3 DEF ReadTarget
    <3>2. RequestsFit(r) /\ pc'[r] = "writeUser"
      BY <1>0, <1>a, <3>1, GoesOnFit
    <3>3. ~LeavesAdminPool(r)'
      BY <1>0, <1>b, <2>3, <3>1 DEF LeavesAdminPool, Continues
    <3>4. Presents(r)' /\ Administers(r)'
      BY <1>0, <1>b, <2>0, <2>3, <3>1, <3>2, <3>3 DEF Presents, Administers, PoolLock, Continues
    <3> QED BY <1>0, <2>0, <3>2, <3>4, ReadsInv
  <2> QED BY <2>1, <2>2, <2>3
<1>3. CASE CountAdmins(r)
  <2>0. /\ pc[r] = "countAdmins" /\ tgt[r] \in UserId /\ op[r] \in {"updateUser", "removeUser"}
        /\ PoolLock \in held[r] /\ Live(tgt[r])
    BY <1>0, <1>3 DEF CountAdmins, Administers
  <2>1. CASE ~\E u \in UserId \ {tgt[r]} : ActiveAdmin(u)
    BY <1>0, <1>3, <2>0, <2>1, EndsFit, ReadsInv DEF CountAdmins
  <2>2. CASE \E u \in UserId \ {tgt[r]} : ActiveAdmin(u)
    <3>1. Continues(r, "writeUser")
      BY <1>3, <2>2 DEF CountAdmins
    <3>2. RequestsFit(r) /\ pc'[r] = "writeUser"
      BY <1>0, <1>a, <3>1, GoesOnFit
    <3>3. \E u \in UserId \ {tgt'[r]} : ActiveAdmin(u)'
      BY <1>0, <1>b, <2>2
    <3>4. Presents(r)' /\ Administers(r)'
      BY <1>0, <1>b, <2>0, <3>1, <3>2, <3>3 DEF Presents, Administers, PoolLock, Continues
    <3> QED BY <1>0, <2>0, <3>2, <3>4, ReadsInv
  <2> QED BY <2>1, <2>2
<1> QED BY <1>1, <1>2, <1>3

\* The write of update and remove: what the request has counted still holds.
LEMMA WriteUserInv ==
  ASSUME SessionInv, NEW r \in Req, WriteUser(r), UNCHANGED sessionVars
  PROVE  SessionInv'
<1> DEFINE u == tgt[r]
<1>0. /\ TypeOK /\ EmailIndex /\ AdminRemains /\ LocksCompatible /\ pc[r] = "writeUser"
      /\ u \in UserId /\ PoolLock \in held[r] /\ Live(u)
      /\ LeavesAdminPool(r) => \E v \in UserId \ {u} : ActiveAdmin(v)
      /\ UNCHANGED <<tgt, dto, token, expired, tok, scan>> /\ Finishes(r, "revokeUser")
  BY DEF SessionInv, Administers, WriteUser, sessionVars
<1>1. user' = [user EXCEPT ![u] = Written(r)]
  BY DEF WriteUser
<1>2. user[u] \in UserRow /\ dto[r] \in Dto
  BY <1>0 DEF TypeOK
<1>3. Written(r) \in UserRow
  BY <1>0, <1>2 DEF Written, UserRow, Dto, Roles, Overwrite, TombstoneValue
<1>4. IF op[r] = "removeUser"
        THEN Written(r).state = "deleted" /\ Written(r).email = u
        ELSE /\ Written(r).state = user[u].state /\ Written(r).email = user[u].email
             /\ Written(r).role = Overwrite(user[u].role, dto[r].role)
             /\ Written(r).active = Overwrite(user[u].active, dto[r].active)
  BY <1>0, <1>2 DEF Written, TombstoneValue, UserRow
<1> HIDE DEF u
<1>5. user'[u] = Written(r) /\ \A v \in UserId \ {u} : user'[v] = user[v]
  BY <1>0, <1>1 DEF TypeOK
<1>6. user' \in [UserId -> UserRow]
  BY <1>0, <1>1, <1>3 DEF TypeOK
<1>7. EmailIndex'
  <2>1. u # Null
    BY <1>0, UserAdminAssumption DEF UserId
  <2>2. \A v \in UserId : v # u => user[v].email # u
    BY <1>0 DEF EmailIndex
  <2>3. CASE op[r] = "removeUser"
    BY <1>0, <1>4, <1>5, <2>1, <2>2, <2>3 DEF EmailIndex
  <2>4. CASE op[r] # "removeUser"
    <3>1. \A v \in UserId : user'[v].email = user[v].email /\ user'[v].state = user[v].state
      BY <1>4, <1>5, <2>4
    <3> QED BY <1>0, <3>1 DEF EmailIndex
  <2> QED BY <2>3, <2>4
<1>8. AdminRemains'
  <2>1. CASE LeavesAdminPool(r)
    BY <1>0, <1>5, <2>1 DEF AdminRemains, ActiveAdmin, Live
  <2>2. CASE ~LeavesAdminPool(r)
    <3>1. PICK v \in UserId : ActiveAdmin(v)
      BY <1>0 DEF AdminRemains
    <3>2. CASE v # u
      BY <1>5, <3>1, <3>2 DEF AdminRemains, ActiveAdmin, Live
    <3>3. CASE v = u
      <4>1. op[r] # "removeUser" /\ dto[r].role # "STAFF" /\ dto[r].active # "no"
        BY <2>2, <3>1, <3>3 DEF LeavesAdminPool, u
      <4>2. dto[r].role \in {"ADMIN", "keep"} /\ dto[r].active \in {"yes", "keep"}
        BY <1>2, <4>1 DEF Dto, Roles
      <4>3. ActiveAdmin(u)'
        BY <1>0, <1>4, <1>5, <3>1, <3>3, <4>1, <4>2 DEF ActiveAdmin, Live, Overwrite, u
      <4> QED BY <1>0, <4>3 DEF AdminRemains, u
    <3> QED BY <3>2, <3>3
  <2> QED BY <2>1, <2>2
<1>9. \A q \in Req : pc[q] # "done" => user'[q] = user[q]
  <2>1. \A q \in Req : pc[q] # "done" => user[q].state = "none"
    BY DEF SessionInv, Unborn
  <2> QED BY <1>0, <1>5, <2>1 DEF Live, UserId
<1>10. RequestsFit(r) /\ Presents(r)' /\ Administers(r)'
  BY <1>0, EndsFit
<1>11. CanLock(r, PoolLock)
  BY <1>0, OwnLock DEF PoolLock
<1> QED BY <1>0, <1>6, <1>7, <1>8, <1>9, <1>10, <1>11, UsersInv

\* A write of one password flag.
LEMMA PasswordInv ==
  ASSUME SessionInv, NEW r \in Req, pc[r] # "done", RequestsFit(r), Presents(r)', Administers(r)',
         NEW u \in UserId, Live(u), NEW b \in {"yes", "no"},
         user' = [user EXCEPT ![u].pending = b], UNCHANGED <<token, expired>>
  PROVE  SessionInv'
<1>0. TypeOK /\ EmailIndex /\ AdminRemains
  BY DEF SessionInv
<1>1. user' \in [UserId -> UserRow]
  BY <1>0 DEF TypeOK, UserRow
<1>2. \A v \in UserId : /\ user'[v].state = user[v].state /\ user'[v].role = user[v].role
                        /\ user'[v].active = user[v].active /\ user'[v].email = user[v].email
  BY <1>0 DEF TypeOK, UserRow
<1>3. \A v \in UserId \ {u} : user'[v] = user[v]
  BY <1>0 DEF TypeOK
<1>4. EmailIndex' /\ AdminRemains'
  BY <1>0, <1>2 DEF EmailIndex, AdminRemains, ActiveAdmin, Live
<1>5. \A q \in Req : pc[q] # "done" => user'[q] = user[q]
  <2>1. \A q \in Req : pc[q] # "done" => user[q].state = "none"
    BY DEF SessionInv, Unborn
  <2> QED BY <1>3, <2>1 DEF Live, UserId
<1>6. \A v \in UserId : Live(v) =>
        user'[v].state = "live" /\ user'[v].role = user[v].role /\ user'[v].active = user[v].active
  BY <1>2 DEF Live
<1> QED BY <1>1, <1>4, <1>5, <1>6, UsersInv

LEMMA PasswordsInv ==
  ASSUME SessionInv, NEW r \in Req, ResetPassword(r) \/ SetPassword(r), UNCHANGED sessionVars
  PROVE  SessionInv'
<1>0. TypeOK /\ LocksCompatible /\ Administers(r) /\ UNCHANGED <<token, expired, tok, scan>>
  BY DEF SessionInv, sessionVars
<1>1. CASE SetPassword(r)
  <2>0. pc[r] = "setPassword" /\ tgt[r] \in UserId /\ UNCHANGED <<tgt, dto>>
    BY <1>0, <1>1 DEF SetPassword, Administers
  <2>1. CASE ~Live(tgt[r])
    BY <1>0, <1>1, <2>0, <2>1, EndsFit, ReadsInv DEF SetPassword
  <2>2. CASE Live(tgt[r])
    <3>1. user' = [user EXCEPT ![tgt[r]].pending = "no"] /\ Continues(r, "revokeUser")
      BY <1>1, <2>2 DEF SetPassword
    <3>2. RequestsFit(r) /\ pc'[r] = "revokeUser"
      BY <1>0, <2>0, <3>1, GoesOnFit DEF TypeOK, Labels, SessionLabels
    <3>3. Presents(r)' /\ Administers(r)'
      BY <3>2 DEF Presents, Administers
    <3> QED BY <1>0, <2>0, <2>2, <3>1, <3>2, <3>3, PasswordInv
  <2> QED BY <2>1, <2>2
<1>2. CASE ResetPassword(r)
  <2>1. PICK u \in Known :
          /\ IF Live(u)
               THEN /\ Starts(r, "resetPassword", "revokeUser")
                    /\ user' = [user EXCEPT ![u].pending = "yes"]
               ELSE Starts(r, "resetPassword", "failed") /\ UNCHANGED user
          /\ Takes(r, u, Keep)
    BY <1>2 DEF ResetPassword
  <2>2. PICK l \in {"revokeUser", "failed"} : Starts(r, "resetPassword", l)
    BY <2>1
  <2>3. u \in UserId /\ Keep \in Dto /\ l \in Labels /\ "resetPassword" \in Operations
    BY DEF Known, Keep, Dto, Labels, SessionLabels, Operations
  <2>4. LocksCompatible' /\ UNCHANGED held
    BY <1>0, <2>2 DEF LocksCompatible, Starts
  <2>5. RequestsFit(r) /\ pc[r] = "start" /\ pc'[r] = l
    BY <1>0, <2>1, <2>2, <2>3, <2>4 DEF TypeOK, RequestsFit, OfficeFrame, Starts, Takes
  <2>6. Presents(r)' /\ Administers(r)'
    BY <2>5 DEF Presents, Administers
  <2> QED BY <1>0, <2>1, <2>3, <2>5, <2>6, PasswordInv, ReadsInv
<1> QED BY <1>1, <1>2

\* A login starts a family of its own.
LEMMA IssueInv ==
  ASSUME SessionInv, NEW r \in Req, Issue(r)
  PROVE  SessionInv'
<1>0. /\ TypeOK /\ OneActivePerFamily /\ Unborn(r) /\ pc[r] = "issue"
      /\ Finishes(r, "done") /\ Forgets(r) /\ UNCHANGED <<user, expired>>
  BY DEF SessionInv, Issue
<1> DEFINE n == [status |-> "ACTIVE", owner |-> tgt[r], family |-> r]
<1>1. token' = [token EXCEPT ![r] = n] /\ r \in Token
  BY DEF Issue, Token
<1>2. n \in TokenRow /\ n.status = "ACTIVE" /\ n.family = r
  BY <1>0, <1>1 DEF TypeOK, TokenRow
<1> HIDE DEF n
<1>3. token'[r] = n /\ \A t \in Token \ {r} : token'[t] = token[t]
  BY <1>0, <1>1 DEF TypeOK
<1>4. token' \in [Token -> TokenRow]
  BY <1>0, <1>1, <1>2 DEF TypeOK
<1>5. token[r].status = "none" /\ \A t \in Token : token[t].family # r
  BY <1>0 DEF Unborn
<1>6. OneActivePerFamily'
  BY <1>0, <1>2, <1>3, <1>5 DEF OneActivePerFamily
<1>7. \A q \in Req \ {r} : pc[q] # "done" =>
        token'[q].status = "none" /\ \A t \in Token : token'[t].family # q
  BY <1>2, <1>3 DEF SessionInv, Unborn, Token
<1>8. \A t \in Token : token[t].status = "ACTIVE" => token'[t].status = "ACTIVE"
  BY <1>3, <1>5
<1>9. RequestsFit(r) /\ pc'[r] = "done" /\ Presents(r)' /\ Administers(r)'
  BY <1>0, EndsFit
<1> QED BY <1>0, <1>4, <1>6, <1>7, <1>8, <1>9, TokensInv

\* The row lock of rotate, and the statements that find the rows to revoke.
LEMMA FindsInv ==
  ASSUME SessionInv, NEW r \in Req, LockToken(r) \/ ScanFamily(r) \/ ScanUser(r)
  PROVE  SessionInv'
<1>0. TypeOK /\ Presents(r)
  BY DEF SessionInv
<1>1. CASE LockToken(r)
  <2>0. pc[r] = "lockToken" /\ tok[r] \in Token /\ UNCHANGED <<user, tgt, dto, token, expired, tok, scan>>
    BY <1>0, <1>1 DEF LockToken, Presents, userVars, sessionVars
  <2>1. CASE token[tok[r]].status \notin {"ACTIVE", "CONSUMED"}
    BY <1>1, <2>0, <2>1, EndsFit, ReadsInv DEF LockToken
  <2>2. CASE token[tok[r]].status \in {"ACTIVE", "CONSUMED"}
    <3>1. PICK l \in {"rotate", "scanFamily"} :
            /\ pc' = [pc EXCEPT ![r] = l] /\ Acquire(r, TokenLock(tok[r])) /\ UNCHANGED op
            /\ l = "rotate" => token[tok[r]].status = "ACTIVE"
      BY <1>1, <2>2 DEF LockToken
    <3>2. l \in Labels /\ TokenLock(tok[r]) \in {PoolLock} \cup {TokenLock(t) : t \in Token}
      BY <2>0 DEF Labels, SessionLabels
    <3>3. RequestsFit(r) /\ pc'[r] = l /\ TokenLock(tok[r]) \in held'[r]
      BY <2>0, <3>1, <3>2, GrantFit
    <3>4. Presents(r)' /\ Administers(r)'
      BY <2>0, <3>1, <3>3 DEF Presents, Administers, TokenLock
    <3> QED BY <2>0, <3>3, <3>4, ReadsInv
  <2> QED BY <2>1, <2>2
<1>2. ASSUME NEW S \in SUBSET Token, Finds(r, S), pc[r] # "done" PROVE SessionInv'
  <2>1. scan' \in [Req -> SUBSET Token] /\ UNCHANGED <<user, tgt, dto, token, expired, tok>> /\ Continues(r, "revoke")
    BY <1>0, <1>2 DEF Finds, TypeOK, userVars
  <2>2. RequestsFit(r) /\ pc'[r] = "revoke"
    BY <2>1, GoesOnFit DEF Labels, SessionLabels
  <2>3. Presents(r)' /\ Administers(r)'
    BY <2>2 DEF Presents, Administers
  <2> QED BY <1>2, <2>1, <2>2, <2>3, ReadsInv
<1>3. CASE ScanFamily(r)
  BY <1>2, <1>3 DEF ScanFamily, Stored
<1>4. CASE ScanUser(r)
  BY <1>2, <1>4 DEF ScanUser, Stored
<1> QED BY <1>1, <1>3, <1>4

\* Rotation: the successor takes the place of the token it consumes.
LEMMA RotateInv ==
  ASSUME SessionInv, NEW r \in Req, Rotate(r)
  PROVE  SessionInv'
<1> DEFINE s == tok[r]
           n == [token[s] EXCEPT !.status = "ACTIVE"]
<1>0. /\ TypeOK /\ LocksCompatible /\ OneActivePerFamily /\ Unborn(r) /\ pc[r] = "rotate"
      /\ s \in Token /\ token[s].status = "ACTIVE" /\ TokenLock(s) \in held[r]
      /\ Finishes(r, "done") /\ Forgets(r) /\ UNCHANGED <<user, expired>>
  BY DEF SessionInv, Presents, Rotate
<1>1. token[r].status = "none" /\ s # r /\ r \in Token /\ \A t \in Token : token[t].family # r
  BY <1>0 DEF Unborn, Token
<1>2. token' = [token EXCEPT ![s].status = "CONSUMED", ![r] = n]
  BY DEF Rotate
<1>3. n \in TokenRow /\ n.status = "ACTIVE" /\ n.family = token[s].family
  BY <1>0 DEF TypeOK, TokenRow
<1>4. [token[s] EXCEPT !.status = "CONSUMED"] \in TokenRow
  BY <1>0 DEF TypeOK, TokenRow
<1> HIDE DEF s, n
<1>5. /\ token'[r] = n /\ \A t \in Token \ {r, s} : token'[t] = token[t]
      /\ token'[s] = [token[s] EXCEPT !.status = "CONSUMED"]
  BY <1>0, <1>1, <1>2 DEF TypeOK
<1>6. token' \in [Token -> TokenRow]
  BY <1>0, <1>1, <1>2, <1>3, <1>4 DEF TypeOK
<1>7. token'[s].status = "CONSUMED" /\ token'[s].family = token[s].family
  BY <1>0, <1>5 DEF TypeOK, TokenRow
<1>8. OneActivePerFamily'
  <2>1. \A t \in Token : token'[t].status = "ACTIVE" => t = r \/ (token'[t] = token[t] /\ t # s)
    BY <1>5, <1>7
  <2>2. \A t \in Token \ {s} : token[t].status = "ACTIVE" => token[t].family # token[s].family
    BY <1>0 DEF OneActivePerFamily
  <2> QED BY <1>0, <1>3, <1>5, <2>1, <2>2 DEF OneActivePerFamily
<1>9. \A q \in Req \ {r} : pc[q] # "done" =>
        token'[q].status = "none" /\ \A t \in Token : token'[t].family # q
  <2>1. \A q \in Req : pc[q] # "done" => token[q].status = "none" /\ \A t \in Token : token[t].family # q
    BY DEF SessionInv, Unborn
  <2>2. \A q \in Req : q \in Token
    BY DEF Token
  <2>3. \A t \in Token : \E x \in Token : token'[t].family = token[x].family
    BY <1>0, <1>3, <1>5, <1>7
  <2>4. \A q \in Req \ {r} : pc[q] # "done" => token'[q] = token[q]
    BY <1>0, <1>5, <2>1, <2>2
  <2> QED BY <2>1, <2>3, <2>4
<1>10. \A t \in Token : token[t].status = "ACTIVE" => token'[t].status = "ACTIVE" \/ CanLock(r, TokenLock(t))
  <2>1. CanLock(r, TokenLock(s))
    BY <1>0, OwnLock DEF TokenLock
  <2> QED BY <1>1, <1>5, <2>1
<1>11. RequestsFit(r) /\ pc'[r] = "done" /\ Presents(r)' /\ Administers(r)'
  BY <1>0, EndsFit
<1> QED BY <1>0, <1>6, <1>8, <1>9, <1>10, <1>11, TokensInv

\* Rows that lose their status keep everything else.
Fades ==
  /\ token' \in [Token -> TokenRow]
  /\ \A t \in Token : /\ token'[t].family = token[t].family
                      /\ \/ token'[t] = token[t]
                         \/ token[t].status # "none" /\ token'[t].status = "REVOKED"
                         \/ token'[t].status = "none"

LEMMA FadesKeeps ==
  ASSUME SessionInv, Fades
  PROVE  /\ OneActivePerFamily'
         /\ \A q \in Req : pc[q] # "done" =>
              token'[q].status = "none" /\ \A t \in Token : token'[t].family # q
<1>1. \A t \in Token : token'[t].status = "ACTIVE" => token[t].status = "ACTIVE"
  BY DEF Fades
<1>2. OneActivePerFamily'
  BY <1>1 DEF SessionInv, OneActivePerFamily, Fades
<1> QED BY <1>2 DEF SessionInv, Unborn, Fades, Token

LEMMA RevokeInv ==
  ASSUME SessionInv, NEW r \in Req, Revoke(r)
  PROVE  SessionInv' /\ Fades
<1>0. TypeOK /\ pc[r] = "revoke" /\ Forgets(r) /\ UNCHANGED <<user, expired>>
  BY DEF SessionInv, Revoke
<1>1. /\ \A t \in scan[r] : CanLock(r, TokenLock(t))
      /\ token' = [t \in Token |-> IF t \in scan[r] \cap Stored
                                     THEN [token[t] EXCEPT !.status = "REVOKED"] ELSE token[t]]
  BY DEF Revoke
<1>2. \A t \in Token : [token[t] EXCEPT !.status = "REVOKED"] \in TokenRow
  BY <1>0 DEF TypeOK, TokenRow
<1>3. token' \in [Token -> TokenRow]
  BY <1>0, <1>1, <1>2 DEF TypeOK
<1>4. \A t \in Token : /\ token'[t].family = token[t].family
                       /\ \/ token'[t] = token[t]
                          \/ t \in scan[r] /\ token[t].status # "none" /\ token'[t].status = "REVOKED"
  BY <1>0, <1>1 DEF TypeOK, TokenRow, Stored
<1>5. Fades
  BY <1>3, <1>4 DEF Fades
<1>6. PICK l \in {"done", "failed"} : Finishes(r, l)
  BY DEF Revoke
<1>7. RequestsFit(r) /\ Presents(r)' /\ Administers(r)'
  BY <1>0, <1>6, EndsFit
<1>8. \A t \in Token : token[t].status = "ACTIVE" => token'[t].status = "ACTIVE" \/ CanLock(r, TokenLock(t))
  BY <1>1, <1>4
<1>9. SessionInv'
  BY <1>0, <1>3, <1>5, <1>7, <1>8, FadesKeeps, TokensInv
<1> QED BY <1>5, <1>9

\* Time, and the purge of what has expired and nobody has locked.
LEMMA ClockInv ==
  ASSUME SessionInv, SessionClock
  PROVE  SessionInv' /\ Fades
<1>0. TypeOK /\ UNCHANGED <<pc, op, held, user, tgt, dto, tok, scan>>
  BY DEF SessionInv, SessionClock, PurgeExpired, Expire, reqVars, userVars
<1>1. /\ token' \in [Token -> TokenRow] /\ expired' \subseteq Token
      /\ \A t \in Token : /\ token'[t].family = token[t].family
                          /\ \/ token'[t] = token[t]
                             \/ token'[t].status = "none" /\ \A q \in Req : TokenLock(t) \notin held[q]
  <2>1. CASE PurgeExpired
    <3>1. /\ \A t \in expired, r \in Req : TokenLock(t) \notin held[r]
          /\ token' = [t \in Token |-> IF t \in expired THEN [token[t] EXCEPT !.status = "none"] ELSE token[t]]
          /\ UNCHANGED expired
      BY <2>1 DEF PurgeExpired
    <3>2. \A t \in Token : [token[t] EXCEPT !.status = "none"] \in TokenRow
      BY <1>0 DEF TypeOK, TokenRow
    <3>3. token' \in [Token -> TokenRow] /\ expired' \subseteq Token
      BY <1>0, <3>1, <3>2 DEF TypeOK
    <3> QED BY <1>0, <3>1, <3>3 DEF TypeOK, TokenRow
  <2>2. CASE \E t \in Token : Expire(t)
    BY <1>0, <2>2 DEF TypeOK, Expire
  <2> QED BY <2>1, <2>2 DEF SessionClock
<1>2. Fades
  BY <1>1 DEF Fades
<1>3. TypeOK' /\ LocksCompatible' /\ EmailIndex' /\ AdminRemains'
  BY <1>0, <1>1 DEF TypeOK, LocksCompatible, SessionInv, EmailIndex, AdminRemains, ActiveAdmin, Live
<1>4. ASSUME NEW q \in Req PROVE Unborn(q)' /\ Presents(q)' /\ Administers(q)'
  <2>1. Unborn(q)'
    BY <1>0, <1>2, FadesKeeps DEF Unborn, SessionInv
  <2>2. Presents(q)'
    BY <1>0, <1>1 DEF Presents, SessionInv, TokenLock
  <2>3. Administers(q)'
    BY <1>0 DEF Administers, SessionInv, Live, ActiveAdmin, LeavesAdminPool, PoolLock
  <2> QED BY <2>1, <2>2, <2>3
<1> QED BY <1>2, <1>3, <1>4, FadesKeeps DEF SessionInv

LEMMA AbortInv ==
  ASSUME SessionInv, NEW r \in Req, AbortSession(r)
  PROVE  SessionInv'
BY EndsFit, ReadsInv DEF AbortSession, Running

LEMMA SessionNext_Inv ==
  ASSUME SessionInv, [OfficeNext]_officeVars
  PROVE  SessionInv'
<1>1. CASE UNCHANGED vars
  BY <1>1 DEF SessionInv, TypeOK, LocksCompatible, Unborn, Presents, Administers, EmailIndex, AdminRemains,
              OneActivePerFamily, LeavesAdminPool, ActiveAdmin, Live, TokenLock, PoolLock,
              vars, reqVars, userVars, sessionVars
<1>2. ASSUME NEW r \in Req, BeginSession(r) PROVE SessionInv'
  BY <1>2, BeginSessionInv, PasswordsInv
<1>3. ASSUME NEW r \in Req, SessionStep(r) PROVE SessionInv'
  BY <1>3, InsertUserInv, PoolInv, WriteUserInv, PasswordsInv, IssueInv, FindsInv, RotateInv, RevokeInv
     DEF SessionStep, UserAdminStep
<1>4. CASE Next
  BY <1>2, <1>3, <1>4, AbortInv, ClockInv DEF Next
<1>5. TypeOK
  BY DEF SessionInv
<1> QED BY <1>1, <1>4, <1>5, OfficeSplit, ElsewhereInv

\* What becomes of tokens and of deleted users in one step.
LEMMA TablesMove ==
  ASSUME SessionInv, [OfficeNext]_officeVars
  PROVE  /\ \A t \in Token :
              /\ token[t].status = "CONSUMED" => token'[t].status # "ACTIVE"
              /\ token[t].status = "REVOKED" => token'[t].status \in {"REVOKED", "none"}
         /\ \A u \in UserId : user[u].state = "deleted" => user'[u] = user[u]
<1>0. TypeOK
  BY DEF SessionInv
<1>1. CASE UNCHANGED <<user, token>>
  BY <1>1
<1>2. ASSUME Fades, UNCHANGED user
      PROVE  \A t \in Token :
               /\ token[t].status = "CONSUMED" => token'[t].status # "ACTIVE"
               /\ token[t].status = "REVOKED" => token'[t].status \in {"REVOKED", "none"}
  BY <1>2 DEF Fades
<1>3. ASSUME NEW r \in Req, BeginSession(r)
      PROVE  UNCHANGED token /\ \A u \in UserId : user[u].state = "deleted" => user'[u] = user[u]
  <2>1. CASE UNCHANGED <<user, token>>
    BY <2>1
  <2>2. CASE ResetPassword(r) /\ UNCHANGED token
    <3>1. PICK v \in UserId : UNCHANGED user \/ (Live(v) /\ user' = [user EXCEPT ![v].pending = "yes"])
      BY <2>2 DEF ResetPassword, Known
    <3> QED BY <1>0, <2>2, <3>1 DEF TypeOK, Live
  <2>3. CASE BeginLogin(r) \/ BeginRefresh(r) \/ BeginLogout(r) \/ BeginLogoutAll(r)
    BY <2>1, <2>3 DEF BeginLogin, BeginRefresh, BeginLogout, BeginLogoutAll, sessionVars, userVars
  <2>4. CASE /\ UNCHANGED sessionVars
             /\ BeginCreateUser(r) \/ BeginUpdateUser(r) \/ BeginRemoveUser(r) \/ BeginChangePassword(r)
    <3>1. UNCHANGED user
      BY <2>4, Zenon DEF BeginCreateUser, BeginUpdateUser, BeginRemoveUser, BeginChangePassword
    <3> QED BY <2>1, <2>4, <3>1 DEF sessionVars
  <2>5. UNCHANGED sessionVars => UNCHANGED token
    BY DEF sessionVars
  <2> QED BY <1>3, <2>2, <2>3, <2>4, <2>5 DEF BeginSession, BeginUserAdmin
<1>4. ASSUME NEW r \in Req, UserAdminStep(r) /\ UNCHANGED sessionVars
      PROVE  UNCHANGED token /\ \A u \in UserId : user[u].state = "deleted" => user'[u] = user[u]
  <2>1. UNCHANGED token
    BY <1>4 DEF sessionVars
  <2>2. CASE UNCHANGED user
    BY <2>1, <2>2
  <2>3. CASE InsertUser(r)
    <3>1. user[r].state = "none"
      BY <2>3 DEF InsertUser, SessionInv, Unborn
    <3> QED BY <1>0, <2>1, <2>3, <3>1 DEF InsertUser, TypeOK
  <2>4. CASE WriteUser(r)
    <3>1. Live(tgt[r]) /\ user' = [user EXCEPT ![tgt[r]] = Written(r)]
      BY <2>4 DEF WriteUser, SessionInv, Administers
    <3> QED BY <1>0, <2>1, <3>1 DEF Live, TypeOK
  <2>5. CASE SetPassword(r)
    BY <1>0, <2>1, <2>5 DEF SetPassword, Live, TypeOK
  <2> QED BY <1>4, <2>2, <2>3, <2>4, <2>5 DEF UserAdminStep, LockPool, ReadTarget, CountAdmins, userVars
<1>5. ASSUME NEW r \in Req, Issue(r) \/ Rotate(r)
      PROVE  UNCHANGED user /\ \A t \in Token :
               /\ token[t].status = "CONSUMED" => token'[t].status # "ACTIVE"
               /\ token[t].status = "REVOKED" => token'[t].status \in {"REVOKED", "none"}
  <2>1. token[r].status = "none" /\ Presents(r) /\ UNCHANGED user
    BY <1>5 DEF Issue, Rotate, SessionInv, Unborn
  <2>2. CASE Issue(r)
    BY <1>0, <2>1, <2>2 DEF Issue, TypeOK
  <2>3. CASE Rotate(r)
    <3>1. tok[r] \in Token /\ token[tok[r]].status = "ACTIVE"
      BY <2>1, <2>3 DEF Rotate, Presents
    <3>2. \A t \in Token \ {r, tok[r]} : token'[t] = token[t]
      BY <1>0, <2>3 DEF Rotate, TypeOK
    <3> QED BY <2>1, <3>1, <3>2
  <2> QED BY <1>5, <2>2, <2>3
<1>6. ASSUME NEW r \in Req, SessionStep(r)
      PROVE  /\ \A t \in Token :
                  /\ token[t].status = "CONSUMED" => token'[t].status # "ACTIVE"
                  /\ token[t].status = "REVOKED" => token'[t].status \in {"REVOKED", "none"}
             /\ \A u \in UserId : user[u].state = "deleted" => user'[u] = user[u]
  <2>1. CASE Revoke(r)
    BY <1>2, <2>1, RevokeInv DEF Revoke
  <2>2. CASE Issue(r) \/ Rotate(r)
    BY <1>5, <2>2
  <2>3. CASE UserAdminStep(r) /\ UNCHANGED sessionVars
    BY <1>4, <2>3
  <2>4. CASE LockToken(r) \/ ScanFamily(r) \/ ScanUser(r)
    BY <2>4 DEF LockToken, ScanFamily, ScanUser, Finds, userVars, sessionVars
  <2> QED BY <1>6, <2>1, <2>2, <2>3, <2>4 DEF SessionStep
<1>7. CASE SessionClock
  BY <1>2, <1>7, ClockInv DEF SessionClock, PurgeExpired, Expire, userVars
<1>8. CASE Next
  <2>1. ASSUME NEW r \in Req, AbortSession(r) PROVE UNCHANGED <<user, token>>
    BY <2>1 DEF AbortSession
  <2> QED BY <1>1, <1>3, <1>6, <1>7, <1>8, <2>1 DEF Next
<1>9. ASSUME NEW r \in Req, Elsewhere(r) PROVE UNCHANGED <<user, token>>
  BY <1>9 DEF Elsewhere, userVars, sessionVars
<1>10. CASE UNCHANGED vars
  BY <1>1, <1>10 DEF vars, userVars, sessionVars
<1> QED BY <1>0, <1>1, <1>8, <1>9, <1>10, OfficeSplit

-----------------------------------------------------------------------------
(* Users and sessions: the theorems. *)

\* The invariant holds in every reachable state.
THEOREM SessionsInductive == OfficeSpec => []SessionInv
BY SessionInit_Inv, SessionNext_Inv, PTL DEF OfficeSpec

\* Every variable of users and sessions has its type.
THEOREM SessionsTypeCorrect == OfficeSpec => []TypeOK
<1>1. SessionInv => TypeOK
  BY DEF SessionInv
<1> QED BY <1>1, SessionsInductive, PTL

\* leavesAdminPool and the advisory lock around it: whatever administrators do to
\* each other at once, an active administrator is left.
THEOREM AnAdminRemains == OfficeSpec => []AdminRemains
<1>1. SessionInv => AdminRemains
  BY DEF SessionInv
<1> QED BY <1>1, SessionsInductive, PTL

\* rotate under the row lock: a session never has two tokens that can be refreshed.
THEOREM OneTokenPerSession == OfficeSpec => []OneActivePerFamily
<1>1. SessionInv => OneActivePerFamily
  BY DEF SessionInv
<1> QED BY <1>1, SessionsInductive, PTL

\* rotate, the bulk revocations and the purge: no token becomes refreshable again.
THEOREM TokensNeverRevive == OfficeSpec => TokensOnlyAge
<1>1. SessionInv /\ [OfficeNext]_officeVars =>
        [\A t \in Token :
           /\ token[t].status = "CONSUMED" => token'[t].status # "ACTIVE"
           /\ token[t].status = "REVOKED" => token'[t].status \in {"REVOKED", "none"}]_vars
  BY TablesMove
<1> QED BY <1>1, SessionsInductive, PTL DEF OfficeSpec, TokensOnlyAge

-----------------------------------------------------------------------------
(* Master data and the calendar: what happens around them. *)

\* A step of a request of users and sessions, seen from the other services.
SessionMove(r) ==
  /\ UNCHANGED <<masterVars, calendarVars>>
  /\ \A q \in Req \ {r} : pc'[q] = pc[q] /\ op'[q] = op[q]
  /\ pc'[r] \in SessionLabels \cup {"done", "failed"}
  /\ \/ pc[r] = "start" /\ op'[r] # "boot"
     \/ pc[r] \in SessionLabels /\ op'[r] = op[r]
     \/ pc'[r] = "failed"

LEMMA MoveStarts ==
  ASSUME TypeOK, NEW r \in Req, NEW o, NEW l \in SessionLabels \cup {"done", "failed"},
         o # "boot", Starts(r, o, l), UNCHANGED <<masterVars, calendarVars>>
  PROVE  SessionMove(r)
BY DEF TypeOK, Starts, SessionMove

LEMMA MoveGoesOn ==
  ASSUME TypeOK, NEW r \in Req, NEW l \in SessionLabels \cup {"done", "failed"},
         pc[r] \in SessionLabels \/ l = "failed", UNCHANGED <<masterVars, calendarVars>>,
         pc' = [pc EXCEPT ![r] = l], UNCHANGED op
  PROVE  SessionMove(r)
BY DEF TypeOK, SessionMove

LEMMA SessionMoves ==
  ASSUME TypeOK, NEW r \in Req, BeginSession(r) \/ SessionStep(r) \/ AbortSession(r),
         UNCHANGED <<masterVars, calendarVars>>
  PROVE  SessionMove(r)
<1>1. ASSUME \E o \in Operations \ {"boot"}, l \in SessionLabels \cup {"done", "failed"} : Starts(r, o, l)
      PROVE  SessionMove(r)
  BY <1>1, MoveStarts
<1>2. CASE BeginUserAdmin(r)
  <2>1. \/ Starts(r, "createUser", "insertUser") \/ Starts(r, "updateUser", "lockPool")
        \/ Starts(r, "removeUser", "lockPool") \/ Starts(r, "changePassword", "setPassword")
        \/ Starts(r, "resetPassword", "revokeUser") \/ Starts(r, "resetPassword", "failed")
    BY <1>2, Zenon DEF BeginUserAdmin, BeginCreateUser, BeginUpdateUser, BeginRemoveUser,
                       BeginChangePassword, ResetPassword
  <2> QED BY <1>1, <2>1 DEF Operations, SessionLabels
<1>3. CASE BeginLogin(r) \/ BeginRefresh(r) \/ BeginLogout(r) \/ BeginLogoutAll(r)
  <2>1. \/ Starts(r, "login", "issue") \/ Starts(r, "refresh", "lockToken")
        \/ Starts(r, "logout", "scanFamily") \/ Starts(r, "logoutAll", "revokeUser")
    BY <1>3, Zenon DEF BeginLogin, BeginRefresh, BeginLogout, BeginLogoutAll
  <2> QED BY <1>1, <2>1 DEF Operations, SessionLabels
<1>4. CASE UserAdminStep(r)
  <2>1. /\ pc[r] \in SessionLabels /\ UNCHANGED op
        /\ \E l \in SessionLabels \cup {"done", "failed"} : pc' = [pc EXCEPT ![r] = l]
    BY <1>4 DEF UserAdminStep, InsertUser, LockPool, ReadTarget, CountAdmins, WriteUser, SetPassword,
                Finishes, Continues, SessionLabels
  <2> QED BY <2>1, MoveGoesOn
<1>5. CASE Issue(r) \/ LockToken(r) \/ Rotate(r) \/ ScanFamily(r) \/ ScanUser(r) \/ Revoke(r)
  <2>1. /\ pc[r] \in SessionLabels /\ UNCHANGED op
        /\ \E l \in SessionLabels \cup {"done", "failed"} : pc' = [pc EXCEPT ![r] = l]
    BY <1>5 DEF Issue, LockToken, Rotate, ScanFamily, ScanUser, Finds, Revoke, Finishes, Continues,
                SessionLabels
  <2> QED BY <2>1, MoveGoesOn
<1>6. CASE AbortSession(r)
  BY <1>6, MoveGoesOn DEF AbortSession, Finishes
<1> QED BY <1>2, <1>3, <1>4, <1>5, <1>6 DEF BeginSession, SessionStep

\* The steps of the other services.
MasterMove(r) ==
  /\ UNCHANGED calendarVars
  /\ MasterDataStep(r) \/ (Serving /\ BeginMasterData(r)) \/ SeedStep(r, "currentYear")
CalendarMove(r) ==
  /\ UNCHANGED masterVars
  /\ \/ CalendarStep(r) \/ (Serving /\ BeginCalendar(r)) \/ Boot(r)
     \/ FindCompany(r, "countAccounts") \/ CreateCompany(r, "countAccounts")

LEMMA StoreSplit ==
  ASSUME TypeOK, [OfficeNext]_officeVars
  PROVE  \/ UNCHANGED <<pc, op, masterVars, calendarVars>>
         \/ \E r \in Req : SessionMove(r) \/ MasterMove(r) \/ CalendarMove(r)
<1>1. CASE UNCHANGED officeVars
  BY <1>1 DEF officeVars, vars, reqVars
<1>2. ASSUME NEW r \in Req, OfficeBegin(r) \/ OfficeStep(r) \/ OfficeAbort(r)
      PROVE  SessionMove(r) \/ MasterMove(r) \/ CalendarMove(r)
  <2>1. CASE /\ BeginSession(r) \/ SessionStep(r) \/ AbortSession(r)
             /\ UNCHANGED <<masterVars, calendarVars>>
    BY <2>1, SessionMoves
  <2>2. CASE Boot(r)
    BY <2>2 DEF Boot, CalendarMove
  <2>3. CASE BootStep(r)
    BY <2>3 DEF BootStep, MasterMove, CalendarMove
  <2>4. CASE UNCHANGED calendarVars /\ (MasterDataStep(r) \/ (Serving /\ BeginMasterData(r)))
    BY <2>4 DEF MasterMove
  <2>5. CASE UNCHANGED masterVars /\ (CalendarStep(r) \/ (Serving /\ BeginCalendar(r)))
    BY <2>5 DEF CalendarMove
  <2>6. CASE OfficeBegin(r)
    BY <2>1, <2>2, <2>4, <2>5, <2>6 DEF OfficeBegin
  <2>7. CASE OfficeStep(r)
    BY <2>1, <2>3, <2>4, <2>5, <2>7 DEF OfficeStep
  <2>8. CASE OfficeAbort(r)
    BY <2>1, <2>8 DEF OfficeAbort
  <2> QED BY <1>2, <2>6, <2>7, <2>8
<1>3. CASE OfficeClock
  BY <1>3 DEF OfficeClock, SessionClock, PurgeExpired, Expire, reqVars
<1> QED BY <1>1, <1>2, <1>3 DEF OfficeNext, OfficeIdle

-----------------------------------------------------------------------------
(* The calendar: the inductive invariant. *)

\* The steps of a request that find the company's settings.
SettledLabels ==
  {"countAccounts", "insertAccounts", "countTaxCodes", "insertTaxCodes", "currentYear", "listPeriods",
   "readStart", "createPeriods"}

\* A year is laid out by one statement, for one start month.
CalendarInv ==
  /\ settings \in 0 .. 12 /\ fy \in [Req -> Int] /\ start \in [Req -> 0 .. 12]
  /\ \A r \in Req : pc[r] \in SettledLabels => settings # 0
  /\ \A r \in Req : pc[r] = "createPeriods" => start[r] # 0
  /\ \A p \in periods :
       /\ p.fiscalYear \in Int
       /\ \E s \in 1 .. 12 : PeriodsOf(p.fiscalYear) = PeriodRows(p.fiscalYear, s)

\* The rows of a year, and their months.
LaidOut(R, y, s) ==
  /\ \A p \in R : /\ p.fiscalYear = y /\ p.startMonth = s /\ p.sequence \in 1 .. 12
                  /\ p.month = 12 * y + s - 2 + p.sequence
  /\ \A i \in 1 .. 12 : \E p \in R : p.sequence = i
  /\ \A p, q \in R : p.sequence = q.sequence => p = q

LEMMA RowsOfYear ==
  ASSUME NEW y \in Int, NEW s \in 1 .. 12
  PROVE  LaidOut(PeriodRows(y, s), y, s)
<1> DEFINE row(i) == [fiscalYear |-> y, sequence |-> i + 1, startMonth |-> s,
                      month |-> 12 * (y + ((s - 1 + i) \div 12)) + ((s - 1 + i) % 12)]
<1>1. \A i \in 0 .. 11 : 12 * (y + ((s - 1 + i) \div 12)) + ((s - 1 + i) % 12) = 12 * y + s - 1 + i
  OBVIOUS
<1>2. \A i \in 0 .. 11 : /\ row(i).fiscalYear = y /\ row(i).startMonth = s /\ row(i).sequence = i + 1
                         /\ row(i).month = 12 * y + s - 1 + i
  BY <1>1
<1>3. PeriodRows(y, s) = {row(i) : i \in 0 .. 11}
  BY DEF PeriodRows
<1> HIDE DEF row
<1>4. \A i \in 1 .. 12 : i - 1 \in 0 .. 11 /\ (i - 1) + 1 = i
  OBVIOUS
<1>5. \A p \in PeriodRows(y, s) : \E i \in 0 .. 11 : p = row(i) /\ p.sequence = i + 1
  BY <1>2, <1>3
<1>6. \A p \in PeriodRows(y, s) :
        /\ p.fiscalYear = y /\ p.startMonth = s /\ p.sequence \in 1 .. 12
        /\ p.month = 12 * y + s - 2 + p.sequence
  BY <1>2, <1>5
<1>7. \A i \in 1 .. 12 : \E p \in PeriodRows(y, s) : p.sequence = i
  BY <1>2, <1>3, <1>4
<1>8. ASSUME NEW p \in PeriodRows(y, s), NEW q \in PeriodRows(y, s), p.sequence = q.sequence PROVE p = q
  <2>1. PICK i \in 0 .. 11 : p = row(i) /\ p.sequence = i + 1
    BY <1>5
  <2>2. PICK j \in 0 .. 11 : q = row(j) /\ q.sequence = j + 1
    BY <1>5
  <2>3. i = j
    BY <1>8, <2>1, <2>2
  <2> QED BY <2>1, <2>2, <2>3
<1> QED BY <1>6, <1>7, <1>8 DEF LaidOut

LEMMA CalendarInit_Inv == OfficeInit => CalendarInv
BY DEF OfficeInit, Init, RequestsInit, CalendarInit, CalendarInv, SettledLabels

\* The insert of a year adds all twelve rows, or none.
LEMMA CreatePeriodsInv ==
  ASSUME TypeOK, CalendarInv, NEW r \in Req, CreatePeriods(r)
  PROVE  CalendarInv'
<1>a. PICK y \in Int, s \in 1 .. 12 : y = fy[r] /\ s = start[r]
  BY DEF CreatePeriods, CalendarInv
<1>b. PICK new :
        /\ new = {p \in PeriodRows(y, s) : \A q \in PeriodsOf(y) : q.sequence # p.sequence}
        /\ periods' = periods \cup new
  BY <1>a DEF CreatePeriods
<1>0. /\ new = {p \in PeriodRows(y, s) : \A q \in PeriodsOf(y) : q.sequence # p.sequence}
      /\ periods' = periods \cup new
      /\ UNCHANGED <<settings, fy, start>> /\ Continues(r, "done")
  BY <1>b DEF CreatePeriods
<1>1. \A p \in new : p.fiscalYear = y
  BY <1>0, RowsOfYear DEF LaidOut
<1>2. CASE PeriodsOf(y) = {}
  <2>1. new = PeriodRows(y, s)
    BY <1>0, <1>2
  <2>2. PeriodsOf(y)' = new
    BY <1>0, <1>1, <1>2 DEF PeriodsOf
  <2>3. \A z \in Int \ {y} : PeriodsOf(z)' = PeriodsOf(z)
    BY <1>0, <1>1 DEF PeriodsOf
  <2>4. ASSUME NEW p \in periods'
        PROVE  p.fiscalYear \in Int /\ \E t \in 1 .. 12 : PeriodsOf(p.fiscalYear)' = PeriodRows(p.fiscalYear, t)
    <3>1. CASE p \in new
      BY <1>0, <1>1, <2>1, <2>2, <3>1
    <3>2. CASE p \notin new
      <4>1. p \in periods /\ p.fiscalYear \in Int \ {y}
        BY <1>0, <1>2, <3>2 DEF PeriodsOf, CalendarInv
      <4> QED BY <2>3, <4>1 DEF CalendarInv
    <3> QED BY <3>1, <3>2
  <2> QED BY <1>0, <2>4 DEF CalendarInv, Continues, SettledLabels, TypeOK
<1>3. CASE PeriodsOf(y) # {}
  <2>1. PICK t \in 1 .. 12 : PeriodsOf(y) = PeriodRows(y, t)
    BY <1>3 DEF PeriodsOf, CalendarInv
  <2>2. LaidOut(PeriodsOf(y), y, t) /\ LaidOut(PeriodRows(y, s), y, s)
    BY <2>1, RowsOfYear
  <2>4. UNCHANGED periods
    BY <1>0, <2>2 DEF LaidOut
  <2> QED BY <1>0, <2>4 DEF CalendarInv, Continues, SettledLabels, TypeOK, PeriodsOf
<1> QED BY <1>2, <1>3

LEMMA CalendarNext_Inv ==
  ASSUME TypeOK, CalendarInv, [OfficeNext]_officeVars
  PROVE  CalendarInv'
<1> USE DEF TypeOK, SettledLabels
<1>a. ASSUME UNCHANGED calendarVars,
             \A r \in Req : pc'[r] \in SettledLabels => settings # 0,
             \A r \in Req : pc'[r] = "createPeriods" => start[r] # 0
      PROVE  CalendarInv'
  BY <1>a DEF CalendarInv, calendarVars, PeriodsOf
<1>1. CASE UNCHANGED <<pc, op, masterVars, calendarVars>>
  BY <1>1, <1>a DEF CalendarInv
<1>2. ASSUME NEW r \in Req, SessionMove(r) PROVE CalendarInv'
  <2>1. pc'[r] \notin SettledLabels /\ \A q \in Req \ {r} : pc'[q] = pc[q]
    BY <1>2 DEF SessionMove, SessionLabels
  <2> QED BY <1>2, <1>a, <2>1 DEF SessionMove, CalendarInv
<1>3. ASSUME NEW r \in Req, MasterMove(r) PROVE CalendarInv'
  <2>1. /\ \A q \in Req \ {r} : pc'[q] = pc[q]
        /\ pc'[r] \in SettledLabels => pc[r] \in SettledLabels /\ pc'[r] # "createPeriods"
    BY <1>3 DEF MasterMove, MasterDataStep, InsertRow, ChangeRow, BeginMasterData, BeginCreateRow, BeginChangeRow,
                SeedStep, CountRows, InsertSeed, Starts, Continues, Finishes
  <2> QED BY <1>3, <1>a, <2>1 DEF MasterMove, CalendarInv
<1>4. ASSUME NEW r \in Req, CalendarMove(r) PROVE CalendarInv'
  <2>1. CASE CurrentYear(r)
    <3>1. settings \in 1 .. 12
      BY <2>1 DEF CurrentYear, CalendarInv
    <3>2. FiscalYearForDate(Now, settings) \in Int
      BY <3>1, CalendarAssumption DEF FiscalYearForDate
    <3> QED BY <2>1, <3>2 DEF CurrentYear, CalendarInv, Continues, PeriodsOf
  <2>2. CASE ListPeriods(r)
    <3>1. pc'[r] \in {"done", "readStart"} /\ pc[r] = "listPeriods" /\ \A q \in Req \ {r} : pc'[q] = pc[q]
      BY <2>2 DEF ListPeriods, Continues
    <3> QED BY <2>2, <3>1, <1>a DEF ListPeriods, CalendarInv
  <2>3. CASE ReadStart(r)
    BY <2>3 DEF ReadStart, CalendarInv, Continues, PeriodsOf
  <2>4. CASE CreatePeriods(r)
    BY <2>4, CreatePeriodsInv
  <2>5. CASE BeginCalendar(r)
    BY <2>5, CalendarAssumption DEF BeginCalendar, UpdateCompany, BeginGenerate, CalendarInv, Starts, PeriodsOf
  <2>6. CASE Boot(r)
    <3>1. pc'[r] = "findCompany" /\ UNCHANGED calendarVars /\ \A q \in Req \ {r} : pc'[q] = pc[q]
      BY <2>6 DEF Boot, Starts
    <3> QED BY <3>1, <1>a DEF CalendarInv
  <2>7. CASE FindCompany(r, "countAccounts")
    <3>1. /\ pc'[r] \in {"createCompany", "countAccounts"} /\ (pc'[r] = "countAccounts" => settings # 0)
          /\ UNCHANGED calendarVars /\ \A q \in Req \ {r} : pc'[q] = pc[q]
      BY <2>7 DEF FindCompany, Continues
    <3> QED BY <3>1, <1>a DEF CalendarInv
  <2>8. CASE CreateCompany(r, "countAccounts")
    BY <2>8 DEF CreateCompany, CalendarInv, Continues, PeriodsOf
  <2> QED BY <1>4, <2>1, <2>2, <2>3, <2>4, <2>5, <2>6, <2>7, <2>8 DEF CalendarMove, CalendarStep
<1> QED BY <1>1, <1>2, <1>3, <1>4, StoreSplit

\* A year has twelve rows.
LEMMA TwelveRows ==
  ASSUME NEW y \in Int, NEW s \in 1 .. 12, NEW R, LaidOut(R, y, s)
  PROVE  Cardinality(R) = 12
<1> DEFINE f == [p \in R |-> p.sequence]
<1>1. f \in [R -> 1 .. 12] /\ \A p \in R : f[p] = p.sequence
  BY DEF LaidOut
<1> HIDE DEF f
<1>2. \A p, q \in R : f[p] = f[q] => p = q
  BY <1>1 DEF LaidOut
<1>3. \A i \in 1 .. 12 : \E p \in R : f[p] = i
  BY <1>1 DEF LaidOut
<1>4. f \in Bijection(R, 1 .. 12)
  BY <1>1, <1>2, <1>3, Fun_IsBij
<1>5. ExistsBijection(1 .. 12, R)
  BY <1>4, Fun_ExistsBijSymmetric DEF ExistsBijection
<1>6. IsFiniteSet(1 .. 12) /\ Cardinality(1 .. 12) = 12
  <2>1. \A a, b \in Int : /\ IsFiniteSet(a .. b)
                          /\ Cardinality(a .. b) = IF a > b THEN 0 ELSE b - a + 1
    BY FS_Interval
  <2>2. \A b \in Nat : IsFiniteSet(1 .. b) /\ Cardinality(1 .. b) = b
    BY <2>1
  <2>3. \A n : n = 12 => IsFiniteSet(1 .. n) /\ Cardinality(1 .. n) = n
    BY <2>2
  <2> QED BY <2>3
<1> QED BY <1>5, <1>6, FS_Bijection

\* The months of a year's bounds, and the year that fiscalYearForDate gives them.
LEMMA MonthsOfYear ==
  ASSUME NEW y \in Int, NEW s \in 1 .. 12, NEW m \in FiscalYearStart(y, s) .. FiscalYearEnd(y, s)
  PROVE  /\ m - (12 * y + s - 2) \in 1 .. 12 /\ m \in Int
         /\ FiscalYearForDate(m, s) = y
<1>1. PICK i \in 0 .. 11 : m = 12 * y + s - 1 + i
  BY DEF FiscalYearStart, FiscalYearEnd
<1>2. CASE s - 1 + i < 12
  <2>1. m % 12 = s - 1 + i /\ m \div 12 = y
    BY <1>1, <1>2
  <2> QED BY <1>1, <1>2, <2>1 DEF FiscalYearForDate
<1>3. CASE s - 1 + i >= 12
  <2>1. m % 12 = s - 13 + i /\ m \div 12 = y + 1
    BY <1>1, <1>3
  <2> QED BY <1>1, <1>3, <2>1 DEF FiscalYearForDate
<1> QED BY <1>1, <1>2, <1>3

LEMMA CalendarFits ==
  ASSUME CalendarInv
  PROVE  CalendarAgrees
<1>1. ASSUME NEW y \in {p.fiscalYear : p \in periods}
      PROVE  y \in Int /\ \E s \in 1 .. 12 : PeriodsOf(y) = PeriodRows(y, s)
  BY DEF CalendarInv
<1>2. YearsAreWhole
  <2> SUFFICES ASSUME NEW y \in {p.fiscalYear : p \in periods}
               PROVE  /\ Cardinality(PeriodsOf(y)) = 12
                      /\ \A p, q \in PeriodsOf(y) : q.month - p.month = q.sequence - p.sequence
    BY DEF YearsAreWhole
  <2>1. y \in Int
    BY <1>1
  <2>2. PICK s \in 1 .. 12 : PeriodsOf(y) = PeriodRows(y, s)
    BY <1>1
  <2>3. LaidOut(PeriodsOf(y), y, s)
    BY <2>1, <2>2, RowsOfYear
  <2>4. Cardinality(PeriodsOf(y)) = 12
    BY <2>1, <2>3, TwelveRows
  <2>5. \A p \in PeriodsOf(y) : p.sequence \in 1 .. 12 /\ p.month = 12 * y + s - 2 + p.sequence
    BY <2>3 DEF LaidOut
  <2> QED BY <2>1, <2>4, <2>5
<1>3. ASSUME \A p \in periods : p.startMonth = settings,
             NEW y \in {p.fiscalYear : p \in periods},
             NEW m \in FiscalYearStart(y, settings) .. FiscalYearEnd(y, settings)
      PROVE  /\ Cardinality({p \in periods : p.month = m}) = 1
             /\ \A p \in periods : p.month = m => p.fiscalYear = y
             /\ FiscalYearForDate(m, settings) = y
  <2>1. ASSUME NEW z \in {p.fiscalYear : p \in periods}
        PROVE  z \in Int /\ settings \in 1 .. 12 /\ LaidOut(PeriodsOf(z), z, settings)
    <3>1. PICK s \in 1 .. 12 : z \in Int /\ PeriodsOf(z) = PeriodRows(z, s)
      BY <1>1
    <3>2. LaidOut(PeriodsOf(z), z, s)
      BY <3>1, RowsOfYear
    <3>3. PICK p \in periods : p.fiscalYear = z
      OBVIOUS
    <3>4. p.startMonth = s
      BY <3>2, <3>3 DEF PeriodsOf, LaidOut
    <3> QED BY <1>3, <3>1, <3>2, <3>3, <3>4
  <2>2. y \in Int /\ settings \in 1 .. 12 /\ LaidOut(PeriodsOf(y), y, settings)
    BY <2>1
  <2>3. /\ m - (12 * y + settings - 2) \in 1 .. 12 /\ m \in Int
        /\ FiscalYearForDate(m, settings) = y
    BY <2>2, MonthsOfYear
  <2>4. PICK p \in PeriodsOf(y) : p.sequence = m - (12 * y + settings - 2)
    BY <2>2, <2>3 DEF LaidOut
  <2>5. p \in periods /\ p.month = 12 * y + settings - 2 + p.sequence
    BY <2>2, <2>4 DEF PeriodsOf, LaidOut
  <2>a. p.month = m
    BY <2>2, <2>3, <2>4, <2>5
  <2>6. ASSUME NEW q \in periods, q.month = m PROVE q = p /\ q.fiscalYear = y
    <3>1. PICK z \in Int : z = q.fiscalYear /\ LaidOut(PeriodsOf(z), z, settings)
      BY <2>1
    <3>2. q \in PeriodsOf(z)
      BY <3>1 DEF PeriodsOf
    <3>3. PICK i \in 1 .. 12 : q.sequence = i /\ m = 12 * z + settings - 2 + i
      BY <2>6, <3>1, <3>2 DEF LaidOut
    <3>4. PICK j \in 1 .. 12 : p.sequence = j /\ m = 12 * y + settings - 2 + j
      BY <2>2, <2>3, <2>4
    <3>5. z = y /\ i = j
      BY <2>2, <2>3, <3>3, <3>4
    <3> QED BY <2>2, <2>4, <3>1, <3>2, <3>3, <3>4, <3>5 DEF LaidOut
  <2>7. {q \in periods : q.month = m} = {p}
    BY <2>5, <2>a, <2>6
  <2>8. Cardinality({p}) = 1
    BY FS_Singleton
  <2> QED BY <2>3, <2>6, <2>7, <2>8
<1> QED BY <1>2, <1>3 DEF CalendarAgrees

\* generatePeriods, fiscalYearForDate and fiscalYearBounds: however instances boot,
\* requests generate years and administrators move the start month, every year has
\* all its periods or none, and the three agree on the year of a month.
THEOREM CalendarStaysWhole == OfficeSpec => []CalendarAgrees
<1>1. SessionInv => TypeOK
  BY DEF SessionInv
<1>2. OfficeSpec => []CalendarInv
  BY <1>1, SessionsInductive, CalendarInit_Inv, CalendarNext_Inv, PTL DEF OfficeSpec
<1>3. CalendarInv => CalendarAgrees
  BY CalendarFits
<1> QED BY <1>2, <1>3, PTL

-----------------------------------------------------------------------------
(* Master data: the inductive invariant. *)

\* A row: its id names the request that made it and its code, and its key is the
\* code, suffixed with the id once it is deleted.
RowOK(x) ==
  /\ DOMAIN x = {"table", "id", "key", "data", "ref", "active", "live"}
  /\ x.table \in Tables /\ x.live \in BOOLEAN
  /\ x.id[1] \in Req /\ x.id = <<x.id[1], x.data.code>>
  /\ x.key = IF x.live THEN <<x.data.code>> ELSE <<x.data.code, x.id>>

NewOf(r, x) == RowOK(x) /\ x.live /\ x.id[1] = r

\* What seedIfEmpty is about to insert: a row for every member of the seed.
SeedOf(D, r, t, S) ==
  /\ IsFiniteSet(D) /\ {x.data : x \in D} = S
  /\ \A x \in D : NewOf(r, x) /\ x.table = t
  /\ \A x, y \in D : x.data = y.data => x = y

Drafts(r) ==
  /\ pc[r] = "insertRow" => \E x \in draft[r] : draft[r] = {x} /\ NewOf(r, x)
  /\ pc[r] = "insertAccounts" => SeedOf(draft[r], r, "account", CHART_OF_ACCOUNTS)
  /\ pc[r] = "insertTaxCodes" => SeedOf(draft[r], r, "taxCode", TAX_CODE_SEED)

\* The rows r has made: none before it inserts, only accounts before it inserts the
\* tax codes.
Made(r) ==
  /\ pc[r] \in {"start", "findCompany", "createCompany", "countAccounts", "insertAccounts", "insertRow"} =>
       \A x \in rows : x.id[1] # r
  /\ pc[r] \in {"countTaxCodes", "insertTaxCodes"} =>
       \A x \in rows : x.id[1] = r => x.data \in CHART_OF_ACCOUNTS

ChartThere == CHART_OF_ACCOUNTS \subseteq DataOf("account")
CodesThere == TAX_CODE_SEED \subseteq DataOf("taxCode")

\* An instance that has booted leaves both tables seeded, and only then do clients
\* reach them.
Boots(r) ==
  /\ pc[r] \in SessionLabels => op[r] # "boot"
  /\ pc[r] \in {"countTaxCodes", "insertTaxCodes"} => ChartThere
  /\ pc[r] \in {"insertRow", "changeRow", "currentYear"} => ChartThere /\ CodesThere
  /\ op[r] = "boot" /\ pc[r] \in {"listPeriods", "readStart", "createPeriods", "done"} =>
       ChartThere /\ CodesThere

\* The tables themselves: the unique indexes, and seeds that are whole.
TablesOK ==
  /\ IsFiniteSet(rows)
  /\ \A x \in rows : RowOK(x)
  /\ \A x, y \in rows : SameKey(x, y) \/ x.id = y.id => x = y
  /\ \A x \in rows : /\ x.table = "account" => ChartThere
                     /\ x.table = "taxCode" => CodesThere

StoreInv ==
  /\ TablesOK
  /\ draft = [r \in Req |-> draft[r]]
  /\ \A r \in Req : Drafts(r) /\ Made(r) /\ Boots(r)

-----------------------------------------------------------------------------
(* Master data: the seeds. *)

LEMMA AccountFields ==
  /\ \A c, t, s, n : Header(c, t, s, n).code = c /\ Header(c, t, s, n).role = "NONE"
  /\ \A c, t, s, n, k, o, p : Leaf(c, t, s, n, k, o, p).code = c /\ Leaf(c, t, s, n, k, o, p).role = o
BY DEF Header, Leaf

LEMMA FiniteFive == \A a, b, c, d, e : IsFiniteSet({a, b, c, d, e})
<1> TAKE a, b, c, d, e
<1>1. IsFiniteSet({a}) /\ IsFiniteSet({b}) /\ IsFiniteSet({c}) /\ IsFiniteSet({d}) /\ IsFiniteSet({e})
  BY FS_Singleton
<1>2. IsFiniteSet({a} \cup {b}) /\ IsFiniteSet({c} \cup {d})
  BY <1>1, FS_Union
<1>3. IsFiniteSet(({a} \cup {b}) \cup ({c} \cup {d}))
  BY <1>2, FS_Union
<1>4. IsFiniteSet((({a} \cup {b}) \cup ({c} \cup {d})) \cup {e})
  BY <1>1, <1>3, FS_Union
<1>5. {a, b, c, d, e} = (({a} \cup {b}) \cup ({c} \cup {d})) \cup {e}
  OBVIOUS
<1> QED BY <1>4, <1>5

\* The codes of the seeds are distinct.
LEMMA SeedCodes ==
  /\ \A a, b \in CHART_OF_ACCOUNTS : a.code = b.code => a = b
  /\ \A a, b \in TAX_CODE_SEED : a.code = b.code => a = b
  /\ \A a \in CHART_OF_ACCOUNTS, b \in TAX_CODE_SEED : a.code # b.code
<1>1. /\ \A a, b \in Assets : a.code = b.code => a = b
      /\ \A a \in Assets : a.code \in {"1-0000", "1-1000", "1-1100", "1-1200", "1-1300", "1-1400", "1-1500", "1-1800", "1-2000", "1-2900"}
  BY AccountFields DEF Assets
<1>2. /\ \A a, b \in Liabilities : a.code = b.code => a = b
      /\ \A a \in Liabilities : a.code \in {"2-0000", "2-1000", "2-1100", "2-1200", "2-2000"}
  BY AccountFields DEF Liabilities
<1>3. /\ \A a, b \in Equities : a.code = b.code => a = b
      /\ \A a \in Equities : a.code \in {"3-0000", "3-1000", "3-2000", "3-9000"}
  BY AccountFields DEF Equities
<1>4. /\ \A a, b \in Revenues : a.code = b.code => a = b
      /\ \A a \in Revenues : a.code \in {"4-0000", "4-1000", "4-9000"}
  BY AccountFields DEF Revenues
<1>5. /\ \A a, b \in Expenses : a.code = b.code => a = b
      /\ \A a \in Expenses : a.code \in {"5-0000", "5-1000", "5-2000", "5-3000", "5-4000", "5-9000"}
  BY AccountFields DEF Expenses
<1>6. \A a, b \in TAX_CODE_SEED : a.code = b.code => a = b
  BY DEF TAX_CODE_SEED
<1>7. \A a \in TAX_CODE_SEED :
        a.code \in {"PPN-OUT-11", "PPN-IN-11", "PPH23-PAY", "PPH23-PRE", "PPH42-PAY", "PPH42-PRE"}
  BY DEF TAX_CODE_SEED
<1>8. \A a, b \in CHART_OF_ACCOUNTS : a.code = b.code => a = b
  BY <1>1, <1>2, <1>3, <1>4, <1>5 DEF CHART_OF_ACCOUNTS
<1>9. \A a \in CHART_OF_ACCOUNTS, b \in TAX_CODE_SEED : a.code # b.code
  BY <1>1, <1>2, <1>3, <1>4, <1>5, <1>7 DEF CHART_OF_ACCOUNTS
<1> QED BY <1>6, <1>8, <1>9

\* Each singleton role has its one account.
LEMMA SeedRoles ==
  /\ \A a, b \in CHART_OF_ACCOUNTS : a.role = b.role /\ a.role \in SingletonRoles => a = b
  /\ \A role \in SingletonRoles : \E a \in CHART_OF_ACCOUNTS : a.role = role
<1>1. /\ \A a \in Assets : a.role = "AR_CONTROL" \/ a.role \notin SingletonRoles
      /\ \A a, b \in Assets : a.role = "AR_CONTROL" /\ b.role = "AR_CONTROL" => a = b
      /\ \E a \in Assets : a.role = "AR_CONTROL"
  BY AccountFields DEF Assets, SingletonRoles
<1>2. /\ \A a \in Liabilities : a.role = "AP_CONTROL" \/ a.role \notin SingletonRoles
      /\ \A a, b \in Liabilities : a.role = "AP_CONTROL" /\ b.role = "AP_CONTROL" => a = b
      /\ \E a \in Liabilities : a.role = "AP_CONTROL"
  BY AccountFields DEF Liabilities, SingletonRoles
<1>3. /\ \A a \in Equities : a.role \in {"NONE", "RETAINED_EARNINGS", "OPENING_BALANCE_EQUITY"}
      /\ \A a, b \in Equities : a.role = b.role /\ a.role # "NONE" => a = b
      /\ \E a \in Equities : a.role = "RETAINED_EARNINGS"
      /\ \E a \in Equities : a.role = "OPENING_BALANCE_EQUITY"
  BY AccountFields DEF Equities
<1>4. \A a \in Revenues : a.role \notin SingletonRoles
  BY AccountFields DEF Revenues, SingletonRoles
<1>5. /\ \A a \in Expenses : a.role = "TAX_EXPENSE" \/ a.role \notin SingletonRoles
      /\ \A a, b \in Expenses : a.role = "TAX_EXPENSE" /\ b.role = "TAX_EXPENSE" => a = b
      /\ \E a \in Expenses : a.role = "TAX_EXPENSE"
  BY AccountFields DEF Expenses, SingletonRoles
<1>6. \A role \in SingletonRoles : \E a \in CHART_OF_ACCOUNTS : a.role = role
  BY <1>1, <1>2, <1>3, <1>5 DEF CHART_OF_ACCOUNTS, SingletonRoles
<1>7. \A a, b \in CHART_OF_ACCOUNTS : a.role = b.role /\ a.role \in SingletonRoles => a = b
  BY <1>1, <1>2, <1>3, <1>4, <1>5 DEF CHART_OF_ACCOUNTS, SingletonRoles
<1> QED BY <1>6, <1>7

LEMMA SeedsFinite == IsFiniteSet(CHART_OF_ACCOUNTS) /\ IsFiniteSet(TAX_CODE_SEED)
<1>0. \A a, b, c, d, e, f, g, h, i, j : IsFiniteSet({a, b, c, d, e, f, g, h, i, j})
  <2> TAKE a, b, c, d, e, f, g, h, i, j
  <2>1. {a, b, c, d, e, f, g, h, i, j} = {a, b, c, d, e} \cup {f, g, h, i, j}
    OBVIOUS
  <2>2. IsFiniteSet({a, b, c, d, e}) /\ IsFiniteSet({f, g, h, i, j})
    BY FiniteFive
  <2>3. IsFiniteSet({a, b, c, d, e} \cup {f, g, h, i, j})
    BY <2>2, FS_Union
  <2> QED BY <2>1, <2>3
<1>1. IsFiniteSet(Assets)
  BY <1>0 DEF Assets
<1>2. IsFiniteSet(Liabilities)
  BY FiniteFive DEF Liabilities
<1>b. \A a, b, c, d : IsFiniteSet({a, b, c, d})
  <2> TAKE a, b, c, d
  <2>1. {a, b, c, d} = {a, b, c, d, d}
    OBVIOUS
  <2> QED BY <2>1, FiniteFive
<1>3. IsFiniteSet(Equities)
  BY <1>b DEF Equities
<1>4. IsFiniteSet(Revenues)
  <2>1. \A a, b, c : IsFiniteSet({a, b, c})
    <3> TAKE a, b, c
    <3>1. {a, b, c} = {a, b, c, c}
      OBVIOUS
    <3> QED BY <1>b, <3>1
  <2> QED BY <2>1 DEF Revenues
<1>a. \A a, b, c, d, e, f : IsFiniteSet({a, b, c, d, e, f})
  <2> TAKE a, b, c, d, e, f
  <2>1. {a, b, c, d, e, f} = {a, b, c, d, e, f, f, f, f, f}
    OBVIOUS
  <2> QED BY <1>0, <2>1
<1>5. IsFiniteSet(Expenses)
  BY <1>a DEF Expenses
<1>6. IsFiniteSet(TAX_CODE_SEED)
  BY <1>a DEF TAX_CODE_SEED
<1>7. IsFiniteSet(CHART_OF_ACCOUNTS)
  BY <1>1, <1>2, <1>3, <1>4, <1>5, FS_Union DEF CHART_OF_ACCOUNTS
<1> QED BY <1>6, <1>7

-----------------------------------------------------------------------------
(* Master data: the steps. *)

LEMMA StoreInit_Inv == OfficeInit => StoreInv
<1> SUFFICES ASSUME OfficeInit PROVE StoreInv
  OBVIOUS
<1>1. /\ rows = {} /\ draft = [r \in Req |-> {}] /\ pc = [r \in Req |-> "start"]
  BY DEF OfficeInit, Init, MasterInit, RequestsInit
<1>2. TablesOK
  BY <1>1, FS_EmptySet DEF TablesOK
<1>3. ASSUME NEW r \in Req PROVE Drafts(r) /\ Made(r) /\ Boots(r)
  BY <1>1 DEF Drafts, Made, Boots, SessionLabels
<1>4. draft = [r \in Req |-> draft[r]]
  BY <1>1
<1> QED BY <1>2, <1>3, <1>4 DEF StoreInv

\* A step of r leaves to the others what they have, and takes no data away.
StoreFrame(r) ==
  /\ draft' = [q \in Req |-> draft'[q]]
  /\ \A q \in Req \ {r} : pc'[q] = pc[q] /\ op'[q] = op[q] /\ draft'[q] = draft[q]
  /\ DataOf("account") \subseteq DataOf("account")' /\ DataOf("taxCode") \subseteq DataOf("taxCode")'
  /\ \A x \in rows' : x.id[1] = r \/ \E y \in rows : y.id = x.id /\ y.data = x.data

LEMMA StoreStep ==
  ASSUME StoreInv, NEW r \in Req, StoreFrame(r), TablesOK', Drafts(r)', Made(r)', Boots(r)'
  PROVE  StoreInv'
<1>1. ASSUME NEW q \in Req, q # r PROVE Drafts(q)' /\ Made(q)' /\ Boots(q)'
  <2>0. /\ Drafts(q) /\ Made(q) /\ Boots(q)
        /\ pc'[q] = pc[q] /\ op'[q] = op[q] /\ draft'[q] = draft[q]
    BY <1>1 DEF StoreInv, StoreFrame
  <2>1. Drafts(q)'
    BY <2>0 DEF Drafts
  <2>2. Made(q)'
    BY <1>1, <2>0 DEF Made, StoreFrame
  <2>3. (ChartThere => ChartThere') /\ (CodesThere => CodesThere')
    BY DEF StoreFrame, ChartThere, CodesThere
  <2>4. Boots(q)'
    BY <2>0, <2>3 DEF Boots
  <2> QED BY <2>1, <2>2, <2>4
<1> QED BY <1>1 DEF StoreInv, StoreFrame

\* Steps that leave the rows as they are.
LEMMA StoreSame ==
  ASSUME StoreInv, NEW r \in Req, UNCHANGED rows, draft' = [q \in Req |-> draft'[q]],
         \A q \in Req \ {r} : pc'[q] = pc[q] /\ op'[q] = op[q] /\ draft'[q] = draft[q],
         Drafts(r)', Made(r)', Boots(r)'
  PROVE  StoreInv'
<1>1. TablesOK'
  BY DEF StoreInv, TablesOK, ChartThere, CodesThere, DataOf
<1>2. StoreFrame(r)
  BY DEF StoreFrame, DataOf
<1> QED BY <1>1, <1>2, StoreStep

\* A row that create or the seed makes.
LEMMA NewRowOK ==
  ASSUME NEW r \in Req, NEW t \in Tables, NEW data, NEW ref, NEW x,
         x = NewRow(t, <<r, data.code>>, data, ref)
  PROVE  NewOf(r, x) /\ x.table = t /\ x.data = data
BY DEF NewRow, NewOf, RowOK

\* An insert that the unique indexes admit.
LEMMA Inserts ==
  ASSUME StoreInv, NEW r \in Req, NEW D, IsFiniteSet(D), rows' = rows \cup D,
         \A x \in D : NewOf(r, x) /\ ~UniqueViolation(x),
         \A x, y \in D : SameKey(x, y) \/ x.id = y.id => x = y,
         \A x \in D, y \in rows : x.id # y.id,
         \A x \in D : /\ x.table = "account" => ChartThere'
                      /\ x.table = "taxCode" => CodesThere'
  PROVE  TablesOK' /\ DataOf("account") \subseteq DataOf("account")'
                   /\ DataOf("taxCode") \subseteq DataOf("taxCode")'
<1>0. TablesOK
  BY DEF StoreInv
<1>1. IsFiniteSet(rows')
  BY <1>0, FS_Union DEF TablesOK
<1>2. \A x \in rows' : RowOK(x)
  BY <1>0 DEF TablesOK, NewOf
<1>3. ASSUME NEW x \in rows', NEW y \in rows', SameKey(x, y) \/ x.id = y.id PROVE x = y
  <2>1. \A a, b : SameKey(a, b) => SameKey(b, a)
    BY DEF SameKey
  <2>2. \A a \in D, b \in rows : ~SameKey(a, b) /\ a.id # b.id
    BY DEF UniqueViolation
  <2> QED BY <1>0, <1>3, <2>1, <2>2 DEF TablesOK
<1>4. DataOf("account") \subseteq DataOf("account")' /\ DataOf("taxCode") \subseteq DataOf("taxCode")'
  BY DEF DataOf
<1>5. \A x \in rows' : /\ x.table = "account" => ChartThere'
                       /\ x.table = "taxCode" => CodesThere'
  BY <1>0, <1>4 DEF TablesOK, ChartThere, CodesThere
<1> QED BY <1>1, <1>2, <1>3, <1>4, <1>5 DEF TablesOK

LEMMA CreateRowInv ==
  ASSUME TypeOK, StoreInv, NEW r \in Req, \/ Serving /\ BeginCreateRow(r)
                                          \/ InsertRow(r)
  PROVE  StoreInv'
<1> USE DEF TypeOK
<1>0. draft = [q \in Req |-> draft[q]]
  BY DEF StoreInv
<1>1. CASE Serving /\ BeginCreateRow(r)
  <2>1. PICK t, data, ref :
          /\ t \in Tables /\ Starts(r, "createRow", "insertRow") /\ UNCHANGED rows
          /\ draft' = [draft EXCEPT ![r] = {NewRow(t, <<r, data.code>>, data, ref)}]
    BY <1>1 DEF BeginCreateRow
  <2>2. /\ pc[r] = "start" /\ pc'[r] = "insertRow" /\ op'[r] = "createRow"
        /\ \A q \in Req \ {r} : pc'[q] = pc[q] /\ op'[q] = op[q]
    BY <2>1 DEF Starts
  <2>3. PICK x : x = NewRow(t, <<r, data.code>>, data, ref)
    OBVIOUS
  <2>4. /\ draft'[r] = {x} /\ draft' = [q \in Req |-> draft'[q]]
        /\ \A q \in Req \ {r} : draft'[q] = draft[q]
    BY <1>0, <2>1, <2>3
  <2>5. Drafts(r)'
    BY <2>1, <2>2, <2>3, <2>4, NewRowOK DEF Drafts
  <2>6. Made(r)'
    BY <2>1, <2>2 DEF Made, StoreInv
  <2>7. ChartThere' /\ CodesThere'
    BY <1>1, <2>1 DEF Serving, StoreInv, Boots, ChartThere, CodesThere, DataOf
  <2>8. Boots(r)'
    BY <2>2, <2>7 DEF Boots, SessionLabels
  <2> QED BY <2>1, <2>2, <2>4, <2>5, <2>6, <2>8, StoreSame
<1>2. CASE InsertRow(r)
  <2>1. /\ pc[r] = "insertRow" /\ UNCHANGED draft /\ UNCHANGED op
        /\ pc'[r] \in {"done", "failed"} /\ \A q \in Req \ {r} : pc'[q] = pc[q]
    BY <1>2 DEF InsertRow, Finishes
  <2>2. PICK x : draft[r] = {x} /\ NewOf(r, x)
    BY <2>1 DEF StoreInv, Drafts
  <2>3. ChartThere /\ CodesThere /\ \A y \in rows : y.id[1] # r
    BY <2>1 DEF StoreInv, Boots, Made
  <2>4. Drafts(r)' /\ Made(r)'
    BY <2>1 DEF Drafts, Made
  <2>5. CASE UniqueViolation(x)
    <3>1. UNCHANGED rows
      BY <1>2, <2>2, <2>5 DEF InsertRow
    <3>2. Boots(r)'
      BY <2>1, <2>3, <3>1 DEF Boots, SessionLabels, ChartThere, CodesThere, DataOf
    <3> QED BY <1>0, <2>1, <2>4, <3>1, <3>2, StoreSame
  <2>6. CASE ~UniqueViolation(x)
    <3>1. rows' = rows \cup {x}
      BY <1>2, <2>2, <2>6 DEF InsertRow
    <3>2. ChartThere' /\ CodesThere'
      BY <2>3, <3>1 DEF ChartThere, CodesThere, DataOf
    <3>3. IsFiniteSet({x}) /\ \A y \in rows : x.id # y.id
      BY <2>2, <2>3, FS_Singleton DEF NewOf
    <3>4. TablesOK' /\ DataOf("account") \subseteq DataOf("account")'
                    /\ DataOf("taxCode") \subseteq DataOf("taxCode")'
      BY <2>2, <2>6, <3>1, <3>2, <3>3, Inserts
    <3>5. StoreFrame(r)
      BY <1>0, <2>1, <2>2, <3>1, <3>4 DEF StoreFrame, NewOf
    <3>6. Boots(r)'
      BY <2>1, <3>2 DEF Boots, SessionLabels
    <3> QED BY <2>4, <3>4, <3>5, <3>6, StoreStep
  <2> QED BY <2>5, <2>6
<1> QED BY <1>1, <1>2

\* update, deactivate and softDelete: one live row is replaced.
LEMMA ChangeRowInv ==
  ASSUME TypeOK, StoreInv, NEW r \in Req, ChangeRow(r)
  PROVE  StoreInv' /\ \A x \in rows : ~x.live => x \in rows'
<1> USE DEF TypeOK
<1>0. draft = [q \in Req |-> draft[q]] /\ TablesOK
  BY DEF StoreInv
<1>1. /\ pc[r] = "changeRow" /\ UNCHANGED draft /\ UNCHANGED op
      /\ pc'[r] \in {"done", "failed"} /\ \A q \in Req \ {r} : pc'[q] = pc[q]
  BY DEF ChangeRow, Finishes
<1>2. ChartThere /\ CodesThere
  BY <1>1 DEF StoreInv, Boots
<1>3. Drafts(r)' /\ Made(r)'
  BY <1>1 DEF Drafts, Made
<1>4. CASE ~\E x \in Target(r) : x.live
  <2>1. UNCHANGED rows
    BY <1>4 DEF ChangeRow
  <2>2. Boots(r)'
    BY <1>1, <1>2, <2>1 DEF Boots, SessionLabels, ChartThere, CodesThere, DataOf
  <2> QED BY <1>0, <1>1, <1>3, <2>1, <2>2, StoreSame
<1>5. CASE \E x \in Target(r) : x.live
  <2>1. PICK x \in rows : x.live /\ x.id = target[r] /\ Target(r) = {x}
    BY <1>0, <1>5 DEF Target, TablesOK
  <2>2. PICK c : c = Changed(r, x)
    OBVIOUS
  <2>3. rows' = (rows \ {x}) \cup {c}
    BY <1>5, <2>1, <2>2 DEF ChangeRow
  <2>4. RowOK(x)
    BY <1>0 DEF TablesOK
  <2>6. /\ DOMAIN c = DOMAIN x /\ c.table = x.table /\ c.id = x.id /\ c.data = x.data
        /\ \/ c.live = x.live /\ c.key = x.key
           \/ c.live = FALSE /\ c.key = <<x.data.code, x.id>>
    BY <2>2, <2>4 DEF Changed, Tombstone, RowOK
  <2>7. RowOK(c)
    BY <2>4, <2>6 DEF RowOK
  <2>8. ASSUME NEW y \in rows, y # x PROVE ~SameKey(c, y) /\ ~SameKey(y, c) /\ c.id # y.id
    <3>1. ~SameKey(x, y) /\ x.id # y.id /\ RowOK(y)
      BY <1>0, <2>8 DEF TablesOK
    <3>2. y.key # <<x.data.code, x.id>>
      BY <3>1 DEF RowOK
    <3> QED BY <2>6, <3>1, <3>2 DEF SameKey
  <2>9. DataOf("account")' = DataOf("account") /\ DataOf("taxCode")' = DataOf("taxCode")
    BY <2>1, <2>3, <2>6 DEF DataOf
  <2>10. TablesOK'
    <3>1. IsFiniteSet(rows')
      <4>1. IsFiniteSet(rows \ {x}) /\ IsFiniteSet({c})
        BY <1>0, FS_RemoveElement, FS_Singleton DEF TablesOK
      <4> QED BY <2>3, <4>1, FS_Union
    <3>2. \A y \in rows' : RowOK(y)
      BY <1>0, <2>3, <2>7 DEF TablesOK
    <3>3. \A y, z \in rows' : SameKey(y, z) \/ y.id = z.id => y = z
      BY <1>0, <2>3, <2>8 DEF TablesOK
    <3>4. ChartThere' /\ CodesThere'
      BY <1>2, <2>9 DEF ChartThere, CodesThere
    <3> QED BY <3>1, <3>2, <3>3, <3>4 DEF TablesOK
  <2>11. StoreFrame(r)
    BY <1>0, <1>1, <2>3, <2>6, <2>9 DEF StoreFrame
  <2>12. Boots(r)'
    BY <1>1, <1>2, <2>9 DEF Boots, SessionLabels, ChartThere, CodesThere
  <2> QED BY <1>3, <2>1, <2>3, <2>10, <2>11, <2>12, StoreStep
<1> QED BY <1>4, <1>5

\* The rows that seedIfEmpty prepares.
LEMMA SeedRowsOK ==
  ASSUME NEW r \in Req, NEW t \in {"account", "taxCode"}, NEW S, IsFiniteSet(S), NEW ref, NEW D,
         \A x : x \in D <=> \E i \in S : x = NewRow(t, <<r, i.code>>, i, ref[i])
  PROVE  SeedOf(D, r, t, S)
<1> DEFINE n(i) == NewRow(t, <<r, i.code>>, i, ref[i])
           f == [i \in S |-> n(i)]
<1>1. \A i \in S : NewOf(r, n(i)) /\ n(i).table = t /\ n(i).data = i
  BY NewRowOK DEF Tables
<1> HIDE DEF n
<1>2. D = {n(i) : i \in S}
  BY DEF n
<1>3. f \in [S -> D] /\ \A x \in D : \E i \in S : f[i] = x
  BY <1>2
<1> HIDE DEF f
<1>4. IsFiniteSet(D)
  BY <1>3, Fun_IsSurj, FS_Surjection
<1>5. \A x \in D : \E i \in S : x = n(i)
  BY <1>2
<1>6. \A x \in D : NewOf(r, x) /\ x.table = t /\ x.data \in S
  BY <1>1, <1>5
<1>7. ASSUME NEW x \in D, NEW y \in D, x.data = y.data PROVE x = y
  <2>1. PICK i \in S : x = n(i) /\ x.data = i
    BY <1>1, <1>5
  <2>2. PICK j \in S : y = n(j) /\ y.data = j
    BY <1>1, <1>5
  <2> QED BY <1>7, <2>1, <2>2
<1>8. {x.data : x \in D} = S
  BY <1>1, <1>2, <1>6
<1> QED BY <1>4, <1>6, <1>7, <1>8 DEF SeedOf

LEMMA CountRowsInv ==
  ASSUME TypeOK, StoreInv, NEW r \in Req,
         \/ CountRows(r, "account", "countAccounts", "insertAccounts", "countTaxCodes")
         \/ CountRows(r, "taxCode", "countTaxCodes", "insertTaxCodes", "currentYear")
  PROVE  StoreInv'
<1> USE DEF TypeOK
<1>0. draft = [q \in Req |-> draft[q]] /\ TablesOK /\ Made(r) /\ Boots(r) /\ UNCHANGED rows
  BY DEF StoreInv, CountRows
<1>a. (ChartThere => ChartThere') /\ (CodesThere => CodesThere')
  BY <1>0 DEF ChartThere, CodesThere, DataOf
<1>1. CASE CountRows(r, "account", "countAccounts", "insertAccounts", "countTaxCodes")
  <2>0. pc[r] = "countAccounts" /\ Seedable("account")
    BY <1>1 DEF CountRows, Seedable
  <2>1. CASE LiveRows("account") # {}
    <3>1. /\ pc'[r] = "countTaxCodes" /\ UNCHANGED <<draft, op>> /\ \A q \in Req \ {r} : pc'[q] = pc[q]
      BY <1>1, <2>1 DEF CountRows, Continues
    <3>2. ChartThere
      BY <1>0, <2>1 DEF LiveRows, TablesOK
    <3>3. Drafts(r)' /\ Made(r)' /\ Boots(r)'
      BY <1>0, <1>a, <2>0, <3>1, <3>2 DEF Drafts, Made, Boots, SessionLabels
    <3> QED BY <1>0, <3>1, <3>3, StoreSame
  <2>2. CASE LiveRows("account") = {}
    <3>1. /\ pc'[r] = "insertAccounts" /\ UNCHANGED op /\ \A q \in Req \ {r} : pc'[q] = pc[q]
          /\ draft' = [draft EXCEPT ![r] = SeedRows(r, "account")]
      BY <1>1, <2>0, <2>2 DEF CountRows, Continues
    <3>2. /\ draft'[r] = SeedRows(r, "account") /\ draft' = [q \in Req |-> draft'[q]]
          /\ \A q \in Req \ {r} : draft'[q] = draft[q]
      BY <1>0, <3>1
    <3>3. PICK ref : ref = [i \in CHART_OF_ACCOUNTS |-> IF i.parent = "NONE" THEN Null ELSE <<r, i.parent>>]
      OBVIOUS
    <3>4. \A x : x \in draft'[r] <=> \E i \in CHART_OF_ACCOUNTS : x = NewRow("account", <<r, i.code>>, i, ref[i])
      BY <3>2, <3>3 DEF SeedRows
    <3>5. SeedOf(draft'[r], r, "account", CHART_OF_ACCOUNTS)
      BY <3>4, SeedRowsOK, SeedsFinite
    <3>6. Drafts(r)' /\ Made(r)' /\ Boots(r)'
      BY <1>0, <2>0, <3>1, <3>5 DEF Drafts, Made, Boots, SessionLabels
    <3> QED BY <1>0, <3>1, <3>2, <3>6, StoreSame
  <2> QED BY <2>1, <2>2
<1>2. CASE CountRows(r, "taxCode", "countTaxCodes", "insertTaxCodes", "currentYear")
  <2>0. pc[r] = "countTaxCodes" /\ ChartThere
    BY <1>0, <1>2 DEF CountRows, Boots
  <2>1. CASE LiveRows("taxCode") # {}
    <3>1. /\ pc'[r] = "currentYear" /\ UNCHANGED <<draft, op>> /\ \A q \in Req \ {r} : pc'[q] = pc[q]
      BY <1>2, <2>1 DEF CountRows, Continues
    <3>2. CodesThere
      BY <1>0, <2>1 DEF LiveRows, TablesOK
    <3>3. Drafts(r)' /\ Made(r)' /\ Boots(r)'
      BY <1>0, <1>a, <2>0, <3>1, <3>2 DEF Drafts, Made, Boots, SessionLabels
    <3> QED BY <1>0, <3>1, <3>3, StoreSame
  <2>2. CASE LiveRows("taxCode") = {} /\ Seedable("taxCode")
    <3>1. /\ pc'[r] = "insertTaxCodes" /\ UNCHANGED op /\ \A q \in Req \ {r} : pc'[q] = pc[q]
          /\ draft' = [draft EXCEPT ![r] = SeedRows(r, "taxCode")]
      BY <1>2, <2>2 DEF CountRows, Continues
    <3>2. /\ draft'[r] = SeedRows(r, "taxCode") /\ draft' = [q \in Req |-> draft'[q]]
          /\ \A q \in Req \ {r} : draft'[q] = draft[q]
      BY <1>0, <3>1
    <3>3. PICK ref : ref = [i \in TAX_CODE_SEED |-> RefOf("taxCode", i)]
      OBVIOUS
    <3>4. \A x : x \in draft'[r] <=> \E i \in TAX_CODE_SEED : x = NewRow("taxCode", <<r, i.code>>, i, ref[i])
      BY <3>2, <3>3 DEF SeedRows
    <3>5. SeedOf(draft'[r], r, "taxCode", TAX_CODE_SEED)
      BY <3>4, SeedRowsOK, SeedsFinite
    <3>6. Drafts(r)' /\ Made(r)' /\ Boots(r)'
      BY <1>0, <1>a, <2>0, <3>1, <3>5 DEF Drafts, Made, Boots, SessionLabels
    <3> QED BY <1>0, <3>1, <3>2, <3>6, StoreSame
  <2>3. CASE LiveRows("taxCode") = {} /\ ~Seedable("taxCode")
    <3>1. /\ pc'[r] = "failed" /\ UNCHANGED <<draft, op>> /\ \A q \in Req \ {r} : pc'[q] = pc[q]
      BY <1>2, <2>3 DEF CountRows, Finishes
    <3>2. Drafts(r)' /\ Made(r)' /\ Boots(r)'
      BY <3>1 DEF Drafts, Made, Boots, SessionLabels
    <3> QED BY <1>0, <3>1, <3>2, StoreSame
  <2> QED BY <2>1, <2>2, <2>3
<1> QED BY <1>1, <1>2

\* The transaction of seedIfEmpty: all rows, or the race was lost to rows that are
\* whole.
LEMMA InsertSeedInv ==
  ASSUME TypeOK, StoreInv, NEW r \in Req, NEW t \in {"account", "taxCode"},
         NEW at \in Labels, NEW next \in Labels, InsertSeed(r, at, next),
         t = "account" => at = "insertAccounts" /\ next = "countTaxCodes",
         t = "taxCode" => at = "insertTaxCodes" /\ next = "currentYear"
  PROVE  StoreInv'
<1> USE DEF TypeOK
<1>0. draft = [q \in Req |-> draft[q]] /\ TablesOK /\ Drafts(r) /\ Made(r) /\ Boots(r)
  BY DEF StoreInv
<1>1. /\ pc[r] = at /\ pc'[r] = next /\ UNCHANGED op /\ \A q \in Req \ {r} : pc'[q] = pc[q]
      /\ draft' = [q \in Req |-> draft'[q]] /\ \A q \in Req \ {r} : draft'[q] = draft[q]
  BY <1>0 DEF InsertSeed, Continues
<1>2. PICK D, S : D = draft[r] /\ SeedOf(D, r, t, S) /\ S = IF t = "account" THEN CHART_OF_ACCOUNTS ELSE TAX_CODE_SEED
  BY <1>0, <1>1 DEF Drafts
<1>3. Drafts(r)'
  BY <1>1 DEF Drafts
<1>4. \A x \in D : NewOf(r, x) /\ x.table = t /\ x.data \in S
  BY <1>2 DEF SeedOf
<1>5. CASE \E x \in D : UniqueViolation(x)
  <2>1. UNCHANGED rows
    BY <1>2, <1>5 DEF InsertSeed
  <2>2. \E y \in rows : y.table = t
    BY <1>4, <1>5 DEF UniqueViolation, SameKey
  <2>3. IF t = "account" THEN ChartThere ELSE ChartThere /\ CodesThere
    BY <1>0, <1>1, <2>2 DEF TablesOK, Boots
  <2>4. (ChartThere => ChartThere') /\ (CodesThere => CodesThere')
    BY <2>1 DEF ChartThere, CodesThere, DataOf
  <2>5. Made(r)' /\ Boots(r)'
    BY <1>0, <1>1, <2>1, <2>3, <2>4 DEF Made, Boots, SessionLabels
  <2> QED BY <1>1, <1>3, <2>1, <2>5, StoreSame
<1>6. CASE ~\E x \in D : UniqueViolation(x)
  <2>1. rows' = rows \cup D
    BY <1>2, <1>6 DEF InsertSeed
  <2>2. S \subseteq DataOf(t)'
    BY <1>2, <1>4, <2>1 DEF DataOf, SeedOf
  <2>3. IF t = "account" THEN ChartThere' ELSE ChartThere' /\ CodesThere'
    <3>1. CASE t = "account"
      BY <1>2, <2>2, <3>1 DEF ChartThere
    <3>2. CASE t = "taxCode"
      <4>1. ChartThere
        BY <1>0, <1>1, <3>2 DEF Boots
      <4>2. ChartThere'
        BY <2>1, <4>1 DEF ChartThere, DataOf
      <4> QED BY <1>2, <2>2, <3>2, <4>2 DEF CodesThere
    <3> QED BY <3>1, <3>2
  <2>4. \A x, y \in D : SameKey(x, y) \/ x.id = y.id => x = y
    <3> SUFFICES ASSUME NEW x \in D, NEW y \in D, SameKey(x, y) \/ x.id = y.id PROVE x = y
      OBVIOUS
    <3>1. /\ x.key = <<x.data.code>> /\ x.id = <<x.id[1], x.data.code>> /\ x.data \in S
          /\ y.key = <<y.data.code>> /\ y.id = <<y.id[1], y.data.code>> /\ y.data \in S
          /\ x.table = t
      BY <1>4 DEF NewOf, RowOK
    <3>2. \/ x.data.code = y.data.code
          \/ t = "account" /\ x.data.role = y.data.role /\ x.data.role \in SingletonRoles
      BY <3>1 DEF SameKey
    <3>3. x.data = y.data
      BY <1>2, <3>1, <3>2, SeedCodes, SeedRoles
    <3> QED BY <1>2, <3>3 DEF SeedOf
  <2>5. ASSUME NEW x \in D, NEW y \in rows PROVE x.id # y.id
    <3>1. RowOK(y) /\ NewOf(r, x) /\ x.data \in S /\ x.table = t
      BY <1>0, <1>4 DEF TablesOK
    <3>2. CASE t = "account"
      BY <1>0, <1>1, <3>1, <3>2 DEF Made, NewOf
    <3>3. CASE t = "taxCode"
      <4>1. y.id[1] = r => y.data.code # x.data.code
        BY <1>0, <1>1, <1>2, <3>1, <3>3, SeedCodes DEF Made
      <4> QED BY <3>1, <4>1 DEF NewOf, RowOK
    <3> QED BY <3>2, <3>3
  <2>6. IsFiniteSet(D)
    BY <1>2 DEF SeedOf
  <2>7. \A x \in D : /\ x.table = "account" => ChartThere'
                     /\ x.table = "taxCode" => CodesThere'
    BY <1>4, <2>3
  <2>8. TablesOK' /\ DataOf("account") \subseteq DataOf("account")'
                  /\ DataOf("taxCode") \subseteq DataOf("taxCode")'
    BY <1>4, <1>6, <2>1, <2>4, <2>5, <2>6, <2>7, Inserts
  <2>9. StoreFrame(r)
    BY <1>1, <1>4, <2>1, <2>8 DEF StoreFrame, NewOf
  <2>10. Boots(r)'
    BY <1>1, <2>3 DEF Boots, SessionLabels
  <2>11. Made(r)'
    <3>1. CASE t = "account"
      BY <1>0, <1>1, <1>2, <1>4, <2>1, <3>1 DEF Made
    <3>2. CASE t = "taxCode"
      BY <1>1, <3>2 DEF Made
    <3> QED BY <3>1, <3>2
  <2> QED BY <1>3, <2>8, <2>9, <2>10, <2>11, StoreStep
<1> QED BY <1>5, <1>6

LEMMA StoreNext_Inv ==
  ASSUME TypeOK, StoreInv, [OfficeNext]_officeVars
  PROVE  StoreInv' /\ \A x \in rows : ~x.live => x \in rows'
<1> USE DEF TypeOK
<1>0. draft = [q \in Req |-> draft[q]]
  BY DEF StoreInv
<1>1. CASE UNCHANGED <<pc, op, masterVars, calendarVars>>
  <2>1. UNCHANGED <<pc, op, rows, draft>>
    BY <1>1 DEF masterVars
  <2>2. ASSUME NEW r \in Req PROVE Drafts(r)' /\ Made(r)' /\ Boots(r)'
    BY <2>1 DEF StoreInv, Drafts, Made, Boots, ChartThere, CodesThere, DataOf
  <2>3. TablesOK'
    BY <2>1 DEF StoreInv, TablesOK, ChartThere, CodesThere, DataOf
  <2> QED BY <1>0, <2>1, <2>2, <2>3 DEF StoreInv
<1>2. ASSUME NEW r \in Req, UNCHANGED masterVars,
             \A q \in Req \ {r} : pc'[q] = pc[q] /\ op'[q] = op[q],
             pc'[r] \notin {"insertRow", "insertAccounts", "insertTaxCodes"}, Made(r)', Boots(r)'
      PROVE  StoreInv' /\ \A x \in rows : ~x.live => x \in rows'
  <2>1. UNCHANGED <<rows, draft>>
    BY <1>2 DEF masterVars
  <2>2. Drafts(r)'
    BY <1>2 DEF Drafts
  <2> QED BY <1>0, <1>2, <2>1, <2>2, StoreSame
<1>3. ASSUME NEW r \in Req, SessionMove(r)
      PROVE  StoreInv' /\ \A x \in rows : ~x.live => x \in rows'
  <2>1. /\ pc'[r] \notin {"insertRow", "insertAccounts", "insertTaxCodes"} /\ UNCHANGED masterVars
        /\ \A q \in Req \ {r} : pc'[q] = pc[q] /\ op'[q] = op[q]
    BY <1>3 DEF SessionMove, SessionLabels
  <2>2. Made(r)'
    BY <1>3 DEF SessionMove, SessionLabels, Made
  <2>3. Boots(r)'
    BY <1>3 DEF SessionMove, SessionLabels, Boots, StoreInv
  <2> QED BY <1>2, <2>1, <2>2, <2>3
<1>4. ASSUME NEW r \in Req, CalendarMove(r)
      PROVE  StoreInv' /\ \A x \in rows : ~x.live => x \in rows'
  <2>0. UNCHANGED masterVars /\ UNCHANGED rows /\ Made(r) /\ Boots(r)
    BY <1>4 DEF CalendarMove, masterVars, StoreInv
  <2>a. (ChartThere => ChartThere') /\ (CodesThere => CodesThere')
    BY <2>0 DEF ChartThere, CodesThere, DataOf
  <2>1. CASE CalendarStep(r)
    <3>1. /\ pc[r] \in {"currentYear", "listPeriods", "readStart", "createPeriods"} /\ UNCHANGED op
          /\ pc'[r] \in {"listPeriods", "readStart", "createPeriods", "done"}
          /\ \A q \in Req \ {r} : pc'[q] = pc[q]
      BY <2>1 DEF CalendarStep, CurrentYear, ListPeriods, ReadStart, CreatePeriods, Continues
    <3>2. Made(r)' /\ Boots(r)'
      BY <2>0, <2>a, <3>1 DEF Made, Boots, SessionLabels
    <3> QED BY <1>2, <2>0, <3>1, <3>2
  <2>2. CASE BeginCalendar(r)
    <3>1. /\ op'[r] \in {"updateCompany", "generate"} /\ pc'[r] \in {"done", "listPeriods"}
          /\ \A q \in Req \ {r} : pc'[q] = pc[q] /\ op'[q] = op[q]
      BY <2>2 DEF BeginCalendar, UpdateCompany, BeginGenerate, Starts
    <3>2. Made(r)' /\ Boots(r)'
      BY <3>1 DEF Made, Boots, SessionLabels
    <3> QED BY <1>2, <2>0, <3>1, <3>2
  <2>3. CASE Boot(r) \/ FindCompany(r, "countAccounts") \/ CreateCompany(r, "countAccounts")
    <3>1. /\ pc[r] \in {"start", "findCompany", "createCompany"}
          /\ pc'[r] \in {"findCompany", "createCompany", "countAccounts"}
          /\ \A q \in Req \ {r} : pc'[q] = pc[q] /\ op'[q] = op[q]
      BY <2>3 DEF Boot, FindCompany, CreateCompany, Starts, Continues
    <3>2. Made(r)' /\ Boots(r)'
      BY <2>0, <3>1 DEF Made, Boots, SessionLabels
    <3> QED BY <1>2, <2>0, <3>1, <3>2
  <2> QED BY <1>4, <2>1, <2>2, <2>3 DEF CalendarMove
<1>5. ASSUME NEW r \in Req, MasterMove(r)
      PROVE  StoreInv' /\ \A x \in rows : ~x.live => x \in rows'
  <2>1. CASE Serving /\ BeginChangeRow(r)
    <3>1. /\ pc[r] = "start" /\ pc'[r] = "changeRow" /\ op'[r] \in {"setActive", "deleteRow"}
          /\ UNCHANGED <<rows, draft>> /\ \A q \in Req \ {r} : pc'[q] = pc[q] /\ op'[q] = op[q]
      BY <2>1 DEF BeginChangeRow, Starts
    <3>2. ChartThere' /\ CodesThere'
      BY <2>1, <3>1 DEF Serving, StoreInv, Boots, ChartThere, CodesThere, DataOf
    <3>3. Drafts(r)' /\ Made(r)' /\ Boots(r)'
      BY <3>1, <3>2 DEF Drafts, Made, Boots, SessionLabels
    <3> QED BY <1>0, <3>1, <3>3, StoreSame
  <2>2. CASE (Serving /\ BeginCreateRow(r)) \/ InsertRow(r)
    <3>1. rows \subseteq rows'
      BY <2>2 DEF BeginCreateRow, InsertRow
    <3>2. StoreInv'
      BY <2>2, CreateRowInv
    <3> QED BY <3>1, <3>2
  <2>3. CASE ChangeRow(r)
    BY <2>3, ChangeRowInv
  <2>4. CASE \/ CountRows(r, "account", "countAccounts", "insertAccounts", "countTaxCodes")
             \/ CountRows(r, "taxCode", "countTaxCodes", "insertTaxCodes", "currentYear")
    BY <2>4, CountRowsInv DEF CountRows
  <2>5. CASE InsertSeed(r, "insertAccounts", "countTaxCodes")
    <3>1. rows \subseteq rows' /\ "insertAccounts" \in Labels /\ "countTaxCodes" \in Labels
      BY <2>5 DEF InsertSeed, Labels, OtherLabels
    <3>2. StoreInv'
      BY <2>5, <3>1, InsertSeedInv
    <3> QED BY <3>1, <3>2
  <2>6. CASE InsertSeed(r, "insertTaxCodes", "currentYear")
    <3>1. rows \subseteq rows' /\ "insertTaxCodes" \in Labels /\ "currentYear" \in Labels
      BY <2>6 DEF InsertSeed, Labels, OtherLabels
    <3>2. StoreInv'
      BY <2>6, <3>1, InsertSeedInv
    <3> QED BY <3>1, <3>2
  <2> QED BY <1>5, <2>1, <2>2, <2>3, <2>4, <2>5, <2>6
          DEF MasterMove, MasterDataStep, BeginMasterData, SeedStep
<1> QED BY <1>1, <1>3, <1>4, <1>5, StoreSplit

-----------------------------------------------------------------------------
(* Master data: the theorems. *)

\* The unique indexes give one live row per code ...
LEMMA CodesFit ==
  ASSUME TablesOK
  PROVE  CodesUnique
<1> SUFFICES ASSUME NEW t \in Tables
             PROVE  Cardinality({x.data.code : x \in LiveRows(t)}) = Cardinality(LiveRows(t))
  BY DEF CodesUnique
<1> DEFINE L == LiveRows(t)
           C == {x.data.code : x \in L}
           f == [x \in L |-> x.data.code]
<1>1. IsFiniteSet(L)
  <2>1. L \in SUBSET rows
    BY DEF LiveRows
  <2> QED BY <2>1, FS_Subset DEF TablesOK
<1>2. \A x \in L : x \in rows /\ x.table = t /\ x.key = <<x.data.code>>
  BY DEF LiveRows, TablesOK, RowOK
<1> HIDE DEF L
<1>3. f \in [L -> C] /\ (\A x \in L : f[x] = x.data.code) /\ \A c \in C : \E x \in L : f[x] = c
  OBVIOUS
<1> HIDE DEF f, C
<1>4. \A x, y \in L : f[x] = f[y] => x = y
  <2> SUFFICES ASSUME NEW x \in L, NEW y \in L, f[x] = f[y] PROVE x = y
    OBVIOUS
  <2>1. x.key = y.key /\ x.table = y.table /\ x \in rows /\ y \in rows
    BY <1>2, <1>3
  <2> QED BY <2>1 DEF TablesOK, SameKey
<1>5. f \in Bijection(L, C)
  BY <1>3, <1>4, Fun_IsBij
<1>6. ExistsBijection(L, C)
  BY <1>5 DEF ExistsBijection
<1>7. Cardinality(C) = Cardinality(L)
  BY <1>1, <1>6, FS_Bijection
<1> QED BY <1>7 DEF L, C

\* ... and at most one account per singleton role.
LEMMA RolesFit ==
  ASSUME TablesOK
  PROVE  RolesHeldOnce
<1> SUFFICES ASSUME NEW role \in SingletonRoles
             PROVE  Cardinality({x \in rows : x.table = "account" /\ x.data.role = role}) <= 1
  BY DEF RolesHeldOnce
<1> DEFINE S == {x \in rows : x.table = "account" /\ x.data.role = role}
<1>1. \A x, y \in S : x = y
  BY DEF TablesOK, SameKey
<1> HIDE DEF S
<1>2. S = {} \/ \E x : S = {x}
  BY <1>1
<1>3. Cardinality(S) <= 1
  BY <1>2, FS_EmptySet, FS_Singleton
<1> QED BY <1>3 DEF S

\* The invariant of the tables holds in every reachable state.
THEOREM MasterDataInductive == OfficeSpec => []StoreInv
<1>1. SessionInv => TypeOK
  BY DEF SessionInv
<1>2. TypeOK /\ StoreInv /\ [OfficeNext]_officeVars => StoreInv'
  BY StoreNext_Inv
<1> QED BY <1>1, <1>2, SessionsInductive, StoreInit_Inv, PTL DEF OfficeSpec

\* seedIfEmpty: however instances boot, lose the race or stop half-way, the chart and
\* the tax codes are there as a whole or not at all.
THEOREM SeedsAreWhole == OfficeSpec => []SeededWhole
<1>1. StoreInv => SeededWhole
  <2> SUFFICES ASSUME StoreInv PROVE SeededWhole
    OBVIOUS
  <2>1. CHART_OF_ACCOUNTS \subseteq DataOf("account") \/ DataOf("account") = {}
    BY DEF StoreInv, TablesOK, ChartThere, DataOf
  <2>2. TAX_CODE_SEED \subseteq DataOf("taxCode") \/ DataOf("taxCode") = {}
    BY DEF StoreInv, TablesOK, CodesThere, DataOf
  <2> QED BY <2>1, <2>2 DEF SeededWhole
<1> QED BY <1>1, MasterDataInductive, PTL

\* create, deletion and the seed under the unique indexes: no two live users share
\* an address, no two live rows a code, and no two accounts a singleton role.
THEOREM KeysStayUnique == OfficeSpec => []KeysUnique
<1>1. SessionInv => EmailsUnique
  BY DEF SessionInv, EmailIndex, EmailsUnique, Live
<1>2. StoreInv => CodesUnique /\ RolesHeldOnce
  BY CodesFit, RolesFit DEF StoreInv
<1> QED BY <1>1, <1>2, SessionsInductive, MasterDataInductive, PTL DEF KeysUnique

\* softDelete and tombstoneDelete: no step changes or revives what is deleted.
THEOREM DeletionIsFinal == OfficeSpec => DeletedIsFinal
<1>1. SessionInv /\ StoreInv /\ [OfficeNext]_officeVars =>
        [/\ \A u \in UserId : user[u].state = "deleted" => user'[u] = user[u]
         /\ \A x \in rows : ~x.live => x \in rows']_officeVars
  BY TablesMove, StoreNext_Inv DEF SessionInv
<1> QED BY <1>1, SessionsInductive, MasterDataInductive, PTL DEF OfficeSpec, DeletedIsFinal

-----------------------------------------------------------------------------
(* Master data: the accounts behind tax codes, the parents of accounts. *)

\* The row that x refers to, among R, suits it.
Suits(x, R) ==
  x.ref # Null \/ x.table = "taxCode" =>
    \E y \in R :
      /\ y.table = "account" /\ y.id = x.ref
      /\ x.table = "account" => ~y.data.postable
      /\ x.table = "taxCode" /\ ~SeedMisplaced(x, y) =>
           y.data.postable /\ y.data.normal = RequiredNormalBalance(x.data.kind)

\* A draft refers to rows that are there, or that are inserted with it.
DraftSuits(r) ==
  /\ pc[r] \in {"insertRow", "insertTaxCodes"} => \A x \in draft[r] : Suits(x, rows)
  /\ pc[r] = "insertAccounts" => \A x \in draft[r] : Suits(x, draft[r])

ReferenceInv == (\A x \in rows : Suits(x, rows)) /\ \A r \in Req : DraftSuits(r)

\* Rows only come, or change what nobody refers by.
Keeps(R, S) == \A y \in R : \E z \in S : z.table = y.table /\ z.id = y.id /\ z.data = y.data

LEMMA SuitsKept == ASSUME NEW R, NEW S, Keeps(R, S), NEW x, Suits(x, R) PROVE Suits(x, S)
<1> SUFFICES ASSUME x.ref # Null \/ x.table = "taxCode"
             PROVE  \E z \in S :
                      /\ z.table = "account" /\ z.id = x.ref
                      /\ x.table = "account" => ~z.data.postable
                      /\ x.table = "taxCode" /\ ~SeedMisplaced(x, z) =>
                           z.data.postable /\ z.data.normal = RequiredNormalBalance(x.data.kind)
  BY DEF Suits
<1>1. PICK y \in R :
        /\ y.table = "account" /\ y.id = x.ref
        /\ x.table = "account" => ~y.data.postable
        /\ x.table = "taxCode" /\ ~SeedMisplaced(x, y) =>
             y.data.postable /\ y.data.normal = RequiredNormalBalance(x.data.kind)
  BY DEF Suits
<1>2. PICK z \in S : z.table = y.table /\ z.id = y.id /\ z.data = y.data
  BY DEF Keeps
<1> QED BY <1>1, <1>2 DEF SeedMisplaced

LEMMA ReferenceStep ==
  ASSUME ReferenceInv, NEW r \in Req, Keeps(rows, rows'),
         \A q \in Req \ {r} : pc'[q] = pc[q] /\ draft'[q] = draft[q],
         \A x \in rows' : x \in rows \/ Suits(x, rows'), DraftSuits(r)'
  PROVE  ReferenceInv'
<1>1. \A x : Suits(x, rows) => Suits(x, rows')
  BY SuitsKept
<1>2. \A q \in Req \ {r} : DraftSuits(q)'
  BY <1>1 DEF ReferenceInv, DraftSuits
<1>3. \A x \in rows' : Suits(x, rows')
  BY <1>1 DEF ReferenceInv
<1>4. (\A x \in rows : Suits(x, rows))'
  BY <1>3
<1> QED BY <1>2, <1>4 DEF ReferenceInv

\* The seeded accounts: parents are headers, and the accounts of tax codes suit them.
LEMMA SeedReferences ==
  /\ \A a \in CHART_OF_ACCOUNTS :
       a.parent = "NONE" \/ \E h \in CHART_OF_ACCOUNTS : h.code = a.parent /\ ~h.postable
  /\ \A a \in CHART_OF_ACCOUNTS, c \in TAX_CODE_SEED :
       a.code = c.account => a.postable /\ a.normal = RequiredNormalBalance(c.kind)
<1>1. /\ \A c, t, s, n : LET h == Header(c, t, s, n) IN
           h.code = c /\ h.parent = "NONE" /\ h.postable = FALSE /\ h.normal = n
      /\ \A c, t, s, n, k, o, p : LET l == Leaf(c, t, s, n, k, o, p) IN
           l.code = c /\ l.parent = p /\ l.postable = TRUE /\ l.normal = n
  BY DEF Header, Leaf
<1>2. \A a \in Assets : /\ a.parent = "NONE" \/ \E h \in Assets : h.code = a.parent /\ ~h.postable
                        /\ a.code \in {"1-1400", "1-1500"} => a.postable /\ a.normal = "DEBIT"
                        /\ a.code \notin {"2-1100", "2-1200"}
  BY <1>1 DEF Assets
<1>3. \A a \in Liabilities : /\ a.parent = "NONE" \/ \E h \in Liabilities : h.code = a.parent /\ ~h.postable
                             /\ a.code \in {"2-1100", "2-1200"} => a.postable /\ a.normal = "CREDIT"
                             /\ a.code \notin {"1-1400", "1-1500"}
  BY <1>1 DEF Liabilities
<1>4. \A a \in Equities : /\ a.parent = "NONE" \/ \E h \in Equities : h.code = a.parent /\ ~h.postable
                          /\ a.code \notin {"1-1400", "1-1500", "2-1100", "2-1200"}
  BY <1>1 DEF Equities
<1>5. \A a \in Revenues : /\ a.parent = "NONE" \/ \E h \in Revenues : h.code = a.parent /\ ~h.postable
                          /\ a.code \notin {"1-1400", "1-1500", "2-1100", "2-1200"}
  BY <1>1 DEF Revenues
<1>6. \A a \in Expenses : /\ a.parent = "NONE" \/ \E h \in Expenses : h.code = a.parent /\ ~h.postable
                          /\ a.code \notin {"1-1400", "1-1500", "2-1100", "2-1200"}
  BY <1>1 DEF Expenses
<1>7. \A c \in TAX_CODE_SEED :
        \/ c.account \in {"2-1100", "2-1200"} /\ RequiredNormalBalance(c.kind) = "CREDIT"
        \/ c.account \in {"1-1400", "1-1500"} /\ RequiredNormalBalance(c.kind) = "DEBIT"
  BY DEF TAX_CODE_SEED, RequiredNormalBalance
<1>8. \A a \in CHART_OF_ACCOUNTS :
        a.parent = "NONE" \/ \E h \in CHART_OF_ACCOUNTS : h.code = a.parent /\ ~h.postable
  BY <1>2, <1>3, <1>4, <1>5, <1>6 DEF CHART_OF_ACCOUNTS
<1>9. \A a \in CHART_OF_ACCOUNTS, c \in TAX_CODE_SEED :
        a.code = c.account => a.postable /\ a.normal = RequiredNormalBalance(c.kind)
  BY <1>2, <1>3, <1>4, <1>5, <1>6, <1>7 DEF CHART_OF_ACCOUNTS
<1> QED BY <1>8, <1>9

\* The row that create and the seed of tax codes find for an input.
LEMMA ReferredOK ==
  ASSUME NEW t, NEW i, Referred(t, i) # {}
  PROVE  \E y \in Referred(t, i) : y.id = RefOf(t, i)
BY DEF RefOf

\* The row a client creates passed the checks of create.
LEMMA CreatedSuits ==
  ASSUME NEW r \in Req, NEW t \in Tables, NEW i \in Inputs[t], Admissible(t, i), NEW x,
         x = NewRow(t, <<r, i.code>>, i, RefOf(t, i))
  PROVE  Suits(x, rows)
<1>0. x.table = t /\ x.data = i /\ x.ref = RefOf(t, i)
  BY DEF NewRow
<1>1. CASE Referred(t, i) = {}
  <2>1. t # "taxCode"
    BY <1>1 DEF Admissible
  <2>2. x.ref = Null
    BY <1>0, <1>1 DEF RefOf
  <2> QED BY <1>0, <2>1, <2>2 DEF Suits
<1>2. CASE Referred(t, i) # {}
  <2>1. PICK y \in Referred(t, i) : y.id = x.ref
    BY <1>0, <1>2, ReferredOK
  <2>2. CASE t = "account"
    <3>1. i.parent # "NONE" /\ y \in rows /\ y.table = "account"
      BY <2>1, <2>2 DEF Referred, LiveRow, LiveRows
    <3>2. ~y.data.postable
      BY <2>1, <2>2, <3>1 DEF Admissible
    <3> QED BY <1>0, <2>1, <2>2, <3>1, <3>2 DEF Suits
  <2>3. CASE t = "taxCode"
    <3>1. y \in rows /\ y.table = "account"
      BY <2>1, <2>3 DEF Referred, LiveRow, LiveRows
    <3>2. y.data.postable /\ y.data.normal = RequiredNormalBalance(i.kind)
      BY <2>1, <2>3 DEF Admissible
    <3> QED BY <1>0, <2>1, <2>3, <3>1, <3>2 DEF Suits
  <2>4. CASE t = "partner"
    BY <1>2, <2>4 DEF Referred
  <2> QED BY <2>2, <2>3, <2>4 DEF Tables
<1> QED BY <1>1, <1>2

\* The chart refers to itself, and the tax codes, if to accounts of the chart, to
\* those that suit them.
LEMMA SeedSuits ==
  ASSUME TablesOK, NEW r \in Req
  PROVE  /\ \A x \in SeedRows(r, "account") : Suits(x, SeedRows(r, "account"))
         /\ Seedable("taxCode") => \A x \in SeedRows(r, "taxCode") : Suits(x, rows)
<1>1. ASSUME NEW x \in SeedRows(r, "account") PROVE Suits(x, SeedRows(r, "account"))
  <2> DEFINE n(i) == NewRow("account", <<r, i.code>>, i, IF i.parent = "NONE" THEN Null ELSE <<r, i.parent>>)
  <2>1. \A i : /\ n(i).table = "account" /\ n(i).id = <<r, i.code>> /\ n(i).data = i
               /\ n(i).ref = IF i.parent = "NONE" THEN Null ELSE <<r, i.parent>>
    BY DEF NewRow
  <2>2. SeedRows(r, "account") = {n(i) : i \in CHART_OF_ACCOUNTS}
    BY DEF SeedRows
  <2> HIDE DEF n
  <2>3. PICK i \in CHART_OF_ACCOUNTS : x = n(i)
    BY <2>2
  <2>4. CASE i.parent = "NONE"
    BY <2>1, <2>3, <2>4 DEF Suits
  <2>5. CASE i.parent # "NONE"
    <3>1. PICK h \in CHART_OF_ACCOUNTS : h.code = i.parent /\ ~h.postable
      BY <2>5, SeedReferences
    <3>2. n(h) \in SeedRows(r, "account") /\ n(h).table = "account" /\ n(h).id = x.ref /\ ~n(h).data.postable
      BY <2>1, <2>2, <2>3, <2>5, <3>1
    <3>3. x.table = "account" /\ x.data \in CHART_OF_ACCOUNTS
      BY <2>1, <2>3
    <3> QED BY <3>2, <3>3 DEF Suits
  <2> QED BY <2>4, <2>5
<1>2. ASSUME Seedable("taxCode"), NEW x \in SeedRows(r, "taxCode") PROVE Suits(x, rows)
  <2>1. PICK i \in TAX_CODE_SEED : x = NewRow("taxCode", <<r, i.code>>, i, RefOf("taxCode", i))
    BY DEF SeedRows
  <2>2. x.table = "taxCode" /\ x.data = i /\ x.ref = RefOf("taxCode", i)
    BY <2>1 DEF NewRow
  <2>3. PICK y \in Referred("taxCode", i) : y.id = x.ref
    BY <1>2, <2>2, ReferredOK DEF Seedable
  <2>4. y \in rows /\ y.table = "account" /\ y.live /\ y.key = <<i.account>>
    BY <2>3 DEF Referred, LiveRow, LiveRows
  <2>5. y.data.code = i.account
    <3>1. y.key = <<y.data.code>>
      BY <2>4 DEF TablesOK, RowOK
    <3> QED BY <2>4, <3>1
  <2>6. y.data \in CHART_OF_ACCOUNTS =>
          y.data.postable /\ y.data.normal = RequiredNormalBalance(i.kind)
    BY <2>5, SeedReferences
  <2> QED BY <2>2, <2>3, <2>4, <2>6 DEF Suits, SeedMisplaced
<1> QED BY <1>1, <1>2

LEMMA ReferenceNext_Inv ==
  ASSUME TypeOK, StoreInv, ReferenceInv, [OfficeNext]_officeVars
  PROVE  ReferenceInv'
<1> USE DEF TypeOK
<1>0. draft = [q \in Req |-> draft[q]] /\ TablesOK
  BY DEF StoreInv
<1>1. CASE UNCHANGED <<pc, op, masterVars, calendarVars>>
  BY <1>1 DEF masterVars, ReferenceInv, DraftSuits
<1>2. ASSUME NEW r \in Req, UNCHANGED rows, \A q \in Req \ {r} : pc'[q] = pc[q] /\ draft'[q] = draft[q],
             DraftSuits(r)'
      PROVE  ReferenceInv'
  <2>1. Keeps(rows, rows')
    BY <1>2 DEF Keeps
  <2> QED BY <1>2, <2>1, ReferenceStep
<1>3. ASSUME NEW r \in Req, rows' = rows \cup draft[r], UNCHANGED draft \/ draft' = [draft EXCEPT ![r] = {}],
             pc[r] \in {"insertRow", "insertTaxCodes", "insertAccounts"},
             pc'[r] \notin {"insertRow", "insertTaxCodes", "insertAccounts"},
             \A q \in Req \ {r} : pc'[q] = pc[q]
      PROVE  ReferenceInv'
  <2>1. Keeps(rows, rows') /\ Keeps(draft[r], rows')
    BY <1>3 DEF Keeps
  <2>2. \A x \in draft[r] : Suits(x, rows')
    BY <1>3, <2>1, SuitsKept DEF ReferenceInv, DraftSuits
  <2>3. DraftSuits(r)' /\ \A q \in Req \ {r} : draft'[q] = draft[q]
    BY <1>0, <1>3 DEF DraftSuits
  <2> QED BY <1>3, <2>1, <2>2, <2>3, ReferenceStep
<1>4. ASSUME NEW r \in Req, SessionMove(r) \/ CalendarMove(r) PROVE ReferenceInv'
  <2>1. /\ UNCHANGED <<rows, draft>> /\ \A q \in Req \ {r} : pc'[q] = pc[q]
        /\ pc'[r] \notin {"insertRow", "insertTaxCodes", "insertAccounts"}
    BY <1>4 DEF SessionMove, SessionLabels, masterVars, CalendarMove, CalendarStep, CurrentYear, ListPeriods,
                ReadStart, CreatePeriods, BeginCalendar, UpdateCompany, BeginGenerate, Boot, FindCompany,
                CreateCompany, Starts, Continues
  <2>2. DraftSuits(r)'
    BY <2>1 DEF DraftSuits
  <2> QED BY <1>2, <2>1, <2>2
<1>5. ASSUME NEW r \in Req, BeginCreateRow(r) PROVE ReferenceInv'
  <2>1. PICK t \in Tables : \E i \in Inputs[t] :
          /\ Admissible(t, i) /\ Starts(r, "createRow", "insertRow") /\ UNCHANGED rows
          /\ draft' = [draft EXCEPT ![r] = {NewRow(t, <<r, i.code>>, i, RefOf(t, i))}]
    BY <1>5 DEF BeginCreateRow
  <2>2. PICK i \in Inputs[t] :
          /\ Admissible(t, i) /\ Starts(r, "createRow", "insertRow") /\ UNCHANGED rows
          /\ draft' = [draft EXCEPT ![r] = {NewRow(t, <<r, i.code>>, i, RefOf(t, i))}]
    BY <2>1
  <2>3. PICK x : x = NewRow(t, <<r, i.code>>, i, RefOf(t, i))
    OBVIOUS
  <2>4. draft'[r] = {x} /\ pc'[r] = "insertRow" /\ \A q \in Req \ {r} : pc'[q] = pc[q] /\ draft'[q] = draft[q]
    BY <1>0, <2>2, <2>3 DEF Starts
  <2>5. Suits(x, rows)
    BY <2>2, <2>3, CreatedSuits
  <2>6. DraftSuits(r)'
    BY <2>2, <2>4, <2>5 DEF DraftSuits
  <2> QED BY <1>2, <2>2, <2>4, <2>6
<1>6. ASSUME NEW r \in Req, BeginChangeRow(r) PROVE ReferenceInv'
  <2>1. /\ UNCHANGED <<rows, draft>> /\ pc'[r] = "changeRow" /\ \A q \in Req \ {r} : pc'[q] = pc[q]
    BY <1>6 DEF BeginChangeRow, Starts
  <2>2. DraftSuits(r)'
    BY <2>1 DEF DraftSuits
  <2> QED BY <1>2, <2>1, <2>2
<1>7. ASSUME NEW r \in Req, InsertRow(r) PROVE ReferenceInv'
  <2>1. /\ pc[r] = "insertRow" /\ pc'[r] \in {"done", "failed"} /\ UNCHANGED draft
        /\ \A q \in Req \ {r} : pc'[q] = pc[q]
    BY <1>7 DEF InsertRow, Finishes
  <2>2. DraftSuits(r)'
    BY <2>1 DEF DraftSuits
  <2>3. UNCHANGED rows \/ rows' = rows \cup draft[r]
    BY <1>7 DEF InsertRow
  <2> QED BY <1>2, <1>3, <2>1, <2>2, <2>3
<1>8. ASSUME NEW r \in Req, ChangeRow(r) PROVE ReferenceInv'
  <2>1. /\ pc'[r] \in {"done", "failed"} /\ UNCHANGED draft /\ \A q \in Req \ {r} : pc'[q] = pc[q]
    BY <1>8 DEF ChangeRow, Finishes
  <2>2. DraftSuits(r)'
    BY <2>1 DEF DraftSuits
  <2>3. CASE UNCHANGED rows
    BY <1>2, <2>1, <2>2, <2>3
  <2>4. CASE rows' = (rows \ Target(r)) \cup {Changed(r, x) : x \in Target(r)}
    <3>1. \A x \in Target(r) : /\ x \in rows /\ Changed(r, x).table = x.table /\ Changed(r, x).id = x.id
                               /\ Changed(r, x).data = x.data /\ Changed(r, x).ref = x.ref
      BY <1>0 DEF Target, TablesOK, RowOK, Changed, Tombstone
    <3>2. Keeps(rows, rows')
      BY <2>4, <3>1 DEF Keeps
    <3>3. \A x \in rows : Suits(x, rows')
      BY <3>2, SuitsKept DEF ReferenceInv
    <3>4. \A x \in Target(r) : Suits(Changed(r, x), rows')
      BY <3>1, <3>3 DEF Suits, SeedMisplaced
    <3>5. \A x \in rows' : x \in rows \/ Suits(x, rows')
      BY <2>4, <3>4
    <3> QED BY <2>1, <2>2, <3>2, <3>5, ReferenceStep
  <2> QED BY <1>8, <2>3, <2>4 DEF ChangeRow
<1>9. ASSUME NEW r \in Req, SeedStep(r, "currentYear") PROVE ReferenceInv'
  <2>1. CASE InsertSeed(r, "insertAccounts", "countTaxCodes") \/ InsertSeed(r, "insertTaxCodes", "currentYear")
    <3>1. /\ pc[r] \in {"insertTaxCodes", "insertAccounts"} /\ pc'[r] \in {"countTaxCodes", "currentYear"}
          /\ draft' = [draft EXCEPT ![r] = {}] /\ \A q \in Req \ {r} : pc'[q] = pc[q]
          /\ UNCHANGED rows \/ rows' = rows \cup draft[r]
      BY <2>1 DEF InsertSeed, Continues
    <3>2. DraftSuits(r)' /\ \A q \in Req \ {r} : draft'[q] = draft[q]
      BY <1>0, <3>1 DEF DraftSuits
    <3> QED BY <1>2, <1>3, <3>1, <3>2
  <2>2. ASSUME NEW t \in {"account", "taxCode"}, NEW at, NEW ins, NEW next, CountRows(r, t, at, ins, next),
               t = "account" => ins = "insertAccounts", t = "taxCode" => ins = "insertTaxCodes",
               next \in {"countTaxCodes", "currentYear"}
        PROVE  ReferenceInv'
    <3>1. UNCHANGED rows /\ \A q \in Req \ {r} : pc'[q] = pc[q] /\ draft'[q] = draft[q]
      BY <1>0, <2>2 DEF CountRows, Continues, Finishes
    <3>2. \/ pc'[r] = ins /\ draft'[r] = SeedRows(r, t) /\ Seedable(t)
          \/ pc'[r] \in {next, "failed"}
      BY <1>0, <2>2 DEF CountRows, Continues, Finishes
    <3>3. CASE pc'[r] = ins /\ draft'[r] = SeedRows(r, t) /\ Seedable(t)
      <4>1. DraftSuits(r)'
        BY <1>0, <2>2, <3>1, <3>3, SeedSuits DEF DraftSuits
      <4> QED BY <1>2, <3>1, <4>1
    <3>4. CASE pc'[r] \in {next, "failed"}
      <4>1. DraftSuits(r)'
        BY <2>2, <3>4 DEF DraftSuits
      <4> QED BY <1>2, <3>1, <4>1
    <3> QED BY <3>2, <3>3, <3>4
  <2> QED BY <1>9, <2>1, <2>2 DEF SeedStep
<1>10. ASSUME NEW r \in Req, MasterMove(r) PROVE ReferenceInv'
  BY <1>5, <1>6, <1>7, <1>8, <1>9, <1>10 DEF MasterMove, MasterDataStep, BeginMasterData
<1> QED BY <1>1, <1>4, <1>10, StoreSplit

\* create and the seed, at every boot and whatever clients create and delete between
\* boots: parents are headers, and the account behind a tax code is postable and of
\* the right normal balance, unless the code was seeded again onto an account that
\* a client had put in the place of the chart's.
THEOREM ReferencesStayFit == OfficeSpec => []ReferencesFit
<1>1. OfficeInit => ReferenceInv
  BY DEF OfficeInit, Init, MasterInit, RequestsInit, ReferenceInv, DraftSuits
<1>2. SessionInv /\ StoreInv /\ ReferenceInv /\ [OfficeNext]_officeVars => ReferenceInv'
  BY ReferenceNext_Inv DEF SessionInv
<1>3. ReferenceInv => ReferencesFit
  BY DEF ReferenceInv, Suits, ReferencesFit
<1> QED BY <1>1, <1>2, <1>3, SessionsInductive, MasterDataInductive, PTL DEF OfficeSpec
=============================================================================
