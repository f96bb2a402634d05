----------------------------- MODULE MasterData -----------------------------
(***************************************************************************)
(* Accounts, tax codes and business partners as soft-deletable tables       *)
(* (AccountsService, TaxCodesService, BusinessPartnersService over          *)
(* soft-delete.extension.ts), and their seeding at boot.  Lookups and       *)
(* updates see live rows only; unique indexes see every row, so deletion    *)
(* suffixes the code.  That an account has no posted lines is checked in    *)
(* module ChartOfAccounts, over the journal.                                *)
(***************************************************************************)
EXTENDS Requests, Chart

CONSTANTS
  Inputs,     \* the rows that clients may create, per table
  Editable    \* the codes of the rows that clients change or delete

Tables == {"account", "taxCode", "partner"}

VARIABLES
  rows,    \* the rows of the three tables
  draft,   \* the row or rows a request will insert
  target,  \* the id of the row it changes or deletes
  flag     \* the activity it sets

masterVars == <<rows, draft, target, flag>>

MasterInit ==
  /\ rows = {}
  /\ draft = [r \in Req |-> {}]
  /\ target = [r \in Req |-> Null]
  /\ flag = [r \in Req |-> TRUE]

\* The soft-delete filter of find, count and update.
LiveRows(t) == {x \in rows : x.table = t /\ x.live}
LiveRow(t, code) == {x \in LiveRows(t) : x.key = <<code>>}

\* A new row, with the id of the row it refers to: the parent of an account, the
\* account of a tax code.
NewRow(t, id, data, ref) ==
  [table |-> t, id |-> id, key |-> <<data.code>>, data |-> data, ref |-> ref,
   active |-> TRUE, live |-> TRUE]

\* tombstoneValue: the code, suffixed with the id.
Tombstone(x) == [x EXCEPT !.key = <<x.data.code, x.id>>, !.live = FALSE]

\* The unique indexes: the code per table, and accounts_singleton_role, which
\* tombstones do not free.
SameKey(x, y) ==
  /\ x.table = y.table
  /\ \/ x.key = y.key
     \/ x.table = "account" /\ x.data.role = y.data.role /\ x.data.role \in SingletonRoles

UniqueViolation(x) == \E y \in rows : SameKey(x, y)

-----------------------------------------------------------------------------
(* Creation. *)

\* The row an input refers to, looked up among the live ones by code.
Referred(t, i) ==
  CASE t = "account" /\ i.parent # "NONE" -> LiveRow("account", i.parent)
    [] t = "taxCode"                      -> LiveRow("account", i.account)
    [] OTHER                              -> {}

\* Mutant of Admissible: the account of a tax code is not examined.
AdmitAnyAccount(t, i) ==
  CASE t = "account" -> i.subtype \in TYPE_SUBTYPES[i.type]
    [] t = "taxCode" -> ValidRate(i.rate)
    [] t = "partner" -> i.isCustomer \/ i.isVendor

\* What create requires of the input: a subtype of the type, a free singleton role
\* and a header as parent; a rate between 0 and 1 and a postable account of the
\* right normal balance; a customer or a vendor.
Admissible(t, i) ==
  CASE t = "account" ->
         /\ i.subtype \in TYPE_SUBTYPES[i.type]
         /\ i.role \in SingletonRoles => \A x \in LiveRows("account") : x.data.role # i.role
         /\ i.parent # "NONE" =>
              Referred(t, i) # {} /\ \A x \in Referred(t, i) : ~x.data.postable
    [] t = "taxCode" ->
         /\ ValidRate(i.rate)
         /\ Referred(t, i) # {}
         /\ \A x \in Referred(t, i) :
              x.data.postable /\ x.data.normal = RequiredNormalBalance(i.kind)
    [] t = "partner" -> i.isCustomer \/ i.isVendor

RefOf(t, i) == IF Referred(t, i) = {} THEN Null ELSE (CHOOSE x \in Referred(t, i) : TRUE).id

\* create: the checks, on what the live rows are now (one step for its lookups:
\* whatever commits between them may as well commit before the insert) ...
BeginCreateRow(r) ==
  \E t \in Tables : \E i \in Inputs[t] :
    /\ LiveRow(t, i.code) = {}
    /\ Admissible(t, i)
    /\ Starts(r, "createRow", "insertRow")
    /\ draft' = [draft EXCEPT ![r] = {NewRow(t, <<r, i.code>>, i, RefOf(t, i))}]
    /\ UNCHANGED <<rows, target, flag>>

\* Mutant of InsertRow: the lookup before it is trusted.
InsertUnchecked(r) ==
  /\ pc[r] = "insertRow"
  /\ rows' = rows \cup draft[r]
  /\ Finishes(r, "done")
  /\ UNCHANGED <<draft, target, flag>>

\* ... and the insert, which a unique index may refuse (mapUniqueViolation).
InsertRow(r) ==
  /\ pc[r] = "insertRow"
  /\ IF \E x \in draft[r] : UniqueViolation(x)
       THEN Finishes(r, "failed") /\ UNCHANGED rows
       ELSE Finishes(r, "done") /\ rows' = rows \cup draft[r]
  /\ UNCHANGED <<draft, target, flag>>

-----------------------------------------------------------------------------
(* Changes. *)

\* update, deactivate and softDelete: findById among the live rows ...
BeginChangeRow(r) ==
  \E x \in rows, o \in {"setActive", "deleteRow"} :
    /\ x.live /\ x.data.code \in Editable
    /\ Starts(r, o, "changeRow")
    /\ target' = [target EXCEPT ![r] = x.id]
    /\ \E b \in BOOLEAN : flag' = [flag EXCEPT ![r] = b /\ o = "setActive"]
    /\ UNCHANGED <<rows, draft>>

Changed(r, x) ==
  IF op[r] = "deleteRow" THEN Tombstone(x) ELSE [x EXCEPT !.active = flag[r]]

Target(r) == {x \in rows : x.id = target[r]}

\* Mutant of ChangeRow: the update is not filtered.
ChangeAnyRow(r) ==
  /\ pc[r] = "changeRow"
  /\ rows' = (rows \ Target(r)) \cup {Changed(r, x) : x \in Target(r)}
  /\ Finishes(r, "done")
  /\ UNCHANGED <<draft, target, flag>>

\* ... and an update that matches live rows only: a row deleted meanwhile is not
\* found.
ChangeRow(r) ==
  /\ pc[r] = "changeRow"
  /\ IF \E x \in Target(r) : x.live
       THEN /\ rows' = (rows \ Target(r)) \cup {Changed(r, x) : x \in Target(r)}
            /\ Finishes(r, "done")
       ELSE Finishes(r, "failed") /\ UNCHANGED rows
  /\ UNCHANGED <<draft, target, flag>>

-----------------------------------------------------------------------------
(* Seeding at boot. *)

SeedRows(r, t) ==
  IF t = "account"
    THEN {NewRow(t, <<r, i.code>>, i, IF i.parent = "NONE" THEN Null ELSE <<r, i.parent>>)
            : i \in CHART_OF_ACCOUNTS}
    ELSE {NewRow(t, <<r, i.code>>, i, RefOf(t, i)) : i \in TAX_CODE_SEED}

\* The chart is seeded first, so the tax codes find their accounts, unless these
\* have been deleted: then seedIfEmpty throws, and the instance does not start.
Seedable(t) == t = "taxCode" => \A i \in TAX_CODE_SEED : Referred(t, i) # {}

\* seedIfEmpty: the count, and the rows to insert if there are none, with the
\* accounts that listAll finds right after it.
CountRows(r, t, at, insert, next) ==
  /\ pc[r] = at
  /\ IF LiveRows(t) # {}
       THEN Continues(r, next) /\ UNCHANGED draft
     ELSE IF Seedable(t)
       THEN Continues(r, insert) /\ draft' = [draft EXCEPT ![r] = SeedRows(r, t)]
       ELSE Finishes(r, "failed") /\ UNCHANGED draft
  /\ UNCHANGED <<rows, target, flag>>

\* Mutant of InsertSeed: rows are inserted one by one until one is refused or the
\* process stops.
InsertSeedSingly(r, at, next) ==
  /\ pc[r] = at
  /\ \E x \in draft[r] : rows' = rows \cup {y \in draft[r] : y.key # x.key /\ ~UniqueViolation(y)}
  /\ draft' = [draft EXCEPT ![r] = {}]
  /\ Continues(r, next)
  /\ UNCHANGED <<target, flag>>

\* One transaction inserts them all, or a unique violation undoes it, which means
\* that another instance was first.
InsertSeed(r, at, next) ==
  /\ pc[r] = at
  /\ rows' = IF \E x \in draft[r] : UniqueViolation(x) THEN rows ELSE rows \cup draft[r]
  /\ draft' = [draft EXCEPT ![r] = {}]
  /\ Continues(r, next)
  /\ UNCHANGED <<target, flag>>

BeginMasterData(r) == BeginCreateRow(r) \/ BeginChangeRow(r)
MasterDataStep(r) == InsertRow(r) \/ ChangeRow(r)
SeedStep(r, next) ==
  \/ CountRows(r, "account", "countAccounts", "insertAccounts", "countTaxCodes")
  \/ InsertSeed(r, "insertAccounts", "countTaxCodes")
  \/ CountRows(r, "taxCode", "countTaxCodes", "insertTaxCodes", next)
  \/ InsertSeed(r, "insertTaxCodes", next)

-----------------------------------------------------------------------------
(* Properties. *)

\* create and the unique indexes: no two live rows of a table have the same code,
\* although lookups race inserts and deletions free codes.
CodesUnique ==
  \A t \in Tables :
    Cardinality({x.data.code : x \in LiveRows(t)}) = Cardinality(LiveRows(t))

\* Singleton roles "may be held by at most one account": no creation or boot race
\* leaves two, deleted accounts included, whose index entry stays.  So a deleted
\* holder keeps its role: no live account need have it, and none can be given it.
RolesHeldOnce ==
  \A role \in SingletonRoles :
    Cardinality({x \in rows : x.table = "account" /\ x.data.role = role}) <= 1

DataOf(t) == {x.data : x \in {y \in rows : y.table = t}}

\* seedIfEmpty is "race-safe": the seed rows of a table are there all or none,
\* however instances boot, lose the race or stop half-way.
SeededWhole ==
  /\ CHART_OF_ACCOUNTS \cap DataOf("account") \in {{}, CHART_OF_ACCOUNTS}
  /\ TAX_CODE_SEED \cap DataOf("taxCode") \in {{}, TAX_CODE_SEED}

\* seedIfEmpty takes whatever live account has the code, without the checks of
\* create: clients may have put another in the place of the seeded one.
SeedMisplaced(x, y) == x.data \in TAX_CODE_SEED /\ y.data \notin CHART_OF_ACCOUNTS

\* create and the seed: the row that a tax code or an account refers to is there,
\* although it may be deleted at any time; the parent of an account is a header, and
\* the account of a tax code is postable and of the normal balance its kind is booked
\* on, unless the code was seeded onto an account that is not the chart's.
ReferencesFit ==
  \A x \in rows : x.ref # Null \/ x.table = "taxCode" =>
    \E y \in rows :
      /\ y.table = "account" /\ y.id = x.ref
      /\ x.table = "account" => ~y.data.postable
      /\ x.table = "taxCode" /\ ~SeedMisplaced(x, y) =>
           y.data.postable /\ y.data.normal = RequiredNormalBalance(x.data.kind)
=============================================================================
