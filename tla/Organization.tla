----------------------------- MODULE Organization -----------------------------
(***************************************************************************)
(* One organization: its plan and the limit the plan puts on its rows      *)
(* (PlanLimitService and PlanLimitGuard), the settings document its users  *)
(* edit (SettingsService), and AdminService.updatePlan, which writes both. *)
(*                                                                         *)
(* The limit is checked against a count that the server's memory keeps for *)
(* TTL, in a guard that runs before the handler; the settings are read,    *)
(* merged and written back under a version.  The rows are those of one     *)
(* limited kind, customers say: all kinds follow the same protocol.        *)
(***************************************************************************)
EXTENDS Desk

CONSTANTS
    Rows,           \* rows of the limited kind, existing or not
    Limit,          \* how many of them the BASIC plan allows
    Keys            \* the settings a user may write

ASSUME OrganizationAssumption ==
    /\ Limit \in Nat
    /\ IsFiniteSet(Rows)
    /\ None \notin Calls /\ None \notin Rows

VARIABLES
    plan,           \* Organization.plan
    row,            \* the rows, and how each came in
    counted,        \* the cached count and the ticks it has left
    setting,        \* the settings: the call that last wrote each key, None if none did
    flags,          \* settings.downgradeFlags, the key the system owns
    version,        \* Organization.settingsVersion
    orgCall         \* local state of the calls

organizationVars == <<plan, row, counted, setting, flags, version, orgCall>>

Plan == {"BASIC", "PRO"}

\* origin: "fits" was let in by the guard under BASIC and cleared the count, "other"
\* came in under PRO, without the guard or without clearing the count.
Row == [active: BOOLEAN, origin: {"none", "fits", "other"}]

Count == [value: Nat, left: 0..TTL]

Settings == [Keys -> Calls \cup {None}]

Flags == {"unset", "within", "over"}

OrgCall ==
    [pc: {"idle", "count", "store", "insert", "invalidate", "write", "plan", "done", "refused"},
     kind: {"none", "create", "update", "plan"}, row: Rows \cup {None}, keys: SUBSET Keys,
     plan: Plan, seenPlan: Plan, value: Nat, setting: Settings, flags: Flags, version: Nat]

OrganizationTypeOK ==
    /\ plan \in Plan
    /\ row \in [Rows -> Row]
    /\ counted \in Count
    /\ setting \in Settings
    /\ flags \in Flags
    /\ version \in Nat
    /\ orgCall \in [Calls -> OrgCall]

NoCount == [value |-> 0, left |-> 0]

NoCall ==
    [pc |-> "idle", kind |-> "none", row |-> None, keys |-> {}, plan |-> "BASIC",
     seenPlan |-> "BASIC", value |-> 0, setting |-> [k \in Keys |-> None],
     flags |-> "unset", version |-> 0]

OrganizationInit ==
    /\ plan \in Plan
    /\ row = [r \in Rows |-> [active |-> FALSE, origin |-> "none"]]
    /\ counted = NoCount
    /\ setting = [k \in Keys |-> None]
    /\ flags = "unset"
    /\ version = 0
    /\ orgCall = [c \in Calls |-> NoCall]

ActiveRows == {r \in Rows : row[r].active}

\* A call that is answered forgets what it read.
Moved(call, pc) ==
    IF pc \in Answered THEN [NoCall EXCEPT !.pc = pc, !.kind = call.kind]
                       ELSE [call EXCEPT !.pc = pc]

Advance(c, pc) == orgCall' = [orgCall EXCEPT ![c] = Moved(orgCall[c], pc)]

\* A call starts with one read of the organization's row.
TakeUpOrgCall(c, kind, pc, r, ks, p) ==
    /\ Admitted(orgCall, c)
    /\ orgCall' = [orgCall EXCEPT ![c] =
          [pc |-> pc, kind |-> kind, row |-> r, keys |-> ks, plan |-> p, seenPlan |-> plan,
           value |-> 0, setting |-> setting, flags |-> flags, version |-> version]]
    /\ UNCHANGED <<plan, row, counted, setting, flags, version>>

-----------------------------------------------------------------------------
(* PlanLimitService.count, and what its callers do with the value *)

\* checkLimit: -1 is unlimited.
Allowed(c, value) == orgCall[c].seenPlan = "PRO" \/ value < Limit

\* The next step of a call that has its count.
Counted(c, value) ==
    CASE orgCall[c].kind = "plan"                         -> "plan"
      [] orgCall[c].kind = "create" /\ Allowed(c, value) -> "insert"
      [] OTHER                                            -> "refused"

CountFromCache(c) ==
    /\ orgCall[c].pc = "count" /\ counted.left > 0
    /\ orgCall' = [orgCall EXCEPT ![c] =
          Moved([orgCall[c] EXCEPT !.value = counted.value], Counted(c, counted.value))]
    /\ UNCHANGED <<plan, row, counted, setting, flags, version>>

QueryCount(c) ==
    /\ orgCall[c].pc = "count" /\ counted.left = 0
    /\ orgCall' = [orgCall EXCEPT ![c] = [orgCall[c] EXCEPT
          !.value = Cardinality(ActiveRows), !.pc = "store"]]
    /\ UNCHANGED <<plan, row, counted, setting, flags, version>>

StoreCount(c) ==
    /\ orgCall[c].pc = "store"
    /\ counted' = [value |-> orgCall[c].value, left |-> TTL]
    /\ Advance(c, Counted(c, orgCall[c].value))
    /\ UNCHANGED <<plan, row, setting, flags, version>>

-----------------------------------------------------------------------------
(* Guarded creations, and the ways round the guard *)

OpenCreateRow(c, r) == row[r].origin = "none" /\ TakeUpOrgCall(c, "create", "count", r, {}, "BASIC")

InsertedRow(c) ==
    [active |-> TRUE, origin |-> IF orgCall[c].seenPlan = "PRO" THEN "other" ELSE "fits"]

\* The handler inserts the row, by a name no other row has.
InsertRow(c) ==
    /\ orgCall[c].pc = "insert" /\ row[orgCall[c].row].origin = "none"
    /\ row' = [row EXCEPT ![orgCall[c].row] = InsertedRow(c)]
    /\ Advance(c, "invalidate")
    /\ UNCHANGED <<plan, counted, setting, flags, version>>

\* The row is inserted and the database's answer lost: the count is not cleared.
InsertRowUnanswered(c) ==
    /\ orgCall[c].pc = "insert" /\ row[orgCall[c].row].origin = "none"
    /\ row' = [row EXCEPT ![orgCall[c].row] = [active |-> TRUE, origin |-> "other"]]
    /\ Advance(c, "refused")
    /\ UNCHANGED <<plan, counted, setting, flags, version>>

\* Mutant: the count is left to expire.
InvalidateNot(c) ==
    /\ orgCall[c].pc = "invalidate"
    /\ Advance(c, "done")
    /\ UNCHANGED <<plan, row, counted, setting, flags, version>>

\* invalidateCache
Invalidate(c) ==
    /\ orgCall[c].pc = "invalidate"
    /\ counted' = NoCount
    /\ Advance(c, "done")
    /\ UNCHANGED <<plan, row, setting, flags, version>>

\* A product is reactivated, the platform adds a member, the products sheet is
\* imported: no guard, and the count stays.
Bypass(r) ==
    /\ ~row[r].active
    /\ row' = [row EXCEPT ![r] = [active |-> TRUE, origin |-> "other"]]
    /\ UNCHANGED <<plan, counted, setting, flags, version, orgCall>>

\* A row is deactivated; the count stays here too.
Deactivate(r) ==
    /\ row[r].active
    /\ row' = [row EXCEPT ![r].active = FALSE]
    /\ UNCHANGED <<plan, counted, setting, flags, version, orgCall>>

-----------------------------------------------------------------------------
(* SettingsService.update *)

OpenUpdateSettings(c, ks) == TakeUpOrgCall(c, "update", "write", None, ks, "BASIC")

\* mergeSettingsJson: what the dto sends over what was read, the rest as it was read.
Merged(c) ==
    [k \in Keys |-> IF k \in orgCall[c].keys THEN c ELSE orgCall[c].setting[k]]

\* Mutant: the settings are stored whatever their version is by now.
SameVersionNot(c) == TRUE

SameVersion(c) == version = orgCall[c].version

\* updateMany under the version that was read; the system key is copied through.
WriteSettings(c) ==
    /\ orgCall[c].pc = "write" /\ SameVersion(c)
    /\ setting' = Merged(c)
    /\ flags' = orgCall[c].flags
    /\ version' = version + 1
    /\ Advance(c, "done")
    /\ UNCHANGED <<plan, row, counted>>

\* 409: modified concurrently.
ConflictSettings(c) ==
    /\ orgCall[c].pc = "write" /\ ~SameVersion(c)
    /\ Advance(c, "refused")
    /\ UNCHANGED <<plan, row, counted, setting, flags, version>>

-----------------------------------------------------------------------------
(* AdminService.updatePlan *)

Downgrade(from, to) == from = "PRO" /\ to = "BASIC"

OpenUpdatePlan(c, p) ==
    TakeUpOrgCall(c, "plan", IF Downgrade(plan, p) THEN "count" ELSE "plan", None, {}, p)

\* The plan; a downgrade also writes the settings that were read, with new flags,
\* under no version and without giving them one.
WritePlan(c) ==
    LET call == orgCall[c] IN
    /\ call.pc = "plan"
    /\ plan' = call.plan
    /\ IF Downgrade(call.seenPlan, call.plan)
       THEN /\ setting' = call.setting
            /\ flags' = IF call.value > Limit THEN "over" ELSE "within"
       ELSE UNCHANGED <<setting, flags>>
    /\ Advance(c, "done")
    /\ UNCHANGED <<row, counted, version>>

-----------------------------------------------------------------------------
\* A check that fails, a name that is taken, a lost connection.
StopOrgCall(c) ==
    /\ orgCall[c].pc \in {"count", "store", "insert", "write", "plan"}
    /\ Advance(c, "refused")
    /\ UNCHANGED <<plan, row, counted, setting, flags, version>>

\* The server restarts: the calls it served are lost, and so is its cache.
RestartServer ==
    /\ InService(orgCall) # {}
    /\ orgCall' = [c \in Calls |->
          IF c \in InService(orgCall) THEN Moved(orgCall[c], "refused") ELSE orgCall[c]]
    /\ counted' = NoCount
    /\ UNCHANGED <<plan, row, setting, flags, version>>

\* Time passes; cleanupExpiredCache drops a count whose time is over.
Tick ==
    /\ counted.left > 0
    /\ counted' = IF counted.left = 1 THEN NoCount ELSE [counted EXCEPT !.left = @ - 1]
    /\ UNCHANGED <<plan, row, setting, flags, version, orgCall>>

OrganizationNext ==
    \/ \E c \in Calls :
          \/ \E r \in Rows : OpenCreateRow(c, r)
          \/ \E ks \in SUBSET Keys \ {{}} : OpenUpdateSettings(c, ks)
          \/ \E p \in Plan : OpenUpdatePlan(c, p)
          \/ CountFromCache(c) \/ QueryCount(c) \/ StoreCount(c)
          \/ InsertRow(c) \/ InsertRowUnanswered(c) \/ Invalidate(c)
          \/ WriteSettings(c) \/ ConflictSettings(c) \/ WritePlan(c)
          \/ StopOrgCall(c)
    \/ \E r \in Rows : Bypass(r) \/ Deactivate(r)
    \/ RestartServer
    \/ Tick

OrganizationSpec ==
    (DeskInit /\ OrganizationInit)
        /\ [][OrganizationNext /\ UNCHANGED serving]_<<serving, organizationVars>>

-----------------------------------------------------------------------------
(* Properties *)

\* One call at a time, the rows the guard let in under BASIC never exceed its
\* limit, though the count may be old: rows come in behind the guard, go out,
\* calls stop, answers get lost, the plan goes up and down, the server restarts.
\* (Two creations at once both pass the guard, and a count read before a
\* creation may be stored after the creation cleared it, for a whole TTL.)
GuardedRowsFitThePlan ==
    serving = 1 => Cardinality({r \in ActiveRows : row[r].origin = "fits"}) <= Limit

PlanChanges == {c \in Calls : orgCall[c].kind = "plan"}

\* 'A concurrent write yields count === 0 -> 409': a setting changes only to what
\* a call that sends it writes, and the system's flags only with the plan, so that
\* no update reverts another; unless a plan change, which looks at no version and
\* makes none, is served beside them.
NoSettingIsLost ==
    [][serving = 1 \/ PlanChanges = {} =>
          /\ \A k \in Keys : setting'[k] # setting[k] =>
                \E c \in Calls : setting'[k] = c /\ k \in orgCall[c].keys /\ orgCall[c].pc = "write"
          /\ flags' # flags => \E c \in PlanChanges : orgCall[c].pc = "plan"]_organizationVars
=============================================================================
