-------------------------------- MODULE Members --------------------------------
(***************************************************************************)
(* Who belongs to which organization: UsersService (an organization's own  *)
(* administrators) and the membership operations of AdminService (the      *)
(* platform's).  A user account is shared by the organizations it belongs  *)
(* to; deleting it cascades to its memberships.                            *)
(*                                                                         *)
(* Each statement commits alone, but for the two updates of an ownership   *)
(* transfer.  Rows are written by the id that was read: the write fails if *)
(* the row is gone.  Names, e-mails and passwords are left out.            *)
(***************************************************************************)
EXTENDS Desk

CONSTANTS
    Orgs,           \* organizations
    Users           \* user accounts, existing or not

ASSUME MembersAssumption == None \notin Users /\ None \notin Orgs

VARIABLES
    account,        \* User rows: absent, active or inactive
    member,         \* OrganizationUser rows by organization and user
    memberCall      \* local state of the calls

membersVars == <<account, member, memberCall>>

Role == {"ADMIN", "CASHIER"}

MemberRow == [role: Role \cup {None}, primary: BOOLEAN]

NoMember == [role |-> None, primary |-> FALSE]

MemberCall ==
    [pc: {"idle", "toggle", "remove", "count", "delete", "orphan", "erase",
          "add", "role", "expel", "transfer", "done", "refused"},
     org: Orgs \cup {None}, user: Users \cup {None}, role: Role, seen: BOOLEAN,
     heir: Users \cup {None}]

MembersTypeOK ==
    /\ account \in [Users -> {"absent", "active", "inactive"}]
    /\ member \in [Orgs -> [Users -> MemberRow]]
    /\ memberCall \in [Calls -> MemberCall]

\* createOrganization makes its administrator the primary owner.
MembersInit ==
    /\ \E owner \in [Orgs -> Users] :
          /\ member = [o \in Orgs |-> [[u \in Users |-> NoMember] EXCEPT
                ![owner[o]] = [role |-> "ADMIN", primary |-> TRUE]]]
          /\ account = [u \in Users |-> IF \E o \in Orgs : owner[o] = u THEN "active" ELSE "absent"]
    /\ memberCall = [c \in Calls |->
          [pc |-> "idle", org |-> None, user |-> None, role |-> "CASHIER", seen |-> FALSE,
           heir |-> None]]

Belongs(u, o) == member[o][u] # NoMember

Memberships(u) == {o \in Orgs : Belongs(u, o)}

Admins(o) == {u \in Users : member[o][u].role = "ADMIN"}

Owners(o) == {u \in Users : member[o][u].primary}

AnswerMemberCall(c, answer) == memberCall' = [memberCall EXCEPT ![c].pc = answer]

\* The call c takes up: its organization, its user and what it is about.
TakeUp(c, pc, o, u, role, heir) ==
    /\ Admitted(memberCall, c)
    /\ memberCall' = [memberCall EXCEPT ![c] =
          [pc |-> pc, org |-> o, user |-> u, role |-> role, seen |-> account[u] = "active",
           heir |-> heir]]

-----------------------------------------------------------------------------
(* users.service.ts *)

\* create: the account and its membership, in one nested write; the unique e-mail
\* refuses an account that exists.
CreateUser(c, o, u, role) ==
    /\ Admitted(memberCall, c)
    /\ account[u] = "absent"
    /\ account' = [account EXCEPT ![u] = "active"]
    /\ member' = [member EXCEPT ![o][u] = [role |-> role, primary |-> FALSE]]
    /\ AnswerMemberCall(c, "done")

\* toggleActive reads the account of a member of this organization only.
OpenToggle(c, o, u) ==
    /\ Memberships(u) = {o}
    /\ TakeUp(c, "toggle", o, u, "CASHIER", None)
    /\ UNCHANGED <<account, member>>

\* The opposite of what was read, by id.
Toggle(c) ==
    LET call == memberCall[c] IN
    /\ call.pc = "toggle"
    /\ account[call.user] # "absent"
    /\ account' = [account EXCEPT ![call.user] = IF call.seen THEN "inactive" ELSE "active"]
    /\ AnswerMemberCall(c, "done")
    /\ UNCHANGED member

\* remove reads the membership: not the primary owner's.
OpenRemoveUser(c, o, u) ==
    /\ Belongs(u, o) /\ ~member[o][u].primary
    /\ TakeUp(c, IF member[o][u].role = "ADMIN" THEN "count" ELSE "delete", o, u, "CASHIER", None)
    /\ UNCHANGED <<account, member>>

EnoughAdmins(o) == Cardinality(Admins(o)) > 1

\* 'Cannot remove the last admin of an organization'
CountAdmins(c) ==
    /\ memberCall[c].pc = "count"
    /\ AnswerMemberCall(c, IF EnoughAdmins(memberCall[c].org) THEN "delete" ELSE "refused")
    /\ UNCHANGED <<account, member>>

DeleteMembership(c) ==
    LET call == memberCall[c] IN
    /\ call.pc = "delete"
    /\ Belongs(call.user, call.org)
    /\ member' = [member EXCEPT ![call.org][call.user] = NoMember]
    /\ AnswerMemberCall(c, "orphan")
    /\ UNCHANGED account

\* Mutant: the memberships of other organizations are not counted.
IsOrphanHere(c) == memberCall[c].org \notin Memberships(memberCall[c].user)

IsOrphan(c) == Memberships(memberCall[c].user) = {}

CountMemberships(c) ==
    /\ memberCall[c].pc = "orphan"
    /\ AnswerMemberCall(c, IF IsOrphan(c) THEN "erase" ELSE "done")
    /\ UNCHANGED <<account, member>>

\* The account goes, and with it whatever memberships it has by now.
EraseUser(c) ==
    LET u == memberCall[c].user IN
    /\ memberCall[c].pc = "erase"
    /\ account[u] # "absent"
    /\ account' = [account EXCEPT ![u] = "absent"]
    /\ member' = [o \in Orgs |-> [member[o] EXCEPT ![u] = NoMember]]
    /\ AnswerMemberCall(c, "done")

-----------------------------------------------------------------------------
(* admin.service.ts *)

\* addOrganizationMember finds the account, or creates it.
OpenAddMember(c, o, u, role) ==
    /\ TakeUp(c, "add", o, u, role, None)
    /\ account' = IF account[u] = "absent" THEN [account EXCEPT ![u] = "active"] ELSE account
    /\ UNCHANGED member

\* The membership, which must be new, of an account that must still exist.
AddMember(c) ==
    LET call == memberCall[c] IN
    /\ call.pc = "add"
    /\ account[call.user] # "absent" /\ ~Belongs(call.user, call.org)
    /\ member' = [member EXCEPT ![call.org][call.user] = [role |-> call.role, primary |-> FALSE]]
    /\ AnswerMemberCall(c, "done")
    /\ UNCHANGED account

\* updateMemberRole and removeOrganizationMember read the membership ...
OpenMemberCall(c, o, u, kind, role) ==
    /\ Belongs(u, o)
    /\ kind = "expel" => ~member[o][u].primary
    /\ TakeUp(c, kind, o, u, role, None)
    /\ UNCHANGED <<account, member>>

\* ... and write it by id.  Neither looks at how many administrators are left.
UpdateRole(c) ==
    LET call == memberCall[c] IN
    /\ call.pc = "role"
    /\ Belongs(call.user, call.org)
    /\ member' = [member EXCEPT ![call.org][call.user].role = call.role]
    /\ AnswerMemberCall(c, "done")
    /\ UNCHANGED account

ExpelMember(c) ==
    LET call == memberCall[c] IN
    /\ call.pc = "expel"
    /\ Belongs(call.user, call.org)
    /\ member' = [member EXCEPT ![call.org][call.user] = NoMember]
    /\ AnswerMemberCall(c, "done")
    /\ UNCHANGED account

\* transferPrimaryOwner reads the owner and an ADMIN to succeed them.
OpenTransfer(c, o, u, heir) ==
    /\ u # heir
    /\ member[o][u].primary /\ member[o][heir].role = "ADMIN"
    /\ TakeUp(c, "transfer", o, u, "CASHIER", heir)
    /\ UNCHANGED <<account, member>>

\* Mutant: the previous owner keeps the flag.
TransferredBoth(rows, u, heir) == [rows EXCEPT ![heir].primary = TRUE]

Transferred(rows, u, heir) == [rows EXCEPT ![u].primary = FALSE, ![heir].primary = TRUE]

\* Both rows, by id, in one transaction.
Transfer(c) ==
    LET call == memberCall[c] IN
    /\ call.pc = "transfer"
    /\ Belongs(call.user, call.org) /\ Belongs(call.heir, call.org)
    /\ member' = [member EXCEPT ![call.org] = Transferred(@, call.user, call.heir)]
    /\ AnswerMemberCall(c, "done")
    /\ UNCHANGED account

\* A check that fails, a row that is gone, a lost connection or a crash.
StopMemberCall(c) ==
    /\ c \in InService(memberCall)
    /\ AnswerMemberCall(c, "refused")
    /\ UNCHANGED <<account, member>>

MembersNext ==
    \E c \in Calls :
        \/ \E o \in Orgs, u \in Users :
              \/ \E role \in Role :
                    \/ CreateUser(c, o, u, role)
                    \/ OpenAddMember(c, o, u, role)
                    \/ OpenMemberCall(c, o, u, "role", role)
              \/ OpenToggle(c, o, u)
              \/ OpenRemoveUser(c, o, u)
              \/ OpenMemberCall(c, o, u, "expel", "CASHIER")
              \/ \E heir \in Users : OpenTransfer(c, o, u, heir)
        \/ Toggle(c)
        \/ CountAdmins(c) \/ DeleteMembership(c) \/ CountMemberships(c) \/ EraseUser(c)
        \/ AddMember(c) \/ UpdateRole(c) \/ ExpelMember(c) \/ Transfer(c)
        \/ StopMemberCall(c)

MembersSpec ==
    (DeskInit /\ MembersInit)
        /\ [][MembersNext /\ UNCHANGED serving]_<<serving, membersVars>>

-----------------------------------------------------------------------------
(* Properties *)

\* One call at a time, every organization has exactly one primary owner, through
\* any transfers, removals and role changes and wherever they stop.  (A transfer
\* to a member who is being removed leaves none, two transfers at once leave two.)
OneOwner == serving = 1 => \A o \in Orgs : Cardinality(Owners(o)) = 1

\* 'only the membership in the caller's organization is deleted so other
\* organizations sharing this user keep their account intact': one call at a time,
\* a membership goes only by a call of its own organization.  (A removal that
\* found no membership left erases the account another organization has just added.)
RemovalsStayInTheOrganization ==
    [][serving = 1 =>
          \A o \in Orgs, u \in Users : Belongs(u, o) /\ member'[o][u] = NoMember =>
             \E c \in Calls : memberCall'[c] # memberCall[c] /\ memberCall[c].org = o]_membersVars
=============================================================================
