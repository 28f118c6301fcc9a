---------------------------- MODULE CashRegisters ----------------------------
(***************************************************************************)
(* CashRegistersService: the registers of an organization, one of which is *)
(* the default.  Each statement commits alone; there are no transactions.  *)
(* The flag active of a register is left out: only plan limits read it.    *)
(***************************************************************************)
EXTENDS Desk

CONSTANTS
    Registers,      \* register ids
    Names           \* the names requests use

ASSUME CashRegistersAssumption == None \notin Names /\ None \notin Registers

VARIABLES
    register,       \* CashRegister rows; the name of an absent one is None
    registerCall    \* local state of the calls

registersVars == <<register, registerCall>>

RegisterRow == [name: Names \cup {None}, isDefault: BOOLEAN]

\* The dto of a create or an update: a name (None: not sent), and the flag, None too
\* when it is not sent.
RegisterDto == [name: Names \cup {None}, isDefault: BOOLEAN \cup {None}]

RegisterCall ==
    [pc: {"idle", "found", "named", "write", "remove", "done", "refused"},
     register: Registers \cup {None}, creates: BOOLEAN, dto: RegisterDto]

RegistersTypeOK ==
    /\ register \in [Registers -> RegisterRow]
    /\ registerCall \in [Calls -> RegisterCall]

NoRegister == [name |-> None, isDefault |-> FALSE]

\* An organization is created with its 'Caja Principal'.
IdleRegisterCalls ==
    registerCall = [c \in Calls |->
        [pc |-> "idle", register |-> None, creates |-> FALSE, dto |-> NoRegister]]

RegistersInit ==
    /\ \E r \in Registers, name \in Names :
          register = [[q \in Registers |-> NoRegister] EXCEPT
             ![r] = [name |-> name, isDefault |-> TRUE]]
    /\ IdleRegisterCalls

Present == {r \in Registers : register[r].name # None}

\* Is the name taken by a register other than r?  The unique index on
\* (organizationId, name) asks the same when a row is written.
Taken(name, r) == \E q \in Present \ {r} : register[q].name = name

AnswerRegisterCall(c, answer) == registerCall' = [registerCall EXCEPT ![c].pc = answer]

-----------------------------------------------------------------------------
\* A creation; r is the row it will insert.
OpenCreateRegister(c, r) ==
    /\ Admitted(registerCall, c)
    /\ r \notin Present
    /\ \E dto \in [name: Names, isDefault: BOOLEAN] :
          registerCall' = [registerCall EXCEPT ![c] =
             [pc |-> "found", register |-> r, creates |-> TRUE, dto |-> dto]]
    /\ UNCHANGED register

\* findOne finds the register to update or to remove.
OpenRegisterCall(c, r) ==
    /\ Admitted(registerCall, c)
    /\ r \in Present
    /\ \E pc \in {"found", "remove"}, dto \in RegisterDto :
          registerCall' = [registerCall EXCEPT ![c] =
             [pc |-> pc, register |-> r, creates |-> FALSE, dto |-> dto]]
    /\ UNCHANGED register

\* No register with the name is found, or no name was sent.
CheckName(c) ==
    /\ registerCall[c].pc = "found"
    /\ ~Taken(registerCall[c].dto.name, registerCall[c].register)
    /\ AnswerRegisterCall(c, IF registerCall[c].dto.isDefault = TRUE THEN "named" ELSE "write")
    /\ UNCHANGED register

RefuseName(c) ==
    /\ registerCall[c].pc = "found"
    /\ Taken(registerCall[c].dto.name, registerCall[c].register)
    /\ AnswerRegisterCall(c, "refused")
    /\ UNCHANGED register

\* Mutant: the other registers keep their flag.
ClearDefaultsNot(c) ==
    /\ registerCall[c].pc = "named"
    /\ AnswerRegisterCall(c, "write")
    /\ UNCHANGED register

\* updateMany: no register is the default for a while.
ClearDefaults(c) ==
    /\ registerCall[c].pc = "named"
    /\ register' = [r \in Registers |-> [register[r] EXCEPT !.isDefault = FALSE]]
    /\ AnswerRegisterCall(c, "write")

\* Mutant: the whole dto is stored, with what it does not send.
StoredRegisterWhole(c) == registerCall[c].dto

\* The row a call stores: what the dto does not send stays as it is.
StoredRegister(c) ==
    LET dto == registerCall[c].dto
        row == register[registerCall[c].register]
    IN  [field \in DOMAIN row |-> IF dto[field] = None THEN row[field] ELSE dto[field]]

\* Insert or update; the row to insert is absent, the one to update still there.
WriteRegister(c) ==
    LET call == registerCall[c] IN
    /\ call.pc = "write"
    /\ call.creates <=> call.register \notin Present
    /\ ~Taken(call.dto.name, call.register)
    /\ register' = [register EXCEPT ![call.register] = StoredRegister(c)]
    /\ AnswerRegisterCall(c, "done")

RemoveRegister(c) ==
    /\ registerCall[c].pc = "remove"
    /\ registerCall[c].register \in Present
    /\ register' = [register EXCEPT ![registerCall[c].register] = NoRegister]
    /\ AnswerRegisterCall(c, "done")

\* The row is gone, the unique index refuses the name, the connection is lost, a
\* crash: what was cleared stays cleared.
StopRegisterCall(c) ==
    /\ c \in InService(registerCall)
    /\ AnswerRegisterCall(c, "refused")
    /\ UNCHANGED register

RegistersNext ==
    \E c \in Calls :
        \/ \E r \in Registers : OpenCreateRegister(c, r) \/ OpenRegisterCall(c, r)
        \/ CheckName(c)
        \/ RefuseName(c)
        \/ ClearDefaults(c)
        \/ WriteRegister(c)
        \/ RemoveRegister(c)
        \/ StopRegisterCall(c)

RegistersSpec ==
    (DeskInit /\ RegistersInit)
        /\ [][RegistersNext /\ UNCHANGED serving]_<<serving, registersVars>>

-----------------------------------------------------------------------------
(* Properties *)

\* One call at a time, at most one register is the default, whichever statement of
\* a call is its last: a call that stops half way may leave no default, never two.
\* (Two calls that both clear before either writes leave two.)
AtMostOneDefault ==
    serving = 1 => \A r, q \in Present :
        register[r].isDefault /\ register[q].isDefault => r = q
=============================================================================
