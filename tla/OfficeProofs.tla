----------------------------- MODULE OfficeProofs -----------------------------
(***************************************************************************)
(* The services of the back office that read and write rows under no lock, *)
(* proved for any number of rows, calls and calls served at once: their    *)
(* types, what holds whatever interleaves, and what holds with one call at *)
(* a time; and that the office is one of its services at a time.           *)
(***************************************************************************)
EXTENDS Office, DeskProofs

-----------------------------------------------------------------------------
(* SequenceService *)

\* The facts that keep numbers apart, whatever interleaves: without a row nothing is
\* issued, the only row of a type is past every number issued, and nothing makes a
\* second row for the orders.
RowsCount ==
    /\ \A t \in Type : (\A y \in Years : sequence[t][y] < 0) => issued[t] = {}
    /\ \A t \in Type, y \in Years :
          sequence[t][y] >= 0 /\ (\A z \in Years \ {y} : sequence[t][z] < 0) =>
             \A document \in issued[t] : document.number <= sequence[t][y]
    /\ \A y, z \in Years : sequence["PO"][y] >= 0 /\ sequence["PO"][z] >= 0 => y = z

\* One call at a time the sales too have one row at most, and none while a row is
\* about to be made.
OneSaleRow ==
    /\ \A c, d \in InService(numberingCall) : c = d
    /\ InService(numberingCall) # {} => \A y \in Years : sequence["SALE"][y] < 0
    /\ \A y, z \in Years : sequence["SALE"][y] >= 0 /\ sequence["SALE"][z] >= 0 => y = z

NumberingInv ==
    serving \in 1..MaxServing /\ NumberingTypeOK /\ RowsCount /\ (serving = 1 => OneSaleRow)

\* The opening sequences are behind no printed number.
LEMMA NumberingInitInv == DeskInit /\ NumberingInit => NumberingInv
  <1> SUFFICES ASSUME DeskInit, NumberingInit
               PROVE  NumberingInv
    OBVIOUS
  <1>1. PICK first \in {-1, 0} :
          sequence = [t \in Type |-> [y \in Years |-> IF y = 0 THEN first ELSE -1]]
    BY DEF NumberingInit
  <1>2. 0 \in Years /\ Years \subseteq Nat
    BY NumberingAssumption DEF Years
  <1>3. sequence \in [Type -> [Years -> -1..(MaxNumber + 1)]]
    BY <1>1, NumberingAssumption
  <1>4. NumberingTypeOK
    BY <1>2, <1>3 DEF NumberingInit, NumberingTypeOK
  <1>5. \A t \in Type, y \in Years : sequence[t][y] >= 0 => y = 0
    BY <1>1
  <1>6. InService(numberingCall) = {} /\ \A t \in Type : issued[t] = {}
    BY DEF NumberingInit, InService
  <1>7. RowsCount
    BY <1>5, <1>6 DEF RowsCount, Type
  <1>8. OneSaleRow
    BY <1>5, <1>6 DEF OneSaleRow, Type
  <1> QED BY <1>4, <1>7, <1>8 DEF NumberingInv, DeskInit

\* A number is drawn from a row there is, and is the greatest of its type from then on
\* if that row is the only one.
LEMMA IssueNumberInv ==
    ASSUME NumberingInv, serving' = serving, NEW t \in Type, IssueNumber(t)
    PROVE  NumberingInv'
  <1> DEFINE next == sequence[t][year] + 1
             document == [number |-> next, year |-> year]
  <1>1. /\ sequence \in [Type -> [Years -> -1..(MaxNumber + 1)]]
        /\ issued \in [Type -> SUBSET Document]
        /\ year \in Years /\ MaxNumber \in Nat
    BY NumberingAssumption DEF NumberingInv, NumberingTypeOK
  <1>2. /\ sequence[t][year] \in 0..(MaxNumber - 1)
        /\ next \in 1..MaxNumber
        /\ sequence' = [sequence EXCEPT ![t][year] = next]
        /\ issued' = [issued EXCEPT ![t] = @ \cup {document}]
        /\ year' = year /\ numberingCall' = numberingCall
    BY <1>1 DEF IssueNumber
  <1>3. document \in Document
    BY <1>1, <1>2 DEF Document
  <1>4. /\ sequence' \in [Type -> [Years -> -1..(MaxNumber + 1)]]
        /\ sequence'[t][year] = next
        /\ \A u \in Type, y \in Years : u # t \/ y # year => sequence'[u][y] = sequence[u][y]
    BY <1>1, <1>2
  <1>5. /\ issued' \in [Type -> SUBSET Document]
        /\ issued'[t] = issued[t] \cup {document}
        /\ \A u \in Type \ {t} : issued'[u] = issued[u]
    BY <1>1, <1>2, <1>3
  <1>6. NumberingTypeOK'
    BY <1>2, <1>4, <1>5 DEF NumberingInv, NumberingTypeOK
  <1>7. \A u \in Type, y \in Years : sequence'[u][y] >= 0 <=> sequence[u][y] >= 0
    BY <1>1, <1>2, <1>4
  <1>8. \A u \in Type, y \in Years : sequence'[u][y] < 0 <=> sequence[u][y] < 0
    BY <1>1, <1>2, <1>4
  <1>9. RowsCount'
    <2>1. RowsCount
      BY DEF NumberingInv
    <2>2. ASSUME NEW u \in Type, \A y \in Years : sequence'[u][y] < 0
          PROVE  issued'[u] = {}
      <3>1. u # t
        BY <1>1, <1>2, <1>4, <2>2
      <3> QED BY <1>5, <1>8, <2>1, <2>2, <3>1 DEF RowsCount
    <2>3. ASSUME NEW u \in Type, NEW y \in Years, sequence'[u][y] >= 0,
                 \A z \in Years \ {y} : sequence'[u][z] < 0
          PROVE  \A d \in issued'[u] : d.number <= sequence'[u][y]
      <3>1. sequence[u][y] >= 0 /\ \A z \in Years \ {y} : sequence[u][z] < 0
        BY <1>7, <1>8, <2>3
      <3>2. \A d \in issued[u] : d.number <= sequence[u][y] /\ d.number \in Int
        BY <1>1, <2>1, <3>1 DEF RowsCount, Document
      <3>3. CASE u = t
        <4>1. y = year
          BY <1>1, <1>2, <3>1, <3>3
        <4> QED BY <1>2, <1>4, <1>5, <3>2, <3>3, <4>1
      <3>4. CASE u # t
        BY <1>4, <1>5, <3>2, <3>4
      <3> QED BY <3>3, <3>4
    <2>4. \A y, z \in Years : sequence'["PO"][y] >= 0 /\ sequence'["PO"][z] >= 0 => y = z
      BY <1>7, <2>1 DEF RowsCount, Type
    <2> QED BY <2>2, <2>3, <2>4 DEF RowsCount
  <1>10. ASSUME serving = 1
         PROVE  OneSaleRow'
    <2>1. OneSaleRow
      BY <1>10 DEF NumberingInv
    <2>2. InService(numberingCall)' = InService(numberingCall)
      BY <1>2 DEF InService
    <2> QED BY <1>7, <1>8, <2>1, <2>2 DEF OneSaleRow, Type
  <1> QED BY <1>6, <1>9, <1>10 DEF NumberingInv

\* A prefix is asked for: a row is to be made only if there is none.
LEMMA OpenSetPrefixInv ==
    ASSUME NumberingInv, serving' = serving, NEW c \in Calls, OpenSetPrefix(c)
    PROVE  NumberingInv'
  <1>1. /\ numberingCall' = [numberingCall EXCEPT ![c].pc = IF HasSaleRow THEN "done" ELSE "create"]
        /\ Admitted(numberingCall, c)
        /\ year' = year /\ sequence' = sequence /\ issued' = issued
    BY DEF OpenSetPrefix
  <1>2. /\ numberingCall' \in [Calls -> [pc: {"idle", "create", "done", "refused"}]]
        /\ \A d \in Calls \ {c} : numberingCall'[d] = numberingCall[d]
        /\ numberingCall'[c].pc = IF HasSaleRow THEN "done" ELSE "create"
    BY <1>1 DEF NumberingInv, NumberingTypeOK
  <1>3. NumberingTypeOK'
    BY <1>1, <1>2 DEF NumberingInv, NumberingTypeOK
  <1>4. RowsCount'
    BY <1>1 DEF NumberingInv, RowsCount
  <1>5. ASSUME serving = 1
        PROVE  OneSaleRow'
    <2>1. OneSaleRow /\ InService(numberingCall) = {}
      BY <1>1, <1>5, AdmittedAlone DEF NumberingInv
    <2>2. InService(numberingCall)' \subseteq {c}
      BY <1>2, <2>1 DEF InService
    <2>3. InService(numberingCall)' # {} => ~HasSaleRow
      BY <1>2, <2>2 DEF InService, Answered
    <2>4. ~HasSaleRow => \A y \in Years : sequence["SALE"][y] < 0
      BY DEF HasSaleRow, NumberingInv, NumberingTypeOK, Type
    <2> QED BY <1>1, <2>1, <2>2, <2>3, <2>4 DEF OneSaleRow
  <1> QED BY <1>3, <1>4, <1>5 DEF NumberingInv

\* The row is made, or refused by the index; its call is answered.  A type that had
\* no row has issued nothing; one that had a row now has two.
LEMMA CreateSaleRowInv ==
    ASSUME NumberingInv, serving' = serving, NEW c \in Calls, CreateSaleRow(c)
    PROVE  NumberingInv'
  <1>1. /\ sequence \in [Type -> [Years -> -1..(MaxNumber + 1)]]
        /\ year \in Years /\ MaxNumber \in Nat /\ "SALE" \in Type
    BY NumberingAssumption DEF NumberingInv, NumberingTypeOK, Type
  <1>2. /\ numberingCall' \in [Calls -> [pc: {"idle", "create", "done", "refused"}]]
        /\ \A d \in Calls \ {c} : numberingCall'[d] = numberingCall[d]
        /\ numberingCall'[c].pc \in Answered
        /\ c \in InService(numberingCall)
        /\ year' = year /\ issued' = issued
    BY DEF CreateSaleRow, NumberingInv, NumberingTypeOK, Answered, InService
  <1>3. /\ sequence' \in [Type -> [Years -> -1..(MaxNumber + 1)]]
        /\ \A t \in Type, y \in Years : t # "SALE" \/ y # year => sequence'[t][y] = sequence[t][y]
        /\ sequence["SALE"][year] < 0 => sequence'["SALE"][year] = 0
        /\ sequence["SALE"][year] >= 0 => sequence' = sequence
    BY <1>1 DEF CreateSaleRow
  <1>4. NumberingTypeOK'
    BY <1>2, <1>3 DEF NumberingInv, NumberingTypeOK
  <1>5. RowsCount /\ RowsCount'
    <2>1. RowsCount
      BY DEF NumberingInv
    <2>2. CASE sequence["SALE"][year] >= 0
      BY <1>2, <1>3, <2>1, <2>2 DEF RowsCount
    <2>3. CASE sequence["SALE"][year] < 0
      <3>1. sequence'["SALE"][year] = 0
        BY <1>3, <2>3
      <3>2. \A t \in Type \ {"SALE"} : \A y \in Years : sequence'[t][y] = sequence[t][y]
        BY <1>3
      <3>3. ASSUME NEW t \in Type, \A y \in Years : sequence'[t][y] < 0
            PROVE  issued'[t] = {}
        <4>1. t # "SALE"
          BY <1>1, <3>1, <3>3
        <4> QED BY <1>2, <2>1, <3>2, <3>3, <4>1 DEF RowsCount
      <3>4. ASSUME NEW t \in Type, NEW y \in Years, sequence'[t][y] >= 0,
                   \A z \in Years \ {y} : sequence'[t][z] < 0
            PROVE  \A d \in issued'[t] : d.number <= sequence'[t][y]
        <4>1. CASE t # "SALE"
          <5>1. sequence[t][y] >= 0 /\ \A z \in Years \ {y} : sequence[t][z] < 0
            BY <3>2, <3>4, <4>1
          <5> QED BY <1>2, <2>1, <3>2, <4>1, <5>1 DEF RowsCount
        <4>2. CASE t = "SALE"
          <5>1. y = year
            BY <1>1, <3>1, <3>4, <4>2
          <5>2. \A z \in Years : sequence["SALE"][z] < 0
            BY <1>3, <2>3, <3>4, <4>2, <5>1
          <5> QED BY <1>1, <1>2, <2>1, <4>2, <5>2 DEF RowsCount
        <4> QED BY <4>1, <4>2
      <3>5. \A y, z \in Years : sequence'["PO"][y] >= 0 /\ sequence'["PO"][z] >= 0 => y = z
        BY <2>1, <3>2 DEF RowsCount, Type
      <3> QED BY <2>1, <3>3, <3>4, <3>5 DEF RowsCount
    <2>4. sequence["SALE"][year] \in Int
      BY <1>1
    <2> QED BY <2>1, <2>2, <2>3, <2>4
  <1>6. ASSUME serving = 1
        PROVE  OneSaleRow'
    <2>1. OneSaleRow
      BY <1>6 DEF NumberingInv
    <2>2. InService(numberingCall)' = {}
      BY <1>2, <2>1 DEF InService, OneSaleRow
    <2>3. \A y \in Years : sequence["SALE"][y] < 0
      BY <1>2, <2>1 DEF OneSaleRow
    <2>4. \A y \in Years : sequence'["SALE"][y] >= 0 => y = year
      BY <1>1, <1>3, <2>3
    <2> QED BY <2>2, <2>4 DEF OneSaleRow
  <1> QED BY <1>4, <1>5, <1>6 DEF NumberingInv

\* Every step of the numbering keeps its invariant.
LEMMA NumberingNextInv ==
    NumberingInv /\ [NumberingNext /\ UNCHANGED serving]_<<serving, numberingVars>> => NumberingInv'
  <1> SUFFICES ASSUME NumberingInv, [NumberingNext /\ UNCHANGED serving]_<<serving, numberingVars>>
               PROVE  NumberingInv'
    OBVIOUS
  <1>0. serving' = serving
    BY DEF numberingVars
  <1>1. CASE \E t \in Type : IssueNumber(t)
    BY <1>0, <1>1, IssueNumberInv
  <1>2. CASE \E c \in Calls : OpenSetPrefix(c) \/ CreateSaleRow(c)
    BY <1>0, <1>2, OpenSetPrefixInv, CreateSaleRowInv
  <1>3. CASE NewYear
    <2>1. year' \in Years /\ UNCHANGED <<sequence, issued, numberingCall>>
      BY <1>3, NumberingAssumption DEF NewYear, Years, NumberingInv, NumberingTypeOK
    <2> QED BY <1>0, <2>1 DEF NumberingInv, NumberingTypeOK, RowsCount, OneSaleRow, InService
  <1>4. CASE UNCHANGED <<serving, numberingVars>>
    BY <1>4 DEF numberingVars, NumberingInv, NumberingTypeOK, RowsCount, OneSaleRow, InService
  <1> QED BY <1>1, <1>2, <1>3, <1>4 DEF NumberingNext

\* Years, rows, documents and calls keep their types.
THEOREM NumberingTypeCorrect == NumberingSpec => []NumberingTypeOK
  <1>1. NumberingInv => NumberingTypeOK
    BY DEF NumberingInv
  <1> QED BY <1>1, NumberingInitInv, NumberingNextInv, PTL DEF NumberingSpec

\* Whatever interleaves, for any number of years, documents and calls served at once,
\* the next number of a row is free: every number issued came from a row, the only row
\* of a type is past them all, and two prefix changes that raced are the one way to a
\* second row.
THEOREM NumbersAreFree == NumberingSpec => []NextNumberIsFree
  <1>1. NumberingInv => NextNumberIsFree
    <2> SUFFICES ASSUME NumberingInv, NEW t \in Type, NEW y \in Years, sequence[t][y] >= 0,
                        sequence[t][y] + 1 \in NumbersOf(t)
                 PROVE  /\ serving > 1 /\ t = "SALE"
                        /\ \E z \in Years \ {y} : sequence[t][z] >= 0
      BY DEF NextNumberIsFree
    <2>0. \A z \in Years : sequence[t][z] \in Int
      BY DEF NumberingInv, NumberingTypeOK
    <2>1. PICK document \in issued[t] : document.number = sequence[t][y] + 1
      BY DEF NumbersOf
    <2>2. ~ (document.number <= sequence[t][y])
      BY <2>0, <2>1
    <2>3. PICK z \in Years \ {y} : sequence[t][z] >= 0
      BY <2>0, <2>1, <2>2 DEF NumberingInv, RowsCount
    <2>4. t # "PO"
      BY <2>3 DEF NumberingInv, RowsCount
    <2>5. serving # 1
      BY <2>3, <2>4 DEF NumberingInv, OneSaleRow, Type
    <2>6. serving > 1
      BY <2>5, DeskAssumption DEF NumberingInv
    <2> QED BY <2>3, <2>4, <2>6 DEF Type
  <1> QED BY <1>1, NumberingInitInv, NumberingNextInv, PTL DEF NumberingSpec

-----------------------------------------------------------------------------
(* CashRegistersService *)

\* A call that is past its read, or creates, names a register.
CallsNameRegisters == \A c \in InService(registerCall) : registerCall[c].register \in Registers

\* One call at a time: a call that is about to store a default finds none.
DefaultsAreCleared ==
    /\ \A c, d \in InService(registerCall) : c = d
    /\ \A c \in InService(registerCall) :
          registerCall[c].pc = "write" /\ registerCall[c].dto.isDefault = TRUE =>
             \A r \in Registers : ~register[r].isDefault
    /\ \A r, q \in Registers : register[r].isDefault /\ register[q].isDefault => r = q

RegistersInv ==
    /\ RegistersTypeOK
    /\ CallsNameRegisters
    /\ serving = 1 => DefaultsAreCleared

\* What a call takes up leaves the others as they are.
LEMMA OpenRegisterInv ==
    ASSUME RegistersInv, serving' = serving, register' = register,
           NEW c \in Calls, Admitted(registerCall, c),
           NEW call \in RegisterCall, call.pc \in {"found", "remove"}, call.register \in Registers,
           registerCall' = [registerCall EXCEPT ![c] = call]
    PROVE  RegistersInv'
  <1>1. /\ registerCall' \in [Calls -> RegisterCall]
        /\ registerCall'[c] = call
        /\ \A d \in Calls \ {c} : registerCall'[d] = registerCall[d]
    BY DEF RegistersInv, RegistersTypeOK
  <1>2. RegistersTypeOK'
    BY <1>1 DEF RegistersInv, RegistersTypeOK
  <1>3. CallsNameRegisters'
    BY <1>1 DEF RegistersInv, CallsNameRegisters, InService
  <1>4. ASSUME serving = 1
        PROVE  DefaultsAreCleared'
    <2>1. DefaultsAreCleared /\ InService(registerCall) = {}
      BY <1>4, AdmittedAlone DEF RegistersInv
    <2>2. InService(registerCall)' \subseteq {c}
      BY <1>1, <2>1 DEF InService
    <2> QED BY <1>1, <2>1, <2>2 DEF DefaultsAreCleared
  <1> QED BY <1>2, <1>3, <1>4 DEF RegistersInv

\* What a call that moves on, or is answered, may do to the registers.
LEMMA AnswerRegisterInv ==
    ASSUME RegistersInv, serving' = serving,
           NEW c \in InService(registerCall),
           NEW answer \in {"named", "write", "done", "refused"}, AnswerRegisterCall(c, answer),
           register' \in [Registers -> RegisterRow],
           answer = "write" /\ registerCall[c].dto.isDefault = TRUE =>
              \A r \in Registers : ~register'[r].isDefault,
           serving = 1 =>
              \A r, q \in Registers : register'[r].isDefault /\ register'[q].isDefault => r = q
    PROVE  RegistersInv'
  <1>1. c \in Calls /\ registerCall \in [Calls -> RegisterCall]
    BY DEF InService, RegistersInv, RegistersTypeOK
  <1>2. [registerCall[c] EXCEPT !.pc = answer] \in RegisterCall
    BY <1>1 DEF RegisterCall
  <1>3. /\ registerCall' \in [Calls -> RegisterCall]
        /\ registerCall'[c] = [registerCall[c] EXCEPT !.pc = answer]
        /\ \A d \in Calls \ {c} : registerCall'[d] = registerCall[d]
    BY <1>1, <1>2 DEF AnswerRegisterCall
  <1>4. /\ registerCall'[c].pc = answer
        /\ registerCall'[c].register = registerCall[c].register
        /\ registerCall'[c].dto = registerCall[c].dto
    BY <1>1, <1>3 DEF RegisterCall
  <1>5. RegistersTypeOK'
    BY <1>3 DEF RegistersTypeOK
  <1>6. InService(registerCall)' \subseteq InService(registerCall)
    BY <1>3 DEF InService
  <1>7. CallsNameRegisters'
    BY <1>3, <1>4, <1>6 DEF RegistersInv, CallsNameRegisters, InService
  <1>8. ASSUME serving = 1
        PROVE  DefaultsAreCleared'
    <2>1. \A d \in InService(registerCall) : d = c
      BY <1>8 DEF RegistersInv, DefaultsAreCleared
    <2> QED BY <1>4, <1>6, <1>8, <2>1 DEF DefaultsAreCleared
  <1> QED BY <1>5, <1>7, <1>8 DEF RegistersInv

\* Without registers there is no default.
LEMMA RegistersInitInv == DeskInit /\ RegistersInit => RegistersInv
  <1> SUFFICES ASSUME RegistersInit
               PROVE  RegistersInv
    OBVIOUS
  <1>1. PICK r \in Registers, name \in Names :
          register = [[q \in Registers |-> NoRegister] EXCEPT
             ![r] = [name |-> name, isDefault |-> TRUE]]
    BY DEF RegistersInit
  <1>2. register \in [Registers -> RegisterRow] /\ \A q \in Registers : register[q].isDefault => q = r
    BY <1>1 DEF NoRegister, RegisterRow
  <1>3. registerCall \in [Calls -> RegisterCall]
    BY DEF RegistersInit, IdleRegisterCalls, RegisterCall, RegisterDto, NoRegister
  <1>4. InService(registerCall) = {}
    BY DEF RegistersInit, IdleRegisterCalls, InService
  <1> QED BY <1>2, <1>3, <1>4 DEF RegistersInv, RegistersTypeOK, CallsNameRegisters, DefaultsAreCleared

\* The row a call stores has the types of a row, and is the default only if the call
\* asks for it or the row was.
LEMMA StoredRegisterType ==
    ASSUME RegistersTypeOK, NEW c \in Calls, registerCall[c].register \in Registers
    PROVE  /\ StoredRegister(c) \in RegisterRow
           /\ StoredRegister(c).isDefault =>
                 registerCall[c].dto.isDefault = TRUE \/ register[registerCall[c].register].isDefault
  <1> DEFINE dto == registerCall[c].dto
             old == register[registerCall[c].register]
  <1>1. dto \in RegisterDto /\ old \in RegisterRow
    BY DEF RegistersTypeOK, RegisterCall
  <1>2. DOMAIN old = {"name", "isDefault"}
    BY <1>1 DEF RegisterRow
  <1>3. StoredRegister(c) = [name |-> IF dto.name = None THEN old.name ELSE dto.name,
                             isDefault |-> IF dto.isDefault = None THEN old.isDefault ELSE dto.isDefault]
    BY <1>2 DEF StoredRegister
  <1>4. /\ dto.name \in Names \cup {None} /\ dto.isDefault \in BOOLEAN \cup {None}
        /\ old.name \in Names \cup {None} /\ old.isDefault \in BOOLEAN
    BY <1>1 DEF RegisterDto, RegisterRow
  <1> QED BY <1>3, <1>4 DEF RegisterRow

\* Every step of the registers keeps their invariant.
LEMMA RegistersNextInv ==
    RegistersInv /\ [RegistersNext /\ UNCHANGED serving]_<<serving, registersVars>> => RegistersInv'
  <1> SUFFICES ASSUME RegistersInv, [RegistersNext /\ UNCHANGED serving]_<<serving, registersVars>>
               PROVE  RegistersInv'
    OBVIOUS
  <1>0. /\ serving' = serving
        /\ register \in [Registers -> RegisterRow] /\ registerCall \in [Calls -> RegisterCall]
        /\ serving = 1 =>
              \A r, q \in Registers : register[r].isDefault /\ register[q].isDefault => r = q
    BY DEF registersVars, RegistersInv, RegistersTypeOK, DefaultsAreCleared
  <1>1. ASSUME NEW c \in Calls, NEW r \in Registers, OpenCreateRegister(c, r)
        PROVE  RegistersInv'
    <2>1. PICK dto \in [name: Names, isDefault: BOOLEAN] :
            registerCall' = [registerCall EXCEPT ![c] =
               [pc |-> "found", register |-> r, creates |-> TRUE, dto |-> dto]]
      BY <1>1 DEF OpenCreateRegister
    <2>2. [pc |-> "found", register |-> r, creates |-> TRUE, dto |-> dto] \in RegisterCall
      BY DEF RegisterCall, RegisterDto
    <2> QED BY <1>0, <1>1, <2>1, <2>2, OpenRegisterInv DEF OpenCreateRegister
  <1>2. ASSUME NEW c \in Calls, NEW r \in Registers, OpenRegisterCall(c, r)
        PROVE  RegistersInv'
    <2>1. PICK pc \in {"found", "remove"}, dto \in RegisterDto :
            registerCall' = [registerCall EXCEPT ![c] =
               [pc |-> pc, register |-> r, creates |-> FALSE, dto |-> dto]]
      BY <1>2 DEF OpenRegisterCall
    <2>2. [pc |-> pc, register |-> r, creates |-> FALSE, dto |-> dto] \in RegisterCall
      BY DEF RegisterCall
    <2> QED BY <1>0, <1>2, <2>1, <2>2, OpenRegisterInv DEF OpenRegisterCall
  <1>3. ASSUME NEW c \in Calls, CheckName(c)
        PROVE  RegistersInv'
    <2>1. c \in InService(registerCall) /\ register' = register
      BY <1>3 DEF CheckName, InService, Answered
    <2>2. CASE registerCall[c].dto.isDefault = TRUE
      BY <1>0, <1>3, <2>1, <2>2, AnswerRegisterInv DEF CheckName
    <2>3. CASE registerCall[c].dto.isDefault # TRUE
      BY <1>0, <1>3, <2>1, <2>3, AnswerRegisterInv DEF CheckName
    <2> QED BY <2>2, <2>3
  <1>4. ASSUME NEW c \in Calls, RefuseName(c) \/ StopRegisterCall(c)
        PROVE  RegistersInv'
    <2>1. c \in InService(registerCall) /\ register' = register /\ AnswerRegisterCall(c, "refused")
      BY <1>4 DEF RefuseName, StopRegisterCall, InService, Answered
    <2> QED BY <1>0, <2>1, AnswerRegisterInv
  <1>5. ASSUME NEW c \in Calls, ClearDefaults(c)
        PROVE  RegistersInv'
    <2>1. c \in InService(registerCall) /\ AnswerRegisterCall(c, "write")
      BY <1>5 DEF ClearDefaults, InService, Answered
    <2>2. /\ register' \in [Registers -> RegisterRow]
          /\ \A r \in Registers : ~register'[r].isDefault
      BY <1>0, <1>5 DEF ClearDefaults, RegisterRow
    <2> QED BY <1>0, <2>1, <2>2, AnswerRegisterInv
  <1>6. ASSUME NEW c \in Calls, WriteRegister(c)
        PROVE  RegistersInv'
    <2> DEFINE r == registerCall[c].register
    <2>1. c \in InService(registerCall) /\ AnswerRegisterCall(c, "done")
      BY <1>6 DEF WriteRegister, InService, Answered
    <2>2. r \in Registers
      BY <2>1 DEF RegistersInv, CallsNameRegisters
    <2>3. /\ StoredRegister(c) \in RegisterRow
          /\ StoredRegister(c).isDefault =>
                registerCall[c].dto.isDefault = TRUE \/ register[r].isDefault
      BY <2>2, StoredRegisterType DEF RegistersInv
    <2>4. /\ register' \in [Registers -> RegisterRow]
          /\ register'[r] = StoredRegister(c)
          /\ \A q \in Registers \ {r} : register'[q] = register[q]
      BY <1>0, <1>6, <2>2, <2>3 DEF WriteRegister
    <2>5. ASSUME serving = 1
          PROVE  \A p, q \in Registers : register'[p].isDefault /\ register'[q].isDefault => p = q
      <3>1. CASE registerCall[c].dto.isDefault = TRUE
        <4>1. \A q \in Registers : ~register[q].isDefault
          BY <1>6, <2>1, <2>5, <3>1 DEF RegistersInv, DefaultsAreCleared, WriteRegister
        <4> QED BY <2>4, <4>1
      <3>2. CASE registerCall[c].dto.isDefault # TRUE
        <4>1. \A q \in Registers : register'[q].isDefault => register[q].isDefault
          BY <2>3, <2>4, <3>2
        <4> QED BY <1>0, <2>5, <4>1
      <3> QED BY <3>1, <3>2
    <2> QED BY <1>0, <2>1, <2>4, <2>5, AnswerRegisterInv
  <1>7. ASSUME NEW c \in Calls, RemoveRegister(c)
        PROVE  RegistersInv'
    <2>1. c \in InService(registerCall) /\ AnswerRegisterCall(c, "done")
      BY <1>7 DEF RemoveRegister, InService, Answered
    <2>2. /\ register' \in [Registers -> RegisterRow]
          /\ \A q \in Registers : register'[q].isDefault => register[q].isDefault
      BY <1>0, <1>7 DEF RemoveRegister, RegisterRow, NoRegister
    <2> QED BY <1>0, <2>1, <2>2, AnswerRegisterInv
  <1>8. CASE UNCHANGED <<serving, registersVars>>
    BY <1>8 DEF registersVars, RegistersInv, RegistersTypeOK, CallsNameRegisters, DefaultsAreCleared, InService
  <1> QED BY <1>1, <1>2, <1>3, <1>4, <1>5, <1>6, <1>7, <1>8 DEF RegistersNext

\* Registers and calls keep their types.
THEOREM RegistersTypeCorrect == RegistersSpec => []RegistersTypeOK
  <1>1. RegistersInv => RegistersTypeOK
    BY DEF RegistersInv
  <1> QED BY <1>1, RegistersInitInv, RegistersNextInv, PTL DEF RegistersSpec

\* One call at a time, an organization never has two default registers, wherever a call
\* stops: create and update clear the flag of all before they store it in one.
THEOREM DefaultIsUnique == RegistersSpec => []AtMostOneDefault
  <1>1. RegistersInv => AtMostOneDefault
    BY DEF RegistersInv, DefaultsAreCleared, AtMostOneDefault, Present
  <1> QED BY <1>1, RegistersInitInv, RegistersNextInv, PTL DEF RegistersSpec

-----------------------------------------------------------------------------
(* The dashboard and its cache *)

\* What a query saw that began its report at since: every sale made before and not
\* cancelled, and no sale cancelled before.
Honest(seen, since) ==
    \A s \in Sold :
        /\ soldAt[s] \in 0..(since - 1) /\ s \notin seen => voidedAt[s] >= 0
        /\ voidedAt[s] \in 0..(since - 1) => s \notin seen

HonestFigures(figures) ==
    /\ figures.since <= clock
    /\ Honest(figures.totals, figures.since) /\ Honest(figures.recent, figures.since)

\* Every report that is kept or under way began in the past and is honest; one whose
\* last query is yet to come is so in its first.
ReportsAreHonest ==
    /\ \A k \in Keyed : HonestFigures(cached[k])
    /\ \A c \in Calls :
          LET figures == reportCall[c].figures IN
          /\ figures.since <= clock /\ Honest(figures.totals, figures.since)
          /\ reportCall[c].pc # "recent" => Honest(figures.recent, figures.since)

\* One call at a time: but for a sale that is about to clear it, the cached dashboard
\* shows what is completed, and so does a report under way, as far as it got.
NoSaleIsHidden ==
    /\ \A c, d \in InService(reportCall) : c = d
    /\ \A c \in InService(reportCall) :
          LET call == reportCall[c] IN
          /\ call.pc \in {"recent", "set"} => Completed \subseteq call.figures.totals
          /\ call.pc = "set" => Completed \subseteq call.figures.recent
    /\ (\A c \in InService(reportCall) : reportCall[c].pc # "clear")
          /\ cached["dashboard"] # NoFigures =>
             Completed \subseteq cached["dashboard"].totals \cap cached["dashboard"].recent

\* Only what was sold is cancelled.
CancelledWereSold == \A s \in Sold : voidedAt[s] >= 0 => soldAt[s] >= 0

DashboardInv ==
    /\ DashboardTypeOK
    /\ CancelledWereSold
    /\ ReportsAreHonest
    /\ serving = 1 => NoSaleIsHidden

\* No figures hide nothing.
LEMMA NoFiguresHonest ==
    ASSUME DashboardTypeOK
    PROVE  NoFigures \in Figures /\ HonestFigures(NoFigures)
  BY DashboardAssumption DEF DashboardTypeOK, NoFigures, Figures, Time, HonestFigures, Honest

\* What is completed now is honest, whenever the report began.
LEMMA CompletedHonest ==
    ASSUME DashboardTypeOK, NEW since \in Time
    PROVE  Completed \in SUBSET Sold /\ Honest(Completed, since)
  BY DashboardAssumption DEF DashboardTypeOK, Time, Completed, Honest

\* A call that is given a local state of its own, the tables left alone.
Gives(c, call) ==
    /\ reportCall' = [reportCall EXCEPT ![c] = call]
    /\ call \in ReportCall
    /\ call.figures.since <= clock /\ Honest(call.figures.totals, call.figures.since)
    /\ call.pc # "recent" => Honest(call.figures.recent, call.figures.since)

\* What a call is given by its query keeps the calls well formed.
LEMMA GivesType ==
    ASSUME DashboardInv, NEW c \in Calls, NEW call, Gives(c, call)
    PROVE  /\ reportCall' \in [Calls -> ReportCall]
           /\ reportCall'[c] = call
           /\ \A d \in Calls \ {c} : reportCall'[d] = reportCall[d]
           /\ call.pc \in Answered \cup {"idle"} => InService(reportCall)' = InService(reportCall) \ {c}
           /\ call.pc \notin Answered \cup {"idle"} => InService(reportCall)' = InService(reportCall) \cup {c}
  BY DEF DashboardInv, DashboardTypeOK, Gives, InService

\* A step of a reader: the cache may be given one honest report more.
LEMMA ReaderInv ==
    ASSUME DashboardInv, serving' = serving,
           NEW c \in Calls, Admitted(reportCall, c) \/ c \in InService(reportCall),
           reportCall[c].pc # "clear",
           NEW call, Gives(c, call), call.pc # "clear",
           UNCHANGED <<soldAt, voidedAt, clock>>,
           cached' \in [Keyed -> Figures],
           \A k \in Keyed : cached'[k] = cached[k] \/ HonestFigures(cached'[k]),
           serving = 1 =>
              /\ call.pc \in {"recent", "set"} => Completed \subseteq call.figures.totals
              /\ call.pc = "set" => Completed \subseteq call.figures.recent
              /\ cached'["dashboard"] # cached["dashboard"] =>
                    Completed \subseteq cached'["dashboard"].totals \cap cached'["dashboard"].recent
    PROVE  DashboardInv'
  <1>1. /\ reportCall' \in [Calls -> ReportCall]
        /\ reportCall'[c] = call
        /\ \A d \in Calls \ {c} : reportCall'[d] = reportCall[d]
        /\ InService(reportCall)' \subseteq InService(reportCall) \cup {c}
    BY GivesType
  <1>2. DashboardTypeOK'
    BY <1>1 DEF DashboardInv, DashboardTypeOK
  <1>3. Completed' = Completed
    BY DEF Completed
  <1>4. \A k \in Keyed : HonestFigures(cached'[k])
    BY DEF DashboardInv, ReportsAreHonest
  <1>5. ReportsAreHonest'
    BY <1>1, <1>4 DEF DashboardInv, ReportsAreHonest, HonestFigures, Honest, Gives
  <1>6. ASSUME serving = 1
        PROVE  NoSaleIsHidden'
    <2>1. NoSaleIsHidden
      BY <1>6 DEF DashboardInv
    <2>2. InService(reportCall) \subseteq {c}
      BY <1>6, <2>1, AdmittedAlone DEF NoSaleIsHidden
    <2>3. InService(reportCall)' \subseteq {c}
      BY <1>1, <2>2
    <2>4. cached["dashboard"] # NoFigures =>
             Completed \subseteq cached["dashboard"].totals \cap cached["dashboard"].recent
      BY <2>1, <2>2 DEF NoSaleIsHidden
    <2> QED BY <1>1, <1>3, <1>6, <2>3, <2>4 DEF NoSaleIsHidden
  <1>7. CancelledWereSold'
    BY DEF DashboardInv, CancelledWereSold
  <1> QED BY <1>2, <1>5, <1>6, <1>7 DEF DashboardInv

\* An empty cache hides no sale.
LEMMA DashboardInitInv == DeskInit /\ DashboardInit => DashboardInv
  <1> SUFFICES ASSUME DashboardInit
               PROVE  DashboardInv
    OBVIOUS
  <1>1. NoFigures \in Figures /\ "dashboard" \in Keyed /\ 0 \in 0..MaxTime /\ -1 \in Time
    BY DashboardAssumption DEF NoFigures, Figures, Time, Keyed
  <1>2. DashboardTypeOK
    BY <1>1 DEF DashboardInit, DashboardTypeOK, ReportCall
  <1>3. HonestFigures(NoFigures)
    BY <1>2, NoFiguresHonest
  <1>4. ReportsAreHonest
    BY <1>3 DEF DashboardInit, ReportsAreHonest, HonestFigures
  <1>5. InService(reportCall) = {} /\ cached["dashboard"] = NoFigures
    BY DEF DashboardInit, InService, Keyed
  <1> QED BY <1>2, <1>4, <1>5 DEF DashboardInit, CancelledWereSold, DashboardInv, NoSaleIsHidden

\* A sale, or a cancellation, that happens now leaves every report honest: none began later.
LEMMA SaleKeepsHonest ==
    ASSUME DashboardInv, NEW seen, NEW since \in Time, since <= clock, Honest(seen, since),
           NEW s \in Sold, voidedAt[s] < 0,
           \/ soldAt' = [soldAt EXCEPT ![s] = clock] /\ voidedAt' = voidedAt
           \/ soldAt' = soldAt /\ voidedAt' = [voidedAt EXCEPT ![s] = clock]
    PROVE  Honest(seen, since)'
  <1>1. /\ soldAt \in [Sold -> Time] /\ voidedAt \in [Sold -> Time] /\ clock \in 0..MaxTime
        /\ MaxTime \in Nat
    BY DashboardAssumption DEF DashboardInv, DashboardTypeOK
  <1>2. clock \in Int /\ since \in Int /\ clock >= 0
    BY <1>1 DEF Time
  <1> SUFFICES ASSUME NEW u \in Sold
               PROVE  /\ soldAt'[u] \in 0..(since - 1) /\ u \notin seen => voidedAt'[u] >= 0
                      /\ voidedAt'[u] \in 0..(since - 1) => u \notin seen
    BY DEF Honest
  <1>3. /\ soldAt[u] \in 0..(since - 1) /\ u \notin seen => voidedAt[u] >= 0
        /\ voidedAt[u] \in 0..(since - 1) => u \notin seen
    BY DEF Honest
  <1>4. CASE u = s
    BY <1>1, <1>2, <1>3, <1>4
  <1>5. CASE u # s
    BY <1>1, <1>3, <1>5
  <1> QED BY <1>4, <1>5

\* A sale that commits, or is cancelled: the call and the reports there are.
LEMMA SaleInv ==
    ASSUME DashboardInv, serving' = serving,
           NEW c \in Calls, Admitted(reportCall, c), NEW pc \in {"clear", "done"}, ReportStep(c, pc),
           NEW s \in Sold, voidedAt[s] < 0,
           \/ soldAt' = [soldAt EXCEPT ![s] = clock] /\ voidedAt' = voidedAt
           \/ soldAt' = soldAt /\ voidedAt' = [voidedAt EXCEPT ![s] = clock],
           UNCHANGED <<cached, clock>>,
           CancelledWereSold', pc = "done" => Completed' \subseteq Completed
    PROVE  DashboardInv'
  <1>1. /\ soldAt' \in [Sold -> Time] /\ voidedAt' \in [Sold -> Time]
    BY DashboardAssumption DEF DashboardInv, DashboardTypeOK, Time
  <1>2. [reportCall[c] EXCEPT !.pc = pc] \in ReportCall
    BY DEF DashboardInv, DashboardTypeOK, ReportCall
  <1>3. /\ reportCall' \in [Calls -> ReportCall]
        /\ reportCall'[c].pc = pc /\ reportCall'[c].figures = reportCall[c].figures
        /\ \A d \in Calls \ {c} : reportCall'[d] = reportCall[d]
        /\ reportCall[c].pc = "idle"
    BY <1>2 DEF DashboardInv, DashboardTypeOK, ReportCall, ReportStep, Admitted
  <1>4. DashboardTypeOK'
    BY <1>1, <1>3 DEF DashboardInv, DashboardTypeOK
  <1>5. /\ \A d \in Calls : reportCall[d].figures \in Figures
        /\ \A k \in Keyed : cached[k] \in Figures
    BY DEF DashboardInv, DashboardTypeOK, ReportCall
  <1>6. \A k \in Keyed : HonestFigures(cached[k])'
    BY <1>5, SaleKeepsHonest DEF DashboardInv, ReportsAreHonest, HonestFigures, Figures
  <1>7. ASSUME NEW d \in Calls
        PROVE  /\ reportCall'[d].figures.since <= clock'
               /\ Honest(reportCall[d].figures.totals, reportCall[d].figures.since)'
               /\ reportCall'[d].pc # "recent" =>
                     Honest(reportCall[d].figures.recent, reportCall[d].figures.since)'
    <2>1. reportCall'[d].figures = reportCall[d].figures
      BY <1>3
    <2>2. reportCall'[d].pc # "recent" => reportCall[d].pc # "recent"
      BY <1>3
    <2>3. LET figures == reportCall[d].figures IN
          /\ figures.since \in Time /\ figures.since <= clock /\ Honest(figures.totals, figures.since)
          /\ reportCall[d].pc # "recent" => Honest(figures.recent, figures.since)
      BY <1>5 DEF DashboardInv, ReportsAreHonest, Figures
    <2> QED BY <2>1, <2>2, <2>3, SaleKeepsHonest
  <1>8. ReportsAreHonest'
    BY <1>6, <1>7 DEF ReportsAreHonest
  <1>9. ASSUME serving = 1
        PROVE  NoSaleIsHidden'
    <2>1. NoSaleIsHidden /\ InService(reportCall) = {}
      BY <1>9, AdmittedAlone DEF DashboardInv
    <2>2. /\ InService(reportCall)' \subseteq {c}
          /\ pc = "done" => InService(reportCall)' = {}
          /\ pc = "clear" => InService(reportCall)' = {c}
      BY <1>3, <2>1 DEF InService, Answered
    <2>3. CASE pc = "clear"
      BY <1>3, <2>2, <2>3 DEF NoSaleIsHidden
    <2>4. CASE pc = "done"
      BY <2>1, <2>2, <2>4 DEF NoSaleIsHidden
    <2> QED BY <2>3, <2>4
  <1> QED BY <1>4, <1>8, <1>9 DEF DashboardInv

\* Every step of the reports keeps their invariant.
LEMMA DashboardNextInv ==
    DashboardInv /\ [DashboardNext /\ UNCHANGED serving]_<<serving, dashboardVars>> => DashboardInv'
  <1> SUFFICES ASSUME DashboardInv, [DashboardNext /\ UNCHANGED serving]_<<serving, dashboardVars>>
               PROVE  DashboardInv'
    OBVIOUS
  <1>0. /\ serving' = serving
        /\ DashboardTypeOK /\ CancelledWereSold /\ ReportsAreHonest
        /\ soldAt \in [Sold -> Time] /\ voidedAt \in [Sold -> Time]
        /\ cached \in [Keyed -> Figures] /\ reportCall \in [Calls -> ReportCall]
        /\ MaxTime \in Nat /\ clock \in 0..MaxTime /\ clock \in Time
    BY DashboardAssumption DEF dashboardVars, DashboardInv, DashboardTypeOK, Time
  <1>1. ASSUME NEW c \in Calls, NEW s \in Sold, Sell(c, s)
        PROVE  DashboardInv'
    <2>1. voidedAt[s] < 0
      BY <1>0, <1>1 DEF Sell, DashboardInv, CancelledWereSold, Time
    <2>2. CancelledWereSold'
      BY <1>0, <1>1 DEF Sell, DashboardInv, CancelledWereSold, Time
    <2> QED BY <1>0, <1>1, <2>1, <2>2, SaleInv DEF Sell
  <1>2. ASSUME NEW c \in Calls, NEW s \in Sold, CancelSale(c, s)
        PROVE  DashboardInv'
    <2>1. Completed' \subseteq Completed
      BY <1>0, <1>2 DEF CancelSale, Completed
    <2>2. CancelledWereSold'
      BY <1>0, <1>2 DEF CancelSale, Completed, DashboardInv, CancelledWereSold
    <2> QED BY <1>0, <1>2, <2>1, <2>2, SaleInv DEF CancelSale, Completed
  <1>3. ASSUME NEW c \in Calls, ClearDashboards(c)
        PROVE  DashboardInv'
    <2>1. [reportCall[c] EXCEPT !.pc = "done"] \in ReportCall
      BY <1>0 DEF ReportCall
    <2>2. /\ reportCall' \in [Calls -> ReportCall]
          /\ reportCall'[c].pc = "done" /\ reportCall'[c].figures = reportCall[c].figures
          /\ \A d \in Calls \ {c} : reportCall'[d] = reportCall[d]
          /\ reportCall[c].pc = "clear"
      BY <1>0, <1>3, <2>1 DEF ClearDashboards, ReportStep, ReportCall
    <2>3. /\ cached' \in [Keyed -> Figures] /\ cached'["dashboard"] = NoFigures
          /\ \A k \in Keyed : cached'[k] \in {cached[k], NoFigures}
          /\ UNCHANGED <<soldAt, voidedAt, clock>>
      BY <1>0, <1>3, NoFiguresHonest DEF ClearDashboards, Clears, Keyed
    <2>4. DashboardTypeOK'
      BY <1>0, <2>2, <2>3 DEF DashboardTypeOK
    <2>5. ReportsAreHonest'
      <3>1. \A k \in Keyed : HonestFigures(cached'[k])
        BY <1>0, <2>3, NoFiguresHonest DEF ReportsAreHonest
      <3>2. \A d \in Calls : reportCall'[d].figures = reportCall[d].figures
        BY <2>2
      <3>3. \A d \in Calls : reportCall'[d].pc # "recent" => reportCall[d].pc # "recent"
        BY <2>2
      <3> QED BY <1>0, <2>3, <3>1, <3>2, <3>3 DEF ReportsAreHonest, HonestFigures, Honest
    <2>6. ASSUME serving = 1
          PROVE  NoSaleIsHidden'
      <3>1. InService(reportCall)' = {}
        BY <2>2, <2>6 DEF InService, Answered, DashboardInv, NoSaleIsHidden
      <3> QED BY <2>3, <3>1 DEF NoSaleIsHidden
    <2> QED BY <1>0, <2>3, <2>4, <2>5, <2>6 DEF DashboardInv, CancelledWereSold
  <1>4. ASSUME NEW c \in Calls, NEW key \in Keyed, ServeCached(c, key)
        PROVE  DashboardInv'
    <2> DEFINE call == [pc |-> "answered", key |-> key, figures |-> cached[key]]
    <2>1. Gives(c, call)
      BY <1>0, <1>4 DEF ServeCached, Gives, ReportCall, ReportsAreHonest, HonestFigures
    <2> QED BY <1>0, <1>4, <2>1, ReaderInv DEF ServeCached, Admitted
  <1>5. ASSUME NEW c \in Calls, NEW key \in Keyed, QueryTotals(c, key)
        PROVE  DashboardInv'
    <2> DEFINE call == [pc |-> "recent", key |-> key,
                        figures |-> [NoFigures EXCEPT !.totals = Completed, !.since = clock]]
    <2>1. /\ call.figures \in Figures /\ call.figures.totals = Completed /\ call.figures.since = clock
          /\ Honest(Completed, clock)
      BY <1>0, CompletedHonest, NoFiguresHonest DEF NoFigures, Figures
    <2>2. Gives(c, call)
      BY <1>0, <1>5, <2>1 DEF QueryTotals, Gives, ReportCall
    <2> QED BY <1>0, <1>5, <2>1, <2>2, ReaderInv DEF QueryTotals, Admitted
  <1>6. ASSUME NEW c \in Calls, QueryRecent(c)
        PROVE  DashboardInv'
    <2> DEFINE figures == [reportCall[c].figures EXCEPT !.recent = Completed]
               call == [reportCall[c] EXCEPT !.pc = "set", !.figures.recent = Completed]
    <2>1. /\ reportCall[c] \in ReportCall /\ reportCall[c].figures \in Figures
          /\ reportCall[c].figures.since \in Time /\ Completed \in SUBSET Sold
      BY <1>0, CompletedHonest DEF ReportCall, Figures
    <2>2. /\ figures \in Figures /\ figures.totals = reportCall[c].figures.totals
          /\ figures.recent = Completed /\ figures.since = reportCall[c].figures.since
      BY <2>1 DEF Figures
    <2>3. call \in ReportCall /\ call.pc = "set" /\ call.figures = figures
      BY <2>1, <2>2 DEF ReportCall
    <2>4. Honest(Completed, reportCall[c].figures.since)
      BY <1>0, <2>1, CompletedHonest
    <2>5. Gives(c, call)
      BY <1>0, <1>6, <2>2, <2>3, <2>4 DEF QueryRecent, Gives, ReportsAreHonest
    <2>6. c \in InService(reportCall)
      BY <1>6 DEF QueryRecent, InService, Answered
    <2>7. serving = 1 => Completed \subseteq figures.totals
      BY <1>6, <2>2, <2>6 DEF QueryRecent, DashboardInv, NoSaleIsHidden
    <2> QED BY <1>0, <1>6, <2>2, <2>3, <2>5, <2>6, <2>7, ReaderInv DEF QueryRecent
  <1>7. ASSUME NEW c \in Calls, StoreReport(c)
        PROVE  DashboardInv'
    <2> DEFINE stored == [reportCall[c].figures EXCEPT !.timestamp = clock]
               call == [reportCall[c] EXCEPT !.pc = "answered", !.figures = stored]
    <2>1. /\ reportCall[c] \in ReportCall /\ reportCall[c].figures \in Figures
          /\ reportCall[c].key \in Keyed /\ reportCall[c].pc = "set"
      BY <1>0, <1>7 DEF ReportCall, StoreReport
    <2>2. /\ stored \in Figures /\ stored.totals = reportCall[c].figures.totals
          /\ stored.recent = reportCall[c].figures.recent /\ stored.since = reportCall[c].figures.since
      BY <1>0, <2>1 DEF Figures
    <2>3. call \in ReportCall /\ call.pc = "answered" /\ call.figures = stored
      BY <2>1, <2>2 DEF ReportCall
    <2>4. HonestFigures(stored)
      BY <1>0, <2>1, <2>2 DEF ReportsAreHonest, HonestFigures
    <2>5. Gives(c, call)
      BY <1>7, <2>3, <2>4 DEF StoreReport, Gives, HonestFigures
    <2>6. c \in InService(reportCall)
      BY <2>1 DEF InService, Answered
    <2>7. serving = 1 => Completed \subseteq stored.totals \cap stored.recent
      BY <2>1, <2>2, <2>6 DEF DashboardInv, NoSaleIsHidden
    <2>8. /\ cached' \in [Keyed -> Figures]
          /\ \A k \in Keyed : cached'[k] \in {cached[k], stored}
      BY <1>0, <1>7, <2>1, <2>2 DEF StoreReport
    <2>9. "dashboard" \in Keyed
      BY DEF Keyed
    <2> QED BY <1>0, <1>7, <2>1, <2>3, <2>4, <2>5, <2>6, <2>7, <2>8, <2>9, ReaderInv DEF StoreReport
  <1>8. ASSUME NEW c \in Calls, FinishReport(c)
        PROVE  DashboardInv'
    <2> DEFINE call == [reportCall[c] EXCEPT !.pc = "done", !.figures = NoFigures]
    <2>1. call \in ReportCall /\ call.pc = "done" /\ call.figures = NoFigures
      BY <1>0, NoFiguresHonest DEF ReportCall
    <2>2. reportCall' = [reportCall EXCEPT ![c] = call]
      BY <1>8 DEF FinishReport
    <2>3. Gives(c, call)
      BY <1>0, <2>1, <2>2, NoFiguresHonest DEF Gives, HonestFigures
    <2>4. c \in InService(reportCall)
      BY <1>8 DEF FinishReport, InService, Answered
    <2> QED BY <1>0, <1>8, <2>1, <2>3, <2>4, ReaderInv DEF FinishReport
  <1>9. ASSUME RestartReports
        PROVE  DashboardInv'
    <2>1. /\ cached' = [k \in Keyed |-> NoFigures] /\ UNCHANGED <<soldAt, voidedAt, clock>>
          /\ NoFigures \in Figures /\ HonestFigures(NoFigures)
      BY <1>0, <1>9, NoFiguresHonest DEF RestartReports
    <2>2. ASSUME NEW c \in Calls
          PROVE  /\ reportCall'[c] \in ReportCall
                 /\ \/ c \notin InService(reportCall) /\ reportCall'[c] = reportCall[c]
                    \/ reportCall'[c].pc = "refused" /\ reportCall'[c].figures = NoFigures
      <3>1. [reportCall[c] EXCEPT !.pc = "refused", !.figures = NoFigures] \in ReportCall
        BY <1>0, <2>1 DEF ReportCall
      <3> QED BY <1>0, <1>9, <3>1 DEF RestartReports, ReportCall
    <2>3. reportCall' \in [Calls -> ReportCall]
      BY <1>9, <2>2 DEF RestartReports
    <2>4. DashboardTypeOK'
      BY <1>0, <2>1, <2>3 DEF DashboardTypeOK
    <2>5. ReportsAreHonest'
      <3>1. \A k \in Keyed : HonestFigures(cached'[k])
        BY <2>1
      <3>2. ASSUME NEW c \in Calls
            PROVE  LET figures == reportCall'[c].figures IN
                   /\ figures.since <= clock /\ Honest(figures.totals, figures.since)
                   /\ reportCall'[c].pc # "recent" => Honest(figures.recent, figures.since)
        BY <1>0, <2>1, <2>2 DEF ReportsAreHonest, HonestFigures
      <3> QED BY <2>1, <3>1, <3>2 DEF ReportsAreHonest, HonestFigures, Honest
    <2>6. InService(reportCall)' = {}
      BY <2>2 DEF InService, Answered
    <2>7. cached'["dashboard"] = NoFigures
      BY <2>1 DEF Keyed
    <2> QED BY <1>0, <2>1, <2>4, <2>5, <2>6, <2>7 DEF DashboardInv, CancelledWereSold, NoSaleIsHidden
  <1>10. ASSUME TickClock
         PROVE  DashboardInv'
    <2>1. /\ clock' \in 0..MaxTime /\ clock' = clock + 1
          /\ UNCHANGED <<soldAt, voidedAt, cached, reportCall>>
      BY <1>0, <1>10 DEF TickClock
    <2>2. DashboardTypeOK'
      BY <1>0, <2>1 DEF DashboardTypeOK
    <2>3. \A f \in Figures : f.since <= clock => f.since <= clock'
      BY <1>0, <2>1 DEF Figures, Time
    <2>4. ReportsAreHonest'
      BY <1>0, <2>1, <2>3 DEF ReportsAreHonest, HonestFigures, Honest, ReportCall
    <2> QED BY <1>0, <2>1, <2>2, <2>4 DEF DashboardInv, CancelledWereSold, NoSaleIsHidden, InService, Completed
  <1>11. CASE UNCHANGED <<serving, dashboardVars>>
    BY <1>11 DEF dashboardVars, DashboardInv, DashboardTypeOK, ReportsAreHonest, HonestFigures, Honest,
                 CancelledWereSold, NoSaleIsHidden, InService, Completed
  <1> QED BY <1>1, <1>2, <1>3, <1>4, <1>5, <1>6, <1>7, <1>8, <1>9, <1>10, <1>11 DEF DashboardNext

\* Times, figures, reports and calls keep their types.
THEOREM DashboardTypeCorrect == DashboardSpec => []DashboardTypeOK
  <1>1. DashboardInv => DashboardTypeOK
    BY DEF DashboardInv
  <1> QED BY <1>1, DashboardInitInv, DashboardNextInv, PTL DEF DashboardSpec

\* One call at a time, who looks at the dashboard after a sale sees the sale: create
\* clears what was cached before it is answered.
THEOREM SalesAreShown == DashboardSpec => []DashboardShowsEverySale
  <1>1. DashboardInv => DashboardShowsEverySale
    BY DEF DashboardInv, NoSaleIsHidden, DashboardShowsEverySale
  <1> QED BY <1>1, DashboardInitInv, DashboardNextInv, PTL DEF DashboardSpec

\* Whatever interleaves, and for any number of sales and readers, what is served is at
\* most TTL old and honest about what happened before its queries began.
THEOREM StalenessIsBounded == DashboardSpec => ReportsAreBoundedlyStale
  <1> DEFINE Bounded == \A c \in Calls :
                reportCall[c].pc # "answered" /\ reportCall'[c].pc = "answered" =>
                LET shown == reportCall'[c].figures IN
                /\ clock - shown.timestamp <= TTL
                /\ \A s \in Sold : \A seen \in {shown.totals, shown.recent} :
                      /\ soldAt[s] \in 0..(shown.since - 1) /\ s \notin seen => voidedAt[s] >= 0
                      /\ voidedAt[s] \in 0..(shown.since - 1) => s \notin seen
  <1>1. DashboardInv /\ [DashboardNext /\ UNCHANGED serving]_<<serving, dashboardVars>>
           => [Bounded]_dashboardVars
    <2> SUFFICES ASSUME DashboardInv, DashboardNext, NEW c \in Calls,
                        reportCall[c].pc # "answered", reportCall'[c].pc = "answered"
                 PROVE  LET shown == reportCall'[c].figures IN
                        clock - shown.timestamp <= TTL /\ HonestFigures(shown)
      BY DEF HonestFigures, Honest
    <2>0. /\ reportCall \in [Calls -> ReportCall] /\ cached \in [Keyed -> Figures]
          /\ clock \in 0..MaxTime /\ TTL \in Nat /\ MaxTime \in Nat
      BY DashboardAssumption, DeskAssumption DEF DashboardInv, DashboardTypeOK
    <2>1. (\E key \in Keyed : ServeCached(c, key)) \/ StoreReport(c)
      <3>1. ASSUME NEW d \in Calls, NEW pc \in {"clear", "done"}, ReportStep(d, pc)
            PROVE  FALSE
        BY <2>0, <3>1 DEF ReportStep, ReportCall
      <3>2. ASSUME NEW d \in Calls, NEW key \in Keyed, QueryTotals(d, key)
            PROVE  FALSE
        BY <2>0, <3>2 DEF QueryTotals, ReportCall
      <3>3. ASSUME NEW d \in Calls, QueryRecent(d) \/ FinishReport(d)
            PROVE  FALSE
        <4>1. PICK call \in ReportCall : call = reportCall[d]
          BY <2>0
        <4>2. /\ [call EXCEPT !.pc = "set", !.figures.recent = Completed].pc # "answered"
              /\ [call EXCEPT !.pc = "done", !.figures = NoFigures].pc # "answered"
          BY ONLY <4>1 DEF ReportCall
        <4>3. PICK new : reportCall' = [reportCall EXCEPT ![d] = new] /\ new.pc # "answered"
          BY <3>3, <4>1, <4>2 DEF QueryRecent, FinishReport
        <4> QED BY <2>0, <4>3
      <3>4. ASSUME RestartReports \/ TickClock
            PROVE  FALSE
        <4>1. CASE RestartReports
          <5>1. PICK call \in ReportCall : call = reportCall[c]
            BY <2>0
          <5>2. [call EXCEPT !.pc = "refused", !.figures = NoFigures].pc # "answered"
            BY ONLY <5>1 DEF ReportCall
          <5>3. \/ reportCall'[c] = [call EXCEPT !.pc = "refused", !.figures = NoFigures]
                \/ reportCall'[c] = call
            BY <4>1, <5>1 DEF RestartReports
          <5> QED BY <5>1, <5>2, <5>3
        <4>2. CASE TickClock
          BY <4>2 DEF TickClock
        <4> QED BY <3>4, <4>1, <4>2
      <3>5. ASSUME NEW d \in Calls \ {c}, StoreReport(d) \/ \E key \in Keyed : ServeCached(d, key)
            PROVE  FALSE
        <4>1. PICK answer : reportCall' = [reportCall EXCEPT ![d] = answer]
          BY <3>5 DEF ServeCached, StoreReport
        <4>2. reportCall'[c] = reportCall[c]
          BY <2>0, <4>1
        <4> QED BY <4>2
      <3>6. \A d \in Calls, s \in Sold : ~Sell(d, s) /\ ~CancelSale(d, s)
        BY <3>1 DEF Sell, CancelSale
      <3>7. \A d \in Calls : ~ClearDashboards(d)
        BY <3>1 DEF ClearDashboards
      <3> QED BY <3>2, <3>3, <3>4, <3>5, <3>6, <3>7 DEF DashboardNext
    <2>2. CASE \E key \in Keyed : ServeCached(c, key)
      BY <2>0, <2>2 DEF ServeCached, Fresh, DashboardInv, ReportsAreHonest
    <2>3. CASE StoreReport(c)
      <3> DEFINE figures == reportCall[c].figures
                 stored == [figures EXCEPT !.timestamp = clock]
      <3>1. /\ figures \in Figures /\ HonestFigures(figures)
        BY <2>0, <2>3 DEF StoreReport, ReportCall, DashboardInv, ReportsAreHonest, HonestFigures
      <3>2. /\ reportCall'[c].figures = stored /\ stored.timestamp = clock
            /\ stored.totals = figures.totals /\ stored.recent = figures.recent
            /\ stored.since = figures.since
        BY <2>0, <2>3, <3>1 DEF StoreReport, ReportCall, Figures
      <3> QED BY <2>0, <3>1, <3>2 DEF HonestFigures
    <2> QED BY <2>1, <2>2, <2>3
  <1>2. DashboardSpec => [][Bounded]_dashboardVars
    BY <1>1, DashboardInitInv, DashboardNextInv, PTL DEF DashboardSpec
  <1> QED BY <1>2 DEF ReportsAreBoundedlyStale

-----------------------------------------------------------------------------
(* UsersService and the members of AdminService *)

\* A call in service names an organization and a user, and a transfer an heir.
CallsNameMembers ==
    \A c \in InService(memberCall) :
        LET call == memberCall[c] IN
        /\ call.org \in Orgs /\ call.user \in Users
        /\ call.pc = "transfer" => call.heir \in Users \ {call.user}

\* A membership is of an account that exists.
MembersHaveAccounts ==
    \A o \in Orgs, u \in Users : member[o][u] # NoMember => account[u] # "absent"

OneOwnerEach ==
    \A o \in Orgs : \E u \in Users : \A v \in Users : member[o][v].primary <=> v = u

\* One call at a time: what a call knows of its user still holds when it writes.
MembersAlone ==
    /\ \A c, d \in InService(memberCall) : c = d
    /\ OneOwnerEach
    /\ \A c \in InService(memberCall) :
          LET call == memberCall[c] IN
          /\ call.pc \in {"count", "delete", "expel"} => ~member[call.org][call.user].primary
          /\ call.pc = "transfer" => member[call.org][call.user].primary
          /\ call.pc = "erase" => \A o \in Orgs : member[o][call.user] = NoMember

MembersInv ==
    /\ MembersTypeOK
    /\ CallsNameMembers
    /\ MembersHaveAccounts
    /\ serving = 1 => MembersAlone

\* One membership is written.
OnlyWritten(o, u, written) ==
    /\ member' \in [Orgs -> [Users -> MemberRow]]
    /\ member'[o][u] = written
    /\ \A p \in Orgs, v \in Users : p # o \/ v # u => member'[p][v] = member[p][v]

LEMMA MembershipWritten ==
    ASSUME MembersTypeOK, NEW o \in Orgs, NEW u \in Users, NEW written \in MemberRow,
           member' = [member EXCEPT ![o][u] = written]
    PROVE  OnlyWritten(o, u, written)
  BY DEF MembersTypeOK, OnlyWritten

\* A call that takes up a request changes no membership and removes no account.
LEMMA TakeUpInv ==
    ASSUME MembersInv, serving' = serving, NEW c \in Calls,
           NEW pc \in {"toggle", "count", "delete", "add", "role", "expel", "transfer"},
           NEW o \in Orgs, NEW u \in Users, NEW role \in Role, NEW heir \in Users \cup {None},
           TakeUp(c, pc, o, u, role, heir),
           pc = "transfer" => heir \in Users \ {u} /\ member[o][u].primary,
           pc \in {"count", "delete", "expel"} => ~member[o][u].primary,
           member' = member,
           account' \in [Users -> {"absent", "active", "inactive"}],
           \A v \in Users : account[v] # "absent" => account'[v] # "absent"
    PROVE  MembersInv'
  <1> DEFINE call == [pc |-> pc, org |-> o, user |-> u, role |-> role,
                      seen |-> account[u] = "active", heir |-> heir]
  <1>1. Admitted(memberCall, c) /\ memberCall' = [memberCall EXCEPT ![c] = call]
    BY DEF TakeUp
  <1>2. call \in MemberCall
    BY DEF MemberCall
  <1>3. /\ memberCall' \in [Calls -> MemberCall]
        /\ memberCall'[c] = call
        /\ \A d \in Calls \ {c} : memberCall'[d] = memberCall[d]
    BY <1>1, <1>2 DEF MembersInv, MembersTypeOK
  <1>4. MembersTypeOK'
    BY <1>3 DEF MembersInv, MembersTypeOK
  <1>5. CallsNameMembers'
    BY <1>3 DEF MembersInv, CallsNameMembers, InService
  <1>6. MembersHaveAccounts'
    BY DEF MembersInv, MembersHaveAccounts
  <1>7. ASSUME serving = 1
        PROVE  MembersAlone'
    <2>1. InService(memberCall) = {} /\ MembersAlone
      BY <1>1, <1>7, AdmittedAlone DEF MembersInv
    <2>2. InService(memberCall)' \subseteq {c}
      BY <1>3, <2>1 DEF InService
    <2> QED BY <1>3, <2>1, <2>2 DEF MembersAlone, OneOwnerEach
  <1> QED BY <1>4, <1>5, <1>6, <1>7 DEF MembersInv

\* A call that moves on, or is answered, and what it may do to the rows.
LEMMA AnswerMemberInv ==
    ASSUME MembersInv, serving' = serving, NEW c \in Calls,
           NEW pc \in {"delete", "orphan", "erase", "done", "refused"},
           c \in InService(memberCall) \/ (Admitted(memberCall, c) /\ pc \in Answered),
           AnswerMemberCall(c, pc),
           account' \in [Users -> {"absent", "active", "inactive"}],
           member' \in [Orgs -> [Users -> MemberRow]],
           MembersHaveAccounts',
           serving = 1 =>
              /\ OneOwnerEach'
              /\ pc = "delete" => ~member'[memberCall[c].org][memberCall[c].user].primary
              /\ pc = "erase" => \A o \in Orgs : member'[o][memberCall[c].user] = NoMember
    PROVE  MembersInv'
  <1>1. memberCall[c] \in MemberCall /\ [memberCall[c] EXCEPT !.pc = pc] \in MemberCall
    <2>1. memberCall[c] \in MemberCall /\ pc \in {"delete", "orphan", "erase", "done", "refused"}
      BY DEF MembersInv, MembersTypeOK
    <2> QED BY ONLY <2>1 DEF MemberCall
  <1>2. /\ memberCall' \in [Calls -> MemberCall]
        /\ memberCall'[c] = [memberCall[c] EXCEPT !.pc = pc]
        /\ \A d \in Calls \ {c} : memberCall'[d] = memberCall[d]
    BY <1>1 DEF AnswerMemberCall, MembersInv, MembersTypeOK
  <1>3. /\ memberCall'[c].pc = pc
        /\ memberCall'[c].org = memberCall[c].org /\ memberCall'[c].user = memberCall[c].user
    BY <1>1, <1>2 DEF MemberCall
  <1>4. MembersTypeOK'
    BY <1>2 DEF MembersTypeOK
  <1>5. InService(memberCall)' \subseteq InService(memberCall)
    BY <1>2, <1>3 DEF InService, Answered
  <1>6. CallsNameMembers'
    BY <1>2, <1>3, <1>5 DEF MembersInv, CallsNameMembers, InService
  <1>7. ASSUME serving = 1
        PROVE  MembersAlone'
    <2>1. InService(memberCall) \subseteq {c}
      BY <1>7, AdmittedAlone DEF MembersInv, MembersAlone
    <2> QED BY <1>3, <1>5, <1>7, <2>1 DEF MembersAlone
  <1> QED BY <1>4, <1>6, <1>7 DEF MembersInv

\* Each organization starts with one owner.
LEMMA MembersInitInv == DeskInit /\ MembersInit => MembersInv
  <1> SUFFICES ASSUME MembersInit
               PROVE  MembersInv
    OBVIOUS
  <1>1. PICK owner \in [Orgs -> Users] :
          /\ member = [o \in Orgs |-> [[u \in Users |-> NoMember] EXCEPT
                ![owner[o]] = [role |-> "ADMIN", primary |-> TRUE]]]
          /\ account = [u \in Users |-> IF \E o \in Orgs : owner[o] = u THEN "active" ELSE "absent"]
    BY DEF MembersInit
  <1>2. /\ NoMember \in MemberRow /\ ~NoMember.primary
        /\ [role |-> "ADMIN", primary |-> TRUE] \in MemberRow
    BY DEF NoMember, MemberRow, Role
  <1>3. \A o \in Orgs, u \in Users :
          member[o][u] = IF u = owner[o] THEN [role |-> "ADMIN", primary |-> TRUE] ELSE NoMember
    BY <1>1
  <1>4. member \in [Orgs -> [Users -> MemberRow]]
    BY <1>1, <1>2
  <1>5. memberCall \in [Calls -> MemberCall]
    BY DEF MembersInit, MemberCall, Role
  <1>6. account \in [Users -> {"absent", "active", "inactive"}]
    BY <1>1
  <1>7. MembersHaveAccounts
    BY <1>1, <1>3 DEF MembersHaveAccounts
  <1>8. OneOwnerEach
    BY <1>2, <1>3 DEF OneOwnerEach
  <1>9. InService(memberCall) = {}
    BY DEF MembersInit, InService
  <1> QED BY <1>4, <1>5, <1>6, <1>7, <1>8, <1>9 DEF MembersInv, MembersTypeOK, CallsNameMembers, MembersAlone

\* A membership that is added was not there, and is no owner's.
LEMMA NewMembership ==
    ASSUME MembersInv, NEW o \in Orgs, NEW u \in Users, NEW role \in Role,
           member[o][u] = NoMember,
           member' = [member EXCEPT ![o][u] = [role |-> role, primary |-> FALSE]],
           account' \in [Users -> {"absent", "active", "inactive"}],
           account'[u] # "absent", \A v \in Users \ {u} : account'[v] = account[v]
    PROVE  /\ member' \in [Orgs -> [Users -> MemberRow]]
           /\ MembersHaveAccounts'
           /\ OneOwnerEach => OneOwnerEach'
  <1>1. [role |-> role, primary |-> FALSE] \in MemberRow
    BY DEF MemberRow
  <1>2. /\ member' \in [Orgs -> [Users -> MemberRow]]
        /\ member'[o][u] = [role |-> role, primary |-> FALSE]
        /\ \A p \in Orgs, v \in Users : p # o \/ v # u => member'[p][v] = member[p][v]
    <2>1. OnlyWritten(o, u, [role |-> role, primary |-> FALSE])
      BY <1>1, MembershipWritten DEF MembersInv
    <2> QED BY ONLY <2>1 DEF OnlyWritten
  <1>3. \A p \in Orgs, v \in Users : member'[p][v].primary <=> member[p][v].primary
    <2>1. ~NoMember.primary /\ ~member'[o][u].primary
      BY <1>2 DEF NoMember
    <2> QED BY <1>2, <2>1
  <1>4. MembersHaveAccounts'
    BY <1>2 DEF MembersInv, MembersHaveAccounts
  <1> QED BY <1>2, <1>3, <1>4 DEF OneOwnerEach

\* A membership that is deleted, not an owner's, leaves the owners as they are.
LEMMA OldMembership ==
    ASSUME MembersInv, NEW o \in Orgs, NEW u \in Users,
           member' = [member EXCEPT ![o][u] = NoMember], account' = account
    PROVE  /\ member' \in [Orgs -> [Users -> MemberRow]]
           /\ MembersHaveAccounts'
           /\ OneOwnerEach /\ ~member[o][u].primary => OneOwnerEach'
  <1>1. NoMember \in MemberRow /\ ~NoMember.primary
    BY DEF MemberRow, NoMember
  <1>2. /\ member' \in [Orgs -> [Users -> MemberRow]]
        /\ member'[o][u] = NoMember
        /\ \A p \in Orgs, v \in Users : p # o \/ v # u => member'[p][v] = member[p][v]
    <2>1. OnlyWritten(o, u, NoMember)
      BY <1>1, MembershipWritten DEF MembersInv
    <2> QED BY ONLY <2>1 DEF OnlyWritten
  <1>3. ~member[o][u].primary =>
          \A p \in Orgs, v \in Users : member'[p][v].primary <=> member[p][v].primary
    BY <1>1, <1>2
  <1>4. MembersHaveAccounts'
    BY <1>2 DEF MembersInv, MembersHaveAccounts
  <1> QED BY <1>2, <1>3, <1>4 DEF OneOwnerEach

\* Every step of the members keeps their invariant.
LEMMA MembersNextInv ==
    MembersInv /\ [MembersNext /\ UNCHANGED serving]_<<serving, membersVars>> => MembersInv'
  <1> SUFFICES ASSUME MembersInv, [MembersNext /\ UNCHANGED serving]_<<serving, membersVars>>
               PROVE  MembersInv'
    OBVIOUS
  <1>0. /\ serving' = serving
        /\ MembersTypeOK /\ MembersHaveAccounts
        /\ account \in [Users -> {"absent", "active", "inactive"}]
        /\ member \in [Orgs -> [Users -> MemberRow]]
        /\ memberCall \in [Calls -> MemberCall]
        /\ serving = 1 => OneOwnerEach
        /\ \A c \in InService(memberCall) : memberCall[c].org \in Orgs /\ memberCall[c].user \in Users
        /\ \A c \in Calls : memberCall[c].pc \notin Answered \cup {"idle"} => c \in InService(memberCall)
    BY DEF membersVars, MembersInv, MembersTypeOK, MembersAlone, CallsNameMembers, InService
  <1>1. ASSUME NEW c \in Calls, NEW o \in Orgs, NEW u \in Users, NEW role \in Role,
               CreateUser(c, o, u, role)
        PROVE  MembersInv'
    <2>1. /\ Admitted(memberCall, c) /\ AnswerMemberCall(c, "done")
          /\ member[o][u] = NoMember
          /\ account' = [account EXCEPT ![u] = "active"]
          /\ member' = [member EXCEPT ![o][u] = [role |-> role, primary |-> FALSE]]
      BY <1>0, <1>1 DEF CreateUser, MembersHaveAccounts
    <2>2. /\ account' \in [Users -> {"absent", "active", "inactive"}]
          /\ account'[u] # "absent" /\ \A v \in Users \ {u} : account'[v] = account[v]
      BY <1>0, <2>1
    <2>3. /\ member' \in [Orgs -> [Users -> MemberRow]]
          /\ MembersHaveAccounts'
          /\ OneOwnerEach => OneOwnerEach'
      BY <2>1, <2>2, NewMembership
    <2> QED BY <1>0, <2>1, <2>2, <2>3, AnswerMemberInv DEF Answered
  <1>2. ASSUME NEW c \in Calls, NEW o \in Orgs, NEW u \in Users, NEW role \in Role,
               OpenAddMember(c, o, u, role)
        PROVE  MembersInv'
    <2>1. /\ account' \in [Users -> {"absent", "active", "inactive"}]
          /\ \A v \in Users : account[v] # "absent" => account'[v] # "absent"
          /\ TakeUp(c, "add", o, u, role, None) /\ member' = member
      BY <1>0, <1>2 DEF OpenAddMember
    <2> QED BY <1>0, <2>1, TakeUpInv
  <1>3. ASSUME NEW c \in Calls, NEW o \in Orgs, NEW u \in Users, NEW role \in Role,
               NEW pc \in {"role", "expel"}, OpenMemberCall(c, o, u, pc, role)
        PROVE  MembersInv'
    BY <1>0, <1>3, TakeUpInv DEF OpenMemberCall
  <1>4. ASSUME NEW c \in Calls, NEW o \in Orgs, NEW u \in Users,
               OpenToggle(c, o, u) \/ OpenRemoveUser(c, o, u)
        PROVE  MembersInv'
    <2>1. CASE OpenToggle(c, o, u)
      BY <1>0, <2>1, TakeUpInv DEF OpenToggle, Role
    <2>2. CASE OpenRemoveUser(c, o, u)
      <3>1. "CASHIER" \in Role
        BY DEF Role
      <3>2. PICK pc \in {"count", "delete"} :
              TakeUp(c, pc, o, u, "CASHIER", None) /\ ~member[o][u].primary
                /\ UNCHANGED <<account, member>>
        BY <2>2 DEF OpenRemoveUser
      <3> QED BY <1>0, <3>1, <3>2, TakeUpInv
    <2> QED BY <1>4, <2>1, <2>2
  <1>5. ASSUME NEW c \in Calls, NEW o \in Orgs, NEW u \in Users, NEW heir \in Users,
               OpenTransfer(c, o, u, heir)
        PROVE  MembersInv'
    BY <1>0, <1>5, TakeUpInv DEF OpenTransfer, Role
  <1>6. ASSUME NEW c \in Calls, Toggle(c)
        PROVE  MembersInv'
    <2>1. c \in InService(memberCall) /\ AnswerMemberCall(c, "done") /\ member' = member
      BY <1>0, <1>6 DEF Toggle, Answered
    <2>2. /\ account' \in [Users -> {"absent", "active", "inactive"}]
          /\ \A v \in Users : account[v] # "absent" => account'[v] # "absent"
      BY <1>0, <1>6 DEF Toggle
    <2>3. MembersHaveAccounts' /\ (OneOwnerEach => OneOwnerEach')
      BY <1>0, <2>1, <2>2 DEF MembersHaveAccounts, OneOwnerEach
    <2> QED BY <1>0, <2>1, <2>2, <2>3, AnswerMemberInv
  <1>7. ASSUME NEW c \in Calls, CountAdmins(c) \/ CountMemberships(c) \/ StopMemberCall(c)
        PROVE  MembersInv'
    <2>1. UNCHANGED <<account, member>> /\ c \in InService(memberCall)
      BY <1>0, <1>7 DEF CountAdmins, CountMemberships, StopMemberCall, Answered
    <2>2. MembersHaveAccounts' /\ (OneOwnerEach => OneOwnerEach')
      BY <1>0, <2>1 DEF MembersHaveAccounts, OneOwnerEach
    <2>3. CASE AnswerMemberCall(c, "done") \/ AnswerMemberCall(c, "refused")
      BY <1>0, <2>1, <2>2, <2>3, AnswerMemberInv
    <2>4. CASE CountAdmins(c) /\ AnswerMemberCall(c, "delete")
      <3>1. serving = 1 => ~member[memberCall[c].org][memberCall[c].user].primary
        BY <2>1, <2>4 DEF CountAdmins, MembersInv, MembersAlone
      <3> QED BY <1>0, <2>1, <2>2, <2>4, <3>1, AnswerMemberInv
    <2>5. CASE AnswerMemberCall(c, "erase") /\ IsOrphan(c)
      <3>1. \A o \in Orgs : member[o][memberCall[c].user] = NoMember
        BY <2>5 DEF IsOrphan, Memberships, Belongs
      <3> QED BY <1>0, <2>1, <2>2, <2>5, <3>1, AnswerMemberInv
    <2> QED BY <1>7, <2>3, <2>4, <2>5 DEF CountAdmins, CountMemberships, StopMemberCall
  <1>8. ASSUME NEW c \in Calls, DeleteMembership(c) \/ ExpelMember(c)
        PROVE  MembersInv'
    <2> DEFINE o == memberCall[c].org
               u == memberCall[c].user
    <2>1. /\ c \in InService(memberCall) /\ memberCall[c].pc \in {"delete", "expel"}
          /\ member' = [member EXCEPT ![o][u] = NoMember] /\ account' = account
          /\ \E pc \in {"orphan", "done"} : AnswerMemberCall(c, pc)
      BY <1>0, <1>8 DEF DeleteMembership, ExpelMember, Answered
    <2>2. serving = 1 => ~member[o][u].primary
      BY <2>1 DEF MembersInv, MembersAlone
    <2>3. o \in Orgs /\ u \in Users
      BY <1>0, <2>1
    <2>4. /\ member' \in [Orgs -> [Users -> MemberRow]]
          /\ MembersHaveAccounts'
          /\ OneOwnerEach /\ ~member[o][u].primary => OneOwnerEach'
      BY <2>1, <2>3, OldMembership
    <2> QED BY <1>0, <2>1, <2>2, <2>4, AnswerMemberInv
  <1>9. ASSUME NEW c \in Calls, EraseUser(c)
        PROVE  MembersInv'
    <2> DEFINE u == memberCall[c].user
    <2>1. /\ c \in InService(memberCall) /\ memberCall[c].pc = "erase"
          /\ AnswerMemberCall(c, "done")
          /\ account' = [account EXCEPT ![u] = "absent"]
          /\ member' = [o \in Orgs |-> [member[o] EXCEPT ![u] = NoMember]]
      BY <1>0, <1>9 DEF EraseUser, Answered
    <2>2. u \in Users /\ NoMember \in MemberRow
      BY <1>0, <2>1 DEF NoMember, MemberRow
    <2>3. /\ member' \in [Orgs -> [Users -> MemberRow]]
          /\ \A o \in Orgs, v \in Users : member'[o][v] = IF v = u THEN NoMember ELSE member[o][v]
          /\ account' \in [Users -> {"absent", "active", "inactive"}]
          /\ \A v \in Users \ {u} : account'[v] = account[v]
      BY <1>0, <2>1, <2>2
    <2>4. MembersHaveAccounts'
      BY <1>0, <2>3 DEF MembersHaveAccounts
    <2>5. serving = 1 => OneOwnerEach'
      <3>1. serving = 1 => \A o \in Orgs : member[o][u] = NoMember
        BY <2>1 DEF MembersInv, MembersAlone
      <3>2. serving = 1 => \A o \in Orgs, v \in Users : member'[o][v] = member[o][v]
        BY <2>3, <3>1
      <3> QED BY <1>0, <3>2 DEF OneOwnerEach
    <2> QED BY <1>0, <2>1, <2>3, <2>4, <2>5, AnswerMemberInv
  <1>10. ASSUME NEW c \in Calls, AddMember(c)
         PROVE  MembersInv'
    <2> DEFINE o == memberCall[c].org
               u == memberCall[c].user
               role == memberCall[c].role
    <2>1. /\ c \in InService(memberCall) /\ AnswerMemberCall(c, "done")
          /\ account' = account /\ account[u] # "absent" /\ member[o][u] = NoMember
          /\ member' = [member EXCEPT ![o][u] = [role |-> role, primary |-> FALSE]]
      BY <1>0, <1>10 DEF AddMember, Answered, Belongs
    <2>2. o \in Orgs /\ u \in Users /\ role \in Role
      BY <1>0, <2>1 DEF MemberCall
    <2>3. /\ member' \in [Orgs -> [Users -> MemberRow]]
          /\ MembersHaveAccounts'
          /\ OneOwnerEach => OneOwnerEach'
      BY <1>0, <2>1, <2>2, NewMembership
    <2> QED BY <1>0, <2>1, <2>3, AnswerMemberInv
  <1>11. ASSUME NEW c \in Calls, UpdateRole(c)
         PROVE  MembersInv'
    <2> DEFINE o == memberCall[c].org
               u == memberCall[c].user
               written == [member[o][u] EXCEPT !.role = memberCall[c].role]
    <2>1. /\ c \in InService(memberCall) /\ AnswerMemberCall(c, "done")
          /\ account' = account /\ member[o][u] # NoMember
          /\ member' = [member EXCEPT ![o][u].role = memberCall[c].role]
      BY <1>0, <1>11 DEF UpdateRole, Answered, Belongs
    <2>2. o \in Orgs /\ u \in Users /\ memberCall[c].role \in Role
      BY <1>0, <2>1 DEF MemberCall
    <2>3. written \in MemberRow /\ (written.primary <=> member[o][u].primary)
      <3>1. member[o][u] \in MemberRow
        BY <1>0, <2>2
      <3> QED BY <2>2, <3>1 DEF MemberRow
    <2>4. member' = [member EXCEPT ![o][u] = written]
      BY <1>0, <2>1, <2>2
    <2>5. /\ member' \in [Orgs -> [Users -> MemberRow]]
          /\ member'[o][u] = written
          /\ \A p \in Orgs, v \in Users : p # o \/ v # u => member'[p][v] = member[p][v]
      <3>1. OnlyWritten(o, u, written)
        <4>1. MembersTypeOK
          BY <1>0 DEF MembersInv
        <4> HIDE DEF o, u, written
        <4> QED BY ONLY <2>2, <2>3, <2>4, <4>1, MembershipWritten
      <3> QED BY ONLY <3>1 DEF OnlyWritten
    <2>6. OneOwnerEach => OneOwnerEach'
      <3>1. \A p \in Orgs, v \in Users : member'[p][v].primary <=> member[p][v].primary
        <4> HIDE DEF o, u, written
        <4>0. \A p \in Orgs, v \in Users : p # o \/ v # u => member'[p][v] = member[p][v]
          BY <2>5
        <4> SUFFICES ASSUME NEW p \in Orgs, NEW v \in Users
                     PROVE  member'[p][v].primary <=> member[p][v].primary
          OBVIOUS
        <4>1. CASE p = o /\ v = u
          BY <2>3, <2>5, <4>1
        <4>2. CASE p # o \/ v # u
          BY ONLY <4>0, <4>2, Zenon
        <4> QED BY <4>1, <4>2
      <3> QED BY <3>1 DEF OneOwnerEach
    <2>7. MembersHaveAccounts'
      BY <1>0, <2>1, <2>5 DEF MembersHaveAccounts
    <2> QED BY <1>0, <2>1, <2>5, <2>6, <2>7, AnswerMemberInv
  <1>12. ASSUME NEW c \in Calls, Transfer(c)
         PROVE  MembersInv'
    <2> DEFINE o == memberCall[c].org
               u == memberCall[c].user
               heir == memberCall[c].heir
               rows == Transferred(member[o], u, heir)
    <2>1. /\ c \in InService(memberCall) /\ memberCall[c].pc = "transfer"
          /\ AnswerMemberCall(c, "done")
          /\ account' = account /\ member[o][u] # NoMember /\ member[o][heir] # NoMember
          /\ member' = [member EXCEPT ![o] = Transferred(@, u, heir)]
      BY <1>0, <1>12 DEF Transfer, Answered, Belongs
    <2>2. o \in Orgs /\ u \in Users /\ heir \in Users /\ heir # u
      BY <2>1 DEF MembersInv, CallsNameMembers
    <2>3. /\ rows \in [Users -> MemberRow]
          /\ ~rows[u].primary /\ rows[heir].primary
          /\ \A v \in Users \ {u, heir} : rows[v] = member[o][v]
      <3>1. member[o] \in [Users -> MemberRow]
        BY <1>0, <2>2
      <3>2. \A v \in Users, flag \in BOOLEAN :
               LET written == [member[o][v] EXCEPT !.primary = flag] IN
               written \in MemberRow /\ (written.primary <=> flag)
        <4> SUFFICES ASSUME NEW v \in Users, NEW flag \in BOOLEAN
                     PROVE  LET written == [member[o][v] EXCEPT !.primary = flag] IN
                            written \in MemberRow /\ (written.primary <=> flag)
          OBVIOUS
        <4>1. PICK m \in MemberRow : m = member[o][v]
          BY ONLY <3>1
        <4>2. [m EXCEPT !.primary = flag] \in MemberRow /\ ([m EXCEPT !.primary = flag].primary <=> flag)
          BY ONLY <4>1 DEF MemberRow
        <4> QED BY ONLY <4>1, <4>2
      <3>3. /\ rows \in [Users -> MemberRow]
            /\ rows[u] = [member[o][u] EXCEPT !.primary = FALSE]
            /\ rows[heir] = [member[o][heir] EXCEPT !.primary = TRUE]
            /\ \A v \in Users \ {u, heir} : rows[v] = member[o][v]
        BY <2>2, <3>1, <3>2 DEF Transferred
      <3> QED BY <2>2, <3>2, <3>3
    <2>4. /\ member' \in [Orgs -> [Users -> MemberRow]]
          /\ member'[o] = rows
          /\ \A p \in Orgs \ {o} : member'[p] = member[p]
      BY <1>0, <2>1, <2>2, <2>3
    <2>5. MembersHaveAccounts'
      BY <1>0, <2>1, <2>2, <2>3, <2>4 DEF MembersHaveAccounts
    <2>6. ASSUME serving = 1
          PROVE  OneOwnerEach'
      <3>1. OneOwnerEach /\ member[o][u].primary
        BY <2>1, <2>6 DEF MembersInv, MembersAlone
      <3>2. \A v \in Users : member[o][v].primary => v = u
        BY <2>2, <3>1 DEF OneOwnerEach
      <3>3. \A v \in Users : rows[v].primary <=> v = heir
        BY <2>2, <2>3, <3>2
      <3>4. ASSUME NEW p \in Orgs
            PROVE  \E w \in Users : \A v \in Users : member'[p][v].primary <=> v = w
        <4>1. CASE p = o
          BY ONLY <2>2, <2>4, <3>3, <4>1
        <4>2. CASE p # o
          BY ONLY <2>4, <3>1, <3>4, <4>2 DEF OneOwnerEach
        <4> QED BY <4>1, <4>2
      <3> QED BY <3>4 DEF OneOwnerEach
    <2> QED BY <1>0, <2>1, <2>4, <2>5, <2>6, AnswerMemberInv
  <1>13. CASE UNCHANGED <<serving, membersVars>>
    BY <1>13 DEF membersVars, MembersInv, MembersTypeOK, CallsNameMembers, MembersHaveAccounts,
                 MembersAlone, OneOwnerEach, InService
  <1>14. CASE MembersNext
    BY <1>1, <1>2, <1>3, <1>4, <1>5, <1>6, <1>7, <1>8, <1>9, <1>10, <1>11, <1>12, <1>14
       DEF MembersNext, Role
  <1> QED BY <1>13, <1>14

\* Accounts, memberships and calls keep their types.
THEOREM MembersTypeCorrect == MembersSpec => []MembersTypeOK
  <1>1. MembersInv => MembersTypeOK
    BY DEF MembersInv
  <1> QED BY <1>1, MembersInitInv, MembersNextInv, PTL DEF MembersSpec

\* One call at a time, for any number of organizations and users, each organization has
\* one primary owner: only a transfer moves the flag, remove and expel spare its holder,
\* and an account that is erased belongs nowhere.
THEOREM OwnerIsUnique == MembersSpec => []OneOwner
  <1>1. ASSUME MembersInv, serving = 1, NEW o \in Orgs
        PROVE  Cardinality(Owners(o)) = 1
    <2>1. PICK u \in Users : \A v \in Users : member[o][v].primary <=> v = u
      BY <1>1 DEF MembersInv, MembersAlone, OneOwnerEach
    <2>2. Owners(o) = {u}
      BY <2>1 DEF Owners
    <2> QED BY <2>2, FS_Singleton
  <1>2. MembersInv => OneOwner
    BY <1>1 DEF OneOwner
  <1> QED BY <1>2, MembersInitInv, MembersNextInv, PTL DEF MembersSpec

\* One call at a time, a removal touches the caller's organization only: the account is
\* erased when it was found to belong nowhere, and still does.
THEOREM RemovalsAreLocal == MembersSpec => RemovalsStayInTheOrganization
  <1> DEFINE Local == serving = 1 =>
                \A o \in Orgs, u \in Users : Belongs(u, o) /\ member'[o][u] = NoMember =>
                   \E c \in Calls : memberCall'[c] # memberCall[c] /\ memberCall[c].org = o
  <1>1. MembersInv /\ [MembersNext /\ UNCHANGED serving]_<<serving, membersVars>> => [Local]_membersVars
    <2> SUFFICES ASSUME MembersInv, MembersNext, serving = 1, NEW o \in Orgs, NEW u \in Users,
                        member[o][u] # NoMember, member'[o][u] = NoMember
                 PROVE  \E c \in Calls : memberCall'[c] # memberCall[c] /\ memberCall[c].org = o
      BY DEF Belongs
    <2>0. /\ member \in [Orgs -> [Users -> MemberRow]]
          /\ memberCall \in [Calls -> MemberCall]
          /\ \A c \in InService(memberCall) : memberCall[c].org \in Orgs /\ memberCall[c].user \in Users
          /\ \A c \in Calls : memberCall[c].pc \notin Answered \cup {"idle"} => c \in InService(memberCall)
      BY DEF MembersInv, MembersTypeOK, CallsNameMembers, InService
    <2>1. ASSUME NEW c \in Calls, NEW p \in Orgs, NEW v \in Users, NEW role \in Role,
                 CreateUser(c, p, v, role)
          PROVE  FALSE
      <3>1. member[p][v] = NoMember
        BY <2>1 DEF CreateUser, MembersInv, MembersHaveAccounts
      <3> QED BY <2>0, <2>1, <3>1 DEF CreateUser
    <2>2. ASSUME NEW c \in Calls, EraseUser(c)
          PROVE  FALSE
      <3>1. c \in InService(memberCall) /\ memberCall[c].pc = "erase"
        BY <2>0, <2>2 DEF EraseUser, Answered
      <3>2. \A p \in Orgs : member[p][memberCall[c].user] = NoMember
        BY <3>1 DEF MembersInv, MembersAlone
      <3> QED BY <2>0, <2>2, <3>2 DEF EraseUser
    <2>3. ASSUME NEW c \in Calls, NEW pc \in {"orphan", "done"}, AnswerMemberCall(c, pc),
                 memberCall[c].pc # pc, \A p \in Orgs \ {memberCall[c].org} : member'[p] = member[p]
          PROVE  memberCall'[c] # memberCall[c] /\ memberCall[c].org = o
      <3>1. memberCall'[c].pc = pc
        BY <2>0, <2>3 DEF AnswerMemberCall, MemberCall
      <3> QED BY <2>3, <3>1
    <2>4. ASSUME NEW c \in Calls,
                 DeleteMembership(c) \/ ExpelMember(c) \/ AddMember(c) \/ UpdateRole(c) \/ Transfer(c)
          PROVE  memberCall'[c] # memberCall[c] /\ memberCall[c].org = o
      <3>1. \A p \in Orgs \ {memberCall[c].org} : member'[p] = member[p]
        BY <2>0, <2>4 DEF DeleteMembership, ExpelMember, AddMember, UpdateRole, Transfer
      <3> QED BY <2>3, <2>4, <3>1 DEF DeleteMembership, ExpelMember, AddMember, UpdateRole, Transfer
    <2>5. member' # member
      BY DEF Belongs
    <2> QED BY <2>1, <2>2, <2>4, <2>5 DEF MembersNext, OpenAddMember, OpenMemberCall, OpenToggle,
              OpenRemoveUser, OpenTransfer, Toggle, CountAdmins, CountMemberships, StopMemberCall
  <1>2. MembersSpec => [][Local]_membersVars
    BY <1>1, MembersInitInv, MembersNextInv, PTL DEF MembersSpec
  <1> QED BY <1>2 DEF RemovalsStayInTheOrganization

-----------------------------------------------------------------------------
(* CategoriesService, CustomersService, SuppliersService, resolveCategory *)

\* What a call knows of the rows it names, whatever runs beside it: they are there, since
\* no row is ever deleted.
SoundCall(call, rows) ==
    /\ call.pc = "insert" => call.key \in Key /\ call.state \in {"live", "hidden"}
    /\ call.pc \in {"edit", "flag", "refer", "amend", "revive", "product"} =>
          call.entry \in Entries /\ rows[call.entry].state # "none"
    /\ call.pc = "edit" => call.state # "removed"
    /\ call.pc = "flag" => call.state \in {"live", "removed"}
    /\ call.pc \in {"refer", "amend"} => call.ref \in Refs
    /\ call.pc \in {"revive", "make", "fallback", "product"} => call.key \in Key
    /\ \A n \in Labels : call.cache[n].of # None =>
          call.cache[n].of \in Entries /\ rows[call.cache[n].of].state # "none"

\* What a call knows when it is the only one: a row it is about to remove is not in use,
\* and a row it saw active is not removed.
SafeCall(call, rows, uses) ==
    /\ call.pc = "flag" => \A r \in Refs : uses[r].to # call.entry
    /\ call.pc \in {"refer", "amend", "product"} /\ ~call.unseen =>
          rows[call.entry].state # "removed"
    /\ \A n \in Labels : call.cache[n].of # None /\ call.cache[n].active =>
          rows[call.cache[n].of].state # "removed"

KeysAreUnique ==
    \A d, e \in Entries : entry[d].state # "none" /\ entry[e].state # "none"
                             /\ entry[d].key = entry[e].key => d = e

ImportedAreTitled ==
    \A e \in Entries : entry[e].imported =>
        entry[e].state # "none" /\ entry[e].key \in Key /\ entry[e].key.style = "title"

\* What a use relies on: a row that was seen active is not removed.
SeenAreKept == \A r \in Refs : ref[r].to # None /\ ~ref[r].unseen => entry[ref[r].to].state # "removed"

OneDirectoryCall ==
    /\ \A c, d \in InService(dirCall) : c = d
    /\ \A c \in InService(dirCall) : SafeCall(dirCall[c], entry, ref)
    /\ SeenAreKept

DirectoryInv ==
    /\ DirectoryTypeOK
    /\ \A c \in Calls : SoundCall(dirCall[c], entry)
    /\ KeysAreUnique /\ ImportedAreTitled
    /\ serving = 1 /\ kind # "supplier" => OneDirectoryCall

\* Nothing is known to a call that has named no row.
LEMMA IdleCallIsSound ==
    ASSUME NEW rows, NEW uses, NEW pc \in {"idle", "rows", "done", "refused"}
    PROVE  LET call == [IdleDirectoryCall EXCEPT !.pc = pc] IN
           /\ call \in DirectoryCall
           /\ call.pc = pc
           /\ SoundCall(call, rows) /\ SafeCall(call, rows, uses)
  <1>1. Uncached \in Cached /\ Uncached.of = None
    BY DEF Cached, Uncached
  <1>2. [IdleDirectoryCall EXCEPT !.pc = pc].cache = [n \in Labels |-> Uncached]
    BY DEF IdleDirectoryCall
  <1>3. [IdleDirectoryCall EXCEPT !.pc = pc] \in DirectoryCall
    BY <1>1 DEF IdleDirectoryCall, DirectoryCall
  <1>4. [IdleDirectoryCall EXCEPT !.pc = pc].pc = pc
    BY DEF IdleDirectoryCall
  <1> QED BY <1>1, <1>2, <1>3, <1>4 DEF SoundCall, SafeCall

\* An empty directory keeps what is used.
LEMMA DirectoryInitInv == DeskInit /\ DirectoryInit => DirectoryInv
  <1> SUFFICES ASSUME DirectoryInit
               PROVE  DirectoryInv
    OBVIOUS
  <1>1. Uncached \in Cached /\ Uncached.of = None
    BY DEF Cached, Uncached
  <1>2. IdleDirectoryCall \in DirectoryCall /\ SoundCall(IdleDirectoryCall, entry)
    BY <1>1 DEF IdleDirectoryCall, DirectoryCall, SoundCall
  <1>3. DirectoryTypeOK
    BY <1>2 DEF DirectoryInit, DirectoryTypeOK, EntryRow, Reference
  <1>4. InService(dirCall) = {}
    BY DEF DirectoryInit, InService, IdleDirectoryCall
  <1>5. KeysAreUnique /\ ImportedAreTitled /\ SeenAreKept
    BY DEF DirectoryInit, KeysAreUnique, ImportedAreTitled, SeenAreKept
  <1>6. \A c \in Calls : SoundCall(dirCall[c], entry)
    BY <1>2 DEF DirectoryInit
  <1> QED BY <1>3, <1>4, <1>5, <1>6 DEF DirectoryInv, OneDirectoryCall

\* A step of one call keeps what the others know when no row is lost, and what it knows
\* alone when it makes sure of it.
LEMMA DirectoryStep ==
    ASSUME DirectoryInv, UNCHANGED <<serving, kind>>, NEW c \in Calls,
           c \in InService(dirCall) \/ Admitted(dirCall, c),
           NEW new \in DirectoryCall, dirCall' = [dirCall EXCEPT ![c] = new],
           SoundCall(new, entry'),
           entry' \in [Entries -> EntryRow], ref' \in [Refs -> Reference],
           \A e \in Entries : entry[e].state # "none" => entry'[e].state # "none",
           KeysAreUnique', ImportedAreTitled',
           serving = 1 /\ kind # "supplier" => SafeCall(new, entry', ref') /\ SeenAreKept'
    PROVE  DirectoryInv'
  <1>1. dirCall \in [Calls -> DirectoryCall]
    BY DEF DirectoryInv, DirectoryTypeOK
  <1>2. dirCall'[c] = new /\ \A d \in Calls \ {c} : dirCall'[d] = dirCall[d]
    BY <1>1
  <1>3. DirectoryTypeOK'
    BY <1>1 DEF DirectoryInv, DirectoryTypeOK
  <1>4. ASSUME NEW d \in Calls
        PROVE  SoundCall(dirCall'[d], entry')
    <2>1. SoundCall(dirCall[d], entry)
      BY DEF DirectoryInv
    <2>2. SoundCall(dirCall[d], entry')
      BY <2>1 DEF SoundCall
    <2> QED BY <1>2, <2>2
  <1>5. ASSUME serving = 1, kind # "supplier"
        PROVE  OneDirectoryCall'
    <2>1. InService(dirCall) \subseteq {c}
      <3>1. CASE Admitted(dirCall, c)
        BY <1>5, <3>1, AdmittedAlone
      <3>2. CASE c \in InService(dirCall)
        BY <1>5, <3>2 DEF DirectoryInv, OneDirectoryCall
      <3> QED BY <3>1, <3>2
    <2>2. InService(dirCall)' \subseteq {c}
      BY <1>2, <2>1 DEF InService
    <2> QED BY <1>2, <1>5, <2>2 DEF OneDirectoryCall
  <1> QED BY <1>3, <1>4, <1>5 DEF DirectoryInv

\* A step that writes no row and no use.
LEMMA DirectoryRead ==
    ASSUME DirectoryInv, UNCHANGED <<serving, kind, entry, ref>>, NEW c \in Calls,
           c \in InService(dirCall) \/ Admitted(dirCall, c),
           NEW new \in DirectoryCall, dirCall' = [dirCall EXCEPT ![c] = new],
           SoundCall(new, entry),
           serving = 1 /\ kind # "supplier" /\ OneDirectoryCall => SafeCall(new, entry, ref)
    PROVE  DirectoryInv'
  <1>1. /\ entry \in [Entries -> EntryRow] /\ ref \in [Refs -> Reference]
        /\ KeysAreUnique /\ ImportedAreTitled
        /\ serving = 1 /\ kind # "supplier" => OneDirectoryCall
    BY DEF DirectoryInv, DirectoryTypeOK
  <1>2. KeysAreUnique' /\ ImportedAreTitled'
    BY <1>1 DEF KeysAreUnique, ImportedAreTitled
  <1>3. serving = 1 /\ kind # "supplier" => SeenAreKept'
    BY <1>1 DEF OneDirectoryCall, SeenAreKept
  <1> QED BY <1>1, <1>2, <1>3, DirectoryStep

\* A call that is taken up knows what it was given, and has an empty cache.
LEMMA OpenedDirectoryCall ==
    ASSUME DirectoryInv, UNCHANGED <<serving, kind, entry, ref>>, NEW c \in Calls,
           Admitted(dirCall, c), NEW pc \in {"insert", "edit", "flag"},
           NEW e \in Entries \cup {None}, NEW k \in Key \cup {None}, NEW state \in States \cup {None},
           DirOpen(c, pc, e, k, state),
           pc = "insert" => k \in Key /\ state \in {"live", "hidden"},
           pc # "insert" => e \in Listed,
           pc = "edit" => state # "removed",
           pc = "flag" => state \in {"live", "removed"} /\ (kind = "supplier" \/ ~InUse(e))
    PROVE  DirectoryInv'
  <1> DEFINE call == [IdleDirectoryCall EXCEPT !.pc = pc, !.entry = e, !.key = k, !.state = state]
  <1>1. Uncached \in Cached /\ Uncached.of = None
    BY DEF Cached, Uncached
  <1>2. /\ call \in DirectoryCall
        /\ call.pc = pc /\ call.entry = e /\ call.key = k /\ call.state = state
        /\ \A n \in Labels : call.cache[n].of = None
    BY <1>1 DEF IdleDirectoryCall, DirectoryCall
  <1>3. dirCall' = [dirCall EXCEPT ![c] = call]
    BY DEF DirOpen
  <1> HIDE DEF call
  <1>4. SoundCall(call, entry)
    BY <1>2 DEF SoundCall, Listed
  <1>5. kind # "supplier" => SafeCall(call, entry, ref)
    BY <1>2 DEF SafeCall, InUse
  <1> QED BY <1>2, <1>3, <1>4, <1>5, DirectoryRead

\* A flag that is written leaves keys and spellings as they are.
LEMMA StateWritten ==
    ASSUME DirectoryInv, NEW e \in Entries, entry[e].state # "none", NEW state \in States,
           entry' = [entry EXCEPT ![e].state = state]
    PROVE  /\ entry' \in [Entries -> EntryRow]
           /\ entry'[e].state = state
           /\ \A d \in Entries : d # e => entry'[d] = entry[d]
           /\ \A d \in Entries : entry[d].state # "none" => entry'[d].state # "none"
           /\ KeysAreUnique' /\ ImportedAreTitled'
  <1>1. entry \in [Entries -> EntryRow] /\ "none" \notin States
    BY DEF DirectoryInv, DirectoryTypeOK, States
  <1>2. [entry[e] EXCEPT !.state = state] \in EntryRow
    BY <1>1 DEF EntryRow
  <1>3. /\ entry' \in [Entries -> EntryRow]
        /\ entry'[e] = [entry[e] EXCEPT !.state = state]
        /\ \A d \in Entries : d # e => entry'[d] = entry[d]
    BY <1>1, <1>2
  <1>4. entry'[e].state = state /\ entry'[e].key = entry[e].key
            /\ (entry'[e].imported <=> entry[e].imported)
    BY <1>1, <1>3 DEF EntryRow
  <1>5. \A d \in Entries : /\ entry'[d].key = entry[d].key
                           /\ entry'[d].imported <=> entry[d].imported
                           /\ entry'[d].state # "none" <=> entry[d].state # "none"
    BY <1>1, <1>3, <1>4
  <1>6. KeysAreUnique' /\ ImportedAreTitled'
    BY <1>5 DEF DirectoryInv, KeysAreUnique, ImportedAreTitled
  <1> QED BY <1>3, <1>4, <1>5, <1>6

\* A row that is made has a key that no row had.
LEMMA EntryMade ==
    ASSUME DirectoryInv, NEW e \in Entries, entry[e].state = "none", NEW state \in States,
           NEW k \in Key, NEW imported \in BOOLEAN, imported => k.style = "title", ~KeyTaken(k),
           entry' = [entry EXCEPT ![e] = [state |-> state, key |-> k, imported |-> imported]]
    PROVE  /\ entry' \in [Entries -> EntryRow]
           /\ entry'[e].state = state
           /\ \A d \in Entries : d # e => entry'[d] = entry[d]
           /\ \A d \in Entries : entry[d].state # "none" => entry'[d].state # "none"
           /\ KeysAreUnique' /\ ImportedAreTitled'
  <1>1. entry \in [Entries -> EntryRow] /\ "none" \notin States
    BY DEF DirectoryInv, DirectoryTypeOK, States
  <1>2. /\ entry' \in [Entries -> EntryRow]
        /\ entry'[e] = [state |-> state, key |-> k, imported |-> imported]
        /\ \A d \in Entries : d # e => entry'[d] = entry[d]
    BY <1>1 DEF EntryRow
  <1>3. \A d \in Entries : entry[d].state # "none" => entry[d].key # k
    BY DEF KeyTaken, Listed
  <1>4. KeysAreUnique'
    BY <1>2, <1>3 DEF DirectoryInv, KeysAreUnique
  <1>5. ImportedAreTitled'
    BY <1>1, <1>2 DEF DirectoryInv, ImportedAreTitled
  <1> QED BY <1>1, <1>2, <1>4, <1>5

\* What an import knows once it has resolved a category.
CallResolved(c, e, seen, rows, uses) ==
    LET new == dirCall'[c] IN
    /\ new \in DirectoryCall
    /\ dirCall' = [dirCall EXCEPT ![c] = new]
    /\ SoundCall(new, rows)
    /\ SafeCall(dirCall[c], rows, uses) /\ (seen => rows[e].state # "removed") =>
          SafeCall(new, rows, uses)

LEMMA ResolvedCall ==
    ASSUME DirectoryInv, NEW c \in Calls, NEW k \in Key, NEW e \in Entries, NEW seen \in BOOLEAN,
           Resolved(c, k, e, seen), NEW rows, NEW uses, SoundCall(dirCall[c], rows),
           rows[e].state # "none"
    PROVE  CallResolved(c, e, seen, rows, uses)
  <1> DEFINE call == dirCall[c]
             resolved == [call EXCEPT !.pc = "product", !.key = k, !.entry = e, !.unseen = ~seen,
                             !.cache[k.name] = [of |-> e, active |-> seen]]
  <1>1. call \in DirectoryCall /\ k.name \in Labels
    BY DEF DirectoryInv, DirectoryTypeOK, Key
  <1>2. /\ call.cache \in [Labels -> Cached]
        /\ [of |-> e, active |-> seen] \in Cached
    BY <1>1 DEF DirectoryCall, Cached
  <1>3. /\ resolved \in DirectoryCall
        /\ resolved.pc = "product" /\ resolved.key = k /\ resolved.entry = e
        /\ (resolved.unseen <=> ~seen)
        /\ resolved.cache[k.name] = [of |-> e, active |-> seen]
        /\ \A n \in Labels \ {k.name} : resolved.cache[n] = call.cache[n]
    BY <1>1, <1>2 DEF DirectoryCall
  <1>4. dirCall' = [dirCall EXCEPT ![c] = resolved] /\ dirCall'[c] = resolved
    BY DEF Resolved, DirectoryInv, DirectoryTypeOK
  <1> HIDE DEF resolved
  <1>5. SoundCall(resolved, rows)
    BY <1>1, <1>3 DEF SoundCall
  <1>6. SafeCall(call, rows, uses) /\ (seen => rows[e].state # "removed") =>
           SafeCall(resolved, rows, uses)
    BY <1>1, <1>3 DEF SafeCall
  <1> QED BY <1>3, <1>4, <1>5, <1>6 DEF CallResolved

\* A category that is found is used as it was seen, or is about to be revived.
LEMMA FoundInv ==
    ASSUME DirectoryInv, UNCHANGED <<serving, kind, entry, ref>>, NEW c \in InService(dirCall),
           NEW k \in Key, NEW e \in Listed, NEW active \in BOOLEAN, Found(c, k, e, active),
           serving = 1 /\ kind # "supplier" /\ active => entry[e].state # "removed"
    PROVE  DirectoryInv'
  <1>0. c \in Calls /\ e \in Entries /\ entry[e].state # "none"
    BY DEF InService, Listed
  <1>1. /\ dirCall[c] \in DirectoryCall /\ dirCall \in [Calls -> DirectoryCall]
        /\ SoundCall(dirCall[c], entry)
        /\ serving = 1 /\ kind # "supplier" => SafeCall(dirCall[c], entry, ref)
    BY <1>0 DEF DirectoryInv, DirectoryTypeOK, OneDirectoryCall
  <1>2. CASE active /\ Resolved(c, k, e, TRUE)
    <2> DEFINE new == dirCall'[c]
    <2>1. /\ new \in DirectoryCall /\ dirCall' = [dirCall EXCEPT ![c] = new]
          /\ SoundCall(new, entry)
          /\ SafeCall(dirCall[c], entry, ref) /\ entry[e].state # "removed" =>
                SafeCall(new, entry, ref)
      <3>1. CallResolved(c, e, TRUE, entry, ref)
        BY <1>0, <1>1, <1>2, ResolvedCall
      <3> QED BY ONLY <3>1 DEF CallResolved
    <2> HIDE DEF new
    <2> QED BY <1>0, <1>1, <1>2, <2>1, DirectoryRead
  <1>3. CASE dirCall' = [dirCall EXCEPT ![c] = [@ EXCEPT !.pc = "revive", !.key = k, !.entry = e]]
    <2> DEFINE new == [dirCall[c] EXCEPT !.pc = "revive", !.key = k, !.entry = e]
    <2>1. /\ new \in DirectoryCall
          /\ new.pc = "revive" /\ new.key = k /\ new.entry = e /\ new.cache = dirCall[c].cache
      BY <1>0, <1>1 DEF DirectoryCall
    <2>2. dirCall' = [dirCall EXCEPT ![c] = new]
      BY <1>0, <1>1, <1>3
    <2> HIDE DEF new
    <2>3. SoundCall(new, entry)
      BY <1>0, <1>1, <2>1 DEF SoundCall
    <2>4. SafeCall(dirCall[c], entry, ref) => SafeCall(new, entry, ref)
      BY <2>1 DEF SafeCall
    <2> QED BY <1>0, <1>1, <2>1, <2>2, <2>3, <2>4, DirectoryRead
  <1> QED BY <1>2, <1>3 DEF Found

\* A call that is answered knows nothing any more.
LEMMA FinishedDirectoryCall ==
    ASSUME DirectoryInv, NEW c \in Calls, NEW answer \in Answered, DirFinish(c, answer),
           NEW rows, NEW uses
    PROVE  LET new == dirCall'[c] IN
           /\ new \in DirectoryCall
           /\ dirCall' = [dirCall EXCEPT ![c] = new]
           /\ SoundCall(new, rows) /\ SafeCall(new, rows, uses)
  <1> DEFINE new == [IdleDirectoryCall EXCEPT !.pc = answer]
  <1>1. new \in DirectoryCall /\ SoundCall(new, rows) /\ SafeCall(new, rows, uses)
    BY IdleCallIsSound DEF Answered
  <1>2. dirCall' = [dirCall EXCEPT ![c] = new]
    BY DEF DirFinish
  <1> HIDE DEF new
  <1>3. dirCall'[c] = new
    BY <1>2 DEF DirectoryInv, DirectoryTypeOK
  <1> QED BY <1>1, <1>2, <1>3

\* An import that goes on to its next row keeps its cache and forgets the rest.
LEMMA NextRowOfImport ==
    ASSUME DirectoryInv, NEW c \in Calls, NEW rows, NEW uses,
           dirCall' = [dirCall EXCEPT ![c] = [IdleDirectoryCall EXCEPT
               !.pc = "rows", !.cache = dirCall[c].cache]],
           SoundCall(dirCall[c], rows)
    PROVE  LET new == dirCall'[c] IN
           /\ new \in DirectoryCall
           /\ dirCall' = [dirCall EXCEPT ![c] = new]
           /\ SoundCall(new, rows)
           /\ SafeCall(dirCall[c], rows, uses) => SafeCall(new, rows, uses)
  <1> DEFINE new == [IdleDirectoryCall EXCEPT !.pc = "rows", !.cache = dirCall[c].cache]
  <1>1. dirCall[c] \in DirectoryCall
    BY DEF DirectoryInv, DirectoryTypeOK
  <1>2. new \in DirectoryCall /\ new.pc = "rows" /\ new.cache = dirCall[c].cache
    BY <1>1 DEF DirectoryCall, IdleDirectoryCall
  <1>3. dirCall' = [dirCall EXCEPT ![c] = new]
    OBVIOUS
  <1> HIDE DEF new
  <1>4. dirCall'[c] = new
    BY <1>3 DEF DirectoryInv, DirectoryTypeOK
  <1>5. SoundCall(new, rows)
    BY <1>2 DEF SoundCall
  <1>6. SafeCall(dirCall[c], rows, uses) => SafeCall(new, rows, uses)
    BY <1>2 DEF SafeCall
  <1> QED BY <1>2, <1>3, <1>4, <1>5, <1>6

\* Every step of the directory keeps its invariant.
LEMMA DirectoryNextInv ==
    DirectoryInv /\ [DirectoryNext /\ UNCHANGED serving]_<<serving, directoryVars>> => DirectoryInv'
  <1> SUFFICES ASSUME DirectoryInv,
                      [DirectoryNext /\ UNCHANGED serving]_<<serving, directoryVars>>
               PROVE  DirectoryInv'
    OBVIOUS
  <1>0. /\ serving' = serving
        /\ entry \in [Entries -> EntryRow] /\ ref \in [Refs -> Reference]
        /\ dirCall \in [Calls -> DirectoryCall]
        /\ \A c \in Calls : SoundCall(dirCall[c], entry)
        /\ KeysAreUnique /\ ImportedAreTitled
        /\ \A c \in Calls : dirCall[c].pc \notin Answered \cup {"idle"} => c \in InService(dirCall)
    BY DEF directoryVars, DirectoryInv, DirectoryTypeOK, InService
  <1>a. ASSUME serving = 1, kind # "supplier"
        PROVE  SeenAreKept /\ \A c \in InService(dirCall) : SafeCall(dirCall[c], entry, ref)
    BY <1>a DEF DirectoryInv, OneDirectoryCall
  <1>k. KeysOf \subseteq Key
    BY DEF KeysOf
  <1>1. ASSUME NEW c \in Calls, NEW k \in KeysOf, NEW state \in States, CheckKey(c, k, state)
        PROVE  DirectoryInv'
    BY <1>0, <1>1, <1>k, OpenedDirectoryCall DEF CheckKey
  <1>2. ASSUME NEW c \in Calls, NEW e \in Entries, NEW k \in KeysOf \cup {None},
               NEW state \in States \cup {None}, OpenEditEntry(c, e, k, state)
        PROVE  DirectoryInv'
    BY <1>0, <1>2, <1>k, OpenedDirectoryCall DEF OpenEditEntry
  <1>3. ASSUME NEW c \in Calls, NEW e \in Entries, OpenRemove(c, e)
        PROVE  DirectoryInv'
    BY <1>0, <1>3, OpenedDirectoryCall DEF OpenRemove, Removable, States
  <1>4. ASSUME NEW c \in Calls, NEW e \in Entries, OpenReactivate(c, e)
        PROVE  DirectoryInv'
    BY <1>0, <1>4, OpenedDirectoryCall DEF OpenReactivate, States
  <1>5. ASSUME NEW c \in Calls, NEW r \in Refs, NEW e \in Entries, OpenRefer(c, r, e)
        PROVE  DirectoryInv'
    <2> DEFINE pc == IF ref[r].to = None THEN "refer" ELSE "amend"
               new == [IdleDirectoryCall EXCEPT !.pc = pc, !.entry = e, !.ref = r,
                          !.unseen = ~Active(e)]
    <2>1. Uncached \in Cached /\ Uncached.of = None
      BY DEF Cached, Uncached
    <2>2. /\ new \in DirectoryCall
          /\ new.pc \in {"refer", "amend"} /\ new.entry = e /\ new.ref = r
          /\ (new.unseen <=> ~Active(e))
          /\ \A n \in Labels : new.cache[n].of = None
      BY <2>1 DEF IdleDirectoryCall, DirectoryCall
    <2>3. /\ dirCall' = [dirCall EXCEPT ![c] = new]
          /\ Admitted(dirCall, c) /\ e \in Listed /\ UNCHANGED <<kind, entry, ref>>
      BY <1>5 DEF OpenRefer
    <2> HIDE DEF new
    <2>4. SoundCall(new, entry)
      BY <2>2, <2>3 DEF SoundCall, Listed
    <2>5. SafeCall(new, entry, ref)
      BY <2>2 DEF SafeCall, Active
    <2> QED BY <1>0, <2>2, <2>3, <2>4, <2>5, DirectoryRead
  <1>6. ASSUME NEW c \in Calls, NEW e \in Entries, InsertEntry(c, e)
        PROVE  DirectoryInv'
    <2> DEFINE call == dirCall[c]
    <2>1. /\ c \in InService(dirCall) /\ entry[e].state = "none" /\ ~KeyTaken(call.key)
          /\ entry' = [entry EXCEPT ![e] =
                [state |-> call.state, key |-> call.key, imported |-> FALSE]]
          /\ DirFinish(c, "done") /\ UNCHANGED <<kind, ref>>
      BY <1>0, <1>6 DEF InsertEntry, Answered
    <2>2. call.key \in Key /\ call.state \in {"live", "hidden"}
      BY <1>0, <1>6 DEF InsertEntry, SoundCall
    <2>3. /\ entry' \in [Entries -> EntryRow]
          /\ entry'[e].state = call.state
          /\ \A d \in Entries : d # e => entry'[d] = entry[d]
          /\ \A d \in Entries : entry[d].state # "none" => entry'[d].state # "none"
          /\ KeysAreUnique' /\ ImportedAreTitled'
      BY <2>1, <2>2, EntryMade DEF States
    <2>4. SeenAreKept => SeenAreKept'
      BY <1>0, <2>1, <2>2, <2>3 DEF SeenAreKept, Reference
    <2>5. /\ dirCall'[c] \in DirectoryCall
          /\ dirCall' = [dirCall EXCEPT ![c] = dirCall'[c]]
          /\ SoundCall(dirCall'[c], entry') /\ SafeCall(dirCall'[c], entry', ref')
      BY <2>1, FinishedDirectoryCall DEF Answered
    <2> QED BY <1>0, <1>a, <2>1, <2>3, <2>4, <2>5, DirectoryStep
  <1>7. ASSUME NEW c \in Calls, EditEntry(c)
        PROVE  DirectoryInv'
    <2> DEFINE call == dirCall[c]
               e == call.entry
               state == IF call.state = None THEN entry[e].state ELSE call.state
               written == [state |-> state,
                           key |-> IF call.key = None THEN entry[e].key ELSE call.key,
                           imported |-> entry[e].imported /\ call.key = None]
    <2>1. /\ c \in InService(dirCall) /\ call.pc = "edit"
          /\ call.key # None => ~KeyTaken(call.key)
          /\ DirFinish(c, "done") /\ UNCHANGED <<kind, ref>>
      BY <1>0, <1>7 DEF EditEntry, Answered
    <2>2. e \in Entries /\ entry[e].state # "none" /\ call.state # "removed"
      BY <1>0, <2>1 DEF SoundCall
    <2>3. call \in DirectoryCall /\ entry[e] \in EntryRow
      BY <1>0, <2>2
    <2>4. state \in States /\ (state = "removed" => entry[e].state = "removed")
      BY <2>2, <2>3 DEF DirectoryCall, EntryRow
    <2>5. written \in EntryRow
      BY <2>3, <2>4 DEF DirectoryCall, EntryRow
    <2>6. entry' = [entry EXCEPT ![e] = written]
      BY <1>0, <1>7, <2>2 DEF EditEntry
    <2>7. /\ entry' \in [Entries -> EntryRow]
          /\ entry'[e] = written
          /\ \A d \in Entries : d # e => entry'[d] = entry[d]
      BY <1>0, <2>2, <2>5, <2>6
    <2>8. \A d \in Entries : entry'[d].state # "none" <=> entry[d].state # "none"
      BY <2>2, <2>4, <2>7 DEF States
    <2>9. KeysAreUnique'
      <3>1. CASE call.key = None
        <4>1. \A d \in Entries : entry'[d].key = entry[d].key
          BY <2>7, <3>1
        <4> QED BY <1>0, <2>8, <4>1 DEF KeysAreUnique
      <3>2. CASE call.key # None
        <4>1. entry'[e].key = call.key /\ \A d \in Entries : entry[d].state # "none" => entry[d].key # call.key
          BY <2>1, <2>7, <3>2 DEF KeyTaken, Listed
        <4> QED BY <1>0, <2>7, <2>8, <4>1 DEF KeysAreUnique
      <3> QED BY <3>1, <3>2
    <2>10. ImportedAreTitled'
      <3>1. entry'[e].imported => entry[e].imported /\ entry'[e].key = entry[e].key
        <4>1. written.imported <=> (entry[e].imported /\ call.key = None)
          BY Zenon
        <4>2. written.key = IF call.key = None THEN entry[e].key ELSE call.key
          OBVIOUS
        <4> HIDE DEF written
        <4> QED BY <2>7, <4>1, <4>2
      <3> QED BY <1>0, <2>7, <2>8, <3>1 DEF ImportedAreTitled
    <2>11. SeenAreKept => SeenAreKept'
      BY <1>0, <2>1, <2>4, <2>7 DEF SeenAreKept, Reference
    <2>12. /\ dirCall'[c] \in DirectoryCall
           /\ dirCall' = [dirCall EXCEPT ![c] = dirCall'[c]]
           /\ SoundCall(dirCall'[c], entry') /\ SafeCall(dirCall'[c], entry', ref')
      BY <2>1, FinishedDirectoryCall DEF Answered
    <2> QED BY <1>0, <1>a, <2>1, <2>7, <2>8, <2>9, <2>10, <2>11, <2>12, DirectoryStep
  <1>8. ASSUME NEW c \in Calls, SetActive(c)
        PROVE  DirectoryInv'
    <2> DEFINE call == dirCall[c]
    <2>1. /\ c \in InService(dirCall) /\ call.pc = "flag"
          /\ entry' = [entry EXCEPT ![call.entry].state = call.state]
          /\ DirFinish(c, "done") /\ UNCHANGED <<kind, ref>>
      BY <1>0, <1>8 DEF SetActive, Answered
    <2>2. call.entry \in Entries /\ entry[call.entry].state # "none" /\ call.state \in States
      BY <1>0, <2>1 DEF SoundCall, States
    <2>3. /\ entry' \in [Entries -> EntryRow]
          /\ \A d \in Entries : d # call.entry => entry'[d] = entry[d]
          /\ \A d \in Entries : entry[d].state # "none" => entry'[d].state # "none"
          /\ KeysAreUnique' /\ ImportedAreTitled'
      BY <2>1, <2>2, StateWritten
    <2>4. SeenAreKept /\ SafeCall(call, entry, ref) => SeenAreKept'
      BY <1>0, <2>1, <2>3 DEF SeenAreKept, SafeCall, Reference
    <2>5. /\ dirCall'[c] \in DirectoryCall
          /\ dirCall' = [dirCall EXCEPT ![c] = dirCall'[c]]
          /\ SoundCall(dirCall'[c], entry') /\ SafeCall(dirCall'[c], entry', ref')
      BY <2>1, FinishedDirectoryCall DEF Answered
    <2> QED BY <1>0, <1>a, <2>1, <2>3, <2>4, <2>5, DirectoryStep
  <1>9. ASSUME NEW c \in Calls, Refer(c)
        PROVE  DirectoryInv'
    <2> DEFINE call == dirCall[c]
               use == [to |-> call.entry, unseen |-> call.unseen]
    <2>1. /\ c \in InService(dirCall) /\ call.pc \in {"refer", "amend"}
          /\ ref' = [ref EXCEPT ![call.ref] = use]
          /\ DirFinish(c, "done") /\ UNCHANGED <<kind, entry>>
      BY <1>0, <1>9 DEF Refer, Answered
    <2>2. call.entry \in Entries /\ call.ref \in Refs /\ call.unseen \in BOOLEAN
      BY <1>0, <2>1 DEF SoundCall, DirectoryCall
    <2>3. /\ ref' \in [Refs -> Reference]
          /\ ref'[call.ref] = use /\ \A r \in Refs : r # call.ref => ref'[r] = ref[r]
      BY <1>0, <2>1, <2>2 DEF Reference
    <2>4. SeenAreKept /\ SafeCall(call, entry, ref) => SeenAreKept'
      BY <2>1, <2>3 DEF SeenAreKept, SafeCall
    <2>5. /\ dirCall'[c] \in DirectoryCall
          /\ dirCall' = [dirCall EXCEPT ![c] = dirCall'[c]]
          /\ SoundCall(dirCall'[c], entry') /\ SafeCall(dirCall'[c], entry', ref')
      BY <2>1, FinishedDirectoryCall DEF Answered
    <2>6. KeysAreUnique' /\ ImportedAreTitled'
      BY <1>0, <2>1 DEF KeysAreUnique, ImportedAreTitled
    <2> QED BY <1>0, <1>a, <2>1, <2>3, <2>4, <2>5, <2>6, DirectoryStep
  <1>10. ASSUME NEW c \in Calls, RefuseDirectoryCall(c)
         PROVE  DirectoryInv'
    <2>1. /\ dirCall'[c] \in DirectoryCall
          /\ dirCall' = [dirCall EXCEPT ![c] = dirCall'[c]]
          /\ SoundCall(dirCall'[c], entry) /\ SafeCall(dirCall'[c], entry, ref)
      BY <1>10, FinishedDirectoryCall DEF RefuseDirectoryCall, Answered
    <2> QED BY <1>0, <1>10, <2>1, DirectoryRead DEF RefuseDirectoryCall
  <1>11. ASSUME NEW c \in Calls, NEW r \in Refs, DropProduct(c, r)
         PROVE  DirectoryInv'
    <2>1. /\ Admitted(dirCall, c) /\ ref' = [ref EXCEPT ![r] = [to |-> None, unseen |-> FALSE]]
          /\ DirFinish(c, "done") /\ UNCHANGED <<kind, entry>>
      BY <1>11 DEF DropProduct
    <2>2. /\ ref' \in [Refs -> Reference]
          /\ ref'[r].to = None /\ \A s \in Refs : s # r => ref'[s] = ref[s]
      BY <1>0, <2>1 DEF Reference
    <2>3. SeenAreKept => SeenAreKept'
      BY <2>1, <2>2 DEF SeenAreKept
    <2>5. /\ dirCall'[c] \in DirectoryCall
          /\ dirCall' = [dirCall EXCEPT ![c] = dirCall'[c]]
          /\ SoundCall(dirCall'[c], entry') /\ SafeCall(dirCall'[c], entry', ref')
      BY <2>1, FinishedDirectoryCall DEF Answered
    <2>6. KeysAreUnique' /\ ImportedAreTitled'
      BY <1>0, <2>1 DEF KeysAreUnique, ImportedAreTitled
    <2> QED BY <1>0, <1>a, <2>1, <2>2, <2>3, <2>5, <2>6, DirectoryStep
  <1>12. ASSUME NEW c \in Calls, NEW loaded \in BOOLEAN, StartImport(c, loaded)
         PROVE  DirectoryInv'
    <2>1. PICK cache \in [Labels -> Cached] :
             /\ \A n \in Labels :
                   LET found == {e \in Listed : loaded /\ entry[e].key.name = n} IN
                   \/ found = {} /\ cache[n] = Uncached
                   \/ cache[n].of \in found /\ cache[n].active = Active(cache[n].of)
             /\ dirCall' = [dirCall EXCEPT ![c] = [IdleDirectoryCall EXCEPT
                   !.pc = "rows", !.cache = cache]]
      BY <1>12 DEF StartImport
    <2>2. \A n \in Labels : cache[n].of # None =>
             /\ cache[n].of \in Entries /\ entry[cache[n].of].state # "none"
             /\ cache[n].active => entry[cache[n].of].state = "live"
      <3> SUFFICES ASSUME NEW n \in Labels, cache[n].of # None
                   PROVE  /\ cache[n].of \in Listed
                          /\ cache[n].active => entry[cache[n].of].state = "live"
        BY DEF Listed
      <3>1. cache[n] # Uncached
        BY DEF Uncached
      <3> QED BY <2>1, <3>1 DEF Active
    <2> DEFINE new == [IdleDirectoryCall EXCEPT !.pc = "rows", !.cache = cache]
    <2>3. new \in DirectoryCall /\ new.pc = "rows" /\ new.cache = cache
      BY DEF DirectoryCall, IdleDirectoryCall
    <2>4. dirCall' = [dirCall EXCEPT ![c] = new]
      BY <2>1
    <2> HIDE DEF new
    <2>5. SoundCall(new, entry) /\ SafeCall(new, entry, ref)
      BY <2>2, <2>3 DEF SoundCall, SafeCall
    <2> QED BY <1>0, <1>12, <2>3, <2>4, <2>5, DirectoryRead DEF StartImport
  <1>13. ASSUME NEW c \in Calls, NEW k \in Key, FindCached(c, k)
         PROVE  DirectoryInv'
    <2> DEFINE held == dirCall[c].cache[k.name]
    <2>1. /\ c \in InService(dirCall) /\ held.of # None
          /\ Found(c, k, held.of, held.active) /\ UNCHANGED <<kind, entry, ref>>
      BY <1>0, <1>13 DEF FindCached, Answered
    <2>2. k.name \in Labels /\ dirCall[c] \in DirectoryCall
      BY <1>0 DEF Key
    <2>3. held.of \in Listed /\ held.active \in BOOLEAN
      BY <1>0, <2>1, <2>2 DEF SoundCall, Listed, DirectoryCall, Cached
    <2>4. SafeCall(dirCall[c], entry, ref) /\ held.active => entry[held.of].state # "removed"
      BY <2>1, <2>2 DEF SafeCall
    <2> QED BY <1>0, <1>a, <2>1, <2>3, <2>4, FoundInv
  <1>14. ASSUME NEW c \in Calls, NEW k \in Key, NEW e \in Entries, FindCategory(c, k, e)
         PROVE  DirectoryInv'
    <2>1. c \in InService(dirCall) /\ e \in Listed
      BY <1>0, <1>14 DEF FindCategory, Matching, Answered
    <2> QED BY <1>0, <1>14, <2>1, FoundInv DEF FindCategory, Active
  <1>15. ASSUME NEW c \in Calls, NEW k \in Key, FindNoCategory(c, k)
         PROVE  DirectoryInv'
    <2> DEFINE new == [dirCall[c] EXCEPT !.pc = "make", !.key = k]
    <2>1. /\ c \in InService(dirCall) /\ UNCHANGED <<kind, entry, ref>>
          /\ dirCall' = [dirCall EXCEPT ![c] = new]
      BY <1>0, <1>15 DEF FindNoCategory, Answered
    <2>2. new \in DirectoryCall /\ new.pc = "make" /\ new.key = k /\ new.cache = dirCall[c].cache
      BY <1>0 DEF DirectoryCall
    <2> HIDE DEF new
    <2>3. SoundCall(new, entry)
      BY <1>0, <2>2 DEF SoundCall
    <2>4. SafeCall(dirCall[c], entry, ref) => SafeCall(new, entry, ref)
      BY <2>2 DEF SafeCall
    <2> QED BY <1>0, <1>a, <2>1, <2>2, <2>3, <2>4, DirectoryRead
  <1>16. ASSUME NEW c \in Calls, ReviveCategory(c)
         PROVE  DirectoryInv'
    <2> DEFINE e == dirCall[c].entry
               k == dirCall[c].key
    <2>1. /\ c \in InService(dirCall) /\ dirCall[c].pc = "revive"
          /\ entry' = [entry EXCEPT ![e].state = "live"]
          /\ Resolved(c, k, e, TRUE) /\ UNCHANGED <<kind, ref>>
      BY <1>0, <1>16 DEF ReviveCategory, Answered
    <2>2. e \in Entries /\ entry[e].state # "none" /\ k \in Key
      BY <1>0, <2>1 DEF SoundCall
    <2>3. /\ entry' \in [Entries -> EntryRow]
          /\ entry'[e].state = "live"
          /\ \A d \in Entries : d # e => entry'[d] = entry[d]
          /\ \A d \in Entries : entry[d].state # "none" => entry'[d].state # "none"
          /\ KeysAreUnique' /\ ImportedAreTitled'
      BY <2>1, <2>2, StateWritten DEF States
    <2>4. SoundCall(dirCall[c], entry')
      BY <1>0, <2>3 DEF SoundCall
    <2>5. SafeCall(dirCall[c], entry, ref) => SafeCall(dirCall[c], entry', ref')
      BY <1>0, <2>1, <2>3 DEF SafeCall, SoundCall
    <2>6. SeenAreKept => SeenAreKept'
      BY <1>0, <2>1, <2>3 DEF SeenAreKept, Reference
    <2>7. /\ dirCall'[c] \in DirectoryCall
          /\ dirCall' = [dirCall EXCEPT ![c] = dirCall'[c]]
          /\ SoundCall(dirCall'[c], entry')
          /\ SafeCall(dirCall[c], entry', ref') => SafeCall(dirCall'[c], entry', ref')
      <3>1. entry'[e].state # "none" /\ entry'[e].state # "removed"
        BY <2>3
      <3> HIDE DEF e, k
      <3>2. CallResolved(c, e, TRUE, entry', ref')
        BY <2>1, <2>2, <2>4, <3>1, ResolvedCall
      <3> QED BY ONLY <3>1, <3>2 DEF CallResolved
    <2> QED BY <1>0, <1>a, <2>1, <2>3, <2>5, <2>6, <2>7, DirectoryStep
  <1>17. ASSUME NEW c \in Calls, NEW e \in Entries, MakeCategory(c, e)
         PROVE  DirectoryInv'
    <2> DEFINE k == dirCall[c].key
    <2>1. /\ c \in InService(dirCall) /\ dirCall[c].pc = "make"
          /\ entry[e].state = "none" /\ ~KeyTaken(Titled(k))
          /\ entry' = [entry EXCEPT ![e] =
                [state |-> "live", key |-> Titled(k), imported |-> TRUE]]
          /\ Resolved(c, k, e, TRUE) /\ UNCHANGED <<kind, ref>>
      BY <1>0, <1>17 DEF MakeCategory, Answered
    <2>2. k \in Key
      BY <1>0, <2>1 DEF SoundCall
    <2>3. Titled(k) \in Key /\ Titled(k).style = "title"
      BY <2>2 DEF Titled, Key, Styles
    <2>4. /\ entry' \in [Entries -> EntryRow]
          /\ entry'[e].state = "live"
          /\ \A d \in Entries : d # e => entry'[d] = entry[d]
          /\ \A d \in Entries : entry[d].state # "none" => entry'[d].state # "none"
          /\ KeysAreUnique' /\ ImportedAreTitled'
      BY <2>1, <2>3, EntryMade DEF States
    <2>5. SoundCall(dirCall[c], entry')
      BY <1>0, <2>4 DEF SoundCall
    <2>6. SafeCall(dirCall[c], entry, ref) => SafeCall(dirCall[c], entry', ref')
      BY <1>0, <2>1, <2>4 DEF SafeCall, SoundCall
    <2>7. SeenAreKept => SeenAreKept'
      BY <1>0, <2>1, <2>4 DEF SeenAreKept, Reference
    <2>8. /\ dirCall'[c] \in DirectoryCall
          /\ dirCall' = [dirCall EXCEPT ![c] = dirCall'[c]]
          /\ SoundCall(dirCall'[c], entry')
          /\ SafeCall(dirCall[c], entry', ref') => SafeCall(dirCall'[c], entry', ref')
      <3>1. CallResolved(c, e, TRUE, entry', ref')
        BY <2>1, <2>2, <2>4, <2>5, ResolvedCall
      <3> QED BY ONLY <2>4, <3>1 DEF CallResolved
    <2> QED BY <1>0, <1>a, <2>1, <2>4, <2>6, <2>7, <2>8, DirectoryStep
  <1>18. ASSUME NEW c \in Calls, LoseCategory(c)
         PROVE  DirectoryInv'
    <2> DEFINE new == [dirCall[c] EXCEPT !.pc = "fallback"]
    <2>1. /\ c \in InService(dirCall) /\ UNCHANGED <<kind, entry, ref>>
          /\ dirCall' = [dirCall EXCEPT ![c] = new] /\ dirCall[c].pc = "make"
      BY <1>0, <1>18 DEF LoseCategory, Answered
    <2>2. /\ new \in DirectoryCall /\ new.pc = "fallback"
          /\ new.key = dirCall[c].key /\ new.cache = dirCall[c].cache
      BY <1>0 DEF DirectoryCall
    <2> HIDE DEF new
    <2>3. SoundCall(new, entry)
      BY <1>0, <2>1, <2>2 DEF SoundCall
    <2>4. SafeCall(dirCall[c], entry, ref) => SafeCall(new, entry, ref)
      BY <2>2 DEF SafeCall
    <2> QED BY <1>0, <1>a, <2>1, <2>2, <2>3, <2>4, DirectoryRead
  <1>19. ASSUME NEW c \in Calls, NEW e \in Entries, FallBack(c, e)
         PROVE  DirectoryInv'
    <2>1. /\ c \in InService(dirCall) /\ e \in Listed /\ dirCall[c].pc = "fallback"
          /\ Resolved(c, dirCall[c].key, e, Active(e)) /\ UNCHANGED <<kind, entry, ref>>
      BY <1>0, <1>19 DEF FallBack, Matching, Answered
    <2>2. dirCall[c].key \in Key /\ entry[e].state # "none" /\ Active(e) \in BOOLEAN
      BY <1>0, <2>1 DEF SoundCall, Listed, Active
    <2>3. /\ dirCall'[c] \in DirectoryCall
          /\ dirCall' = [dirCall EXCEPT ![c] = dirCall'[c]]
          /\ SoundCall(dirCall'[c], entry)
          /\ SafeCall(dirCall[c], entry, ref) /\ (Active(e) => entry[e].state # "removed") =>
                SafeCall(dirCall'[c], entry, ref)
      <3>1. CallResolved(c, e, Active(e), entry, ref)
        BY <1>0, <2>1, <2>2, ResolvedCall
      <3> QED BY ONLY <3>1 DEF CallResolved
    <2>4. Active(e) => entry[e].state # "removed"
      BY DEF Active
    <2> QED BY <1>0, <1>a, <2>1, <2>3, <2>4, DirectoryRead
  <1>20. ASSUME NEW c \in Calls, NEW r \in Refs, ImportProduct(c, r)
         PROVE  DirectoryInv'
    <2> DEFINE call == dirCall[c]
               use == [to |-> call.entry, unseen |-> call.unseen]
    <2>1. /\ c \in InService(dirCall) /\ call.pc = "product"
          /\ ref' = [ref EXCEPT ![r] = use] /\ UNCHANGED <<kind, entry>>
          /\ dirCall' = [dirCall EXCEPT ![c] = [IdleDirectoryCall EXCEPT
                !.pc = "rows", !.cache = dirCall[c].cache]]
      BY <1>0, <1>20 DEF ImportProduct, Answered
    <2>2. call.entry \in Entries /\ call.unseen \in BOOLEAN
      BY <1>0, <2>1 DEF SoundCall, DirectoryCall
    <2>3. /\ ref' \in [Refs -> Reference]
          /\ ref'[r] = use /\ \A s \in Refs : s # r => ref'[s] = ref[s]
      BY <1>0, <2>1, <2>2 DEF Reference
    <2>4. SeenAreKept /\ SafeCall(call, entry, ref) => SeenAreKept'
      BY <2>1, <2>3 DEF SeenAreKept, SafeCall
    <2>5. SafeCall(call, entry, ref) => SafeCall(call, entry', ref')
      BY <2>1 DEF SafeCall
    <2>6. /\ dirCall'[c] \in DirectoryCall
          /\ dirCall' = [dirCall EXCEPT ![c] = dirCall'[c]]
          /\ SoundCall(dirCall'[c], entry')
          /\ SafeCall(call, entry', ref') => SafeCall(dirCall'[c], entry', ref')
      BY <1>0, <2>1, NextRowOfImport
    <2>7. KeysAreUnique' /\ ImportedAreTitled'
      BY <1>0, <2>1 DEF KeysAreUnique, ImportedAreTitled
    <2> QED BY <1>0, <1>a, <2>1, <2>3, <2>4, <2>5, <2>6, <2>7, DirectoryStep
  <1>21. ASSUME NEW c \in Calls, SkipRow(c)
         PROVE  DirectoryInv'
    <2>1. /\ c \in InService(dirCall) /\ UNCHANGED <<kind, entry, ref>>
          /\ dirCall' = [dirCall EXCEPT ![c] = [IdleDirectoryCall EXCEPT
                !.pc = "rows", !.cache = dirCall[c].cache]]
      BY <1>0, <1>21 DEF SkipRow, Answered
    <2>2. /\ dirCall'[c] \in DirectoryCall
          /\ dirCall' = [dirCall EXCEPT ![c] = dirCall'[c]]
          /\ SoundCall(dirCall'[c], entry)
          /\ SafeCall(dirCall[c], entry, ref) => SafeCall(dirCall'[c], entry, ref)
      BY <1>0, <2>1, NextRowOfImport
    <2> QED BY <1>0, <1>a, <2>1, <2>2, DirectoryRead
  <1>22. CASE UNCHANGED <<serving, directoryVars>>
    <2>1. UNCHANGED <<serving, kind, entry, ref, dirCall>>
      BY <1>22 DEF directoryVars
    <2> QED BY <2>1 DEF DirectoryInv, DirectoryTypeOK, KeysAreUnique, ImportedAreTitled,
                        OneDirectoryCall, SeenAreKept, InService
  <1>23. CASE DirectoryNext
    BY <1>1, <1>2, <1>3, <1>4, <1>5, <1>6, <1>7, <1>8, <1>9, <1>10, <1>11, <1>12, <1>13, <1>14,
       <1>15, <1>16, <1>17, <1>18, <1>19, <1>20, <1>21, <1>23 DEF DirectoryNext
  <1> QED BY <1>22, <1>23

\* Rows, uses and calls keep their types.
THEOREM DirectoryTypeCorrect == DirectorySpec => []DirectoryTypeOK
  <1>1. DirectoryInv => DirectoryTypeOK
    BY DEF DirectoryInv
  <1> QED BY <1>1, DirectoryInitInv, DirectoryNextInv, PTL DEF DirectorySpec

\* For any number of rows and calls, however they interleave, imports make one category
\* of a name: they spell it alike, and the index refuses a second row with the key.  One
\* call at a time, nothing that was seen active when it came into use is removed.
THEOREM DirectoryIsKept == DirectorySpec => []DirectoryKeepsWhatIsUsed
  <1>1. DirectoryInv => ImportsMakeOneCategory
    <2> SUFFICES ASSUME DirectoryInv, NEW d \in Entries, NEW e \in Entries,
                        entry[d].imported, entry[e].imported,
                        entry[d].key.name = entry[e].key.name
                 PROVE  d = e
      BY DEF ImportsMakeOneCategory
    <2>1. /\ entry[d].state # "none" /\ entry[e].state # "none"
          /\ entry[d].key \in Key /\ entry[e].key \in Key
          /\ entry[d].key.style = entry[e].key.style
      BY DEF DirectoryInv, ImportedAreTitled
    <2>2. entry[d].key = entry[e].key
      BY <2>1 DEF Key
    <2> QED BY <2>1, <2>2 DEF DirectoryInv, KeysAreUnique
  <1>2. DirectoryInv => RemovedRowsAreNotInUse
    BY DEF DirectoryInv, OneDirectoryCall, SeenAreKept, RemovedRowsAreNotInUse
  <1>3. DirectoryInv => DirectoryKeepsWhatIsUsed
    BY <1>1, <1>2 DEF DirectoryKeepsWhatIsUsed
  <1> QED BY <1>3, DirectoryInitInv, DirectoryNextInv, PTL DEF DirectorySpec

-----------------------------------------------------------------------------
(* PlanLimitService, PlanLimitGuard, SettingsService, AdminService.updatePlan *)

\* What a call is for, at each of its statements.
SoundOrgCall(call) ==
    /\ call.pc = "idle" => call.kind = "none"
    /\ call.pc \in {"count", "store"} => call.kind \in {"create", "plan"}
    /\ call.pc \in {"insert", "invalidate"} => call.kind = "create"
    /\ call.pc = "write" => call.kind = "update"
    /\ call.pc = "plan" => call.kind = "plan"
    /\ call.pc \notin Answered /\ call.kind = "create" => call.row \in Rows

\* An update has read the settings as they are if they still have the version it read;
\* quiet: no call to change the plan was ever made.
Versioned(call, document, marks, current, quiet) ==
    call.pc = "write" =>
        /\ call.version <= current
        /\ quiet /\ call.version = current => call.setting = document /\ call.flags = marks

\* The rows that the guard let in under BASIC.
Fitting == {r \in ActiveRows : row[r].origin = "fits"}

\* What a call knows when it is the only one, with n such rows.
KnowsOrganization(call, document, marks, n) ==
    /\ call.setting = document /\ call.flags = marks
    /\ call.pc = "store" => n <= call.value
    /\ call.pc = "insert" /\ call.seenPlan = "BASIC" => n < Limit

\* One call at a time, a cached count covers the rows it guards, except between a
\* creation and its invalidation.
OneOrgCall ==
    /\ \A c, d \in InService(orgCall) : c = d
    /\ \A c \in InService(orgCall) :
          KnowsOrganization(orgCall[c], setting, flags, Cardinality(Fitting))
    /\ Cardinality(Fitting) <= Limit
    /\ \/ counted.left = 0 \/ Cardinality(Fitting) <= counted.value
       \/ \E c \in InService(orgCall) : orgCall[c].pc = "invalidate"

OrganizationInv ==
    /\ OrganizationTypeOK
    /\ \A c \in Calls : SoundOrgCall(orgCall[c])
    /\ \A c \in Calls : Versioned(orgCall[c], setting, flags, version, PlanChanges = {})
    /\ serving = 1 => OneOrgCall

\* An empty organization fits its plan.
LEMMA OrganizationInitInv == DeskInit /\ OrganizationInit => OrganizationInv
  <1> SUFFICES ASSUME OrganizationInit
               PROVE  OrganizationInv
    OBVIOUS
  <1>1. NoCall \in OrgCall /\ NoCall.pc = "idle" /\ NoCall.kind = "none"
    BY DEF NoCall, OrgCall, Plan, Settings, Flags
  <1>2. NoCount \in Count /\ NoCount.left = 0
    BY DeskAssumption DEF NoCount, Count
  <1>3. OrganizationTypeOK
    BY <1>1, <1>2 DEF OrganizationInit, OrganizationTypeOK, Row, Settings, Flags
  <1>4. InService(orgCall) = {} /\ Fitting = {}
    BY <1>1 DEF OrganizationInit, InService, Fitting, ActiveRows
  <1>5. OneOrgCall
    BY <1>2, <1>4, FS_EmptySet, OrganizationAssumption DEF OneOrgCall, OrganizationInit
  <1>6. \A c \in Calls : SoundOrgCall(orgCall[c]) /\ Versioned(orgCall[c], setting, flags, version, PlanChanges = {})
    BY <1>1 DEF OrganizationInit, SoundOrgCall, Versioned, Answered
  <1> QED BY <1>3, <1>5, <1>6 DEF OrganizationInv

\* There are finitely many rows, so they can be counted.
LEMMA RowsAreCounted ==
    /\ IsFiniteSet(ActiveRows) /\ Cardinality(ActiveRows) \in Nat
    /\ IsFiniteSet(Fitting) /\ Cardinality(Fitting) \in Nat
    /\ Cardinality(Fitting) <= Cardinality(ActiveRows)
  <1>1. IsFiniteSet(ActiveRows)
    BY OrganizationAssumption, FS_Subset DEF ActiveRows
  <1>2. Fitting \subseteq ActiveRows
    BY DEF Fitting
  <1> QED BY <1>1, <1>2, FS_Subset, FS_CardinalityType

\* A step of one call keeps what the others have read, when it gives the settings a new
\* version, leaves them alone or is a change of plan.
LEMMA OrganizationStep ==
    ASSUME OrganizationInv, serving' = serving, NEW c \in Calls,
           c \in InService(orgCall) \/ Admitted(orgCall, c),
           NEW new \in OrgCall, orgCall' = [orgCall EXCEPT ![c] = new],
           SoundOrgCall(new), new.kind = orgCall[c].kind \/ orgCall[c].pc = "idle",
           plan' \in Plan, row' \in [Rows -> Row], counted' \in Count, setting' \in Settings,
           flags' \in Flags, version' \in Nat,
           version' > version \/ (version' = version /\ UNCHANGED <<setting, flags>>)
              \/ (version' = version /\ new.kind = "plan"),
           Versioned(new, setting', flags', version', TRUE),
           serving = 1 /\ OneOrgCall =>
              /\ new.pc \notin Answered \cup {"idle"} =>
                    KnowsOrganization(new, setting', flags', Cardinality(Fitting)')
              /\ Cardinality(Fitting)' <= Limit
              /\ \/ counted'.left = 0 \/ Cardinality(Fitting)' <= counted'.value
                 \/ new.pc = "invalidate"
    PROVE  OrganizationInv'
  <1>1. orgCall \in [Calls -> OrgCall] /\ version \in Nat
    BY DEF OrganizationInv, OrganizationTypeOK
  <1>2. orgCall'[c] = new /\ \A d \in Calls \ {c} : orgCall'[d] = orgCall[d]
    BY <1>1
  <1>3. OrganizationTypeOK'
    BY <1>1 DEF OrganizationTypeOK
  <1>4. \A d \in Calls : SoundOrgCall(orgCall'[d])
    BY <1>2 DEF OrganizationInv
  <1>5. PlanChanges' = {} => PlanChanges = {} /\ new.kind # "plan"
    <2>1. \A d \in Calls : orgCall[d].kind = "plan" => orgCall'[d].kind = "plan"
      BY <1>2 DEF OrganizationInv, SoundOrgCall
    <2> QED BY <1>2, <2>1 DEF PlanChanges
  <1>6. ASSUME NEW d \in Calls
        PROVE  Versioned(orgCall'[d], setting', flags', version', PlanChanges' = {})
    <2>1. CASE d = c
      BY <1>2, <2>1 DEF Versioned
    <2>2. CASE d # c
      <3>1. /\ orgCall'[d] = orgCall[d] /\ orgCall[d].version \in Nat
            /\ Versioned(orgCall[d], setting, flags, version, PlanChanges = {})
        BY <1>1, <1>2, <2>2 DEF OrganizationInv, OrgCall
      <3> QED BY <1>1, <1>5, <3>1 DEF Versioned
    <2> QED BY <2>1, <2>2
  <1>7. ASSUME serving = 1
        PROVE  OneOrgCall'
    <2>1. InService(orgCall) \subseteq {c}
      <3>1. CASE Admitted(orgCall, c)
        BY <1>7, <3>1, AdmittedAlone
      <3>2. CASE c \in InService(orgCall)
        BY <1>7, <3>2 DEF OrganizationInv, OneOrgCall
      <3> QED BY <3>1, <3>2
    <2>2. InService(orgCall)' \subseteq {c}
      BY <1>2, <2>1 DEF InService
    <2>3. c \in InService(orgCall)' <=> new.pc \notin Answered \cup {"idle"}
      BY <1>2 DEF InService
    <2>4. OneOrgCall
      BY <1>7 DEF OrganizationInv
    <2>5. new.pc = "invalidate" => c \in InService(orgCall)'
      BY <2>3 DEF Answered
    <2> QED BY <1>2, <1>7, <2>2, <2>3, <2>4, <2>5 DEF OneOrgCall
  <1> QED BY <1>3, <1>4, <1>6, <1>7 DEF OrganizationInv

\* A call that is answered is counted as made, and keeps nothing else.
LEMMA MovedOrgCall ==
    ASSUME NEW call \in OrgCall, NEW pc \in Answered
    PROVE  /\ Moved(call, pc) \in OrgCall
           /\ Moved(call, pc).pc = pc /\ Moved(call, pc).kind = call.kind
  BY DEF Moved, NoCall, OrgCall, Plan, Settings, Flags, Answered

\* A call that goes on has a new statement before it.
LEMMA AdvancedOrgCall ==
    ASSUME NEW call \in OrgCall, NEW pc \in {"store", "insert", "invalidate", "plan"}
    PROVE  /\ Moved(call, pc) = [call EXCEPT !.pc = pc]
           /\ Moved(call, pc) \in OrgCall
           /\ Moved(call, pc).pc = pc
           /\ Moved(call, pc).kind = call.kind /\ Moved(call, pc).row = call.row
           /\ Moved(call, pc).setting = call.setting /\ Moved(call, pc).flags = call.flags
           /\ Moved(call, pc).value = call.value /\ Moved(call, pc).seenPlan = call.seenPlan
  BY DEF Moved, OrgCall, Answered

\* A call that reads the organization's row, and no more.
LEMMA TakenUpOrgCall ==
    ASSUME OrganizationInv, serving' = serving, NEW c \in Calls,
           NEW purpose \in {"create", "update", "plan"}, NEW pc \in {"count", "write", "plan"},
           NEW r \in Rows \cup {None}, NEW ks \in SUBSET Keys, NEW p \in Plan,
           TakeUpOrgCall(c, purpose, pc, r, ks, p),
           pc = "count" => purpose \in {"create", "plan"}, pc = "write" => purpose = "update",
           pc = "plan" => purpose = "plan", purpose = "create" => r \in Rows
    PROVE  OrganizationInv'
  <1> DEFINE new == [pc |-> pc, kind |-> purpose, row |-> r, keys |-> ks, plan |-> p,
                     seenPlan |-> plan, value |-> 0, setting |-> setting, flags |-> flags,
                     version |-> version]
  <1>1. /\ plan \in Plan /\ row \in [Rows -> Row] /\ counted \in Count /\ setting \in Settings
        /\ flags \in Flags /\ version \in Nat
    BY DEF OrganizationInv, OrganizationTypeOK
  <1>2. new \in OrgCall
    BY <1>1 DEF OrgCall
  <1>3. SoundOrgCall(new) /\ Versioned(new, setting, flags, version, TRUE)
           /\ KnowsOrganization(new, setting, flags, Cardinality(Fitting))
    BY <1>1 DEF SoundOrgCall, Versioned, KnowsOrganization
  <1>4. orgCall[c].pc = "idle" /\ Admitted(orgCall, c)
    BY DEF TakeUpOrgCall, Admitted
  <1>5. orgCall' = [orgCall EXCEPT ![c] = new]
        /\ UNCHANGED <<plan, row, counted, setting, flags, version>>
    BY DEF TakeUpOrgCall
  <1>6. Cardinality(Fitting)' = Cardinality(Fitting)
    BY <1>5 DEF Fitting, ActiveRows
  <1>7. ASSUME serving = 1, OneOrgCall
        PROVE  counted.left = 0 \/ Cardinality(Fitting) <= counted.value
    <2>1. InService(orgCall) = {}
      BY <1>4, <1>7, AdmittedAlone
    <2> QED BY <1>7, <2>1 DEF OneOrgCall
  <1> HIDE DEF new
  <1> QED BY <1>1, <1>2, <1>3, <1>4, <1>5, <1>6, <1>7, OrganizationStep DEF OneOrgCall

\* A statement of a call in service that writes no row and no setting.
LEMMA OrganizationMove ==
    ASSUME OrganizationInv, serving' = serving, NEW c \in InService(orgCall),
           NEW new \in OrgCall, orgCall' = [orgCall EXCEPT ![c] = new],
           new.kind = orgCall[c].kind, new.pc # "write", SoundOrgCall(new),
           UNCHANGED <<row, setting, flags, version>>, plan' \in Plan, counted' \in Count,
           serving = 1 /\ OneOrgCall =>
              /\ new.pc \notin Answered \cup {"idle"} =>
                    KnowsOrganization(new, setting, flags, Cardinality(Fitting))
              /\ \/ counted'.left = 0 \/ Cardinality(Fitting) <= counted'.value
                 \/ new.pc = "invalidate"
    PROVE  OrganizationInv'
  <1>0. c \in Calls
    BY DEF InService
  <1>1. /\ row' \in [Rows -> Row] /\ setting' \in Settings /\ flags' \in Flags /\ version' \in Nat
    BY DEF OrganizationInv, OrganizationTypeOK
  <1>2. Cardinality(Fitting)' = Cardinality(Fitting)
    BY DEF Fitting, ActiveRows
  <1>3. Versioned(new, setting', flags', version', TRUE)
    BY DEF Versioned
  <1> QED BY <1>0, <1>1, <1>2, <1>3, OrganizationStep DEF OneOrgCall

\* Every step of the organization keeps its invariant.
LEMMA OrganizationNextInv ==
    OrganizationInv /\ [OrganizationNext /\ UNCHANGED serving]_<<serving, organizationVars>> =>
        OrganizationInv'
  <1> SUFFICES ASSUME OrganizationInv,
                      [OrganizationNext /\ UNCHANGED serving]_<<serving, organizationVars>>
               PROVE  OrganizationInv'
    OBVIOUS
  <1>0. /\ serving' = serving
        /\ plan \in Plan /\ row \in [Rows -> Row] /\ counted \in Count /\ setting \in Settings
        /\ flags \in Flags /\ version \in Nat
        /\ orgCall \in [Calls -> OrgCall]
        /\ Limit \in Nat /\ None \notin Rows /\ TTL \in Nat \ {0}
        /\ \A c \in Calls : SoundOrgCall(orgCall[c])
        /\ \A c \in Calls : orgCall[c].pc \notin Answered \cup {"idle"} => c \in InService(orgCall)
        /\ NoCount \in Count /\ NoCount.left = 0
        /\ Cardinality(Fitting) \in Nat
        /\ counted.value \in Nat /\ counted.left \in 0..TTL
    BY DeskAssumption, OrganizationAssumption, RowsAreCounted
       DEF organizationVars, OrganizationInv, OrganizationTypeOK, InService, NoCount, Count
  <1>a. ASSUME serving = 1, NEW c \in InService(orgCall)
        PROVE  /\ \A d \in InService(orgCall) : d = c
               /\ KnowsOrganization(orgCall[c], setting, flags, Cardinality(Fitting))
               /\ Cardinality(Fitting) <= Limit
               /\ \/ counted.left = 0 \/ Cardinality(Fitting) <= counted.value
                  \/ orgCall[c].pc = "invalidate"
    BY <1>a DEF OrganizationInv, OneOrgCall
  <1>b. ASSUME NEW c \in InService(orgCall), NEW pc \in Answered, Advance(c, pc),
               UNCHANGED <<plan, row, setting, flags, version>>,
               counted' = NoCount \/ (counted' = counted /\ orgCall[c].pc # "invalidate")
                  \/ (counted' = [value |-> orgCall[c].value, left |-> TTL] /\ orgCall[c].pc = "store")
        PROVE  OrganizationInv'
    <2> DEFINE new == Moved(orgCall[c], pc)
    <2>0. c \in Calls /\ orgCall[c] \in OrgCall
      BY <1>0 DEF InService
    <2>1. new \in OrgCall /\ new.pc = pc /\ new.kind = orgCall[c].kind
      BY <2>0, MovedOrgCall
    <2>2. orgCall' = [orgCall EXCEPT ![c] = new]
      BY <1>b DEF Advance
    <2> HIDE DEF new
    <2>3. SoundOrgCall(new)
      BY <2>1 DEF SoundOrgCall, Answered
    <2>4. counted' \in Count
      BY <1>0, <1>b, <2>0 DEF OrgCall, Count
    <2>5. serving = 1 => \/ counted'.left = 0 \/ Cardinality(Fitting) <= counted'.value
      BY <1>0, <1>a, <1>b DEF KnowsOrganization
    <2> QED BY <1>0, <1>b, <2>1, <2>2, <2>3, <2>4, <2>5, OrganizationMove DEF Answered
  <1>1. ASSUME NEW c \in Calls, NEW r \in Rows, OpenCreateRow(c, r)
        PROVE  OrganizationInv'
    BY <1>0, <1>1, TakenUpOrgCall DEF OpenCreateRow, Plan
  <1>2. ASSUME NEW c \in Calls, NEW ks \in SUBSET Keys, OpenUpdateSettings(c, ks)
        PROVE  OrganizationInv'
    BY <1>0, <1>2, TakenUpOrgCall DEF OpenUpdateSettings, Plan
  <1>3. ASSUME NEW c \in Calls, NEW p \in Plan, OpenUpdatePlan(c, p)
        PROVE  OrganizationInv'
    BY <1>0, <1>3, TakenUpOrgCall DEF OpenUpdatePlan
  <1>4. ASSUME NEW c \in Calls, CountFromCache(c)
        PROVE  OrganizationInv'
    <2> DEFINE call == orgCall[c]
               seen == [call EXCEPT !.value = counted.value]
               pc == Counted(c, counted.value)
    <2>1. /\ call.pc = "count" /\ counted.left > 0 /\ c \in InService(orgCall)
          /\ orgCall' = [orgCall EXCEPT ![c] = Moved(seen, pc)]
          /\ UNCHANGED <<plan, row, counted, setting, flags, version>>
      BY <1>0, <1>4 DEF CountFromCache, Answered
    <2>2. /\ seen \in OrgCall /\ seen.kind = call.kind /\ seen.value = counted.value
          /\ seen.row = call.row /\ seen.setting = call.setting /\ seen.flags = call.flags
          /\ seen.seenPlan = call.seenPlan
      BY <1>0 DEF OrgCall
    <2>3. /\ pc \in {"plan", "insert", "refused"}
          /\ pc = "plan" => call.kind = "plan"
          /\ pc = "insert" => call.kind = "create" /\ (call.seenPlan = "BASIC" => counted.value < Limit)
      BY <1>0, <2>1 DEF Counted, Allowed, SoundOrgCall
    <2> HIDE DEF pc, seen
    <2> DEFINE new == Moved(seen, pc)
    <2>4. /\ new \in OrgCall /\ new.pc = pc /\ new.kind = call.kind
          /\ pc # "refused" => /\ new.row = call.row /\ new.setting = call.setting
                               /\ new.flags = call.flags /\ new.seenPlan = call.seenPlan
      BY <2>2, <2>3, MovedOrgCall, AdvancedOrgCall DEF Answered
    <2> HIDE DEF new
    <2>5. SoundOrgCall(new)
      BY <1>0, <2>1, <2>3, <2>4 DEF SoundOrgCall, Answered
    <2>6. serving = 1 => Cardinality(Fitting) <= counted.value
      BY <1>0, <1>a, <2>1
    <2>7. serving = 1 /\ pc # "refused" =>
             KnowsOrganization(new, setting, flags, Cardinality(Fitting))
      BY <1>0, <1>a, <2>1, <2>3, <2>4, <2>6 DEF KnowsOrganization
    <2> QED BY <1>0, <2>1, <2>3, <2>4, <2>5, <2>6, <2>7, OrganizationMove DEF Answered, new
  <1>5. ASSUME NEW c \in Calls, QueryCount(c)
        PROVE  OrganizationInv'
    <2> DEFINE new == [orgCall[c] EXCEPT !.value = Cardinality(ActiveRows), !.pc = "store"]
    <2>1. /\ orgCall[c].pc = "count" /\ counted.left = 0 /\ c \in InService(orgCall)
          /\ orgCall' = [orgCall EXCEPT ![c] = new]
          /\ UNCHANGED <<plan, row, counted, setting, flags, version>>
      BY <1>0, <1>5 DEF QueryCount, Answered
    <2>2. /\ new \in OrgCall /\ new.pc = "store" /\ new.value = Cardinality(ActiveRows)
          /\ new.kind = orgCall[c].kind /\ new.row = orgCall[c].row
          /\ new.setting = orgCall[c].setting /\ new.flags = orgCall[c].flags
      <3>1. PICK call \in OrgCall : call = orgCall[c]
        BY <1>0
      <3>2. PICK m \in Nat : m = Cardinality(ActiveRows)
        BY RowsAreCounted
      <3> QED BY ONLY <3>1, <3>2 DEF OrgCall
    <2> HIDE DEF new
    <2>3. SoundOrgCall(new)
      BY <1>0, <2>1, <2>2 DEF SoundOrgCall, Answered
    <2>4. serving = 1 => KnowsOrganization(new, setting, flags, Cardinality(Fitting))
      BY <1>a, <2>1, <2>2, RowsAreCounted DEF KnowsOrganization
    <2> QED BY <1>0, <2>1, <2>2, <2>3, <2>4, OrganizationMove DEF Answered
  <1>6. ASSUME NEW c \in Calls, StoreCount(c)
        PROVE  OrganizationInv'
    <2> DEFINE call == orgCall[c]
               pc == Counted(c, call.value)
    <2>1. /\ call.pc = "store" /\ c \in InService(orgCall)
          /\ counted' = [value |-> call.value, left |-> TTL]
          /\ Advance(c, pc) /\ UNCHANGED <<plan, row, setting, flags, version>>
      BY <1>0, <1>6 DEF StoreCount, Answered
    <2>2. /\ pc \in {"plan", "insert", "refused"}
          /\ pc = "plan" => call.kind = "plan"
          /\ pc = "insert" => call.kind = "create" /\ (call.seenPlan = "BASIC" => call.value < Limit)
      BY <1>0, <2>1 DEF Counted, Allowed, SoundOrgCall
    <2> HIDE DEF pc
    <2>3. CASE pc = "refused"
      BY <1>b, <2>1, <2>3 DEF Answered
    <2>4. CASE pc \in {"plan", "insert"}
      <3> DEFINE new == Moved(call, pc)
      <3>1. /\ new \in OrgCall /\ new.pc = pc /\ new.kind = call.kind
            /\ new.row = call.row /\ new.setting = call.setting
            /\ new.flags = call.flags /\ new.seenPlan = call.seenPlan
        BY <1>0, <2>4, AdvancedOrgCall
      <3>2. orgCall' = [orgCall EXCEPT ![c] = new]
        BY <2>1 DEF Advance
      <3> HIDE DEF new
      <3>3. SoundOrgCall(new)
        BY <1>0, <2>1, <2>2, <2>4, <3>1 DEF SoundOrgCall, Answered
      <3>4. call.value \in Nat /\ counted' \in Count
        BY <1>0, <2>1 DEF OrgCall, Count
      <3>5. serving = 1 => /\ KnowsOrganization(new, setting, flags, Cardinality(Fitting))
                           /\ Cardinality(Fitting) <= counted'.value
        BY <1>0, <1>a, <2>1, <2>2, <2>4, <3>1, <3>4 DEF KnowsOrganization
      <3> QED BY <1>0, <2>1, <2>4, <3>1, <3>2, <3>3, <3>4, <3>5, OrganizationMove
    <2> QED BY <2>2, <2>3, <2>4
  <1>7. ASSUME NEW c \in Calls, InsertRow(c) \/ InsertRowUnanswered(c)
        PROVE  OrganizationInv'
    <2> DEFINE call == orgCall[c]
               r == call.row
    <2>1. PICK pc \in {"invalidate", "refused"}, written \in Row :
             /\ call.pc = "insert" /\ c \in InService(orgCall)
             /\ row[r].origin = "none" /\ row' = [row EXCEPT ![r] = written]
             /\ Advance(c, pc) /\ UNCHANGED <<plan, counted, setting, flags, version>>
             /\ written.origin # "fits" \/ (pc = "invalidate" /\ call.seenPlan # "PRO")
      <3>1. InsertedRow(c) \in Row /\ [active |-> TRUE, origin |-> "other"] \in Row
        BY DEF InsertedRow, Row
      <3>2. InsertedRow(c).origin # "fits" \/ call.seenPlan # "PRO"
        BY DEF InsertedRow
      <3>3. CASE InsertRow(c)
        BY <1>0, <3>1, <3>2, <3>3 DEF InsertRow, Answered
      <3>4. CASE InsertRowUnanswered(c)
        BY <1>0, <3>1, <3>4 DEF InsertRowUnanswered, Answered
      <3> QED BY <1>7, <3>3, <3>4
    <2>2. r \in Rows /\ call.kind = "create" /\ call \in OrgCall
      BY <1>0, <2>1 DEF SoundOrgCall, Answered
    <2>3. row' \in [Rows -> Row] /\ row'[r] = written /\ \A s \in Rows \ {r} : row'[s] = row[s]
      BY <1>0, <2>1, <2>2
    <2>4. /\ Fitting' \subseteq Fitting \cup {r}
          /\ written.origin # "fits" => Fitting' \subseteq Fitting
      BY <2>3 DEF Fitting, ActiveRows
    <2>5. /\ Cardinality(Fitting)' \in Nat /\ Cardinality(Fitting)' <= Cardinality(Fitting) + 1
          /\ written.origin # "fits" => Cardinality(Fitting)' <= Cardinality(Fitting)
      <3>1. /\ IsFiniteSet(Fitting \cup {r})
            /\ Cardinality(Fitting \cup {r}) <= Cardinality(Fitting) + 1
        <4>1. /\ IsFiniteSet(Fitting \cup {r})
              /\ Cardinality(Fitting \cup {r}) =
                    IF r \in Fitting THEN Cardinality(Fitting) ELSE Cardinality(Fitting) + 1
          BY RowsAreCounted, FS_AddElement
        <4> QED BY <1>0, <4>1
      <3>2. /\ Cardinality(Fitting') <= Cardinality(Fitting \cup {r})
            /\ IsFiniteSet(Fitting')
        BY <2>4, <3>1, FS_Subset
      <3>3. Cardinality(Fitting') \in Nat
        BY <3>2, FS_CardinalityType
      <3>4. Cardinality(Fitting \cup {r}) \in Nat
        BY <3>1, FS_CardinalityType
      <3>5. written.origin # "fits" => Cardinality(Fitting') <= Cardinality(Fitting)
        BY <2>4, RowsAreCounted, FS_Subset
      <3> QED BY <1>0, <3>1, <3>2, <3>3, <3>4, <3>5
    <2> DEFINE new == Moved(call, pc)
    <2>6. new \in OrgCall /\ new.pc = pc /\ new.kind = call.kind
          /\ (pc = "invalidate" => new.row = r /\ new.setting = call.setting /\ new.flags = call.flags)
      BY <2>1, <2>2, MovedOrgCall, AdvancedOrgCall DEF Answered
    <2>7. orgCall' = [orgCall EXCEPT ![c] = new]
      BY <2>1 DEF Advance
    <2> HIDE DEF new
    <2>8. SoundOrgCall(new) /\ Versioned(new, setting', flags', version', TRUE)
      BY <2>1, <2>2, <2>6 DEF SoundOrgCall, Versioned, Answered
    <2>9. ASSUME serving = 1
          PROVE  /\ pc = "invalidate" =>
                       KnowsOrganization(new, setting', flags', Cardinality(Fitting)')
                 /\ Cardinality(Fitting)' <= Limit
                 /\ counted'.left = 0 \/ Cardinality(Fitting)' <= counted'.value \/ pc = "invalidate"
      <3>1. call.seenPlan \in {"BASIC", "PRO"}
        BY <2>2 DEF OrgCall, Plan
      <3>2. /\ KnowsOrganization(call, setting, flags, Cardinality(Fitting))
            /\ Cardinality(Fitting) <= Limit
            /\ counted.left = 0 \/ Cardinality(Fitting) <= counted.value
        BY <1>a, <2>1, <2>9
      <3>3. call.seenPlan = "BASIC" => Cardinality(Fitting) < Limit
        BY <2>1, <3>2 DEF KnowsOrganization
      <3>4. Cardinality(Fitting)' <= Limit
        BY <1>0, <2>1, <2>5, <3>1, <3>2, <3>3
      <3>5. counted'.left = 0 \/ Cardinality(Fitting)' <= counted'.value \/ pc = "invalidate"
        BY <1>0, <2>1, <2>5, <3>2
      <3>6. pc = "invalidate" => KnowsOrganization(new, setting', flags', Cardinality(Fitting)')
        BY <2>1, <2>6, <3>2 DEF KnowsOrganization
      <3> QED BY <3>4, <3>5, <3>6
    <2> QED BY <1>0, <2>1, <2>3, <2>6, <2>7, <2>8, <2>9, OrganizationStep DEF Answered
  <1>8. ASSUME NEW c \in Calls, Invalidate(c) \/ ConflictSettings(c) \/ StopOrgCall(c)
        PROVE  OrganizationInv'
    BY <1>0, <1>8, <1>b DEF Invalidate, ConflictSettings, StopOrgCall, Answered
  <1>9. ASSUME NEW c \in Calls, WriteSettings(c)
        PROVE  OrganizationInv'
    <2> DEFINE new == Moved(orgCall[c], "done")
    <2>1. /\ orgCall[c].pc = "write" /\ c \in InService(orgCall)
          /\ setting' = Merged(c) /\ flags' = orgCall[c].flags /\ version' = version + 1
          /\ orgCall' = [orgCall EXCEPT ![c] = new] /\ UNCHANGED <<plan, row, counted>>
      BY <1>0, <1>9 DEF WriteSettings, Advance, Answered
    <2>2. new \in OrgCall /\ new.pc = "done" /\ new.kind = orgCall[c].kind
      BY <1>0, MovedOrgCall DEF Answered
    <2> HIDE DEF new
    <2>3. setting' \in Settings /\ flags' \in Flags /\ version' \in Nat /\ version' > version
      BY <1>0, <2>1 DEF Merged, OrgCall, Settings
    <2>4. SoundOrgCall(new) /\ Versioned(new, setting', flags', version', TRUE)
      BY <2>2 DEF SoundOrgCall, Versioned, Answered
    <2>5. Cardinality(Fitting)' = Cardinality(Fitting)
      BY <2>1 DEF Fitting, ActiveRows
    <2> QED BY <1>0, <1>a, <2>1, <2>2, <2>3, <2>4, <2>5, OrganizationStep DEF Answered
  <1>10. ASSUME NEW c \in Calls, WritePlan(c)
         PROVE  OrganizationInv'
    <2> DEFINE new == Moved(orgCall[c], "done")
    <2>1. /\ orgCall[c].pc = "plan" /\ c \in InService(orgCall)
          /\ plan' = orgCall[c].plan
          /\ \/ setting' = orgCall[c].setting /\ flags' \in {"over", "within"}
             \/ UNCHANGED <<setting, flags>>
          /\ orgCall' = [orgCall EXCEPT ![c] = new] /\ UNCHANGED <<row, counted, version>>
      BY <1>0, <1>10 DEF WritePlan, Advance, Answered
    <2>2. new \in OrgCall /\ new.pc = "done" /\ new.kind = orgCall[c].kind
      BY <1>0, MovedOrgCall DEF Answered
    <2>3. new.kind = "plan"
      BY <1>0, <2>1, <2>2 DEF SoundOrgCall
    <2> HIDE DEF new
    <2>4. plan' \in Plan /\ setting' \in Settings /\ flags' \in Flags
      BY <1>0, <2>1 DEF OrgCall, Flags
    <2>5. SoundOrgCall(new) /\ Versioned(new, setting', flags', version', TRUE)
      BY <2>2 DEF SoundOrgCall, Versioned, Answered
    <2>6. Cardinality(Fitting)' = Cardinality(Fitting)
      BY <2>1 DEF Fitting, ActiveRows
    <2> QED BY <1>0, <1>a, <2>1, <2>2, <2>3, <2>4, <2>5, <2>6, OrganizationStep DEF Answered
  <1>11. ASSUME NEW r \in Rows, Bypass(r) \/ Deactivate(r)
         PROVE  OrganizationInv'
    <2>1. /\ row' \in [Rows -> Row] /\ Fitting' \subseteq Fitting
          /\ UNCHANGED <<plan, counted, setting, flags, version, orgCall>>
      <3>1. CASE Bypass(r)
        <4>1. [active |-> TRUE, origin |-> "other"] \in Row
          BY DEF Row
        <4> QED BY <1>0, <3>1, <4>1 DEF Bypass, Fitting, ActiveRows
      <3>2. CASE Deactivate(r)
        <4>1. [row[r] EXCEPT !.active = FALSE] \in Row
                /\ [row[r] EXCEPT !.active = FALSE].active = FALSE
          BY <1>0 DEF Row
        <4>2. row' = [row EXCEPT ![r] = [row[r] EXCEPT !.active = FALSE]]
          BY <3>2 DEF Deactivate
        <4>3. row' \in [Rows -> Row] /\ ~row'[r].active /\ \A s \in Rows \ {r} : row'[s] = row[s]
          BY <1>0, <4>1, <4>2
        <4> QED BY <3>2, <4>3 DEF Deactivate, Fitting, ActiveRows
      <3> QED BY <1>11, <3>1, <3>2
    <2>2. Cardinality(Fitting)' \in Nat /\ Cardinality(Fitting)' <= Cardinality(Fitting)
      BY <2>1, RowsAreCounted, FS_Subset, FS_CardinalityType
    <2>3. OrganizationTypeOK' /\ InService(orgCall)' = InService(orgCall) /\ PlanChanges' = PlanChanges
      BY <1>0, <2>1 DEF OrganizationTypeOK, InService, PlanChanges
    <2>4. ASSUME NEW c \in InService(orgCall), KnowsOrganization(orgCall[c], setting, flags, Cardinality(Fitting))
          PROVE  KnowsOrganization(orgCall[c], setting, flags, Cardinality(Fitting)')
      <3>1. orgCall[c].value \in Nat
        BY <1>0 DEF InService, OrgCall
      <3> QED BY <1>0, <2>2, <2>4, <3>1 DEF KnowsOrganization
    <2>5. OneOrgCall => OneOrgCall'
      BY <1>0, <2>1, <2>2, <2>3, <2>4 DEF OneOrgCall
    <2> QED BY <1>0, <2>1, <2>3, <2>5 DEF OrganizationInv
  <1>12. CASE RestartServer
    <2>1. /\ orgCall' = [c \in Calls |->
                IF c \in InService(orgCall) THEN Moved(orgCall[c], "refused") ELSE orgCall[c]]
          /\ counted' = NoCount /\ UNCHANGED <<plan, row, setting, flags, version>>
      BY <1>12 DEF RestartServer
    <2>2. \A c \in Calls : /\ orgCall'[c] \in OrgCall /\ orgCall'[c].kind = orgCall[c].kind
                           /\ orgCall'[c].pc \in Answered \/ orgCall'[c] = orgCall[c]
                           /\ orgCall'[c].pc \in Answered \cup {"idle"}
      BY <1>0, <2>1, MovedOrgCall DEF Answered
    <2>3. OrganizationTypeOK'
      <3>1. orgCall' \in [Calls -> OrgCall]
        BY <2>1, <2>2
      <3> QED BY <1>0, <2>1, <3>1 DEF OrganizationTypeOK
    <2>4. \A c \in Calls : SoundOrgCall(orgCall'[c])
      BY <1>0, <2>2 DEF SoundOrgCall, Answered
    <2>5. \A c \in Calls : Versioned(orgCall'[c], setting', flags', version', PlanChanges' = {})
      BY <2>2 DEF Versioned, Answered
    <2>6. InService(orgCall)' = {} /\ Cardinality(Fitting)' = Cardinality(Fitting)
      BY <2>1, <2>2 DEF InService, Fitting, ActiveRows
    <2>7. serving = 1 => OneOrgCall'
      BY <1>0, <2>1, <2>6 DEF OneOrgCall, OrganizationInv
    <2> QED BY <1>0, <2>3, <2>4, <2>5, <2>7 DEF OrganizationInv
  <1>13. CASE Tick
    <2>1. /\ UNCHANGED <<plan, row, setting, flags, version, orgCall>>
          /\ counted' \in Count /\ (counted'.left = 0 \/ counted'.value = counted.value)
      <3>1. counted.left - 1 \in 0..TTL
        BY <1>0, <1>13 DEF Tick
      <3> QED BY <1>0, <1>13, <3>1 DEF Tick, Count
    <2>2. Cardinality(Fitting)' = Cardinality(Fitting) /\ InService(orgCall)' = InService(orgCall)
             /\ PlanChanges' = PlanChanges /\ OrganizationTypeOK'
      BY <1>0, <2>1 DEF Fitting, ActiveRows, InService, PlanChanges, OrganizationTypeOK
    <2>3. OneOrgCall => OneOrgCall'
      <3>1. counted.left = 0 => counted'.left = 0
        BY <1>0, <1>13, <2>1 DEF Tick
      <3> QED BY <2>1, <2>2, <3>1 DEF OneOrgCall
    <2> QED BY <1>0, <2>1, <2>2, <2>3 DEF OrganizationInv
  <1>14. CASE UNCHANGED <<serving, organizationVars>>
    <2>1. UNCHANGED <<serving, plan, row, counted, setting, flags, version, orgCall>>
      BY <1>14 DEF organizationVars
    <2>2. Cardinality(Fitting)' = Cardinality(Fitting) /\ InService(orgCall)' = InService(orgCall)
             /\ PlanChanges' = PlanChanges /\ OrganizationTypeOK'
      BY <1>0, <2>1 DEF Fitting, ActiveRows, InService, PlanChanges, OrganizationTypeOK
    <2> QED BY <2>1, <2>2 DEF OrganizationInv, OneOrgCall
  <1>15. CASE OrganizationNext
    BY <1>1, <1>2, <1>3, <1>4, <1>5, <1>6, <1>7, <1>8, <1>9, <1>10, <1>11, <1>12, <1>13, <1>15
       DEF OrganizationNext
  <1> QED BY <1>14, <1>15

\* The organization, its rows, its settings and the calls keep their types.
THEOREM OrganizationTypeCorrect == OrganizationSpec => []OrganizationTypeOK
  <1>1. OrganizationInv => OrganizationTypeOK
    BY DEF OrganizationInv
  <1> QED BY <1>1, OrganizationInitInv, OrganizationNextInv, PTL DEF OrganizationSpec

\* One call at a time, the rows the guard let in under BASIC fit its limit, for any limit
\* and any TTL: a count that is kept may be older than what came in behind the guard, but
\* is cleared after each row the guard lets in.
THEOREM GuardHolds == OrganizationSpec => []GuardedRowsFitThePlan
  <1>1. OrganizationInv => GuardedRowsFitThePlan
    BY DEF OrganizationInv, OneOrgCall, Fitting, GuardedRowsFitThePlan
  <1> QED BY <1>1, OrganizationInitInv, OrganizationNextInv, PTL DEF OrganizationSpec

\* However many updates are served at once, a setting changes only to what a call that
\* sends it writes, as long as no change of plan was asked for; with one call at a time
\* it holds beside changes of plan too.
THEOREM SettingsAreKept == OrganizationSpec => NoSettingIsLost
  <1> DEFINE Kept == serving = 1 \/ PlanChanges = {} =>
          /\ \A k \in Keys : setting'[k] # setting[k] =>
                \E c \in Calls : setting'[k] = c /\ k \in orgCall[c].keys /\ orgCall[c].pc = "write"
          /\ flags' # flags => \E c \in PlanChanges : orgCall[c].pc = "plan"
  <1>1. OrganizationInv /\ [OrganizationNext /\ UNCHANGED serving]_<<serving, organizationVars>> =>
           [Kept]_organizationVars
    <2> SUFFICES ASSUME OrganizationInv, OrganizationNext, serving = 1 \/ PlanChanges = {}
                 PROVE  Kept
      BY DEF organizationVars
    <2>1. /\ \A c \in Calls : SoundOrgCall(orgCall[c])
          /\ \A c \in Calls : Versioned(orgCall[c], setting, flags, version, PlanChanges = {})
          /\ serving = 1 => \A c \in InService(orgCall) :
                orgCall[c].setting = setting /\ orgCall[c].flags = flags
          /\ \A c \in Calls : orgCall[c].pc \notin Answered \cup {"idle"} => c \in InService(orgCall)
      BY DEF OrganizationInv, OneOrgCall, KnowsOrganization, InService
    <2>2. ASSUME NEW c \in Calls, WriteSettings(c)
          PROVE  Kept
      <3>1. /\ orgCall[c].pc = "write" /\ setting' = Merged(c) /\ flags' = orgCall[c].flags
            /\ c \in InService(orgCall) /\ orgCall[c].version = version
        BY <2>1, <2>2 DEF WriteSettings, SameVersion, Answered
      <3>2. orgCall[c].setting = setting /\ orgCall[c].flags = flags
        BY <2>1, <3>1 DEF Versioned
      <3>3. \A k \in Keys : setting'[k] # setting[k] => setting'[k] = c /\ k \in orgCall[c].keys
        BY <3>1, <3>2 DEF Merged
      <3> QED BY <3>1, <3>2, <3>3
    <2>3. ASSUME NEW c \in Calls, WritePlan(c)
          PROVE  Kept
      <3>1. orgCall[c].pc = "plan" /\ c \in PlanChanges /\ c \in InService(orgCall)
        BY <2>1, <2>3 DEF WritePlan, SoundOrgCall, PlanChanges, Answered
      <3>2. setting' = setting
        BY <2>1, <2>3, <3>1 DEF WritePlan
      <3> QED BY <3>1, <3>2
    <2>4. CASE UNCHANGED <<setting, flags>>
      BY <2>4
    <2> QED BY <2>2, <2>3, <2>4 DEF OrganizationNext, OpenCreateRow, OpenUpdateSettings,
              OpenUpdatePlan, TakeUpOrgCall, CountFromCache, QueryCount, StoreCount, InsertRow,
              InsertRowUnanswered, Invalidate, ConflictSettings, StopOrgCall, Bypass, Deactivate,
              RestartServer, Tick
  <1>2. OrganizationSpec => [][Kept]_organizationVars
    BY <1>1, OrganizationInitInv, OrganizationNextInv, PTL DEF OrganizationSpec
  <1> QED BY <1>2 DEF NoSettingIsLost

-----------------------------------------------------------------------------
(* The office *)

\* A service at work takes its own steps, and the others stand still.
LEMMA OfficeStep ==
    ASSUME [OfficeNext]_officeVars
    PROVE  /\ [TasksNext /\ UNCHANGED serving]_<<serving, tasksVars>>
           /\ [ExpensesNext /\ UNCHANGED serving]_<<serving, expensesVars>>
           /\ [RegistersNext /\ UNCHANGED serving]_<<serving, registersVars>>
           /\ [MembersNext /\ UNCHANGED serving]_<<serving, membersVars>>
           /\ [OrganizationNext /\ UNCHANGED serving]_<<serving, organizationVars>>
           /\ [DashboardNext /\ UNCHANGED serving]_<<serving, dashboardVars>>
           /\ [NumberingNext /\ UNCHANGED serving]_<<serving, numberingVars>>
           /\ [LedgerNext /\ UNCHANGED serving]_<<serving, ledgerVars>>
           /\ [DirectoryNext /\ UNCHANGED serving]_<<serving, directoryVars>>
  BY DEF OfficeNext, officeVars

\* The registers that are not at work have no row, and none that is the default.
LEMMA OfficeRegistersInv == OfficeInit => RegistersInv
  <1> SUFFICES ASSUME OfficeInit, part # "registers"
               PROVE  RegistersInv
    BY RegistersInitInv DEF OfficeInit
  <1>1. register = [r \in Registers |-> NoRegister] /\ IdleRegisterCalls
    BY DEF OfficeInit
  <1>2. register \in [Registers -> RegisterRow] /\ \A r \in Registers : ~register[r].isDefault
    BY <1>1 DEF NoRegister, RegisterRow
  <1>3. registerCall \in [Calls -> RegisterCall]
    BY <1>1 DEF IdleRegisterCalls, RegisterCall, RegisterDto, NoRegister
  <1>4. InService(registerCall) = {}
    BY <1>1 DEF IdleRegisterCalls, InService
  <1> QED BY <1>2, <1>3, <1>4 DEF RegistersInv, RegistersTypeOK, CallsNameRegisters,
                                  DefaultsAreCleared

\* The office implements each of its services.
THEOREM OfficeIsItsServices ==
    OfficeSpec => /\ TasksSpec /\ ExpensesSpec /\ MembersSpec /\ OrganizationSpec
                  /\ DashboardSpec /\ NumberingSpec /\ LedgerSpec /\ DirectorySpec
                  /\ (part = "registers" => RegistersSpec)
  <1>1. OfficeInit => /\ DeskInit /\ TasksInit /\ ExpensesInit /\ MembersInit /\ OrganizationInit
                      /\ DashboardInit /\ NumberingInit /\ LedgerInit /\ DirectoryInit
                      /\ (part = "registers" => RegistersInit)
    BY DEF OfficeInit
  <1> QED BY <1>1, OfficeStep, PTL DEF OfficeSpec, TasksSpec, ExpensesSpec, MembersSpec,
             OrganizationSpec, DashboardSpec, NumberingSpec, LedgerSpec, DirectorySpec,
             RegistersSpec

\* Whatever service is at work, the registers' invariant holds.
LEMMA RegistersOfTheOffice == OfficeSpec => []RegistersInv
  BY OfficeRegistersInv, OfficeStep, RegistersNextInv, PTL DEF OfficeSpec

\* The service at work and how many calls it serves are fixed for a behaviour.
LEMMA PartIsFixed == OfficeSpec => [](part \in Parts /\ serving \in 1..MaxServing)
  <1>1. OfficeInit => part \in Parts /\ serving \in 1..MaxServing
    BY DEF OfficeInit, DeskInit
  <1>2. ASSUME part \in Parts, serving \in 1..MaxServing, [OfficeNext]_officeVars
        PROVE  (part \in Parts /\ serving \in 1..MaxServing)'
    <2>1. UNCHANGED <<part, serving>>
      BY <1>2 DEF OfficeNext, officeVars
    <2> QED BY <1>2, <2>1
  <1> QED BY <1>1, <1>2, PTL DEF OfficeSpec

\* Every service's variables hold what its rows and calls may hold.
THEOREM OfficeTypeCorrect == OfficeSpec => []OfficeTypeOK
  <1>1. RegistersInv => RegistersTypeOK
    BY DEF RegistersInv
  <1>2. OfficeTypeOK <=>
           /\ part \in Parts /\ serving \in 1..MaxServing
           /\ TasksTypeOK /\ ExpensesTypeOK /\ RegistersTypeOK /\ MembersTypeOK
           /\ OrganizationTypeOK /\ DashboardTypeOK /\ NumberingTypeOK /\ LedgerTypeOK
           /\ DirectoryTypeOK
    BY DEF OfficeTypeOK
  <1> QED BY <1>1, <1>2, OfficeIsItsServices, PartIsFixed, RegistersOfTheOffice,
             TasksTypeCorrect, ExpensesTypeCorrect, MembersTypeCorrect, OrganizationTypeCorrect,
             DashboardTypeCorrect, NumberingTypeCorrect, LedgerTypeCorrect, DirectoryTypeCorrect,
             PTL

\* What each service promises holds in the office, whatever service is at work.
THEOREM OfficeKeepsItsPromises ==
    OfficeSpec => /\ []TimelineTellsStatus /\ []TimelineIsAHistory
                  /\ []StatusTellsPayments /\ []DanglingReceiptsAreOwed
                  /\ []AtMostOneDefault /\ []OneOwner /\ []GuardedRowsFitThePlan
                  /\ []DashboardShowsEverySale /\ []NextNumberIsFree
                  /\ []DirectoryKeepsWhatIsUsed /\ []ReportsReconcile
                  /\ ClosedPeriodsKeepTheirOverview
                  /\ RemovalsStayInTheOrganization /\ NoSettingIsLost /\ ReportsAreBoundedlyStale
  <1>1. RegistersInv => AtMostOneDefault
    BY DEF RegistersInv, DefaultsAreCleared, AtMostOneDefault, Present
  <1>2. OfficeSpec => []AtMostOneDefault
    BY <1>1, RegistersOfTheOffice, PTL
  <1> QED BY <1>2, OfficeIsItsServices, TimelineFollowsTask, TimelinesAreHistories,
             StatusIsSound, OwedReceipts, OwnerIsUnique, GuardHolds, SalesAreShown,
             NumbersAreFree, DirectoryIsKept, RemovalsAreLocal, SettingsAreKept,
             StalenessIsBounded, ReportsTellOneStory, ClosedPeriodsStand
===============================================================================
