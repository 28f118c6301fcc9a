------------------------------- MODULE Expenses -------------------------------
(***************************************************************************)
(* ExpensesService: expenses, the payments made on them, and the receipt   *)
(* image an expense may carry, which a file store outside the database     *)
(* keeps.                                                                  *)
(*                                                                         *)
(* Every operation but create reads the expense with its payments, decides *)
(* from what it read, and writes in a later transaction by id.  Payments   *)
(* are never removed, so their sum stands for them; amounts are whole      *)
(* units.  The audit row each transaction adds is left out.                *)
(***************************************************************************)
EXTENDS Desk

CONSTANTS
    Expenses,       \* expense ids
    MaxTotal        \* bound: the largest total or payment

ASSUME ExpensesAssumption == MaxTotal \in Nat \ {0} /\ None \notin Calls

VARIABLES
    expense,        \* Expense rows with the sum of their payments
    images,         \* receipt images in the file store; an image is named by the call that uploads it
    expenseCall     \* local state of the calls

expensesVars == <<expense, images, expenseCall>>

Amount == 1..MaxTotal

ExpenseRow ==
    [state: {"none", "active", "deleted"}, total: 0..MaxTotal, paid: Nat,
     status: {"PARTIAL", "PAID"}, receipt: Calls \cup {None}]

ExpenseCall ==
    [pc: {"idle", "update", "pay", "copy", "remove", "upload", "replace", "link", "done", "refused"},
     expense: Expenses \cup {None}, total: 0..MaxTotal, paid: Nat, receipt: Calls \cup {None},
     dto: 0..MaxTotal]

ExpensesTypeOK ==
    /\ expense \in [Expenses -> ExpenseRow]
    /\ images \subseteq Calls
    /\ expenseCall \in [Calls -> ExpenseCall]

\* deriveExpensePaymentStatus
DerivedStatus(total, paid) == IF paid >= total THEN "PAID" ELSE "PARTIAL"

NoExpense == [state |-> "none", total |-> 0, paid |-> 0, status |-> "PARTIAL", receipt |-> None]

NewExpense(total, paid) ==
    [state |-> "active", total |-> total, paid |-> paid, status |-> DerivedStatus(total, paid),
     receipt |-> None]

\* Some expenses are there already.
ExpensesInit ==
    /\ expense \in [Expenses -> {NoExpense, NewExpense(MaxTotal, 1)}]
    /\ images = {}
    /\ expenseCall = [c \in Calls |->
          [pc |-> "idle", expense |-> None, total |-> 0, paid |-> 0, receipt |-> None, dto |-> 0]]

Answer(c, answer) == expenseCall' = [expenseCall EXCEPT ![c].pc = answer]

-----------------------------------------------------------------------------
\* The expense and its first payments, in one transaction; the payments do not
\* add up to more than the total.
CreateExpense(c, x) ==
    /\ Admitted(expenseCall, c)
    /\ expense[x].state = "none"
    /\ \E total, paid \in Amount :
          /\ paid <= total
          /\ expense' = [expense EXCEPT ![x] = NewExpense(total, paid)]
    /\ Answer(c, "done")
    /\ UNCHANGED images

\* Mutant: the amount is checked alone, not with what was already paid.
AcceptsAmountAlone(kind, row, dto) ==
    CASE kind = "update" -> dto = 0 \/ dto >= row.paid
      [] kind = "pay"    -> row.state = "active" /\ dto <= row.total
      [] kind = "copy"   -> row.state = "active" /\ row.paid <= row.total
      [] OTHER           -> TRUE

\* What each operation asks of the row it read.  dto is the new total of an update
\* (0: none sent) or the amount of a payment.
Accepts(kind, row, dto) ==
    CASE kind = "update" -> (IF dto = 0 THEN row.total ELSE dto) >= row.paid
      [] kind = "pay"    -> row.state = "active" /\ row.paid + dto <= row.total
      [] kind = "copy"   -> row.state = "active" /\ row.paid <= row.total
      [] OTHER           -> TRUE

\* The expense, deleted or not, and its payments are read, and the call is decided on them.
OpenExpenseCall(c, x, kind, dto) ==
    /\ Admitted(expenseCall, c)
    /\ expense[x].state # "none"
    /\ Accepts(kind, expense[x], dto)
    /\ expenseCall' = [expenseCall EXCEPT ![c] =
          [pc |-> kind, expense |-> x, total |-> expense[x].total, paid |-> expense[x].paid,
           receipt |-> IF kind = "upload" THEN expense[x].receipt ELSE None, dto |-> dto]]
    /\ UNCHANGED <<expense, images>>

\* Not found, deleted, more paid than the total.
RefuseExpenseCall(c, x, kind, dto) ==
    /\ Admitted(expenseCall, c)
    /\ expense[x].state = "none" \/ ~Accepts(kind, expense[x], dto)
    /\ Answer(c, "refused")
    /\ UNCHANGED <<expense, images>>

\* The total, if one was sent, and the status that follows from the payments read.
UpdateExpense(c) ==
    LET call  == expenseCall[c]
        total == IF call.dto = 0 THEN call.total ELSE call.dto
    IN  /\ call.pc = "update"
        /\ expense' = [expense EXCEPT ![call.expense] = [expense[call.expense] EXCEPT
              !.total = IF call.dto = 0 THEN @ ELSE total,
              !.status = DerivedStatus(total, call.paid)]]
        /\ Answer(c, "done")
        /\ UNCHANGED images

\* The payment, and the status that follows from the payments read and this one.
AddPayment(c) ==
    LET call == expenseCall[c] IN
    /\ call.pc = "pay"
    /\ expense' = [expense EXCEPT ![call.expense] = [expense[call.expense] EXCEPT
          !.paid = @ + call.dto,
          !.status = DerivedStatus(call.total, call.paid + call.dto)]]
    /\ Answer(c, "done")
    /\ UNCHANGED images

\* A new expense with the total and the payments that were read, and no receipt.
Duplicate(c, y) ==
    LET call == expenseCall[c] IN
    /\ call.pc = "copy"
    /\ expense[y].state = "none"
    /\ expense' = [expense EXCEPT ![y] = NewExpense(call.total, call.paid)]
    /\ Answer(c, "done")
    /\ UNCHANGED images

RemoveExpense(c) ==
    /\ expenseCall[c].pc = "remove"
    /\ expense' = [expense EXCEPT ![expenseCall[c].expense].state = "deleted"]
    /\ Answer(c, "done")
    /\ UNCHANGED images

-----------------------------------------------------------------------------
(* uploadReceipt: three steps outside the database before its transaction *)

UploadReceipt(c) ==
    /\ expenseCall[c].pc = "upload"
    /\ images' = images \cup {c}
    /\ Answer(c, IF expenseCall[c].receipt = None THEN "link" ELSE "replace")
    /\ UNCHANGED expense

\* Mutant: whatever receipt the expense has by now is deleted.
DeletedReceiptNow(c) == expense[expenseCall[c].expense].receipt

\* The image to delete: that of the row as it was read.
DeletedReceipt(c) == expenseCall[c].receipt

\* The old image is deleted; a failure of the file store is logged and ignored.
DeleteOldReceipt(c) ==
    /\ expenseCall[c].pc = "replace"
    /\ images' \in {images \ {DeletedReceipt(c)}, images}
    /\ Answer(c, "link")
    /\ UNCHANGED expense

LinkReceipt(c) ==
    /\ expenseCall[c].pc = "link"
    /\ expense' = [expense EXCEPT ![expenseCall[c].expense].receipt = c]
    /\ Answer(c, "done")
    /\ UNCHANGED images

\* A failed upload, a lost connection, a crash: what was done outside the database stays.
StopExpenseCall(c) ==
    /\ c \in InService(expenseCall)
    /\ Answer(c, "refused")
    /\ UNCHANGED <<expense, images>>

ExpensesNext ==
    \E c \in Calls :
        \/ \E x \in Expenses :
              \/ CreateExpense(c, x)
              \/ \E dto \in 0..MaxTotal :
                    \/ OpenExpenseCall(c, x, "update", dto)
                    \/ RefuseExpenseCall(c, x, "update", dto)
              \/ \E dto \in Amount :
                    \/ OpenExpenseCall(c, x, "pay", dto)
                    \/ RefuseExpenseCall(c, x, "pay", dto)
              \/ \E kind \in {"copy", "remove", "upload"} :
                    \/ OpenExpenseCall(c, x, kind, 0)
                    \/ RefuseExpenseCall(c, x, kind, 0)
              \/ Duplicate(c, x)
        \/ UpdateExpense(c)
        \/ AddPayment(c)
        \/ RemoveExpense(c)
        \/ UploadReceipt(c)
        \/ DeleteOldReceipt(c)
        \/ LinkReceipt(c)
        \/ StopExpenseCall(c)

ExpensesSpec ==
    (DeskInit /\ ExpensesInit)
        /\ [][ExpensesNext /\ UNCHANGED serving]_<<serving, expensesVars>>

-----------------------------------------------------------------------------
(* Properties *)

\* One call at a time, payments stay within the total and the stored status is
\* the one they imply, whatever sequence of payments, new totals, copies,
\* deletions and failures led there.  (Two payments at once break both halves.)
StatusTellsPayments ==
    serving = 1 =>
        \A x \in Expenses : expense[x].state # "none" =>
            /\ expense[x].paid \in 1..expense[x].total
            /\ expense[x].status = "PAID" <=> expense[x].paid = expense[x].total

\* A receipt an expense points to is in the file store, unless an upload that read
\* it has deleted it and not, or never, stored its own link: uploads that race
\* each other leave images nobody points to, but no other dangling link.
DanglingReceiptsAreOwed ==
    \A x \in Expenses :
        LET receipt == expense[x].receipt IN
        receipt \notin images \cup {None} =>
            \E c \in Calls : /\ expenseCall[c].expense = x /\ expenseCall[c].receipt = receipt
                             /\ expenseCall[c].pc \in {"link", "refused"}
=============================================================================
