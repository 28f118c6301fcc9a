------------------------------ MODULE Numbering ------------------------------
(***************************************************************************)
(* SequenceService over the years: the OrganizationSequence rows of an     *)
(* organization, one per type and year, the sales and purchase orders that *)
(* take their numbers from them, and SettingsService.updateSalePrefix,     *)
(* which may create a row.  A sale or order takes its number inside its    *)
(* own transaction, so that it has one or never happened.                  *)
(***************************************************************************)
EXTENDS Desk

CONSTANTS
    MaxYear,        \* bound: years after the organization is created
    MaxNumber       \* bound: numbers of a type

ASSUME NumberingAssumption == MaxYear \in Nat /\ MaxNumber \in Nat

VARIABLES
    year,           \* the current year, from the organization's first
    sequence,       \* currentNumber of each (type, year), -1 where there is no row
    issued,         \* the number and year of every committed sale and order, by type
    numberingCall   \* local state of the calls that set a prefix

numberingVars == <<year, sequence, issued, numberingCall>>

Type == {"SALE", "PO"}

Years == 0..MaxYear

Document == [number: 1..(MaxNumber + 1), year: Years]

NumberingTypeOK ==
    /\ year \in Years
    /\ sequence \in [Type -> [Years -> -1..(MaxNumber + 1)]]
    /\ issued \in [Type -> SUBSET Document]
    /\ numberingCall \in [Calls -> [pc: {"idle", "create", "done", "refused"}]]

\* createOrganization makes the rows of its year; organizations from before it have none.
NumberingInit ==
    /\ year = 0
    /\ sequence \in {[t \in Type |-> [y \in Years |-> IF y = 0 THEN first ELSE -1]] : first \in {-1, 0}}
    /\ issued = [t \in Type |-> {}]
    /\ numberingCall = [c \in Calls |-> [pc |-> "idle"]]

NumbersOf(t) == {document.number : document \in issued[t]}

-----------------------------------------------------------------------------
\* nextNumber locks and increments the row of the current year; with no such row
\* it throws and the sale fails.  The number must be new for the organization.
IssueNumber(t) ==
    LET next == sequence[t][year] + 1 IN
    /\ sequence[t][year] \in 0..(MaxNumber - 1)
    /\ next \notin NumbersOf(t)
    /\ sequence' = [sequence EXCEPT ![t][year] = next]
    /\ issued' = [issued EXCEPT ![t] = @ \cup {[number |-> next, year |-> year]}]
    /\ UNCHANGED <<year, numberingCall>>

\* Mutant: the row to set the prefix of is looked for in the current year only.
HasSaleRowThisYear == sequence["SALE"][year] >= 0

\* updateSalePrefix looks for the SALE row of the latest year.
HasSaleRow == \E y \in Years : sequence["SALE"][y] >= 0

\* There is one: its prefix is set, its numbers stay.  There is none: one is made.
OpenSetPrefix(c) ==
    /\ Admitted(numberingCall, c)
    /\ numberingCall' = [numberingCall EXCEPT ![c].pc = IF HasSaleRow THEN "done" ELSE "create"]
    /\ UNCHANGED <<year, sequence, issued>>

\* The insertion, which the unique (organization, type, year) may refuse.
CreateSaleRow(c) ==
    /\ numberingCall[c].pc = "create"
    /\ IF sequence["SALE"][year] < 0
       THEN sequence' = [sequence EXCEPT !["SALE"][year] = 0]
       ELSE UNCHANGED sequence
    /\ numberingCall' = [numberingCall EXCEPT ![c].pc =
          IF sequence["SALE"][year] < 0 THEN "done" ELSE "refused"]
    /\ UNCHANGED <<year, issued>>

NewYear ==
    /\ year < MaxYear
    /\ year' = year + 1
    /\ UNCHANGED <<sequence, issued, numberingCall>>

NumberingNext ==
    \/ \E t \in Type : IssueNumber(t)
    \/ \E c \in Calls : OpenSetPrefix(c) \/ CreateSaleRow(c)
    \/ NewYear

NumberingSpec ==
    (DeskInit /\ NumberingInit)
        /\ [][NumberingNext /\ UNCHANGED serving]_<<serving, numberingVars>>

-----------------------------------------------------------------------------
(* Properties *)

\* A sequence that exists can be drawn from, whatever calls interleave: the number
\* the row of a year gives next is not that of an earlier document of any year, so
\* that no sale or order is refused by the unique number of its organization.  (The
\* numbers do not restart in January: nothing makes the rows of a new year.)  The one
\* exception is an organization with SALE rows of two years, which two prefix changes
\* make when they both found none and insert on both sides of a new year.
NextNumberIsFree ==
    \A t \in Type, y \in Years : sequence[t][y] >= 0 =>
        \/ sequence[t][y] + 1 \notin NumbersOf(t)
        \/ /\ serving > 1 /\ t = "SALE"
           /\ \E z \in Years \ {y} : sequence[t][z] >= 0
=============================================================================
