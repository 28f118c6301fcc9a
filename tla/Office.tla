-------------------------------- MODULE Office --------------------------------
(***************************************************************************)
(* The back office: the services beside the store.  They share the desk    *)
(* their calls come to and no state, so that a behaviour of the office is  *)
(* one of each, and what one promises is not touched by the others'        *)
(* steps.  A behaviour here is therefore about one of them, the part at    *)
(* work; the others stay as they start.                                    *)
(***************************************************************************)
EXTENDS Tasks, Expenses, CashRegisters, Members, Organization, Dashboard, Numbering,
        Reports, Directory

VARIABLE
    part            \* the service this behaviour is about

officeVars ==
    <<serving, part, tasksVars, expensesVars, registersVars, membersVars,
      organizationVars, dashboardVars, numberingVars, ledgerVars, directoryVars>>

Parts ==
    {"tasks", "expenses", "registers", "members", "organization", "dashboard",
     "numbering", "ledger", "directory"}

Somebody == CHOOSE u \in Users : TRUE

\* A service that is not at work starts in one of its initial states, the registers with
\* no row.
OfficeInit ==
    /\ part \in Parts
    /\ DeskInit
    /\ TasksInit
    /\ ExpensesInit /\ (part # "expenses" => \A x \in Expenses : expense[x] = NoExpense)
    /\ IF part = "registers" THEN RegistersInit
       ELSE register = [r \in Registers |-> NoRegister] /\ IdleRegisterCalls
    /\ MembersInit /\ (part # "members" => \A o \in Orgs : Belongs(Somebody, o))
    /\ OrganizationInit /\ (part # "organization" => plan = "BASIC")
    /\ DashboardInit
    /\ NumberingInit /\ (part # "numbering" => HasSaleRow)
    /\ LedgerInit
    /\ DirectoryInit /\ (part # "directory" => kind = "category")

OfficeNext ==
    \/ /\ part = "tasks" /\ TasksNext
       /\ UNCHANGED <<serving, part, expensesVars, registersVars, membersVars,
                      organizationVars, dashboardVars, numberingVars, ledgerVars,
                      directoryVars>>
    \/ /\ part = "expenses" /\ ExpensesNext
       /\ UNCHANGED <<serving, part, tasksVars, registersVars, membersVars,
                      organizationVars, dashboardVars, numberingVars, ledgerVars,
                      directoryVars>>
    \/ /\ part = "registers" /\ RegistersNext
       /\ UNCHANGED <<serving, part, tasksVars, expensesVars, membersVars,
                      organizationVars, dashboardVars, numberingVars, ledgerVars,
                      directoryVars>>
    \/ /\ part = "members" /\ MembersNext
       /\ UNCHANGED <<serving, part, tasksVars, expensesVars, registersVars,
                      organizationVars, dashboardVars, numberingVars, ledgerVars,
                      directoryVars>>
    \/ /\ part = "organization" /\ OrganizationNext
       /\ UNCHANGED <<serving, part, tasksVars, expensesVars, registersVars, membersVars,
                      dashboardVars, numberingVars, ledgerVars, directoryVars>>
    \/ /\ part = "dashboard" /\ DashboardNext
       /\ UNCHANGED <<serving, part, tasksVars, expensesVars, registersVars, membersVars,
                      organizationVars, numberingVars, ledgerVars, directoryVars>>
    \/ /\ part = "numbering" /\ NumberingNext
       /\ UNCHANGED <<serving, part, tasksVars, expensesVars, registersVars, membersVars,
                      organizationVars, dashboardVars, ledgerVars, directoryVars>>
    \/ /\ part = "ledger" /\ LedgerNext
       /\ UNCHANGED <<serving, part, tasksVars, expensesVars, registersVars, membersVars,
                      organizationVars, dashboardVars, numberingVars, directoryVars>>
    \/ /\ part = "directory" /\ DirectoryNext
       /\ UNCHANGED <<serving, part, tasksVars, expensesVars, registersVars, membersVars,
                      organizationVars, dashboardVars, numberingVars, ledgerVars>>

OfficeSpec == OfficeInit /\ [][OfficeNext]_officeVars

-----------------------------------------------------------------------------
\* Every service's variables hold what its rows and calls may hold: no read of a row
\* that is gone, no status, count or time out of range.
OfficeTypeOK ==
    /\ part \in Parts
    /\ serving \in 1..MaxServing
    /\ TasksTypeOK
    /\ ExpensesTypeOK
    /\ RegistersTypeOK
    /\ MembersTypeOK
    /\ OrganizationTypeOK
    /\ DashboardTypeOK
    /\ NumberingTypeOK
    /\ LedgerTypeOK
    /\ DirectoryTypeOK
=============================================================================
