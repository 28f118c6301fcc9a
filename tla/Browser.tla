------------------------------- MODULE Browser -------------------------------
(***************************************************************************)
(* The pages that keep a state of their own against the server: the        *)
(* session shared by the tabs, the import that is polled, the till.  They  *)
(* share no state, and a behaviour here is about one of them, the part at  *)
(* work, as in Office.                                                     *)
(***************************************************************************)
EXTENDS Sessions, ImportJobs, Counter

VARIABLE
    part            \* what this behaviour is about

browserVars == <<serving, part, sessionsVars, importsVars, counterVars>>

BrowserInit ==
    /\ part \in {"sessions", "imports", "counter"}
    /\ DeskInit
    /\ SessionsInit
    /\ part # "sessions" => chosen = FirstOrg /\ \A t \in Tabs : tab[t].page = "closed"
    /\ ImportsInit
    /\ CounterInit
    /\ part # "counter" => \A p \in Products : shelf[p] = [price |-> Upper, stock |-> 0, active |-> TRUE]

BrowserNext ==
    \/ /\ part = "sessions" /\ SessionsNext
       /\ UNCHANGED <<serving, part, importsVars, counterVars>>
    \/ /\ part = "imports" /\ ImportsNext
       /\ UNCHANGED <<serving, part, sessionsVars, counterVars>>
    \/ /\ part = "counter" /\ CounterNext
       /\ UNCHANGED <<serving, part, sessionsVars, importsVars>>

BrowserSpec == BrowserInit /\ [][BrowserNext]_browserVars

\* What goes on by itself: the server answers what it was asked, a tab whose requests
\* wait asks for a token and sends them again, an import that is running runs on, and the
\* page's timer fires.  Nothing is assumed of the user, of time or of other users.
BrowserWork ==
    \/ /\ part = "sessions" /\ SessionsWork
       /\ UNCHANGED <<serving, part, importsVars, counterVars>>
    \/ /\ part = "imports" /\ (ImportsWork \/ Poll)
       /\ UNCHANGED <<serving, part, sessionsVars, counterVars>>

FairBrowserSpec == BrowserSpec /\ WF_browserVars(BrowserWork)

-----------------------------------------------------------------------------
\* Every page's variables hold what its code may put there: no cookie without its row,
\* no line beyond the stock there can be, no count of an import out of range.
BrowserTypeOK ==
    /\ serving \in 1..MaxServing
    /\ SessionsTypeOK
    /\ ImportsTypeOK
    /\ CounterTypeOK
=============================================================================
