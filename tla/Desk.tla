--------------------------------- MODULE Desk ---------------------------------
(***************************************************************************)
(* What the back-office services share: calls.  A call is one HTTP request *)
(* to one service; it is taken up, runs its statements with those of other *)
(* calls in between, and is answered.  The statements of these services    *)
(* run at READ COMMITTED; a $transaction whose statements read nothing and *)
(* write rows by id takes effect in one step, its commit.                  *)
(***************************************************************************)
EXTENDS Integers, Sequences, FiniteSets

CONSTANTS
    Calls,          \* the calls a behaviour may make
    None,           \* no row
    MaxServing,     \* bound: calls served at once
    TTL             \* how long the server's memory keeps a value, in ticks (the code: a
                    \* minute for a count, five for a report)

ASSUME DeskAssumption ==
    /\ IsFiniteSet(Calls)
    /\ MaxServing \in Nat \ {0}
    /\ TTL \in Nat \ {0}

VARIABLE
    serving         \* how many calls are served at once, fixed for a behaviour; 1 is
                    \* the service as its tests see it, one call after the other

Answered == {"done", "refused"}

DeskInit == serving \in 1..MaxServing

\* Calls of a service that are neither waiting to be made nor answered.
InService(call) == {c \in Calls : call[c].pc \notin Answered \cup {"idle"}}

\* c may be made now.
Admitted(call, c) == call[c].pc = "idle" /\ Cardinality(InService(call)) < serving
=============================================================================
