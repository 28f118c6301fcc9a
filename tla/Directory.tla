------------------------------ MODULE Directory ------------------------------
(***************************************************************************)
(* CategoriesService, CustomersService and SuppliersService: rows with a   *)
(* key that is unique in the organization, removed by clearing a flag, and *)
(* referred to by products, sales and purchase orders.  The three differ   *)
(* in what a removal and a reference ask; a behaviour is about one of      *)
(* them, its kind.  Imports resolve categories by name, with a cache of    *)
(* their own.  The key of a category is a name as it is spelled; accents,  *)
(* which the caches fold and the table does not, are left out.             *)
(***************************************************************************)
EXTENDS Desk

CONSTANTS
    Entries,        \* rows
    Labels,          \* names, or document numbers
    Refs            \* products, sales or purchase orders, as the kind has it

VARIABLES
    kind,           \* which service this behaviour is about
    entry,          \* its rows
    ref,            \* what refers to them
    dirCall         \* local state of the calls

directoryVars == <<kind, entry, ref, dirCall>>

Kinds == {"category", "customer", "supplier"}

\* As a title, in other letters, with other spaces.
Styles == {"title", "upper", "spaced"}

Key == [name: Labels, style: Styles]

KeysOf == IF kind = "category" THEN Key ELSE {k \in Key : k.style = "title"}

\* active is set; or it is not, by a removal or by an edit.
States == {"live", "removed", "hidden"}

\* imported: an import made the row and nobody has renamed it since.
EntryRow == [state: {"none"} \cup States, key: Key \cup {None}, imported: BOOLEAN]

\* unseen: nobody made sure that the row is active when the reference was made.
Reference == [to: Entries \cup {None}, unseen: BOOLEAN]

\* A category as an import keeps it.
Cached == [of: Entries \cup {None}, active: BOOLEAN]

Uncached == [of |-> None, active |-> FALSE]

DirectoryCall ==
    [pc: {"idle", "insert", "edit", "flag", "refer", "amend",
          "rows", "revive", "make", "fallback", "product", "done", "refused"},
     entry: Entries \cup {None}, ref: Refs \cup {None}, key: Key \cup {None},
     state: States \cup {None}, unseen: BOOLEAN, cache: [Labels -> Cached]]

IdleDirectoryCall ==
    [pc |-> "idle", entry |-> None, ref |-> None, key |-> None, state |-> None, unseen |-> FALSE,
     cache |-> [n \in Labels |-> Uncached]]

DirectoryTypeOK ==
    /\ kind \in Kinds
    /\ entry \in [Entries -> EntryRow]
    /\ ref \in [Refs -> Reference]
    /\ dirCall \in [Calls -> DirectoryCall]

DirectoryInit ==
    /\ kind \in Kinds
    /\ entry = [e \in Entries |-> [state |-> "none", key |-> None, imported |-> FALSE]]
    /\ ref = [r \in Refs |-> [to |-> None, unseen |-> FALSE]]
    /\ dirCall = [c \in Calls |-> IdleDirectoryCall]

-----------------------------------------------------------------------------
Listed == {e \in Entries : entry[e].state # "none"}

Active(e) == entry[e].state = "live"

\* The unique index, and the findFirst of the services: removed rows count.
KeyTaken(k) == \E e \in Listed : entry[e].key = k

\* mode: 'insensitive'.
SameLetters(j, k) == j.name = k.name /\ (j.style = "spaced" <=> k.style = "spaced")

Matching(k) == {e \in Listed : SameLetters(entry[e].key, k)}

\* toTitleCase.
Titled(k) == [k EXCEPT !.style = "title"]

InUse(e) == \E r \in Refs : ref[r].to = e

DirFinish(c, answer) ==
    dirCall' = [dirCall EXCEPT ![c] = [IdleDirectoryCall EXCEPT !.pc = answer]]

DirOpen(c, pc, e, k, state) ==
    dirCall' = [dirCall EXCEPT ![c] = [IdleDirectoryCall EXCEPT
        !.pc = pc, !.entry = e, !.key = k, !.state = state]]

\* A call that finds no row, or a key that is taken, or fails.
RefuseDirectoryCall(c) ==
    /\ c \in InService(dirCall)
    /\ DirFinish(c, "refused")
    /\ UNCHANGED <<kind, entry, ref>>

-----------------------------------------------------------------------------
(* The services *)

\* A supplier may be created inactive.
CheckKey(c, k, state) ==
    /\ Admitted(dirCall, c)
    /\ ~KeyTaken(k)
    /\ state \in (IF kind = "supplier" THEN {"live", "hidden"} ELSE {"live"})
    /\ DirOpen(c, "insert", None, k, state)
    /\ UNCHANGED <<kind, entry, ref>>

InsertEntry(c, e) ==
    /\ dirCall[c].pc = "insert"
    /\ entry[e].state = "none"
    /\ ~KeyTaken(dirCall[c].key)
    /\ entry' = [entry EXCEPT ![e] =
          [state |-> dirCall[c].state, key |-> dirCall[c].key, imported |-> FALSE]]
    /\ DirFinish(c, "done")
    /\ UNCHANGED <<kind, ref>>

\* update, of the key, of the flag or of both: a removed supplier can be edited, the others
\* cannot.  None is a field the payload has not.
OpenEditEntry(c, e, k, state) ==
    /\ Admitted(dirCall, c)
    /\ e \in Listed /\ (Active(e) \/ kind = "supplier")
    /\ k # None => ~KeyTaken(k)
    /\ state # "removed"
    /\ DirOpen(c, "edit", e, k, state)
    /\ UNCHANGED <<kind, entry, ref>>

\* Nobody asks whether a row that an edit deactivates is in use.
EditEntry(c) ==
    LET call == dirCall[c] IN
    /\ call.pc = "edit"
    /\ call.key # None => ~KeyTaken(call.key)
    /\ entry' = [entry EXCEPT ![call.entry] =
          [state    |-> IF call.state = None THEN @.state ELSE call.state,
           key      |-> IF call.key = None THEN @.key ELSE call.key,
           imported |-> @.imported /\ call.key = None]]
    /\ DirFinish(c, "done")
    /\ UNCHANGED <<kind, ref>>

\* Mutant: a row in use may be removed.
RemovableAlways(e) == e \in Listed

\* remove: a supplier may be in use.
Removable(e) == e \in Listed /\ (kind = "supplier" \/ ~InUse(e))

OpenRemove(c, e) ==
    /\ Admitted(dirCall, c)
    /\ Removable(e)
    /\ DirOpen(c, "flag", e, None, "removed")
    /\ UNCHANGED <<kind, entry, ref>>

\* SuppliersService.reactivate; no other service has it.
OpenReactivate(c, e) ==
    /\ Admitted(dirCall, c)
    /\ kind = "supplier"
    /\ e \in Listed
    /\ DirOpen(c, "flag", e, None, "live")
    /\ UNCHANGED <<kind, entry, ref>>

\* The flag is stored by the row's id alone.
SetActive(c) ==
    /\ dirCall[c].pc = "flag"
    /\ entry' = [entry EXCEPT ![dirCall[c].entry].state = dirCall[c].state]
    /\ DirFinish(c, "done")
    /\ UNCHANGED <<kind, ref>>

\* A sale names a customer, a product its category, maybe another one than before, an
\* order its supplier: only the order looks at the flag.
OpenRefer(c, r, e) ==
    /\ Admitted(dirCall, c)
    /\ e \in Listed /\ (kind = "supplier" => Active(e))
    /\ kind = "customer" => ref[r].to = None
    /\ dirCall' = [dirCall EXCEPT ![c] = [IdleDirectoryCall EXCEPT
          !.pc = IF ref[r].to = None THEN "refer" ELSE "amend",
          !.entry = e, !.ref = r, !.unseen = ~Active(e)]]
    /\ UNCHANGED <<kind, entry, ref>>

\* What was new is inserted; what was there is still there.
Refer(c) ==
    /\ dirCall[c].pc \in {"refer", "amend"}
    /\ dirCall[c].pc = "refer" <=> ref[dirCall[c].ref].to = None
    /\ ref' = [ref EXCEPT ![dirCall[c].ref] =
          [to |-> dirCall[c].entry, unseen |-> dirCall[c].unseen]]
    /\ DirFinish(c, "done")
    /\ UNCHANGED <<kind, entry>>

\* ProductsService.remove: a removed product is in no category's count.
DropProduct(c, r) ==
    /\ Admitted(dirCall, c)
    /\ kind = "category"
    /\ ref[r].to # None
    /\ ref' = [ref EXCEPT ![r] = [to |-> None, unseen |-> FALSE]]
    /\ DirFinish(c, "done")
    /\ UNCHANGED <<kind, entry>>

-----------------------------------------------------------------------------
(* resolveCategory of the two imports *)

\* ImportsService loads every category into its cache, ProductHandler starts with none.
StartImport(c, loaded) ==
    /\ Admitted(dirCall, c)
    /\ kind = "category"
    /\ \E cache \in [Labels -> Cached] :
          /\ \A n \in Labels :
                LET found == {e \in Listed : loaded /\ entry[e].key.name = n} IN
                \/ found = {} /\ cache[n] = Uncached
                \/ cache[n].of \in found /\ cache[n].active = Active(cache[n].of)
          /\ dirCall' = [dirCall EXCEPT ![c] = [IdleDirectoryCall EXCEPT
                !.pc = "rows", !.cache = cache]]
    /\ UNCHANGED <<kind, entry, ref>>

\* A row's category is resolved to e, which is remembered as it was seen.
Resolved(c, k, e, seen) ==
    dirCall' = [dirCall EXCEPT ![c] = [@ EXCEPT
        !.pc = "product", !.key = k, !.entry = e, !.unseen = ~seen,
        !.cache[k.name] = [of |-> e, active |-> seen]]]

\* It is used, or first made active again.
Found(c, k, e, active) ==
    \/ active /\ Resolved(c, k, e, TRUE)
    \/ ~active /\ dirCall' = [dirCall EXCEPT ![c] = [@ EXCEPT
          !.pc = "revive", !.key = k, !.entry = e]]

\* The next row: its category is in the cache, ...
FindCached(c, k) ==
    LET cached == dirCall[c].cache[k.name] IN
    /\ dirCall[c].pc = "rows"
    /\ cached.of # None
    /\ Found(c, k, cached.of, cached.active)
    /\ UNCHANGED <<kind, entry, ref>>

\* ... or in the table, ...
FindCategory(c, k, e) ==
    /\ dirCall[c].pc = "rows"
    /\ dirCall[c].cache[k.name].of = None
    /\ e \in Matching(k)
    /\ Found(c, k, e, Active(e))
    /\ UNCHANGED <<kind, entry, ref>>

\* ... or nowhere.
FindNoCategory(c, k) ==
    /\ dirCall[c].pc = "rows"
    /\ dirCall[c].cache[k.name].of = None
    /\ Matching(k) = {}
    /\ dirCall' = [dirCall EXCEPT ![c] = [@ EXCEPT !.pc = "make", !.key = k]]
    /\ UNCHANGED <<kind, entry, ref>>

\* A removed category comes back.
ReviveCategory(c) ==
    LET e == dirCall[c].entry IN
    /\ dirCall[c].pc = "revive"
    /\ entry' = [entry EXCEPT ![e].state = "live"]
    /\ Resolved(c, dirCall[c].key, e, TRUE)
    /\ UNCHANGED <<kind, ref>>

MakeCategory(c, e) ==
    LET k == Titled(dirCall[c].key) IN
    /\ dirCall[c].pc = "make"
    /\ entry[e].state = "none"
    /\ ~KeyTaken(k)
    /\ entry' = [entry EXCEPT ![e] = [state |-> "live", key |-> k, imported |-> TRUE]]
    /\ Resolved(c, dirCall[c].key, e, TRUE)
    /\ UNCHANGED <<kind, ref>>

\* P2002: somebody has made it, or it is there in another spelling.
LoseCategory(c) ==
    /\ dirCall[c].pc = "make"
    /\ KeyTaken(Titled(dirCall[c].key))
    /\ dirCall' = [dirCall EXCEPT ![c].pc = "fallback"]
    /\ UNCHANGED <<kind, entry, ref>>

\* The category that won is used, removed or not.
FallBack(c, e) ==
    /\ dirCall[c].pc = "fallback"
    /\ e \in Matching(Titled(dirCall[c].key))
    /\ Resolved(c, dirCall[c].key, e, Active(e))
    /\ UNCHANGED <<kind, entry, ref>>

\* ProductsService.create.
ImportProduct(c, r) ==
    /\ dirCall[c].pc = "product"
    /\ ref[r].to = None
    /\ ref' = [ref EXCEPT ![r] = [to |-> dirCall[c].entry, unseen |-> dirCall[c].unseen]]
    /\ dirCall' = [dirCall EXCEPT ![c] = [IdleDirectoryCall EXCEPT
          !.pc = "rows", !.cache = dirCall[c].cache]]
    /\ UNCHANGED <<kind, entry>>

\* A statement fails or the product is refused: the import goes on.
SkipRow(c) ==
    /\ dirCall[c].pc \in {"revive", "make", "fallback", "product"}
    /\ dirCall' = [dirCall EXCEPT ![c] = [IdleDirectoryCall EXCEPT
          !.pc = "rows", !.cache = dirCall[c].cache]]
    /\ UNCHANGED <<kind, entry, ref>>

-----------------------------------------------------------------------------
DirectoryNext ==
    \E c \in Calls :
       \/ \E state \in States :
             \/ \E k \in KeysOf : CheckKey(c, k, state)
             \/ \E e \in Entries : OpenEditEntry(c, e, None, state)
       \/ \E k \in KeysOf, e \in Entries, state \in States \cup {None} :
             OpenEditEntry(c, e, k, state)
       \/ \E e \in Entries :
             \/ InsertEntry(c, e) \/ OpenRemove(c, e) \/ OpenReactivate(c, e)
             \/ \E r \in Refs : OpenRefer(c, r, e)
             \/ MakeCategory(c, e) \/ FallBack(c, e)
       \/ EditEntry(c) \/ SetActive(c) \/ Refer(c) \/ RefuseDirectoryCall(c)
       \/ \E loaded \in BOOLEAN : StartImport(c, loaded)
       \/ \E k \in Key : \/ FindCached(c, k) \/ FindNoCategory(c, k)
                         \/ \E e \in Entries : FindCategory(c, k, e)
       \/ ReviveCategory(c) \/ LoseCategory(c) \/ SkipRow(c)
       \/ \E r \in Refs : DropProduct(c, r) \/ ImportProduct(c, r)

DirectorySpec ==
    (DeskInit /\ DirectoryInit)
        /\ [][DirectoryNext /\ UNCHANGED serving]_<<serving, directoryVars>>

-----------------------------------------------------------------------------
(* Properties *)

\* However many imports run, and whatever runs beside them, they make one category of a
\* name, since all of them spell it alike and the index refuses the second.
ImportsMakeOneCategory ==
    \A d, e \in Entries :
        entry[d].imported /\ entry[e].imported /\ entry[d].key.name = entry[e].key.name => d = e

\* 'Cannot delete category with associated products': one call at a time, what is removed
\* is not in use.  An edit that deactivates a row asks no such thing; and a removed row can
\* be given to a sale or a product, which only an order refuses, or by an import that falls
\* back on one without making it active again.
RemovedRowsAreNotInUse ==
    serving = 1 /\ kind # "supplier" =>
        \A r \in Refs : ref[r].to # None /\ ~ref[r].unseen => entry[ref[r].to].state # "removed"

DirectoryKeepsWhatIsUsed == ImportsMakeOneCategory /\ RemovedRowsAreNotInUse
=============================================================================
