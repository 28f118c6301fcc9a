------------------------------ MODULE ImportJobs ------------------------------
(***************************************************************************)
(* One import of a spreadsheet: ImportsService (a file of products) or     *)
(* MultiSheetImportService (a workbook), the retries of its failed rows,   *)
(* and the page that polls it (useImport).                                 *)
(*                                                                         *)
(* The job lives in the server's memory and is worked on after its start   *)
(* was answered.  A row is what its checks tell apart: it is empty, it is  *)
(* bad, or it names a key (the sku of a product, the document of a         *)
(* customer) that the sheet's table may hold once.  A workbook stands for  *)
(* its products and its customers: suppliers and users are imported like   *)
(* customers.  Barcodes are checked like skus and categories are created   *)
(* on the way; both are left out.                                          *)
(***************************************************************************)
EXTENDS Desk

CONSTANTS
    Codes,          \* the keys rows name
    MaxRows         \* bound: rows of a file

ASSUME ImportsAssumption == MaxRows \in Nat \ {0} /\ None \notin Codes /\ None \notin Nat

VARIABLES
    job,            \* the job
    made,           \* per sheet and key, who created the record: a row, someone else, or None
    lost,           \* the records whose creation was answered with an error
    page,           \* the status the page shows
    retryCall       \* the retries in flight; an answered one may be made again

importsVars == <<job, made, lost, page, retryCall>>

SheetOrder == <<"productos", "clientes">>

Sheets == {"productos", "clientes"}

FileRow == [sheet : Sheets, form : {"empty", "bad", "good"}, code : Codes \cup {None}]

\* A row has a key when it parses.
ProductRows ==
    {r \in FileRow : r.sheet = "productos" /\ ((r.form = "good") <=> (r.code # None))}

\* The rows of a workbook, empty ones left out as it is parsed, go sheet by sheet.
SheetRows(sheet) ==
    {r \in FileRow : r.sheet = sheet /\ r.form # "empty" /\ ((r.form = "good") <=> (r.code # None))}

Files(kind) ==
    IF kind = "products"
    THEN UNION {[1..n -> ProductRows] : n \in 1..MaxRows}
    ELSE {f \in UNION {[1..n -> SheetRows("productos") \cup SheetRows("clientes")] : n \in 1..MaxRows} :
             \A i, j \in DOMAIN f : i < j /\ f[i].sheet = "clientes" => f[j].sheet = "clientes"}

Entry == {"none", "pending", "resolved"}

NoJob ==
    [kind |-> "none", file |-> <<>>, status |-> "PARSING", kept |-> FALSE, pc |-> "none",
     sheet |-> None, row |-> 1, seen |-> {}, known |-> {}, entry |-> <<>>,
     imported |-> 0, skipped |-> 0, errors |-> 0, processed |-> 0]

ImportsTypeOK ==
    /\ job.kind \in {"none", "products", "full"}
    /\ job.file \in Seq(FileRow) /\ Len(job.file) <= MaxRows
    /\ job.status \in {"PARSING", "PROCESSING", "COMPLETED", "FAILED"}
    /\ job.pc \in {"none", "row", "create", "ended", "dead"}
    /\ job.row \in 1..Len(job.file) + 1
    /\ job.seen \subseteq Codes /\ job.known \subseteq Codes
    /\ job.entry \in Seq(Entry) /\ Len(job.entry) = Len(job.file)
    /\ job.imported \in Nat /\ job.skipped \in Nat /\ job.errors \in Nat
    /\ job.processed \in 0..Len(job.file)
    /\ made \in [Sheets -> [Codes -> 1..MaxRows \cup {0, None}]]
    /\ lost \subseteq Sheets \X Codes
    /\ page \in {"none", "loading", "stuck", "PROCESSING", "COMPLETED", "FAILED"}
    /\ retryCall \in [Calls -> [pc : {"idle", "check", "create"},
                                row : 0..MaxRows, code : Codes \cup {None}]]

NoRetry == [pc |-> "idle", row |-> 0, code |-> None]

ImportsInit ==
    /\ job = NoJob
    /\ made = [s \in Sheets |-> [k \in Codes |-> None]]
    /\ lost = {}
    /\ page = "none"
    /\ retryCall = [c \in Calls |-> NoRetry]

Someone == 0

Taken(sheet) == {k \in Codes : made[sheet][k] # None}

\* Another user adds a record of this key to the sheet's table (bound: one does).
SomeoneCreates(sheet, k) ==
    /\ sheet \in {job.file[i].sheet : i \in DOMAIN job.file}
    /\ made[sheet][k] = None
    /\ \A s \in Sheets, code \in Codes : made[s][code] # Someone
    /\ made' = [made EXCEPT ![sheet][k] = Someone]
    /\ UNCHANGED <<job, lost, page, retryCall>>

-----------------------------------------------------------------------------
\* The file is read, the job made and left to run, and its id answered: the page
\* starts to ask for it.  A file of products takes the skus there are along.  Bound:
\* where retries may cross, the file has one row.
StartImport(kind) ==
    /\ job.kind = "none"
    /\ \E file \in {f \in Files(kind) : serving > 1 => Len(f) = 1} :
          job' = [NoJob EXCEPT !.kind = kind, !.file = file, !.status = "PROCESSING", !.kept = TRUE,
                               !.pc = "row", !.entry = [i \in DOMAIN file |-> "none"],
                               !.sheet = IF kind = "products" THEN "productos" ELSE None,
                               !.known = IF kind = "products" THEN Taken("productos") ELSE {}]
    /\ page' = "loading"
    /\ UNCHANGED <<made, lost, retryCall>>

TheRow == job.file[job.row]

\* The job stands before a row of the sheet it has opened.
AtARow == job.pc = "row" /\ job.row <= Len(job.file) /\ TheRow.sheet = job.sheet

FirstAfter(sheet) == Cardinality({i \in DOMAIN job.file : job.file[i].sheet = sheet})

\* The next sheet of a workbook: rejected whole, for the caller's role, its columns or
\* the plan's limit; or opened with the keys its table holds; or the database fails.
OpenSheet ==
    /\ job.pc = "row" /\ job.row <= Len(job.file) /\ TheRow.sheet # job.sheet
    /\ \/ job' = [job EXCEPT !.sheet = TheRow.sheet, !.known = Taken(TheRow.sheet), !.seen = {}]
       \/ job' = [job EXCEPT !.row = job.row + FirstAfter(TheRow.sheet)]
       \/ job' = [job EXCEPT !.status = "FAILED", !.pc = "ended"]
    /\ UNCHANGED <<made, lost, page, retryCall>>

\* addError, addRowError: the row is counted, and listed so that it can be retried.
AddError(j) == [j EXCEPT !.errors = @ + 1, !.entry[j.row] = "pending"]

\* processedRows: a workbook counts a row before it awaits its creation, a file of
\* products when it has its outcome, in the same turn of the event loop.
CountedAhead(j) == IF j.kind = "full" /\ j.pc = "create" THEN 1 ELSE 0

EndRow(j) == [j EXCEPT !.processed = @ + 1 - CountedAhead(j), !.row = @ + 1, !.pc = "row"]

SkipRow ==
    /\ AtARow /\ TheRow.form = "empty"
    /\ job' = EndRow([job EXCEPT !.skipped = @ + 1])
    /\ UNCHANGED <<made, lost, page, retryCall>>

\* The row's key is in the file already, or was in the table when it was read.
Duplicate(k) == k \in job.seen \cup job.known

RefuseRow ==
    /\ AtARow
    /\ TheRow.form = "bad" \/ (TheRow.form = "good" /\ Duplicate(TheRow.code))
    /\ job' = EndRow(AddError(job))
    /\ UNCHANGED <<made, lost, page, retryCall>>

BeginRow ==
    /\ AtARow /\ TheRow.form = "good" /\ ~Duplicate(TheRow.code)
    /\ job' = [job EXCEPT !.seen = @ \cup {TheRow.code}, !.pc = "create",
                          !.processed = IF job.kind = "full" THEN @ + 1 ELSE @]
    /\ UNCHANGED <<made, lost, page, retryCall>>

\* A creation is refused (the key was taken meanwhile, or the database fails), or
\* made; and it may be made and answered with an error: what create does after the
\* insertion, the stock movement of a product, fails alone.
Outcomes(sheet, k) ==
    IF k \in Taken(sheet) THEN {"refused"} ELSE {"refused", "created", "lost"}

Create(sheet, k, i, outcome) ==
    /\ made' = IF outcome = "refused" THEN made ELSE [made EXCEPT ![sheet][k] = i]
    /\ lost' = IF outcome = "lost" THEN lost \cup {<<sheet, k>>} ELSE lost

FinishRow ==
    /\ job.pc = "create"
    /\ \E outcome \in Outcomes(job.sheet, TheRow.code) :
          /\ Create(job.sheet, TheRow.code, job.row, outcome)
          /\ job' = IF outcome = "created"
                    THEN EndRow([job EXCEPT !.imported = @ + 1, !.known = @ \cup {TheRow.code}])
                    ELSE EndRow(AddError(job))
    /\ UNCHANGED <<page, retryCall>>

CompleteImport ==
    /\ job.pc = "row" /\ job.row > Len(job.file)
    /\ job' = [job EXCEPT !.status = "COMPLETED", !.pc = "ended"]
    /\ UNCHANGED <<made, lost, page, retryCall>>

\* Every half hour after it ended, or started, a job is forgotten; one at work works on.
Cleanup ==
    /\ job.kept
    /\ job' = [job EXCEPT !.kept = FALSE]
    /\ UNCHANGED <<made, lost, page, retryCall>>

\* The server restarts: its jobs and the calls it was serving are gone.
Restart ==
    /\ job.kind # "none" /\ job.pc # "dead"
    /\ job' = [NoJob EXCEPT !.kind = job.kind, !.pc = "dead"]
    /\ retryCall' = [c \in Calls |-> NoRetry]
    /\ UNCHANGED <<made, lost, page>>

-----------------------------------------------------------------------------
\* Mutant: any listed error may be retried, resolved or not.
RetryableListed(i) ==
    /\ job.kept /\ job.entry[i] # "none"
    /\ job.kind = "products" \/ job.file[i].sheet # "productos"

\* The job is remembered and the row listed as an error that is pending.  The
\* controller sends a retry of a product to ImportsService only: the call it falls
\* back on is guarded by a catch that an unawaited promise never enters.
Retryable(i) ==
    /\ job.kept /\ job.entry[i] = "pending"
    /\ job.kind = "products" \/ job.file[i].sheet # "productos"

\* retryImportRow: the error of row i is found (the call is refused otherwise), and its
\* correction k is parsed, and for a product looked up among the skus the job knows.
Retry(c, i, k) ==
    /\ Admitted(retryCall, c)
    /\ i \in DOMAIN job.file
    /\ Retryable(i)
    /\ IF k = None \/ (job.kind = "products" /\ k \in job.known)
       THEN page' = job.status /\ UNCHANGED retryCall
       ELSE retryCall' = [retryCall EXCEPT ![c] = [pc |-> "check", row |-> i, code |-> k]] /\ UNCHANGED page
    /\ UNCHANGED <<job, made, lost>>

\* The answer is the job's state, which the page takes as if it had polled it.
AnswerRetry(c, j) ==
    /\ job' = j
    /\ retryCall' = [retryCall EXCEPT ![c] = NoRetry]
    /\ page' = job.status

Pending(i) == [job EXCEPT !.entry[i] = "pending"]

\* The key is looked up in the table, as it is now.
CheckRetry(c) ==
    LET call == retryCall[c] IN
    /\ call.pc = "check"
    /\ IF call.code \in Taken(job.file[call.row].sheet)
       THEN AnswerRetry(c, Pending(call.row))
       ELSE /\ retryCall' = [retryCall EXCEPT ![c].pc = "create"]
            /\ UNCHANGED <<job, page>>
    /\ UNCHANGED <<made, lost>>

\* Mutant: the error stays listed as pending.
ResolveNot(j, i, k) ==
    [j EXCEPT !.imported = @ + 1, !.errors = IF @ > 0 THEN @ - 1 ELSE 0,
              !.known = IF j.kind = "products" THEN @ \cup {k} ELSE @]

\* The error is resolved and the row imported; the job of a file learns the sku, the
\* one of a workbook reads the table afresh for every retry.
Resolve(j, i, k) ==
    [j EXCEPT !.imported = @ + 1, !.errors = IF @ > 0 THEN @ - 1 ELSE 0,
              !.known = IF j.kind = "products" THEN @ \cup {k} ELSE @,
              !.entry[i] = "resolved"]

FinishRetry(c) ==
    LET call == retryCall[c]
        sheet == job.file[call.row].sheet IN
    /\ call.pc = "create"
    /\ \E outcome \in Outcomes(sheet, call.code) :
          /\ Create(sheet, call.code, call.row, outcome)
          /\ AnswerRetry(c, IF outcome = "created" THEN Resolve(job, call.row, call.code)
                            ELSE Pending(call.row))

-----------------------------------------------------------------------------
\* The page asks again a second after an answer as long as the last status it has is
\* not a final one; with no status at all it does not ask again.
FirstPoll ==
    /\ page = "loading"
    /\ page' \in {"stuck"} \cup (IF job.kept THEN {job.status} ELSE {})
    /\ UNCHANGED <<job, made, lost, retryCall>>

\* Mutant: only a job that is being parsed is asked for again.
PollParsing ==
    /\ page = "PARSING" /\ job.kept
    /\ page' = job.status
    /\ UNCHANGED <<job, made, lost, retryCall>>

\* A poll that fails leaves the page as it is.
Poll ==
    /\ page \in {"PARSING", "PROCESSING"} /\ job.kept
    /\ page' = job.status
    /\ UNCHANGED <<job, made, lost, retryCall>>

-----------------------------------------------------------------------------
ImportsWork == OpenSheet \/ SkipRow \/ RefuseRow \/ BeginRow \/ FinishRow \/ CompleteImport

ImportsNext ==
    \/ \E kind \in {"products", "full"} : StartImport(kind)
    \/ ImportsWork
    \/ \E c \in Calls, i \in 1..MaxRows, k \in Codes \cup {None} : Retry(c, i, k)
    \/ \E c \in Calls : CheckRetry(c) \/ FinishRetry(c)
    \/ FirstPoll \/ Poll
    \/ Cleanup \/ Restart
    \/ \E sheet \in Sheets, k \in Codes : SomeoneCreates(sheet, k)

-----------------------------------------------------------------------------
(* Properties *)

\* The records this import made and was told of.
Told == {x \in Sheets \X Codes : made[x[1]][x[2]] \in 1..MaxRows} \ lost

\* With one retry at a time, the import's report tells its rows: the errors it counts
\* are the errors it lists as pending, the rows it counts as imported are the records
\* made, but for those whose creation was answered with an error, and every row it counts
\* as processed is in one of its counts, but for the row a workbook is creating, which it
\* counts ahead (imports.service.ts, retryImportRow and addError; processSheet of
\* multi-sheet-import.service.ts).  Two retries of one row at once both count, and one
\* error is taken off twice.
ReportTellsTheRows ==
    serving = 1 /\ job.pc # "dead" =>
        /\ job.errors = Cardinality({i \in DOMAIN job.entry : job.entry[i] = "pending"})
        /\ job.imported = Cardinality(Told)
        /\ job.processed = job.imported + job.skipped + job.errors + CountedAhead(job)

\* With one retry at a time, a row makes one record, however often it is retried and
\* with whatever correction, unless a creation was answered with an error.
RowsAreMadeOnce ==
    serving = 1 /\ lost = {} =>
        \A i \in 1..MaxRows :
            Cardinality({x \in Sheets \X Codes : made[x[1]][x[2]] = i}) <= 1

\* A page that saw the import at work sees its end, unless the server forgot the job.
PageLearnsTheEnd ==
    page = "PROCESSING" ~> (page \in {"COMPLETED", "FAILED"} \/ ~job.kept)
=============================================================================
