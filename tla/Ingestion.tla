----------------------------- MODULE Ingestion -----------------------------
(***************************************************************************)
(* The staging of uploaded workbooks: the pool goroutines that run         *)
(* IngestionWorker.processFile (internal/worker/ingestion.go), what the    *)
(* parser and the validator (internal/excel) decide of a workbook, and the *)
(* tables files and grades_staging (internal/db/repository.go).            *)
(*                                                                         *)
(* One atomic step is one call that leaves the process together with the   *)
(* local code up to the next such call. Any call can fail, and a call whose *)
(* answer is lost may have had its effect.                                 *)
(***************************************************************************)
EXTENDS Naturals, Sequences, FiniteSets

CONSTANTS
  Files,     \* files.id of the uploaded workbooks
  Workers,   \* pool goroutines of all the ingestion-worker processes
  Processes, \* the ingestion-worker processes
  ProcOf,    \* [Workers -> Processes]
  Content,   \* per file: the workbook in the bucket
  MaxTries   \* bound on the jobs started

Required == {"student_id", "subject", "class", "semester", "grade"}

\* What a cell holds once trimmed: nothing, a value the validator takes or
\* refuses, and in the grade column text that is no number, or "NaN".
Cells == {"", "ok", "bad", "text", "nan"}

\* The first sheet of a workbook, as excelize returns it: the header, then the
\* rows without their trailing empty cells. opens: the file can be read at all.
IsWorkbook(b) ==
  /\ b.opens \in BOOLEAN
  /\ b.header \in Seq(Required \cup {"other"})
  /\ b.rows \in Seq(Seq(Cells))

NoFile == "no file"

ASSUME IngestionAssumption ==
  /\ IsFiniteSet(Files)
  /\ NoFile \notin Files
  /\ ProcOf \in [Workers -> Processes]
  /\ DOMAIN Content = Files
  /\ \A f \in Files : IsWorkbook(Content[f])
  /\ MaxTries \in Nat

VARIABLES
  fileStatus, \* files.status
  staged,     \* rows of grades_staging: <<file, job that inserted it, row>>
  cancelled,  \* per process: its context has been cancelled
  pc,         \* per worker: the call it makes next
  file,       \* per worker: the file it processes
  try,        \* per worker: which job it runs
  inserted,   \* per worker: rows its open transaction holds
  tries       \* jobs started so far

\* History variables: only the properties read them.
VARIABLES
  begun,      \* files a job was started for
  broken,     \* files of which the download, an INSERT or the COMMIT failed
  unmarked    \* files whose status update failed, or whose worker died

tables == <<fileStatus, staged>>
local  == <<file, try, inserted>>
vars   == <<fileStatus, staged, cancelled, pc, file, try, inserted, tries,
            begun, broken, unmarked>>

-----------------------------------------------------------------------------
\* The rows Parse does not skip: those with as many cells as there are
\* required columns, wherever these columns are.
Taken(b) ==
  {i \in DOMAIN b.rows : Len(b.rows[i]) >= Cardinality(Required)}

\* columnMap: where a column is. A name used twice is where it occurs last.
ColumnOf(b, name) ==
  CHOOSE i \in DOMAIN b.header :
    /\ b.header[i] = name
    /\ \A k \in DOMAIN b.header : b.header[k] = name => k <= i

\* getValue: a cell past the end of the row is empty.
Value(b, row, name) ==
  IF ColumnOf(b, name) \in DOMAIN row THEN row[ColumnOf(b, name)] ELSE ""

HasColumns(b) ==
  \A name \in Required : \E i \in DOMAIN b.header : b.header[i] = name

\* Some cell of a required column, in a row taken, holds v.
SomeCell(b, v) ==
  \E i \in Taken(b), name \in Required : Value(b, b.rows[i], name) = v

\* Parse returns an error.
ParseFails(b) ==
  \/ ~b.opens
  \/ b.rows = <<>>
  \/ ~HasColumns(b)
  \/ SomeCell(b, "")
  \/ SomeCell(b, "text")

\* Validate returns an error. NaN is neither below 0 nor above 10.
ValidateFails(b) ==
  \/ Taken(b) = {}
  \/ SomeCell(b, "bad")

\* The files processFile refuses, and how many rows it inserts for the others.
Refused == {f \in Files : ParseFails(Content[f]) \/ ValidateFails(Content[f])}
Total   == [f \in Files |-> Cardinality(Taken(Content[f]))]

-----------------------------------------------------------------------------
TypeOK ==
  /\ fileStatus \in [Files -> {"UPLOADED", "PARSED_OK", "PARSED_FAIL"}]
  /\ \A s \in staged : s[1] \in Files /\ s[2] \in 1 .. tries /\ s[3] \in Nat
  /\ cancelled \in [Processes -> BOOLEAN]
  /\ pc \in [Workers -> {"idle", "download", "insert", "markFail", "markOK"}]
  /\ file \in [Workers -> Files \cup {NoFile}]
  /\ try \in [Workers -> 0 .. MaxTries]
  /\ inserted \in [Workers -> Nat]
  /\ \A w \in Workers : pc[w] = "insert" => inserted[w] <= Total[file[w]]
  /\ tries \in 0 .. MaxTries
  /\ begun \subseteq Files
  /\ broken \subseteq Files
  /\ unmarked \subseteq Files

Init ==
  /\ fileStatus = [f \in Files |-> "UPLOADED"]
  /\ staged = {}
  /\ cancelled = [p \in Processes |-> FALSE]
  /\ pc = [w \in Workers |-> "idle"]
  /\ file = [w \in Workers |-> NoFile]
  /\ try = [w \in Workers |-> 0]
  /\ inserted = [w \in Workers |-> 0]
  /\ tries = 0
  /\ begun = {}
  /\ broken = {}
  /\ unmarked = {}

-----------------------------------------------------------------------------
\* A call made with a cancelled context returns an error.
Live(w) == ~cancelled[ProcOf[w]]

\* Worker w goes on to the call named next.
Goto(w, next) == pc' = [pc EXCEPT ![w] = next]

\* processFile returns.
Return(w) ==
  /\ Goto(w, "idle")
  /\ file' = [file EXCEPT ![w] = NoFile]
  /\ try' = [try EXCEPT ![w] = 0]
  /\ inserted' = [inserted EXCEPT ![w] = 0]

\* A call about worker w's file, made before its verdict, returned an error.
Fails(w) == broken' = broken \cup {file[w]}

(* A pool goroutine calls processFile. A file may be queued more than once. *)
Begin(w, f) ==
  /\ pc[w] = "idle"
  /\ tries < MaxTries
  /\ tries' = tries + 1
  /\ Goto(w, "download")
  /\ file' = [file EXCEPT ![w] = f]
  /\ try' = [try EXCEPT ![w] = tries + 1]
  /\ begun' = begun \cup {f}
  /\ UNCHANGED <<tables, cancelled, inserted, broken, unmarked>>

\* Mutant of Download: its error ends the job without a status.
DownloadUnmarked(w) ==
  /\ pc[w] = "download"
  /\ \/ /\ Live(w)
        /\ Goto(w, IF file[w] \in Refused THEN "markFail" ELSE "insert")
        /\ UNCHANGED <<local, broken>>
     \/ Return(w) /\ Fails(w)
  /\ UNCHANGED <<tables, cancelled, tries, begun, unmarked>>

(* Download and read the object, then parse and validate it.               *)
Download(w) ==
  /\ pc[w] = "download"
  /\ \/ /\ Live(w)
        /\ Goto(w, IF file[w] \in Refused THEN "markFail" ELSE "insert")
        /\ UNCHANGED broken
     \/ Goto(w, "markFail") /\ Fails(w)
  /\ UNCHANGED <<tables, cancelled, local, tries, begun, unmarked>>

-----------------------------------------------------------------------------
\* Mutant of InsertRow: the row is written outside the transaction.
InsertRowDirect(w) ==
  /\ pc[w] = "insert"
  /\ inserted[w] < Total[file[w]]
  /\ \/ /\ Live(w)
        /\ staged' = staged \cup {<<file[w], try[w], inserted[w] + 1>>}
        /\ inserted' = [inserted EXCEPT ![w] = @ + 1]
        /\ UNCHANGED <<pc, broken>>
     \/ Goto(w, "markFail") /\ Fails(w) /\ UNCHANGED <<inserted, staged>>
  /\ UNCHANGED <<fileStatus, cancelled, file, try, tries, begun, unmarked>>

\* Mutant of InsertRow: one row too many.
InsertRowOneMore(w) ==
  /\ pc[w] = "insert"
  /\ inserted[w] <= Total[file[w]]
  /\ \/ /\ Live(w)
        /\ inserted' = [inserted EXCEPT ![w] = @ + 1]
        /\ UNCHANGED <<pc, broken>>
     \/ Goto(w, "markFail") /\ Fails(w) /\ UNCHANGED inserted
  /\ UNCHANGED <<tables, cancelled, file, try, tries, begun, unmarked>>

\* Mutant of InsertRow: a failed INSERT is tried again without end.
InsertRowAgain(w) ==
  /\ pc[w] = "insert"
  /\ inserted[w] < Total[file[w]]
  /\ \/ /\ Live(w)
        /\ inserted' = [inserted EXCEPT ![w] = @ + 1]
        /\ UNCHANGED broken
     \/ Fails(w) /\ UNCHANGED inserted
  /\ UNCHANGED <<tables, cancelled, pc, file, try, tries, begun, unmarked>>

(* InsertGrades: BEGIN before the first row, then one INSERT for each row. *)
(* An error rolls the transaction back.                                    *)
InsertRow(w) ==
  /\ pc[w] = "insert"
  /\ inserted[w] < Total[file[w]]
  /\ \/ /\ Live(w)
        /\ inserted' = [inserted EXCEPT ![w] = @ + 1]
        /\ UNCHANGED <<pc, broken>>
     \/ Goto(w, "markFail") /\ Fails(w) /\ UNCHANGED inserted
  /\ UNCHANGED <<tables, cancelled, file, try, tries, begun, unmarked>>

\* The rows of w's transaction become part of the table.
Committed(w) ==
  staged' = staged \cup {<<file[w], try[w], i>> : i \in 1 .. inserted[w]}

\* Mutant of Commit: its error is ignored.
CommitUnchecked(w) ==
  /\ pc[w] = "insert"
  /\ inserted[w] = Total[file[w]]
  /\ \/ Live(w) /\ Committed(w) /\ UNCHANGED broken
     \/ Fails(w) /\ UNCHANGED staged
  /\ Goto(w, "markOK")
  /\ UNCHANGED <<fileStatus, cancelled, local, tries, begun, unmarked>>

(* InsertGrades: COMMIT. When it fails the rows may be there all the same. *)
Commit(w) ==
  /\ pc[w] = "insert"
  /\ inserted[w] = Total[file[w]]
  /\ \/ Live(w) /\ Committed(w) /\ Goto(w, "markOK") /\ UNCHANGED broken
     \/ /\ UNCHANGED staged \/ (Live(w) /\ Committed(w))
        /\ Goto(w, "markFail")
        /\ Fails(w)
  /\ UNCHANGED <<fileStatus, cancelled, local, tries, begun, unmarked>>

-----------------------------------------------------------------------------
\* UPDATE files SET status = st WHERE id = worker w's file.
UpdateFileStatus(w, st) == fileStatus' = [fileStatus EXCEPT ![file[w]] = st]

(* The update to PARSED_FAIL; its error is ignored.                        *)
MarkFail(w) ==
  /\ pc[w] = "markFail"
  /\ \/ Live(w) /\ UpdateFileStatus(w, "PARSED_FAIL") /\ UNCHANGED unmarked
     \/ unmarked' = unmarked \cup {file[w]} /\ UNCHANGED fileStatus
  /\ Return(w)
  /\ UNCHANGED <<staged, cancelled, tries, begun, broken>>

(* The update to PARSED_OK; its error ends the job with an error.          *)
MarkOK(w) ==
  /\ pc[w] = "markOK"
  /\ \/ Live(w) /\ UpdateFileStatus(w, "PARSED_OK") /\ UNCHANGED unmarked
     \/ unmarked' = unmarked \cup {file[w]} /\ UNCHANGED fileStatus
  /\ Return(w)
  /\ UNCHANGED <<staged, cancelled, tries, begun, broken>>

-----------------------------------------------------------------------------
(* The signal handler of cmd/ingestion-worker/main.go cancels the context. *)
Cancel(p) ==
  /\ ~cancelled[p]
  /\ cancelled' = [cancelled EXCEPT ![p] = TRUE]
  /\ UNCHANGED <<tables, pc, local, tries, begun, broken, unmarked>>

(* The process ends and a new one starts: open transactions are rolled     *)
(* back and the jobs forgotten.                                            *)
Restart(p) ==
  LET Lost == {w \in Workers : ProcOf[w] = p}
      Clear(g, v) == [w \in Workers |-> IF w \in Lost THEN v ELSE g[w]]
  IN  /\ cancelled' = [cancelled EXCEPT ![p] = FALSE]
      /\ pc' = Clear(pc, "idle")
      /\ file' = Clear(file, NoFile)
      /\ try' = Clear(try, 0)
      /\ inserted' = Clear(inserted, 0)
      /\ unmarked' = unmarked \cup ({file[w] : w \in Lost} \ {NoFile})
      /\ UNCHANGED <<tables, tries, begun, broken>>

ProcessFile(w) ==
  \/ Download(w)
  \/ InsertRow(w)
  \/ Commit(w)
  \/ MarkFail(w)
  \/ MarkOK(w)

Next ==
  \/ \E w \in Workers, f \in Files : Begin(w, f)
  \/ \E w \in Workers : ProcessFile(w)
  \/ \E p \in Processes : Cancel(p) \/ Restart(p)

\* Every call processFile makes returns.
Fairness == \A w \in Workers : WF_vars(ProcessFile(w))

Spec == Init /\ [][Next]_vars /\ Fairness

-----------------------------------------------------------------------------
\* The rows of file f that job t inserted.
RowsOf(f, t) == {i \in 1 .. Total[f] : <<f, t, i>> \in staged}

(* A job stages all the rows of its file or none, whatever fails on the    *)
(* way and whatever other jobs do (repository.go:52-71).                   *)
StagedIsWhole ==
  \A s \in staged : RowsOf(s[1], s[2]) = 1 .. Total[s[1]]

(* A file that is PARSED_OK, which is what TriggerSync asks for            *)
(* (handler.go:55), has all its rows staged, and at least one              *)
(* (ingestion.go:111-130).                                                 *)
ParsedFileHasRows ==
  \A f \in Files :
    fileStatus[f] = "PARSED_OK"
      => Total[f] > 0 /\ \E t \in 1 .. tries : RowsOf(f, t) = 1 .. Total[f]

\* A workbook with every required column, at least one row that is not cut
\* short, and in each such row one of the given values in every such column.
\* Rows cut short are left out on purpose (parser.go:64, "Skip incomplete rows").
RowsIn(b) == {b.rows[i] : i \in DOMAIN b.rows}
Holds(b, values) ==
  /\ b.opens
  /\ Required \subseteq {b.header[i] : i \in DOMAIN b.header}
  /\ \E row \in RowsIn(b) : Len(row) >= 5
  /\ \A row \in RowsIn(b) :
       Len(row) >= 5 => \A name \in Required : Value(b, row, name) \in values

\* What a workbook must be (validator.go:26-55): every value present, a grade a
\* number from 0 to 10. NaN is not, and the validator lets it pass.
Worthy   == {f \in Files : Holds(Content[f], {"ok"})}
Passable == {f \in Files : Holds(Content[f], {"ok", "nan"})}

(* Whatever fails, dies or runs side by side, once no job is at work on a  *)
(* file it was begun for:                                                  *)
(*   - it is still UPLOADED only if the update of its status failed or the *)
(*     worker died;                                                        *)
(*   - it is PARSED_FAIL only if its workbook deserves it or a call about  *)
(*     it failed;                                                          *)
(*   - it is PARSED_OK only if its workbook deserves it, but for grades    *)
(*     that are NaN (prompt.md:21-22, ingestion.go:81-133).                *)
VerdictMatchesWorkbook ==
  \A f \in begun \ {file[w] : w \in Workers} :
    /\ fileStatus[f] = "UPLOADED" => f \in unmarked
    /\ fileStatus[f] = "PARSED_FAIL" => f \notin Worthy \/ f \in broken
    /\ fileStatus[f] = "PARSED_OK" => f \in Passable

(* A job, once begun, ends (ingestion.go:78-137).                          *)
FileJobEnds == \A w \in Workers : pc[w] # "idle" ~> pc[w] = "idle"
=============================================================================
