-------------------------- MODULE IngestionProofs --------------------------
(***************************************************************************)
(* Proofs about Ingestion: for every set of workbooks, of pool goroutines  *)
(* and of processes, and every number of jobs, the rows of a job are       *)
(* staged all or none, a file marked PARSED_OK has its rows, and the       *)
(* status of a file that no job is at work on has its reason in the        *)
(* workbook or in a call that failed.                                      *)
(***************************************************************************)
EXTENDS Ingestion, FiniteSetTheorems, SequenceTheorems, TLAPS

\* A worker that is not idle has a file and the number of a job; before its
\* first INSERT its transaction holds nothing.
BusyInv ==
  \A w \in Workers :
    /\ pc[w] # "idle" => file[w] \in Files /\ try[w] \in 1 .. tries
    /\ pc[w] \in {"idle", "download"} => inserted[w] = 0

\* Only a workbook that was not refused gets as far as its first INSERT.
InsertInv ==
  \A w \in Workers : pc[w] \in {"insert", "markOK"} => file[w] \notin Refused

\* A worker about to write PARSED_OK has committed all its rows.
CommittedInv ==
  \A w \in Workers :
    pc[w] = "markOK" => RowsOf(file[w], try[w]) = 1 .. Total[file[w]]

\* The inductive invariant of the first three theorems.
IInv ==
  /\ TypeOK
  /\ BusyInv
  /\ InsertInv
  /\ CommittedInv
  /\ StagedIsWhole
  /\ ParsedFileHasRows

-----------------------------------------------------------------------------
(* How many rows a workbook gives is a number, and a workbook the          *)
(* validator lets pass gives one at least (validator.go:21-24).            *)
LEMMA TotalType ==
  ASSUME NEW f \in Files
  PROVE  Total[f] \in Nat /\ (f \notin Refused => Total[f] > 0)
<1> DEFINE b == Content[f]
<1>1. b.rows \in Seq(Seq(Cells))
  BY IngestionAssumption DEF IngestionAssumption, IsWorkbook
<1>2. DOMAIN b.rows = 1 .. Len(b.rows) /\ Len(b.rows) \in Nat
  BY <1>1
<1>3. IsFiniteSet(Taken(b))
  <2>1. IsFiniteSet(1 .. Len(b.rows))
    BY <1>2, FS_Interval
  <2>2. Taken(b) \subseteq 1 .. Len(b.rows)
    BY <1>2 DEF Taken
  <2> QED
    BY <2>1, <2>2, FS_Subset
<1>4. Total[f] = Cardinality(Taken(b))
  BY DEF Total
<1>5. Total[f] \in Nat
  BY <1>3, <1>4, FS_CardinalityType
<1>6. ASSUME f \notin Refused PROVE Total[f] # 0
  <2>1. Taken(b) # {}
    BY <1>6 DEF Refused, ValidateFails
  <2> QED
    BY <1>3, <1>4, <2>1, FS_EmptySet
<1> QED
  BY <1>5, <1>6

\* No worker has a file at first, and the tables are empty.
LEMMA InitIInv == Init => IInv
<1> SUFFICES ASSUME Init PROVE IInv
  OBVIOUS
<1>1. TypeOK
  BY IngestionAssumption DEF IngestionAssumption, Init, TypeOK
<1>2. BusyInv /\ InsertInv /\ CommittedInv
  BY DEF Init, BusyInv, InsertInv, CommittedInv
<1>3. StagedIsWhole /\ ParsedFileHasRows
  BY DEF Init, StagedIsWhole, ParsedFileHasRows
<1> QED
  BY <1>1, <1>2, <1>3 DEF IInv

(* A step that leaves the two tables alone, and takes no worker to the     *)
(* update to PARSED_OK, keeps what the tables promise.                     *)
LEMMA TablesKept ==
  ASSUME IInv, UNCHANGED tables, tries' \in Nat, tries' >= tries,
         \A w \in Workers :
           pc'[w] = "markOK"
             => pc[w] = "markOK" /\ file'[w] = file[w] /\ try'[w] = try[w]
  PROVE  CommittedInv' /\ StagedIsWhole' /\ ParsedFileHasRows'
<1>1. fileStatus' = fileStatus /\ staged' = staged /\ tries \in Nat
  BY DEF tables, IInv, TypeOK
<1>2. ASSUME NEW f, NEW t PROVE RowsOf(f, t)' = RowsOf(f, t)
  BY <1>1 DEF RowsOf
<1>3. CommittedInv'
  BY <1>1 DEF IInv, CommittedInv, RowsOf
<1>4. StagedIsWhole'
  BY <1>1 DEF IInv, StagedIsWhole, RowsOf
<1>5. ParsedFileHasRows'
  BY <1>1 DEF IInv, ParsedFileHasRows, RowsOf
<1> QED
  BY <1>3, <1>4, <1>5

(* When all the rows of a job are added at once, every job's rows stay all *)
(* or none.                                                                *)
LEMMA CommittedWhole ==
  ASSUME IInv, NEW w \in Workers, pc[w] = "insert",
         inserted[w] = Total[file[w]], Committed(w),
         UNCHANGED <<fileStatus, file, try, tries>>
  PROVE  /\ \A s \in staged' : s[1] \in Files /\ s[2] \in 1 .. tries
                               /\ s[3] \in Nat
         /\ StagedIsWhole'
         /\ ParsedFileHasRows'
         /\ \A v \in Workers :
              (pc[v] = "markOK" \/ v = w)
                => RowsOf(file[v], try[v])' = 1 .. Total[file[v]]
<1> DEFINE f == file[w]
           t == try[w]
<1>1. f \in Files /\ t \in 1 .. tries /\ Total[f] \in Nat
  BY TotalType DEF IInv, BusyInv
<1>2. staged' = staged \cup {<<f, t, i>> : i \in 1 .. Total[f]}
  BY DEF Committed
<1>3. RowsOf(f, t)' = 1 .. Total[f]
  BY <1>2 DEF RowsOf
<1>4. ASSUME NEW g, NEW u, RowsOf(g, u) = 1 .. Total[g]
      PROVE  RowsOf(g, u)' = 1 .. Total[g]
  BY <1>2, <1>4 DEF RowsOf
<1>5. ASSUME NEW s \in staged' PROVE
        /\ s[1] \in Files /\ s[2] \in 1 .. tries /\ s[3] \in Nat
        /\ RowsOf(s[1], s[2])' = 1 .. Total[s[1]]
  <2>1. CASE s \in staged
    BY <2>1, <1>4 DEF IInv, TypeOK, StagedIsWhole
  <2>2. ASSUME NEW i \in 1 .. Total[f], s = <<f, t, i>>
        PROVE  /\ s[1] \in Files /\ s[2] \in 1 .. tries /\ s[3] \in Nat
               /\ RowsOf(s[1], s[2])' = 1 .. Total[s[1]]
    <3>1. s[1] = f /\ s[2] = t /\ s[3] = i
      BY <2>2
    <3> QED
      BY <3>1, <1>1, <1>3
  <2> QED
    BY <1>2, <2>1, <2>2
<1>6. StagedIsWhole'
  BY <1>5 DEF StagedIsWhole
<1>7. ParsedFileHasRows'
  BY <1>4 DEF IInv, ParsedFileHasRows
<1>8. ASSUME NEW v \in Workers, pc[v] = "markOK" \/ v = w
      PROVE  RowsOf(file[v], try[v])' = 1 .. Total[file[v]]
  <2>1. CASE v = w
    BY <2>1, <1>3
  <2>2. CASE pc[v] = "markOK"
    BY <2>2, <1>4 DEF IInv, CommittedInv, RowsOf
  <2> QED
    BY <1>8, <2>1, <2>2
<1> QED
  BY <1>5, <1>6, <1>7, <1>8

(* processFile returns for a worker whose job is done: nothing of the      *)
(* other workers changes.                                                  *)
LEMMA MarkedInv ==
  ASSUME IInv, NEW w \in Workers, Return(w),
         UNCHANGED <<staged, cancelled, tries, begun>>,
         fileStatus' \in [Files -> {"UPLOADED", "PARSED_OK", "PARSED_FAIL"}],
         broken' \subseteq Files, unmarked' \subseteq Files
  PROVE  TypeOK' /\ BusyInv' /\ InsertInv' /\ CommittedInv' /\ StagedIsWhole'
<1> USE DEF IInv, TypeOK, Return, Goto
<1>1. TypeOK'
  <2>1. /\ pc' \in [Workers -> {"idle", "download", "insert", "markFail", "markOK"}]
        /\ file' \in [Workers -> Files \cup {NoFile}]
        /\ try' \in [Workers -> 0 .. MaxTries]
        /\ inserted' \in [Workers -> Nat]
    BY IngestionAssumption DEF IngestionAssumption
  <2>2. \A v \in Workers :
          pc'[v] = "insert" => inserted'[v] <= Total[file'[v]]
    OBVIOUS
  <2> QED
    BY <2>1, <2>2
<1>2. BusyInv' /\ InsertInv'
  BY DEF BusyInv, InsertInv
<1>3. CommittedInv' /\ StagedIsWhole'
  BY DEF CommittedInv, StagedIsWhole, RowsOf
<1> QED
  BY <1>1, <1>2, <1>3

\* Every step keeps it.
LEMMA NextIInv == IInv /\ [Next]_vars => IInv'
<1> SUFFICES ASSUME IInv, [Next]_vars PROVE IInv'
  OBVIOUS
<1> USE IngestionAssumption DEF IngestionAssumption
<1>0. TypeOK /\ BusyInv /\ InsertInv /\ CommittedInv
  BY DEF IInv
<1>1. ASSUME NEW w \in Workers, NEW f \in Files, Begin(w, f) PROVE IInv'
  <2>1. TypeOK'
    BY <1>0, <1>1 DEF TypeOK, Begin, Goto, tables
  <2>2. BusyInv' /\ InsertInv'
    BY <1>0, <1>1 DEF TypeOK, BusyInv, InsertInv, Begin, Goto
  <2>3. CommittedInv' /\ StagedIsWhole' /\ ParsedFileHasRows'
    BY <1>0, <1>1, TablesKept DEF TypeOK, Begin, Goto
  <2> QED
    BY <2>1, <2>2, <2>3 DEF IInv
<1>2. ASSUME NEW w \in Workers, Download(w) PROVE IInv'
  <2>1. file[w] \in Files /\ inserted[w] = 0 /\ Total[file[w]] \in Nat
    BY <1>0, <1>2, TotalType DEF BusyInv, Download
  <2>2. TypeOK'
    BY <1>0, <1>2, <2>1 DEF TypeOK, Download, Goto, Fails, tables, local
  <2>3. BusyInv' /\ InsertInv'
    BY <1>0, <1>2 DEF TypeOK, BusyInv, InsertInv, Download, Goto, local
  <2>4. CommittedInv' /\ StagedIsWhole' /\ ParsedFileHasRows'
    BY <1>0, <1>2, TablesKept DEF TypeOK, Download, Goto, local
  <2> QED
    BY <2>2, <2>3, <2>4 DEF IInv
<1>3. ASSUME NEW w \in Workers, InsertRow(w) PROVE IInv'
  <2>1. file[w] \in Files /\ Total[file[w]] \in Nat
    BY <1>0, <1>3, TotalType DEF BusyInv, InsertRow
  <2>2. TypeOK'
    BY <1>0, <1>3, <2>1 DEF TypeOK, InsertRow, Goto, Fails, tables
  <2>3. BusyInv' /\ InsertInv'
    BY <1>0, <1>3 DEF TypeOK, BusyInv, InsertInv, InsertRow, Goto
  <2>4. CommittedInv' /\ StagedIsWhole' /\ ParsedFileHasRows'
    BY <1>0, <1>3, TablesKept DEF TypeOK, InsertRow, Goto
  <2> QED
    BY <2>2, <2>3, <2>4 DEF IInv
<1>4. ASSUME NEW w \in Workers, Commit(w) PROVE IInv'
  <2>1. /\ pc[w] = "insert"
        /\ inserted[w] = Total[file[w]]
        /\ file[w] \in Files
        /\ UNCHANGED <<fileStatus, cancelled, file, try, inserted, tries, begun,
                        unmarked>>
    BY <1>0, <1>4 DEF BusyInv, Commit, local
  <2>2. CASE Committed(w)
    <3>1. /\ \A s \in staged' : s[1] \in Files /\ s[2] \in 1 .. tries
                                /\ s[3] \in Nat
          /\ StagedIsWhole' /\ ParsedFileHasRows'
          /\ \A v \in Workers :
               (pc[v] = "markOK" \/ v = w)
                 => RowsOf(file[v], try[v])' = 1 .. Total[file[v]]
      BY <2>1, <2>2, CommittedWhole
    <3>2. TypeOK'
      BY <1>0, <1>4, <2>1, <3>1 DEF TypeOK, Commit, Goto, Fails
    <3>3. BusyInv' /\ InsertInv'
      BY <1>0, <1>4, <2>1 DEF TypeOK, BusyInv, InsertInv, Commit, Goto
    <3>4. \A v \in Workers : pc'[v] = "markOK" => pc[v] = "markOK" \/ v = w
      BY <1>0, <1>4 DEF TypeOK, Commit, Goto
    <3>5. CommittedInv'
      BY <2>1, <3>1, <3>4 DEF CommittedInv
    <3> QED
      BY <3>1, <3>2, <3>3, <3>5 DEF IInv
  <2>3. CASE ~Committed(w)
    <3>1. UNCHANGED staged /\ Goto(w, "markFail") /\ Fails(w)
      BY <1>4, <2>3 DEF Commit
    <3>2. TypeOK'
      BY <1>0, <2>1, <3>1 DEF TypeOK, Goto, Fails
    <3>3. BusyInv' /\ InsertInv'
      BY <1>0, <2>1, <3>1 DEF TypeOK, BusyInv, InsertInv, Goto
    <3>4. CommittedInv' /\ StagedIsWhole' /\ ParsedFileHasRows'
      BY <1>0, <2>1, <3>1, TablesKept DEF TypeOK, Goto, tables
    <3> QED
      BY <3>2, <3>3, <3>4 DEF IInv
  <2> QED
    BY <2>2, <2>3
<1>5. ASSUME NEW w \in Workers, MarkFail(w) PROVE IInv'
  <2>1. file[w] \in Files
    BY <1>0, <1>5 DEF BusyInv, MarkFail
  <2>2. /\ Return(w) /\ UNCHANGED <<staged, cancelled, tries, begun>>
        /\ fileStatus' \in [Files -> {"UPLOADED", "PARSED_OK", "PARSED_FAIL"}]
        /\ broken' \subseteq Files /\ unmarked' \subseteq Files
    BY <1>0, <1>5, <2>1 DEF TypeOK, MarkFail, UpdateFileStatus
  <2>3. TypeOK' /\ BusyInv' /\ InsertInv' /\ CommittedInv' /\ StagedIsWhole'
    BY <2>2, MarkedInv
  <2>4. \A g \in Files :
          fileStatus'[g] = "PARSED_OK" => fileStatus[g] = "PARSED_OK"
    BY <1>0, <1>5, <2>1 DEF TypeOK, MarkFail, UpdateFileStatus
  <2>5. ParsedFileHasRows'
    BY <2>2, <2>4 DEF IInv, ParsedFileHasRows, RowsOf
  <2> QED
    BY <2>3, <2>5 DEF IInv
<1>6. ASSUME NEW w \in Workers, MarkOK(w) PROVE IInv'
  <2>1. file[w] \in Files /\ try[w] \in 1 .. tries
    BY <1>0, <1>6 DEF BusyInv, MarkOK
  <2>2. /\ Return(w) /\ UNCHANGED <<staged, cancelled, tries, begun>>
        /\ fileStatus' \in [Files -> {"UPLOADED", "PARSED_OK", "PARSED_FAIL"}]
        /\ broken' \subseteq Files /\ unmarked' \subseteq Files
    BY <1>0, <1>6, <2>1 DEF TypeOK, MarkOK, UpdateFileStatus
  <2>3. TypeOK' /\ BusyInv' /\ InsertInv' /\ CommittedInv' /\ StagedIsWhole'
    BY <2>2, MarkedInv
  <2>4. \A g \in Files :
          fileStatus'[g] = "PARSED_OK"
            => fileStatus[g] = "PARSED_OK" \/ g = file[w]
    BY <1>0, <1>6, <2>1 DEF TypeOK, MarkOK, UpdateFileStatus
  <2>5. Total[file[w]] > 0
        /\ RowsOf(file[w], try[w]) = 1 .. Total[file[w]]
    BY <1>0, <1>6, <2>1, TotalType DEF InsertInv, CommittedInv, MarkOK
  <2>6. ParsedFileHasRows'
    BY <2>1, <2>2, <2>4, <2>5 DEF IInv, ParsedFileHasRows, RowsOf
  <2> QED
    BY <2>3, <2>6 DEF IInv
<1>7. ASSUME NEW p \in Processes, Cancel(p) PROVE IInv'
  <2>1. TypeOK'
    BY <1>0, <1>7 DEF TypeOK, Cancel, tables, local
  <2>2. BusyInv' /\ InsertInv'
    BY <1>0, <1>7 DEF BusyInv, InsertInv, Cancel, local
  <2>3. CommittedInv' /\ StagedIsWhole' /\ ParsedFileHasRows'
    BY <1>0, <1>7, TablesKept DEF TypeOK, Cancel, local
  <2> QED
    BY <2>1, <2>2, <2>3 DEF IInv
<1>8. ASSUME NEW p \in Processes, Restart(p) PROVE IInv'
  <2>1. unmarked' \subseteq Files /\ broken' = broken
    BY <1>0, <1>8 DEF TypeOK, Restart
  <2>2. \A w \in Workers :
          \/ pc'[w] = "idle"
          \/ /\ pc'[w] = pc[w] /\ file'[w] = file[w] /\ try'[w] = try[w]
             /\ inserted'[w] = inserted[w]
    BY <1>8 DEF Restart
  <2>3. TypeOK'
    BY <1>0, <1>8, <2>1 DEF TypeOK, Restart, tables
  <2>4. BusyInv' /\ InsertInv'
    BY <1>0, <1>8, <2>2 DEF BusyInv, InsertInv, Restart
  <2>5. CommittedInv' /\ StagedIsWhole' /\ ParsedFileHasRows'
    BY <1>0, <1>8, <2>2, TablesKept DEF TypeOK, Restart
  <2> QED
    BY <2>3, <2>4, <2>5 DEF IInv
<1>9. CASE UNCHANGED vars
  <2>1. UNCHANGED <<fileStatus, staged, cancelled, pc, file, try, inserted,
                    tries, begun, broken, unmarked>>
    BY <1>9 DEF vars
  <2> QED
    BY <2>1
    DEF IInv, TypeOK, BusyInv, InsertInv, CommittedInv, StagedIsWhole,
        ParsedFileHasRows, RowsOf
<1> QED
  BY <1>1, <1>2, <1>3, <1>4, <1>5, <1>6, <1>7, <1>8, <1>9
  DEF Next, ProcessFile

\* It holds at every moment.
LEMMA SpecIInv == Spec => []IInv
<1>1. Init => IInv
  BY InitIInv
<1>2. IInv /\ [Next]_vars => IInv'
  BY NextIInv
<1> QED
  BY <1>1, <1>2, PTL DEF Spec

-----------------------------------------------------------------------------
(* The state of the worker processes and of the two tables stays within    *)
(* its types (ingestion.go:78-137, repository.go:52-71).                   *)
THEOREM TypeCorrect == Spec => []TypeOK
<1>1. IInv => TypeOK
  BY DEF IInv
<1> QED
  BY <1>1, SpecIInv, PTL

(* A job stages all the rows of its file or none, whatever call fails,     *)
(* whichever process dies and whatever other jobs do (repository.go:52-71).*)
THEOREM AllOrNone == Spec => []StagedIsWhole
<1>1. IInv => StagedIsWhole
  BY DEF IInv
<1> QED
  BY <1>1, SpecIInv, PTL

(* A file that is PARSED_OK has all its rows staged, and at least one      *)
(* (ingestion.go:111-130).                                                 *)
THEOREM ParsedMeansStaged == Spec => []ParsedFileHasRows
<1>1. IInv => ParsedFileHasRows
  BY DEF IInv
<1> QED
  BY <1>1, SpecIInv, PTL

-----------------------------------------------------------------------------
(* Which workbooks the parser and the validator refuse.                    *)

\* A row is taken when it has five cells.
LEMMA FiveRequired == Cardinality(Required) = 5
<1> DEFINE one   == {"student_id"}
           two   == one \cup {"subject"}
           three == two \cup {"class"}
           four  == three \cup {"semester"}
           five  == four \cup {"grade"}
<1>1. IsFiniteSet(one) /\ Cardinality(one) = 1
  BY FS_Singleton
<1>2. IsFiniteSet(two) /\ Cardinality(two) = 2
  BY <1>1, FS_AddElement
<1>3. IsFiniteSet(three) /\ Cardinality(three) = 3
  BY <1>2, FS_AddElement
<1>4. IsFiniteSet(four) /\ Cardinality(four) = 4
  BY <1>3, FS_AddElement
<1>5. IsFiniteSet(five) /\ Cardinality(five) = 5
  BY <1>4, FS_AddElement
<1> HIDE DEF five
<1>6. five = Required
  BY DEF five, Required
<1> QED
  BY <1>5, <1>6

\* A cell the parser looks up, missing or not, holds something.
LEMMA ValueType ==
  ASSUME NEW b, NEW row \in Seq(Cells), NEW name
  PROVE  Value(b, row, name) \in Cells
<1>1. \A i \in DOMAIN row : row[i] \in Cells
  BY ElementOfSeq, LenProperties
<1> QED
  BY <1>1 DEF Value, Cells

(* The code refuses a workbook for the first thing it finds wrong, the     *)
(* parser before the validator; what it lets pass is what Holds says of a  *)
(* workbook as a whole, with NaN for a value (parser.go:32-105,            *)
(* validator.go:20-55).                                                    *)
LEMMA PassableUnlessRefused ==
  ASSUME NEW f \in Files
  PROVE  f \in Passable <=> f \notin Refused
<1> DEFINE b == Content[f]
           Good(row) == \A name \in Required : Value(b, row, name) \in {"ok", "nan"}
<1>1. b.rows \in Seq(Seq(Cells))
  BY IngestionAssumption DEF IngestionAssumption, IsWorkbook
<1>2. \A i \in DOMAIN b.rows : b.rows[i] \in Seq(Cells)
  BY <1>1, ElementOfSeq, LenProperties
<1>3. Taken(b) = {i \in DOMAIN b.rows : Len(b.rows[i]) >= 5}
  BY FiveRequired DEF Taken
<1>4. (\E row \in RowsIn(b) : Len(row) >= 5) <=> Taken(b) # {}
  BY <1>3 DEF RowsIn
<1>5. (\A row \in RowsIn(b) : Len(row) >= 5 => Good(row))
        <=> \A i \in Taken(b) : Good(b.rows[i])
  BY <1>3 DEF RowsIn
<1>6. ASSUME NEW i \in Taken(b), NEW name \in Required
      PROVE  Value(b, b.rows[i], name) \in {"ok", "nan"}
               <=> Value(b, b.rows[i], name) \notin {"", "text", "bad"}
  <2>1. Value(b, b.rows[i], name) \in Cells
    BY <1>2, <1>3, ValueType
  <2> QED
    BY <2>1 DEF Cells
<1>7. (\A i \in Taken(b) : Good(b.rows[i]))
        <=> ~SomeCell(b, "") /\ ~SomeCell(b, "text") /\ ~SomeCell(b, "bad")
  BY <1>6 DEF SomeCell
<1>8. Required \subseteq {b.header[i] : i \in DOMAIN b.header} <=> HasColumns(b)
  BY DEF HasColumns
<1>9. Taken(b) # {} => b.rows # <<>>
  BY <1>1, <1>3
<1>10. Holds(b, {"ok", "nan"}) <=> ~ParseFails(b) /\ ~ValidateFails(b)
  BY <1>4, <1>5, <1>7, <1>8, <1>9 DEF Holds, ParseFails, ValidateFails
<1> QED
  BY <1>10 DEF Passable, Refused

\* A workbook without NaN passes all the more.
LEMMA WorthyPasses == Worthy \subseteq Passable
BY DEF Worthy, Passable, Holds

-----------------------------------------------------------------------------
(* The verdict.                                                            *)

\* A job about to write PARSED_FAIL has a reason: its workbook is refused, or
\* a call about the file failed.
FailInv ==
  \A w \in Workers : pc[w] = "markFail" => file[w] \in Refused \cup broken

\* Idle workers and only they have no file; a job's file has begun.
HeldInv ==
  \A w \in Workers :
    /\ file[w] # NoFile <=> pc[w] # "idle"
    /\ file[w] # NoFile => file[w] \in begun

\* A file is without a verdict while it is in a worker's hands, or after its
\* marking failed; PARSED_FAIL has a reason, PARSED_OK is the workbook's.
VerdictInv ==
  \A f \in Files :
    /\ f \in begun /\ fileStatus[f] = "UPLOADED"
         => f \in unmarked \/ \E w \in Workers : file[w] = f
    /\ fileStatus[f] = "PARSED_FAIL" => f \in Refused \cup broken
    /\ fileStatus[f] = "PARSED_OK" => f \notin Refused

\* The inductive invariant of the verdict.
DecisionInv == FailInv /\ HeldInv /\ VerdictInv

\* No file has a verdict at first.
LEMMA InitDecision == Init => DecisionInv
BY DEF Init, DecisionInv, FailInv, HeldInv, VerdictInv

(* No verdict is written, no file is let go and no job begins: the calls   *)
(* between may only fail.                                                  *)
LEMMA DecisionKept ==
  ASSUME DecisionInv, UNCHANGED <<fileStatus, file, begun, unmarked>>,
         broken \subseteq broken',
         \A w \in Workers : pc'[w] = "idle" <=> pc[w] = "idle",
         \A w \in Workers :
           pc'[w] = "markFail"
             => pc[w] = "markFail" \/ file[w] \in Refused \cup broken'
  PROVE  DecisionInv'
<1>1. FailInv'
  BY DEF DecisionInv, FailInv
<1>2. HeldInv'
  BY DEF DecisionInv, HeldInv
<1>3. VerdictInv'
  BY DEF DecisionInv, VerdictInv
<1> QED
  BY <1>1, <1>2, <1>3 DEF DecisionInv

(* Worker w lets its file go: it leaves behind the verdict it came for, or *)
(* a file that is noted as unmarked.                                       *)
LEMMA DecisionAtReturn ==
  ASSUME TypeOK, DecisionInv, NEW w \in Workers, Return(w), pc[w] # "idle",
         UNCHANGED <<begun, broken>>, unmarked \subseteq unmarked',
         file[w] \in Files,
         \A f \in Files \ {file[w]} : fileStatus'[f] = fileStatus[f],
         \/ file[w] \in unmarked' /\ UNCHANGED fileStatus
         \/ fileStatus'[file[w]] = "PARSED_FAIL" /\ file[w] \in Refused \cup broken
         \/ fileStatus'[file[w]] = "PARSED_OK" /\ file[w] \notin Refused
  PROVE  DecisionInv'
<1>1. FailInv'
  BY DEF TypeOK, DecisionInv, FailInv, Return, Goto
<1>2. HeldInv'
  BY DEF TypeOK, DecisionInv, HeldInv, Return, Goto
<1>3. ASSUME NEW f \in Files
      PROVE  /\ f \in begun' /\ fileStatus'[f] = "UPLOADED"
                  => f \in unmarked' \/ \E v \in Workers : file'[v] = f
             /\ fileStatus'[f] = "PARSED_FAIL" => f \in Refused \cup broken'
             /\ fileStatus'[f] = "PARSED_OK" => f \notin Refused
  <2>1. CASE f = file[w]
    BY <2>1 DEF DecisionInv, VerdictInv
  <2>2. CASE f # file[w]
    <3>1. \A v \in Workers : file[v] = f => file'[v] = f
      BY <2>2 DEF TypeOK, Return
    <3> QED
      BY <2>2, <3>1 DEF DecisionInv, VerdictInv
  <2> QED
    BY <2>1, <2>2
<1> QED
  BY <1>1, <1>2, <1>3 DEF DecisionInv, VerdictInv

\* Every step keeps the invariant of the verdict.
LEMMA NextDecision == IInv /\ DecisionInv /\ [Next]_vars => DecisionInv'
<1> SUFFICES ASSUME IInv, DecisionInv, [Next]_vars PROVE DecisionInv'
  OBVIOUS
<1>0. TypeOK /\ BusyInv /\ InsertInv /\ NoFile \notin Files
  BY IngestionAssumption DEF IInv, IngestionAssumption
<1>1. ASSUME NEW w \in Workers, NEW f \in Files, Begin(w, f)
      PROVE  DecisionInv'
  <2>1. file[w] = NoFile
    BY <1>1 DEF DecisionInv, HeldInv, Begin
  <2>2. /\ file' = [file EXCEPT ![w] = f]
        /\ pc' = [pc EXCEPT ![w] = "download"]
        /\ begun' = begun \cup {f}
        /\ UNCHANGED <<fileStatus, broken, unmarked>>
    BY <1>1 DEF Begin, Goto, tables
  <2>3. FailInv' /\ HeldInv'
    BY <1>0, <2>2 DEF TypeOK, DecisionInv, FailInv, HeldInv
  <2>4. ASSUME NEW g \in begun', fileStatus'[g] = "UPLOADED"
        PROVE  g \in unmarked' \/ \E v \in Workers : file'[v] = g
    <3>1. file'[w] = f
      BY <1>0, <2>2 DEF TypeOK
    <3>2. CASE g # f
      <4>1. g \in begun /\ g \in Files /\ g # NoFile
        BY <1>0, <2>2, <3>2 DEF TypeOK
      <4>2. \A v \in Workers : file[v] = g => file'[v] = g
        BY <1>0, <2>1, <2>2, <4>1 DEF TypeOK
      <4> QED
        BY <2>2, <2>4, <4>1, <4>2 DEF DecisionInv, VerdictInv
    <3> QED
      BY <3>1, <3>2
  <2> QED
    BY <2>2, <2>3, <2>4 DEF DecisionInv, VerdictInv
<1>2. ASSUME NEW w \in Workers, Download(w) PROVE DecisionInv'
  BY <1>0, <1>2, DecisionKept
  DEF TypeOK, BusyInv, Download, Goto, Fails, tables, local
<1>3. ASSUME NEW w \in Workers, InsertRow(w) PROVE DecisionInv'
  BY <1>0, <1>3, DecisionKept DEF TypeOK, BusyInv, InsertRow, Goto, Fails, tables
<1>4. ASSUME NEW w \in Workers, Commit(w) PROVE DecisionInv'
  BY <1>0, <1>4, DecisionKept DEF TypeOK, BusyInv, Commit, Goto, Fails, local
<1>5. ASSUME NEW w \in Workers, MarkFail(w) PROVE DecisionInv'
  <2>1. /\ file[w] \in Files /\ pc[w] # "idle" /\ Return(w)
        /\ UNCHANGED <<begun, broken>> /\ unmarked \subseteq unmarked'
    BY <1>0, <1>5 DEF BusyInv, MarkFail
  <2>2. /\ \A f \in Files \ {file[w]} : fileStatus'[f] = fileStatus[f]
        /\ \/ file[w] \in unmarked' /\ UNCHANGED fileStatus
           \/ fileStatus'[file[w]] = "PARSED_FAIL"
    BY <1>0, <1>5, <2>1 DEF TypeOK, MarkFail, UpdateFileStatus
  <2>3. file[w] \in Refused \cup broken
    BY <1>5 DEF DecisionInv, FailInv, MarkFail
  <2> QED
    BY <1>0, <2>1, <2>2, <2>3, DecisionAtReturn
<1>6. ASSUME NEW w \in Workers, MarkOK(w) PROVE DecisionInv'
  <2>1. /\ file[w] \in Files /\ pc[w] # "idle" /\ Return(w)
        /\ UNCHANGED <<begun, broken>> /\ unmarked \subseteq unmarked'
    BY <1>0, <1>6 DEF BusyInv, MarkOK
  <2>2. /\ \A f \in Files \ {file[w]} : fileStatus'[f] = fileStatus[f]
        /\ \/ file[w] \in unmarked' /\ UNCHANGED fileStatus
           \/ fileStatus'[file[w]] = "PARSED_OK"
    BY <1>0, <1>6, <2>1 DEF TypeOK, MarkOK, UpdateFileStatus
  <2>3. file[w] \notin Refused
    BY <1>0, <1>6 DEF InsertInv, MarkOK
  <2> QED
    BY <1>0, <2>1, <2>2, <2>3, DecisionAtReturn
<1>7. ASSUME NEW p \in Processes, Cancel(p) PROVE DecisionInv'
  BY <1>7, DecisionKept DEF DecisionInv, FailInv, Cancel, tables, local
<1>8. ASSUME NEW p \in Processes, Restart(p) PROVE DecisionInv'
  <2>1. /\ UNCHANGED <<fileStatus, begun, broken>>
        /\ unmarked \subseteq unmarked'
    BY <1>8 DEF Restart, tables
  <2>2. \A w \in Workers :
          \/ /\ pc'[w] = "idle" /\ file'[w] = NoFile
             /\ file[w] # NoFile => file[w] \in unmarked'
          \/ pc'[w] = pc[w] /\ file'[w] = file[w]
    BY <1>8 DEF Restart
  <2>3. FailInv' /\ HeldInv'
    BY <2>1, <2>2 DEF DecisionInv, FailInv, HeldInv
  <2>4. ASSUME NEW f \in Files, NEW w \in Workers, file[w] = f
        PROVE  f \in unmarked' \/ file'[w] = f
    BY <1>0, <2>2, <2>4
  <2> QED
    BY <2>1, <2>3, <2>4 DEF DecisionInv, VerdictInv
<1>9. CASE UNCHANGED vars
  BY <1>9, DecisionKept DEF DecisionInv, FailInv, vars
<1> QED
  BY <1>1, <1>2, <1>3, <1>4, <1>5, <1>6, <1>7, <1>8, <1>9
  DEF Next, ProcessFile

(* The status of a file no job is at work on has its reason, however many  *)
(* jobs of it ran side by side, whatever calls failed and whichever        *)
(* processes died (ingestion.go:81-133).                                   *)
THEOREM VerdictIsWorkbooks == Spec => []VerdictMatchesWorkbook
<1>1. Init => DecisionInv
  BY InitDecision
<1>2. IInv /\ DecisionInv /\ [Next]_vars => DecisionInv'
  BY NextDecision
<1>3. IInv /\ DecisionInv => VerdictMatchesWorkbook
  <2> SUFFICES ASSUME IInv, DecisionInv,
                      NEW f \in begun \ {file[w] : w \in Workers}
               PROVE  /\ fileStatus[f] = "UPLOADED" => f \in unmarked
                      /\ fileStatus[f] = "PARSED_FAIL"
                           => f \notin Worthy \/ f \in broken
                      /\ fileStatus[f] = "PARSED_OK" => f \in Passable
    BY DEF VerdictMatchesWorkbook
  <2>1. f \in Files
    BY DEF IInv, TypeOK
  <2>2. /\ f \in Passable <=> f \notin Refused
        /\ f \in Worthy => f \in Passable
    BY <2>1, PassableUnlessRefused, WorthyPasses
  <2> QED
    BY <2>1, <2>2 DEF DecisionInv, VerdictInv
<1> QED
  BY <1>1, <1>2, <1>3, SpecIInv, PTL DEF Spec
=============================================================================
