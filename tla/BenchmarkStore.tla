---------------------------- MODULE BenchmarkStore ----------------------------
(***************************************************************************)
(* The benchmark sets: grpc/handlers/benchmark and benchtest answering the *)
(* console out of benchmark/store and benchmark/runner.                    *)
(*                                                                         *)
(* Every call has a connection of its own and takes no lock in the         *)
(* process, so calls interleave statement by statement. What orders them   *)
(* is PostgreSQL at READ COMMITTED: a statement sees what is committed     *)
(* when it starts, content_sha is UNIQUE, and a statement waits for the    *)
(* transaction that is writing what it wants to write.                     *)
(***************************************************************************)
EXTENDS Naturals, Sequences, FiniteSets

CONSTANTS
  MaxCall,     \* bound: how many calls the console makes
  File,        \* what may be uploaded
  NoFile,      \* nothing was uploaded
  Blank,       \* a line with nothing on it
  PromptId,    \* values of a line's "id"
  NoId,        \* the line has none
  Name,        \* labels a set may carry
  Label,       \* those, or an empty one, an upload comes with
  DefaultName, \* what _clean_name falls back on
  NoName,      \* an empty label
  NoSet,       \* no set has this number
  MaxRows,     \* store.MAX_ROWS
  Breakdowns,  \* GROUP BY statements of one summary, five in the code
  MaxId        \* bound: numbers the identity column hands out

Id == 1..MaxId
Call == 1..MaxCall           \* numbered as they come in
Line == [object: BOOLEAN, id: PromptId \cup {NoId}, sound: BOOLEAN] \cup {Blank}

ASSUME BenchmarkAssumption ==
  /\ File \subseteq [readable: BOOLEAN, lines: Seq(Line)]
  /\ NoFile \notin File
  /\ Blank \notin [object: BOOLEAN, id: PromptId \cup {NoId}, sound: BOOLEAN]
  /\ NoId \notin PromptId
  /\ DefaultName \in Name /\ NoName \notin Name
  /\ Label \subseteq Name \cup {NoName}
  /\ MaxRows \in Nat /\ Breakdowns \in Nat /\ MaxId \in Nat /\ MaxCall \in Nat

-----------------------------------------------------------------------------
(* parse: a file becomes rows, or is refused.                              *)

FaultyPast(read, line) ==                                \* a mutated form of Faulty
  \/ Len(read.rows) > MaxRows
  \/ ~line.object \/ line.id = NoId \/ ~line.sound
  \/ \E n \in DOMAIN read.rows : read.rows[n].doc.id = line.id

\* What keeps a line that is not blank from becoming a row.
Faulty(read, line) ==
  \/ Len(read.rows) >= MaxRows
  \/ ~line.object \/ line.id = NoId \/ ~line.sound
  \/ \E n \in DOMAIN read.rows : read.rows[n].doc.id = line.id

\* One turn of the loop. Past MAX_ROWS it only adds to the problems.
ReadLine(read, line) ==
  IF line = Blank THEN read
  ELSE IF Faulty(read, line) THEN [read EXCEPT !.problem = TRUE]
  ELSE [read EXCEPT !.rows = Append(@, [no |-> Len(@) + 1, doc |-> line])]

\* What has been read of a file after its first n lines.
ReadTo(f) ==
  LET read[n \in 0..Len(f.lines)] ==
        IF n = 0 THEN [rows |-> <<>>, problem |-> ~f.readable]
        ELSE ReadLine(read[n - 1], f.lines[n])
  IN  read

Parse == [f \in File |-> ReadTo(f)[Len(f.lines)]]
Rows(f) == Parse[f].rows
Refused(f) == Parse[f].problem \/ Len(Rows(f)) = 0

GivenName(n) == n                                        \* a mutated form of CleanName
\* _clean_name, of a label and of the file name that stands in for it.
CleanName(n) == IF n = NoName THEN DefaultName ELSE n

\* What a line of benchmark.dataset may be, what benchmark.row may hold of one
\* set, and how much a statement may find.
NewHeader(f, n) == [file |-> f, name |-> CleanName(n), count |-> Len(Rows(f))]
Header == {[file |-> f, name |-> n, count |-> Len(Rows(f))] : f \in File, n \in Name}
Table == {Rows(f) : f \in File} \cup {<<>>}
Amount == {Len(Rows(f)) : f \in File} \cup {0, 1}

ASSUME NoSetAssumption == NoSet \notin Header \cup [file: File, name: Name]

-----------------------------------------------------------------------------
VARIABLES
  dataset,  \* [Id -> Header \cup {NoSet}], benchmark.dataset as committed
  row,      \* [Id -> Table], benchmark.row as committed, by dataset_id
  ran,      \* SUBSET Id, the sets a benchmark.run refers to
  nextId,   \* the identity column's next number
  call,     \* [Call -> CallState]
  stored,   \* [Id -> File \cup {NoFile}], what was committed under a number
  before    \* [Call -> SUBSET Call], the calls answered when it came in

tables == <<dataset, row, ran, nextId>>
vars == <<dataset, row, ran, nextId, call, stored, before>>

Reading == {"export", "page", "summary", "run", "cases", "case"}
Request ==
  [op: {"upload", "delete", "rename"} \cup Reading, file: File \cup {NoFile},
   id: Id \cup {0}, name: Name \cup {NoName}]
Phase ==
  {"idle", "received", "insert", "again", "inserted", "filled", "deleting", "renaming",
   "reread", "done"}
Answer ==
  {"none", "stored", "duplicate", "rejected", "error", "failed", "deleted", "nothing",
   "renamed", "missing", "read"}
\* `id` is the set the call is about: the one named, found or made.
CallState ==
  [request: Request, phase: Phase, id: Nat, seen: Seq(Amount), answer: Answer]
NoRequest == [op |-> "page", file |-> NoFile, id |-> 0, name |-> NoName]
Idle == [request |-> NoRequest, phase |-> "idle", id |-> 0, seen |-> <<>>, answer |-> "none"]

TypeOK ==
  /\ dataset \in [Id -> Header \cup {NoSet}]
  /\ row \in [Id -> Table]
  /\ ran \in SUBSET Id
  /\ nextId \in Nat
  /\ call \in [Call -> CallState]
  /\ stored \in [Id -> File \cup {NoFile}]
  /\ before \in [Call -> SUBSET Call]

Init ==
  /\ dataset = [i \in Id |-> NoSet]
  /\ row = [i \in Id |-> <<>>]
  /\ ran = {}
  /\ nextId = 1
  /\ call = [c \in Call |-> Idle]
  /\ stored = [i \in Id |-> NoFile]
  /\ before = [c \in Call |-> {}]

-----------------------------------------------------------------------------
(* What the database holds and who holds it.                               *)

\* The set with these bytes that a statement sees.
Holding(f) == {i \in Id : dataset[i] # NoSet /\ dataset[i].file = f}

\* Transactions that have inserted these bytes and not committed.
Inserting(f) ==
  {c \in Call : call[c].phase \in {"inserted", "filled"} /\ call[c].request.file = f}

\* Transactions that have written the header of set i and not committed.
Writing(i) == {c \in Call : call[c].phase \in {"deleting", "renaming"} /\ call[c].id = i}

At(c, op, phase) == call[c].request.op = op /\ call[c].phase = phase

\* Call c goes on to its next statement, about set i.
Go(c, phase, i) == call' = [call EXCEPT ![c].phase = phase, ![c].id = i]

\* Call c returns: its connection is closed and the handler has answered.
Return(c, answer, i) ==
  call' = [call EXCEPT ![c].phase = "done", ![c].id = i, ![c].answer = answer]

\* The sets the console knows of, and whose runs it can open.
Known(i) == stored[i] # NoFile

Asks(op) ==
  CASE op = "upload" -> {[op |-> op, file |-> f, id |-> 0, name |-> n] :
                           f \in File, n \in Label}
    [] op = "rename" -> {[op |-> op, file |-> NoFile, id |-> i, name |-> n] :
                           i \in {j \in Id : Known(j)}, n \in Name \cup {NoName}}
    [] op \in {"run", "cases", "case"} ->
         {[op |-> op, file |-> NoFile, id |-> i, name |-> NoName] : i \in ran}
    [] OTHER -> {[op |-> op, file |-> NoFile, id |-> i, name |-> NoName] :
                   i \in {j \in Id : Known(j)}}

Receive(c, op) ==
  /\ call[c].phase = "idle" /\ \A d \in Call : d < c => call[d].phase # "idle"
  /\ \E r \in Asks(op) :
       call' = [call EXCEPT ![c] = [Idle EXCEPT !.request = r, !.phase = "received", !.id = r.id]]
  /\ before' = [before EXCEPT ![c] = {d \in Call : call[d].phase = "done"}]
  /\ UNCHANGED <<tables, stored>>

-----------------------------------------------------------------------------
(* UploadBenchmarkDataset.                                                 *)

Reject(c) ==
  /\ At(c, "upload", "received")
  /\ Refused(call[c].request.file)
  /\ Return(c, "rejected", 0)
  /\ UNCHANGED <<tables, stored, before>>

\* by_digest finds the bytes: DuplicateUpload.
Recognise(c) ==
  /\ At(c, "upload", "received") /\ ~Refused(call[c].request.file)
  /\ \E i \in Holding(call[c].request.file) : Return(c, "duplicate", i)
  /\ UNCHANGED <<tables, stored, before>>

LookUp(c) ==
  /\ At(c, "upload", "received") /\ ~Refused(call[c].request.file)
  /\ Holding(call[c].request.file) = {}
  /\ Go(c, "insert", 0)
  /\ UNCHANGED <<tables, stored, before>>

InsertTwin(c) ==                                         \* a mutated form of Insert
  /\ At(c, "upload", "insert")
  /\ nextId \in Id
  /\ Go(c, "inserted", nextId)
  /\ nextId' = nextId + 1
  /\ UNCHANGED <<dataset, row, ran, stored, before>>

\* The INSERT of the header. It waits for whoever has inserted the same bytes,
\* or is writing the header that holds them, to commit or roll back.
Insert(c) ==
  /\ At(c, "upload", "insert")
  /\ nextId \in Id
  /\ Inserting(call[c].request.file) = {} /\ Holding(call[c].request.file) = {}
  /\ Go(c, "inserted", nextId)
  /\ nextId' = nextId + 1
  /\ UNCHANGED <<dataset, row, ran, stored, before>>

\* UniqueViolation: back to the savepoint. The number is spent.
Collide(c) ==
  /\ At(c, "upload", "insert")
  /\ Inserting(call[c].request.file) = {}
  /\ \E i \in Holding(call[c].request.file) : Writing(i) = {}
  /\ Go(c, "again", 0)
  /\ nextId' = nextId + 1
  /\ UNCHANGED <<dataset, row, ran, stored, before>>

LookNoMore(c) ==                                         \* a mutated form of LookAgain
  /\ At(c, "upload", "again")
  /\ Return(c, "error", 0)
  /\ UNCHANGED <<tables, stored, before>>
LookUntilFound(c) ==                                     \* another
  /\ At(c, "upload", "again")
  /\ \E i \in Holding(call[c].request.file) : Return(c, "duplicate", i)
  /\ UNCHANGED <<tables, stored, before>>

\* by_digest once more, for the set that won; with that one deleted since, the
\* violation itself is raised.
LookAgain(c) ==
  /\ At(c, "upload", "again")
  /\ \/ \E i \in Holding(call[c].request.file) : Return(c, "duplicate", i)
     \/ Holding(call[c].request.file) = {} /\ Return(c, "error", 0)
  /\ UNCHANGED <<tables, stored, before>>

FillVisibly(c) ==                                        \* a mutated form of Fill
  /\ At(c, "upload", "inserted")
  /\ Go(c, "filled", call[c].id)
  /\ dataset' = [dataset EXCEPT ![call[c].id] = NewHeader(call[c].request.file, call[c].request.name)]
  /\ stored' = [stored EXCEPT ![call[c].id] = call[c].request.file]
  /\ UNCHANGED <<row, ran, nextId, before>>

\* The INSERTs of the rows, and the header read back.
Fill(c) ==
  /\ At(c, "upload", "inserted")
  /\ Go(c, "filled", call[c].id)
  /\ UNCHANGED <<tables, stored, before>>

\* The connection commits as it closes. The answer may say otherwise, when the
\* commit got through and its acknowledgement did not.
CommitUpload(c) ==
  /\ At(c, "upload", "filled")
  /\ dataset' = [dataset EXCEPT ![call[c].id] = NewHeader(call[c].request.file, call[c].request.name)]
  /\ row' = [row EXCEPT ![call[c].id] = Rows(call[c].request.file)]
  /\ stored' = [stored EXCEPT ![call[c].id] = call[c].request.file]
  /\ \E told \in {"stored", "failed"} : Return(c, told, call[c].id)
  /\ UNCHANGED <<ran, nextId, before>>

-----------------------------------------------------------------------------
(* DeleteBenchmarkDataset and RenameBenchmarkDataset.                      *)

\* The statement finds the set, waits for whoever is writing it, and holds it.
Lock(c, op, phase) ==
  /\ At(c, op, "received")
  /\ dataset[call[c].id] # NoSet
  /\ Writing(call[c].id) = {}
  /\ Go(c, phase, call[c].id)
  /\ UNCHANGED <<tables, stored, before>>

\* rowcount is 0.
FindNothing(c, op, answer) ==
  /\ At(c, op, "received")
  /\ dataset[call[c].id] = NoSet
  /\ Return(c, answer, call[c].id)
  /\ UNCHANGED <<tables, stored, before>>

DeletesNothing(c) == FindNothing(c, "delete", "deleted") \* a mutated form of DeleteNothing
Delete(c) == Lock(c, "delete", "deleting")
DeleteNothing(c) == FindNothing(c, "delete", "nothing")
Rename(c) == Lock(c, "rename", "renaming")
RenameNothing(c) == FindNothing(c, "rename", "missing")

EmptySet(c) ==                                           \* a mutated form of CommitDelete
  /\ At(c, "delete", "deleting")
  /\ row' = [row EXCEPT ![call[c].id] = <<>>]
  /\ Return(c, "failed", call[c].id)
  /\ UNCHANGED <<dataset, ran, nextId, stored, before>>

\* ON DELETE CASCADE takes the rows, the runs and their cases along.
CommitDelete(c) ==
  /\ At(c, "delete", "deleting")
  /\ dataset' = [dataset EXCEPT ![call[c].id] = NoSet]
  /\ row' = [row EXCEPT ![call[c].id] = <<>>]
  /\ ran' = ran \ {call[c].id}
  /\ \E told \in {"deleted", "failed"} : Return(c, told, call[c].id)
  /\ UNCHANGED <<nextId, stored, before>>

CommitRename(c) ==
  /\ At(c, "rename", "renaming")
  /\ dataset' = [dataset EXCEPT ![call[c].id].name = CleanName(call[c].request.name)]
  /\ Go(c, "reread", call[c].id)
  /\ UNCHANGED <<row, ran, nextId, stored, before>>

\* The answer is the header as it is by now, which a delete may have taken.
Reread(c) ==
  /\ At(c, "rename", "reread")
  /\ Return(c, IF dataset[call[c].id] = NoSet THEN "missing" ELSE "renamed", call[c].id)
  /\ UNCHANGED <<tables, stored, before>>

-----------------------------------------------------------------------------
(* The reading handlers: each is a fixed list of statements.               *)

Repeat(table, n) == [k \in 1..n |-> table]

\* The table each statement of a handler reads: ExportBenchmarkDataset,
\* ListBenchmark (count, then page), GetBenchmarkSummary, GetBenchtestRun (the
\* run, its tally, its breakdowns, its rates), ListBenchtestCases and
\* GetBenchtestCase.
Statements ==
  [export  |-> <<"dataset", "row">>,
   page    |-> <<"row", "row">>,
   summary |-> <<"dataset">> \o Repeat("row", Breakdowns),
   run     |-> <<"run">> \o Repeat("case", Breakdowns + 2),
   cases   |-> <<"case", "case">>,
   case    |-> <<"detail">>]

\* Without a first row there is no answer to give.
Headed == {"export", "summary", "run", "case"}

\* Those that read one line: a set's header, a run's, a case.
Single == {"dataset", "run", "detail"}

\* How much of set i a statement on `table` finds. A run covers its whole set.
Shows(table, i) ==
  IF dataset[i] = NoSet \/ (table \in {"run", "case", "detail"} /\ i \notin ran) THEN 0
  ELSE IF table \in Single THEN 1 ELSE Len(row[i])

Seen(c) == Append(call[c].seen, Shows(Statements[call[c].request.op][Len(call[c].seen) + 1],
                                      call[c].id))
Finished(c) ==
  IF Seen(c) = <<0>> /\ call[c].request.op \in Headed THEN "missing"
  ELSE IF Len(Seen(c)) = Len(Statements[call[c].request.op]) THEN "read" ELSE "none"

Read(c) ==
  /\ call[c].phase = "received" /\ call[c].request.op \in Reading
  /\ call' = [call EXCEPT ![c].seen = Seen(c), ![c].answer = Finished(c),
                          ![c].phase = IF Finished(c) = "none" THEN "received" ELSE "done"]
  /\ UNCHANGED <<tables, stored, before>>

-----------------------------------------------------------------------------
(* What the handlers do not decide.                                        *)

\* The connection breaks, the statement times out or the wait for a lock does:
\* the transaction is rolled back and the handler answers with the exception.
Fail(c) ==
  /\ call[c].phase \notin {"idle", "done"}
  /\ Return(c, "failed", call[c].id)
  /\ UNCHANGED <<tables, stored, before>>

\* A run made outside the service is loaded against a set. Its foreign key
\* waits for a delete of the set.
Load(i) ==
  /\ i \notin ran /\ dataset[i] # NoSet
  /\ \A c \in Writing(i) : call[c].phase # "deleting"
  /\ ran' = ran \cup {i}
  /\ UNCHANGED <<dataset, row, nextId, call, stored, before>>

Step(c) ==
  \/ Reject(c) \/ Recognise(c) \/ LookUp(c) \/ Insert(c) \/ Collide(c) \/ LookAgain(c)
  \/ Fill(c) \/ CommitUpload(c)
  \/ Delete(c) \/ DeleteNothing(c) \/ CommitDelete(c)
  \/ Rename(c) \/ RenameNothing(c) \/ CommitRename(c) \/ Reread(c)
  \/ Read(c)

Next ==
  \/ \E c \in Call : Step(c) \/ Fail(c) \/ \E op \in {"upload", "delete", "rename"} \cup Reading :
                                              Receive(c, op)
  \/ \E i \in Id : Load(i)

\* A thread that has a statement it can run gets to run it.
Fairness == \A c \in Call : WF_vars(Step(c))

Safety == Init /\ [][Next]_vars
Spec == Safety /\ Fairness

-----------------------------------------------------------------------------
(* Properties.                                                             *)

\* A set is visible with all of its prompts or not at all (store.py:235-237),
\* they are those of the file uploaded under its number, and no prompt outlives
\* its set.
WholeSets ==
  \A i \in Id :
    /\ dataset[i] # NoSet =>
         /\ dataset[i].file = stored[i]
         /\ row[i] = Rows(stored[i]) /\ dataset[i].count = Len(row[i])
    /\ dataset[i] = NoSet => row[i] = <<>> /\ i \notin ran

\* The lines of a file that hold something: where they are, which is the n-th
\* of them, and what they say.
NonBlank(f) == {k \in DOMAIN f.lines : f.lines[k] # Blank}
Nth(f, n) == CHOOSE k \in NonBlank(f) : Cardinality({j \in NonBlank(f) : j <= k}) = n
Content(f) == [n \in 1..Cardinality(NonBlank(f)) |-> f.lines[Nth(f, n)]]

\* A file that can become a set: readable, between one and MAX_ROWS lines, each
\* of them an object with an id of its own and fields of the right shape.
WellFormed ==
  {f \in File :
     LET lines == Content(f) IN
     /\ f.readable
     /\ Len(lines) \in 1..MaxRows
     /\ \A n \in DOMAIN lines : lines[n].object /\ lines[n].sound /\ lines[n].id # NoId
     /\ \A m, n \in DOMAIN lines : lines[m].id = lines[n].id => m = n}
\* Its lines in their order, the blank ones neither kept nor counted.
AsRows ==
  [f \in File |-> [n \in DOMAIN Content(f) |-> [no |-> n, doc |-> Content(f)[n]]]]

\* A file that a call has judged was refused exactly if it is not well formed,
\* and a set is what its file holds.
FilesBecomeSets ==
  /\ \A c \in Call : call[c].request.op = "upload" /\ call[c].phase # "received" =>
       LET f == call[c].request.file IN
       /\ call[c].answer = "rejected" => f \notin WellFormed
       /\ call[c].answer \in {"stored", "duplicate", "error"} => f \in WellFormed
  /\ \A i \in Id : dataset[i] # NoSet => row[i] = AsRows[stored[i]]

\* Call d took set i away, whether or not it could say so.
Deletes(d, i) ==
  /\ call[d].request.op = "delete" /\ call[d].id = i
  /\ call[d].phase = "done" /\ call[d].answer \in {"deleted", "failed"}

\* The answer to an upload is about the bytes that were uploaded: a duplicate
\* names the set that held them during the call, two calls that both stored
\* them had a delete in between, and the loser of a race is shown the winner's
\* set, or an error only if that set was deleted before it could look.
UploadsAgree ==
  \A c \in Call : call[c].request.op = "upload" /\ call[c].phase = "done" =>
    LET f == call[c].request.file
        i == call[c].id
    IN
    /\ call[c].answer \in {"stored", "duplicate"} => i \in Id /\ stored[i] = f
    /\ call[c].answer = "duplicate" =>
         \A d \in before[c] : Deletes(d, i) => call[d].answer # "deleted"
    /\ call[c].answer = "stored" =>
         \A d \in Call \ {c} : call[d].request.file = f /\ call[d].answer = "stored" =>
           \E e \in Call : Deletes(e, i) \/ Deletes(e, call[d].id)
    /\ call[c].answer = "error" =>
         \E j \in Id, d \in Call \ before[c] : stored[j] = f /\ Deletes(d, j)

\* A set that was there and that some call reported gone is gone for good, for
\* a delete in flight, a rename or a late upload alike; one call only says that
\* it deleted it.
GoneForGood ==
  \A c \in Call :
    /\ call[c].answer \in {"deleted", "nothing", "missing"} => dataset[call[c].id] = NoSet
    /\ call[c].answer = "deleted" =>
         \A d \in Call : call[d].answer = "deleted" /\ call[d].id = call[c].id => d = c

\* What each statement of a read finds when the set is whole.
Whole(op, i) ==
  [k \in DOMAIN Statements[op] |->
     IF Statements[op][k] \in Single THEN 1 ELSE Len(Rows(stored[i]))]

\* The statements of one read see different moments, but only one thing can
\* come between them: from some statement on there is nothing, because the set
\* was deleted. No statement ever finds part of a set; an answer made of several
\* may still be full in its first parts and empty in its last ones.
ReadsWholeOrGone ==
  \A c \in Call : call[c].request.op \in Reading =>
    \A k \in DOMAIN call[c].seen :
      \/ /\ call[c].seen[k] = Whole(call[c].request.op, call[c].id)[k]
         /\ \A j \in 1..k : call[c].seen[j] # 0
      \/ /\ call[c].seen[k] = 0
         /\ dataset[call[c].id] = NoSet

\* The numbers and files there are, as the promise sees them.
Sets ==
  INSTANCE Catalogue WITH
    held <- [i \in Id |-> IF dataset[i] = NoSet THEN NoSet
                          ELSE [file |-> dataset[i].file, name |-> dataset[i].name]],
    used <- {i \in Id : stored[i] # NoFile}

\* Through every interleaving the store is a catalogue: the same bytes are one
\* set, a set is never edited, a number never names two.
IsCatalogue == Sets!Spec

\* Every call is answered, the console sending finitely many: no order of
\* statements leaves two of them waiting for each other.
EveryCallAnswered == []<>(\A c \in Call : call[c].phase \in {"idle", "done"})
=============================================================================
