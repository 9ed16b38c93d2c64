------------------------- MODULE BenchmarkStoreProofs -------------------------
(***************************************************************************)
(* Proofs about BenchmarkStore, for any number of calls and any files. Up  *)
(* to the sections about it the parser stays closed: what it returns is    *)
(* not needed, only that a set is made of what it returned.                *)
(***************************************************************************)
EXTENDS BenchmarkStore, FiniteSetTheorems, WellFoundedInduction, TLAPS

-----------------------------------------------------------------------------
(* The invariant.                                                          *)

Inserts(c) == call[c].phase \in {"inserted", "filled"}
Writes(c) == call[c].phase \in {"deleting", "renaming"}
Accepted == {"insert", "again", "inserted", "filled"}

\* A set and its prompts are there together, or gone by a call that says so.
SetOf(i) ==
  /\ dataset[i] # NoSet =>
       /\ dataset[i].file = stored[i] /\ row[i] = Rows(stored[i])
       /\ dataset[i].count = Len(row[i])
  /\ dataset[i] = NoSet => row[i] = <<>> /\ i \notin ran
  /\ stored[i] # NoFile => i < nextId /\ Len(Rows(stored[i])) # 0
  /\ stored[i] # NoFile /\ dataset[i] = NoSet => \E d \in Call : Deletes(d, i)

\* The unique digest.
Apart(i, j) ==
  dataset[i] # NoSet /\ dataset[j] # NoSet /\ dataset[i].file = dataset[j].file => i = j

\* What a call can be at.
PhaseOf(c) ==
  /\ call[c].phase = "idle" => call[c] = Idle
  /\ call[c].answer # "none" => call[c].phase = "done"
  /\ call[c].phase \in Accepted \/ call[c].answer \in {"stored", "duplicate", "error"} =>
       call[c].request.op = "upload"
  /\ call[c].phase = "deleting" \/ call[c].answer = "deleted" => call[c].request.op = "delete"
  /\ call[c].phase \in {"renaming", "reread"} => call[c].request.op = "rename"
  /\ call[c].request.op = "upload" => call[c].request.file \in File
  /\ call[c].request.op # "upload" /\ call[c].phase # "idle" =>
       call[c].id \in Id /\ stored[call[c].id] # NoFile

\* What it holds, and what its answer says of the store.
HoldOf(c) ==
  /\ Inserts(c) => /\ call[c].id \in Id /\ stored[call[c].id] = NoFile
                   /\ Holding(call[c].request.file) = {}
  /\ Inserts(c) \/ call[c].answer = "stored" => call[c].id < nextId
  /\ call[c].phase \in Accepted => Len(Rows(call[c].request.file)) # 0
  /\ Writes(c) => dataset[call[c].id] # NoSet
  /\ call[c].answer \in {"stored", "duplicate"} =>
       call[c].id \in Id /\ stored[call[c].id] = call[c].request.file
  /\ call[c].answer \in {"deleted", "nothing", "missing"} =>
       /\ call[c].id \in Id /\ stored[call[c].id] # NoFile
       /\ dataset[call[c].id] = NoSet

\* What the statements of a read have found.
FoundAt(c, k) ==
  \/ /\ call[c].seen[k] = Whole(call[c].request.op, call[c].id)[k]
     /\ \A j \in 1..k : call[c].seen[j] # 0
  \/ call[c].seen[k] = 0 /\ dataset[call[c].id] = NoSet

ReadOf(c) ==
  call[c].request.op \in Reading =>
    /\ call[c].phase = "received" => Len(call[c].seen) < Len(Statements[call[c].request.op])
    /\ call[c].phase = "received" /\ call[c].request.op \in {"run", "cases", "case"} =>
         call[c].id \in ran \/ dataset[call[c].id] = NoSet
    /\ \A k \in DOMAIN call[c].seen : FoundAt(c, k)

\* What a call has seen of the calls before it.
OrderOf(c) ==
  /\ \A d \in before[c] : call[d].phase = "done"
  /\ call[c].phase = "again" =>
       \E j \in Id : /\ stored[j] = call[c].request.file
                     /\ dataset[j] # NoSet \/ \E d \in Call \ before[c] : Deletes(d, j)
  /\ call[c].answer = "error" =>
       \E j \in Id, d \in Call \ before[c] : stored[j] = call[c].request.file /\ Deletes(d, j)
  /\ call[c].answer = "duplicate" =>
       \A d \in before[c] : Deletes(d, call[c].id) => call[d].answer # "deleted"

OwnOf(c) == PhaseOf(c) /\ HoldOf(c) /\ ReadOf(c) /\ OrderOf(c)

\* Two calls never insert the same bytes, write the same set, make the same
\* set, or both say that they deleted it.
Pair(c, d) ==
  /\ Inserts(c) /\ Inserts(d) => call[c].request.file # call[d].request.file
  /\ Writes(c) /\ Writes(d) => call[c].id # call[d].id
  /\ (Inserts(c) \/ call[c].answer = "stored") /\ (Inserts(d) \/ call[d].answer = "stored") =>
       call[c].id # call[d].id
  /\ call[c].answer = "deleted" /\ call[d].answer = "deleted" => call[c].id # call[d].id

StoreInv ==
  /\ TypeOK
  /\ \A i \in Id : SetOf(i)
  /\ \A i, j \in Id : Apart(i, j)
  /\ \A c \in Call : OwnOf(c)
  /\ \A c, d \in Call : c # d => Pair(c, d)

-----------------------------------------------------------------------------
(* Helpers.                                                                *)

LEMMA HeaderFacts ==
  ASSUME NEW x \in Header
  PROVE  x # NoSet /\ x.file \in File /\ x.file # NoFile
BY BenchmarkAssumption, NoSetAssumption DEF Header

LEMMA NewHeaderFacts ==
  ASSUME NEW f \in File, NEW n \in Name \cup {NoName}
  PROVE  /\ NewHeader(f, n) \in Header
         /\ NewHeader(f, n).file = f /\ NewHeader(f, n).count = Len(Rows(f))
         /\ NewHeader(f, n).name \in Name
BY BenchmarkAssumption DEF NewHeader, Header, CleanName

LEMMA RepeatFacts ==
  ASSUME NEW v, NEW n \in Nat
  PROVE  Repeat(v, n) \in Seq({v}) /\ Len(Repeat(v, n)) = n
BY DEF Repeat

LEMMA SeqWider ==
  ASSUME NEW S, NEW T, S \subseteq T, NEW s \in Seq(S)
  PROVE  s \in Seq(T)
OBVIOUS

LEMMA StatementsFacts ==
  ASSUME NEW op \in Reading
  PROVE  /\ Statements[op] \in Seq({"dataset", "row", "run", "case", "detail"})
         /\ Len(Statements[op]) \in Nat \ {0}
         /\ op = "run" => Statements[op][1] = "run"
         /\ op = "case" => Statements[op] = <<"detail">>
         /\ op \in {"export", "summary"} => Statements[op][1] = "dataset"
         /\ op \in {"export", "page", "summary"} =>
              \A k \in DOMAIN Statements[op] : Statements[op][k] \in {"dataset", "row"}
<1> DEFINE R == Repeat("row", Breakdowns)
           C == Repeat("case", Breakdowns + 2)
           DR == <<"dataset">> \o R
           RC == <<"run">> \o C
<1>1. Breakdowns \in Nat /\ Breakdowns + 2 \in Nat
  BY BenchmarkAssumption
<1>2. R \in Seq({"row"}) /\ C \in Seq({"case"})
  BY <1>1, RepeatFacts
<1>3. Statements = [export |-> <<"dataset", "row">>, page |-> <<"row", "row">>, summary |-> DR,
                    run |-> RC, cases |-> <<"case", "case">>, case |-> <<"detail">>]
  BY DEF Statements
<1> HIDE DEF R, C
<1>4. /\ DR \in Seq({"dataset", "row"}) /\ RC \in Seq({"run", "case", "detail"})
      /\ Len(DR) \in Nat \ {0} /\ Len(RC) \in Nat \ {0}
      /\ DR[1] = "dataset" /\ RC[1] = "run"
  BY <1>2
<1> HIDE DEF DR, RC
<1>5. /\ Statements["export"] = <<"dataset", "row">> /\ Statements["page"] = <<"row", "row">>
      /\ Statements["summary"] = DR /\ Statements["run"] = RC
      /\ Statements["cases"] = <<"case", "case">> /\ Statements["case"] = <<"detail">>
  BY <1>3
<1>6. CASE op = "summary"
  BY <1>4, <1>5, <1>6
<1>7. CASE op = "run"
  BY <1>4, <1>5, <1>7
<1>8. CASE op \in {"export", "page"}
  <2>1. \A v, w \in {"dataset", "row"} :
          <<v, w>> \in Seq({"dataset", "row"}) /\ Len(<<v, w>>) = 2
    OBVIOUS
  <2>2. Statements[op] \in Seq({"dataset", "row"}) /\ Len(Statements[op]) = 2
    BY <1>5, <1>8, <2>1
  <2>3. op = "export" => Statements[op][1] = "dataset"
    BY <1>5
  <2> QED
    BY <1>8, <2>2, <2>3
<1>9. CASE op \in {"cases", "case"}
  <2>1. /\ <<"case", "case">> \in Seq({"case", "detail"}) /\ Len(<<"case", "case">>) = 2
        /\ <<"detail">> \in Seq({"case", "detail"}) /\ Len(<<"detail">>) = 1
    OBVIOUS
  <2>2. Statements[op] \in Seq({"case", "detail"})
    BY <1>5, <1>9, <2>1
  <2>3. Statements[op] \in Seq({"dataset", "row", "run", "case", "detail"})
    <3>1. {"case", "detail"} \subseteq {"dataset", "row", "run", "case", "detail"}
      OBVIOUS
    <3> QED
      BY <2>2, <3>1, SeqWider
  <2>4. Len(Statements[op]) \in Nat \ {0}
    <3>1. Len(Statements[op]) \in {1, 2}
      BY <1>5, <1>9, <2>1
    <3>2. \A n \in {1, 2} : n \in Nat \ {0}
      OBVIOUS
    <3> QED
      BY <3>1, <3>2
  <2>5. op = "case" => Statements[op] = <<"detail">>
    BY <1>5
  <2>6. op \notin {"run", "export", "page", "summary"}
    BY <1>9
  <2> QED
    BY <2>3, <2>4, <2>5, <2>6
<1> QED
  BY <1>6, <1>7, <1>8, <1>9 DEF Reading

-----------------------------------------------------------------------------
(* One call moves.                                                         *)

Others(c) == call' \in [Call -> CallState] /\ \A d \in Call \ {c} : call'[d] = call[d]

LEMMA GoShape ==
  ASSUME TypeOK, NEW c \in Call, NEW p \in Phase, NEW i \in Nat, Go(c, p, i)
  PROVE  /\ Others(c)
         /\ call'[c].phase = p /\ call'[c].id = i /\ call'[c].request = call[c].request
         /\ call'[c].seen = call[c].seen /\ call'[c].answer = call[c].answer
BY DEF TypeOK, Go, Others, CallState

LEMMA ReturnShape ==
  ASSUME TypeOK, NEW c \in Call, NEW a \in Answer, NEW i \in Nat, Return(c, a, i)
  PROVE  /\ Others(c)
         /\ call'[c].phase = "done" /\ call'[c].id = i /\ call'[c].request = call[c].request
         /\ call'[c].seen = call[c].seen /\ call'[c].answer = a
BY DEF TypeOK, Return, Others, CallState, Phase

LEMMA CallFacts ==
  ASSUME TypeOK, NEW c \in Call
  PROVE  /\ call[c].request \in Request /\ call[c].phase \in Phase /\ call[c].id \in Nat
         /\ call[c].seen \in Seq(Amount) /\ call[c].answer \in Answer
         /\ 0 \in Nat /\ Id \subseteq Nat /\ nextId \in Nat
BY BenchmarkAssumption DEF TypeOK, CallState, Id

\* A call that is over stays as it is, and so does what it deleted.
LEMMA DoneKept ==
  ASSUME StoreInv, NEW c \in Call, Others(c), call[c].phase # "done"
  PROVE  /\ \A d \in Call : call[d].phase = "done" => call'[d] = call[d]
         /\ \A d \in Call, i \in Id : Deletes(d, i) => Deletes(d, i)'
         /\ \A d \in Call : call[d].phase = "done" => \A i \in Nat : Deletes(d, i)' = Deletes(d, i)
<1>1. \A d \in Call : call[d].phase = "done" => call'[d] = call[d]
  BY DEF Others
<1> QED
  BY <1>1 DEF Deletes

\* What the other calls are at depends on the tables and on their own state.
LEMMA OthersKept ==
  ASSUME StoreInv, NEW c \in Call, Others(c), call[c].phase # "done",
         UNCHANGED <<dataset, row, ran, stored>>, nextId' \in {nextId, nextId + 1},
         \A d \in Call \ {c} : before'[d] = before[d]
  PROVE  /\ \A d \in Call \ {c} : OwnOf(d)'
         /\ \A i \in Id : SetOf(i)'
<1>1. /\ \A d \in Call : call[d].phase = "done" => call'[d] = call[d]
      /\ \A d \in Call, i \in Id : Deletes(d, i) => Deletes(d, i)'
      /\ \A d \in Call : call[d].phase = "done" =>
           \A i \in Nat : Deletes(d, i)' = Deletes(d, i)
  BY DoneKept
<1>2. nextId \in Nat /\ Id \subseteq Nat
  BY BenchmarkAssumption DEF StoreInv, TypeOK, Id
<1>3. ASSUME NEW i \in Id PROVE SetOf(i)'
  <2>1. SetOf(i)
    BY DEF StoreInv
  <2>2. i < nextId => i < nextId'
    BY <1>2
  <2> QED
    BY <1>1, <2>1, <2>2 DEF SetOf
<1>4. ASSUME NEW d \in Call \ {c} PROVE OwnOf(d)'
  <2>1. call'[d] = call[d] /\ before'[d] = before[d] /\ before[d] \subseteq Call
    BY DEF Others, StoreInv, TypeOK
  <2>2. OwnOf(d) /\ call[d].id \in Nat
    BY CallFacts DEF StoreInv
  <2>3. PhaseOf(d)'
    BY <2>1, <2>2 DEF OwnOf, PhaseOf
  <2>4. HoldOf(d)'
    <3>1. Holding(call[d].request.file)' = Holding(call[d].request.file)
      BY <2>1 DEF Holding
    <3>2. call[d].id < nextId => call[d].id < nextId'
      BY <1>2, <2>2
    <3> QED
      BY <2>1, <2>2, <3>1, <3>2 DEF OwnOf, HoldOf, Inserts, Writes
  <2>5. ReadOf(d)'
    BY <2>1, <2>2 DEF OwnOf, ReadOf, FoundAt, Whole
  <2>6. OrderOf(d)'
    <3>1. \A e \in before[d] : call[e].phase = "done" /\ call'[e] = call[e]
      BY <1>1, <2>1, <2>2 DEF OwnOf, OrderOf
    <3>2. call[d].answer = "duplicate" =>
            \A e \in before[d] : Deletes(e, call[d].id)' => call'[e].answer # "deleted"
      BY <1>1, <2>1, <2>2, <3>1 DEF OwnOf, OrderOf
    <3> QED
      BY <1>1, <2>1, <2>2, <3>1, <3>2 DEF OwnOf, OrderOf
  <2> QED
    BY <2>3, <2>4, <2>5, <2>6 DEF OwnOf
<1> QED
  BY <1>3, <1>4

LEMMA PairsKept ==
  ASSUME StoreInv, NEW c \in Call, Others(c), \A d \in Call \ {c} : Pair(c, d)'
  PROVE  \A d, e \in Call : d # e => Pair(d, e)'
<1> SUFFICES ASSUME NEW d \in Call, NEW e \in Call, d # e PROVE Pair(d, e)'
  OBVIOUS
<1>1. CASE d = c
  BY <1>1
<1>2. CASE e = c
  <2>1. Pair(e, d)'
    BY <1>2
  <2> QED
    BY <2>1 DEF Pair
<1>3. CASE d # c /\ e # c
  <2>1. call'[d] = call[d] /\ call'[e] = call[e] /\ Pair(d, e)
    BY <1>3 DEF Others, StoreInv
  <2> QED
    BY <2>1 DEF Pair, Inserts, Writes
<1> QED
  BY <1>1, <1>2, <1>3

\* A statement that changes no table, or an answer without one.
LEMMA CallOnly ==
  ASSUME StoreInv, NEW c \in Call, Others(c), call[c].phase # "done",
         UNCHANGED <<dataset, row, ran, stored>>, nextId' \in {nextId, nextId + 1},
         before' \in [Call -> SUBSET Call], \A d \in Call \ {c} : before'[d] = before[d],
         OwnOf(c)', \A d \in Call \ {c} : Pair(c, d)'
  PROVE  StoreInv'
<1>1. \A d \in Call : OwnOf(d)'
  BY OthersKept
<1>2. \A i \in Id : SetOf(i)'
  BY OthersKept
<1>3. \A i, j \in Id : Apart(i, j)'
  BY DEF StoreInv, Apart
<1>4. TypeOK'
  BY DEF StoreInv, TypeOK, Others
<1> QED
  BY <1>1, <1>2, <1>3, <1>4, PairsKept DEF StoreInv

LEMMA EndCall ==
  ASSUME StoreInv, NEW c \in Call, call[c].phase \notin {"idle", "done"},
         NEW a \in Answer \ {"none", "stored", "deleted"}, NEW i \in Nat, Return(c, a, i),
         UNCHANGED <<tables, stored, before>>,
         call[c].request.op # "upload" => i = call[c].id,
         a \in {"duplicate", "error"} => call[c].request.op = "upload",
         a = "duplicate" =>
           i \in Id /\ stored[i] = call[c].request.file /\ dataset[i] # NoSet,
         a = "error" => call[c].phase = "again" /\ Holding(call[c].request.file) = {},
         a \in {"nothing", "missing"} => call[c].request.op # "upload" /\ dataset[i] = NoSet
  PROVE  StoreInv'
<1>1. /\ Others(c)
      /\ call'[c].phase = "done" /\ call'[c].id = i /\ call'[c].request = call[c].request
      /\ call'[c].seen = call[c].seen /\ call'[c].answer = a
  BY ReturnShape DEF StoreInv
<1>2. UNCHANGED <<dataset, row, ran, stored, before, nextId>>
  BY DEF tables
<1>3. OwnOf(c) /\ before[c] \subseteq Call
  BY DEF StoreInv, TypeOK
<1>4. PhaseOf(c)'
  BY <1>1, <1>2, <1>3 DEF OwnOf, PhaseOf, Accepted
<1>5. HoldOf(c)'
  BY <1>1, <1>2, <1>3 DEF OwnOf, PhaseOf, HoldOf, Inserts, Writes, Accepted
<1>6. ReadOf(c)'
  <2>1. call[c].request.op \in Reading => call'[c].id = call[c].id
    BY <1>1 DEF Reading
  <2> QED
    BY <1>1, <1>2, <1>3, <2>1 DEF OwnOf, ReadOf, FoundAt, Whole
<1>7. OrderOf(c)'
  <2>1. \A d \in before[c] : d \in Call /\ call[d].phase = "done" /\ call'[d] = call[d]
    BY <1>1, <1>3, DoneKept DEF OwnOf, OrderOf
  <2>2. ASSUME a = "error"
        PROVE  \E j \in Id, d \in Call \ before[c] :
                 stored[j] = call[c].request.file /\ Deletes(d, j)'
    <3>1. PICK j \in Id : /\ stored[j] = call[c].request.file
                          /\ dataset[j] # NoSet \/ \E d \in Call \ before[c] : Deletes(d, j)
      BY <1>3, <2>2 DEF OwnOf, OrderOf
    <3>2. dataset[j] # NoSet => dataset[j].file = stored[j]
      BY DEF StoreInv, SetOf
    <3>3. PICK d \in Call \ before[c] : Deletes(d, j)
      BY <2>2, <3>1, <3>2 DEF Holding
    <3> QED
      BY <1>1, <3>1, <3>3, DoneKept
  <2>3. ASSUME a = "duplicate", NEW d \in before[c], Deletes(d, i)' PROVE call'[d].answer # "deleted"
    <3>1. call[d].id = i /\ HoldOf(d) /\ call'[d] = call[d]
      BY <2>1, <2>3 DEF Deletes, StoreInv, OwnOf
    <3> QED
      BY <2>3, <3>1 DEF HoldOf
  <2> QED
    BY <1>1, <1>2, <2>1, <2>2, <2>3 DEF OrderOf
<1>8. \A d \in Call \ {c} : Pair(c, d)'
  BY <1>1 DEF Pair, Inserts, Writes
<1>9. before' \in [Call -> SUBSET Call]
  BY DEF StoreInv, TypeOK
<1> QED
  BY <1>1, <1>2, <1>4, <1>5, <1>6, <1>7, <1>8, <1>9, CallOnly DEF OwnOf

LEMMA MoveCall ==
  ASSUME StoreInv, NEW c \in Call, call[c].phase \notin {"idle", "done"},
         NEW p \in Phase \ {"idle", "received", "done"}, NEW i \in Nat, Go(c, p, i),
         UNCHANGED <<dataset, row, ran, stored, before>>, nextId' \in {nextId, nextId + 1},
         call[c].request.op \notin Reading,
         call[c].request.op # "upload" => i = call[c].id,
         p \in Accepted =>
           call[c].request.op = "upload" /\ Len(Rows(call[c].request.file)) # 0,
         p = "deleting" => call[c].request.op = "delete",
         p \in {"renaming", "reread"} => call[c].request.op = "rename",
         p \in {"inserted", "filled"} =>
           /\ i \in Id /\ stored[i] = NoFile /\ i < nextId'
           /\ Holding(call[c].request.file) = {}
           /\ \A d \in Call \ {c} :
                /\ Inserts(d) => call[d].request.file # call[c].request.file
                /\ Inserts(d) \/ call[d].answer = "stored" => call[d].id # i,
         p \in {"deleting", "renaming"} =>
           dataset[i] # NoSet /\ \A d \in Call \ {c} : Writes(d) => call[d].id # i,
         p = "again" => Holding(call[c].request.file) # {}
  PROVE  StoreInv'
<1>1. /\ Others(c)
      /\ call'[c].phase = p /\ call'[c].id = i /\ call'[c].request = call[c].request
      /\ call'[c].seen = call[c].seen /\ call'[c].answer = call[c].answer
  BY GoShape DEF StoreInv
<1>2. OwnOf(c) /\ before[c] \subseteq Call
  BY DEF StoreInv, TypeOK
<1>3. call[c].answer = "none"
  BY <1>2 DEF OwnOf, PhaseOf
<1>4. PhaseOf(c)'
  BY <1>1, <1>2, <1>3 DEF OwnOf, PhaseOf, Accepted
<1>5. HoldOf(c)'
  <2>1. Holding(call[c].request.file)' = Holding(call[c].request.file)
    BY <1>1 DEF Holding
  <2> QED
    BY <1>1, <1>3, <2>1 DEF HoldOf, Inserts, Writes, Accepted, Holding
<1>6. ReadOf(c)'
  BY <1>1 DEF ReadOf
<1>7. OrderOf(c)'
  <2>1. \A d \in before[c] : call[d].phase = "done" /\ call'[d] = call[d]
    BY <1>1, <1>2, DoneKept DEF OwnOf, OrderOf
  <2>2. p = "again" => \E j \in Id : stored[j] = call[c].request.file /\ dataset[j] # NoSet
    BY DEF Holding, StoreInv, SetOf
  <2> QED
    BY <1>1, <1>3, <2>1, <2>2 DEF OrderOf
<1>8. ASSUME NEW d \in Call \ {c} PROVE Pair(c, d)'
  <2>1. call'[d] = call[d]
    BY <1>1 DEF Others
  <2> QED
    BY <1>1, <1>3, <2>1 DEF Pair, Inserts, Writes
<1>9. before' \in [Call -> SUBSET Call]
  BY DEF StoreInv, TypeOK
<1> QED
  BY <1>1, <1>4, <1>5, <1>6, <1>7, <1>8, <1>9, CallOnly DEF OwnOf

-----------------------------------------------------------------------------
(* The actions.                                                            *)

LEMMA UploadSteps ==
  ASSUME StoreInv, NEW c \in Call,
         \/ Reject(c) \/ Recognise(c) \/ LookUp(c) \/ Insert(c) \/ Collide(c) \/ LookAgain(c)
         \/ Fill(c)
  PROVE  StoreInv'
<1> DEFINE f == call[c].request.file
<1>1. OwnOf(c) /\ TypeOK /\ nextId \in Nat /\ Id \subseteq Nat /\ nextId + 1 \in Nat
  BY CallFacts DEF StoreInv
<1>2. CASE Reject(c)
  BY <1>2, EndCall DEF Reject, At, Answer
<1>3. CASE Recognise(c)
  <2>1. PICK i \in Holding(f) : Return(c, "duplicate", i)
    BY <1>3 DEF Recognise
  <2>2. i \in Id /\ i \in Nat /\ stored[i] = f /\ dataset[i] # NoSet
    BY <1>1, <2>1 DEF Holding, StoreInv, SetOf
  <2> QED
    BY <1>3, <2>1, <2>2, EndCall DEF Recognise, At, Answer
<1>4. CASE LookUp(c)
  <2>1. Go(c, "insert", 0) /\ UNCHANGED <<dataset, row, ran, stored, before, nextId>>
    BY <1>4 DEF LookUp, tables
  <2>2. call[c].request.op = "upload" /\ call[c].phase = "received" /\ Len(Rows(f)) # 0
    BY <1>4 DEF LookUp, At, Refused
  <2> QED
    BY <2>1, <2>2, MoveCall DEF Phase, Reading
<1>5. CASE Insert(c)
  <2>1. /\ Go(c, "inserted", nextId) /\ nextId' = nextId + 1 /\ nextId \in Id
        /\ UNCHANGED <<dataset, row, ran, stored, before>>
        /\ call[c].request.op = "upload" /\ call[c].phase = "insert" /\ Holding(f) = {}
    BY <1>5 DEF Insert, At
  <2>2. stored[nextId] = NoFile /\ nextId < nextId'
    BY <1>1, <2>1 DEF StoreInv, SetOf
  <2>3. Len(Rows(f)) # 0
    BY <1>1, <2>1 DEF OwnOf, HoldOf, Accepted
  <2>4. ASSUME NEW d \in Call \ {c}
        PROVE  /\ Inserts(d) => call[d].request.file # f
               /\ Inserts(d) \/ call[d].answer = "stored" => call[d].id # nextId
    <3>1. OwnOf(d) /\ call[d].id \in Nat
      BY CallFacts DEF StoreInv
    <3>2. Inserts(d) => call[d].request.file # f
      BY <1>5 DEF Insert, Inserting, Inserts
    <3>3. Inserts(d) \/ call[d].answer = "stored" => call[d].id < nextId
      BY <3>1 DEF OwnOf, HoldOf
    <3> QED
      BY <1>1, <3>1, <3>2, <3>3
  <2> QED
    BY <1>1, <2>1, <2>2, <2>3, <2>4, MoveCall DEF Phase, Reading
<1>6. CASE Collide(c)
  <2>1. /\ Go(c, "again", 0) /\ nextId' = nextId + 1
        /\ UNCHANGED <<dataset, row, ran, stored, before>>
        /\ call[c].request.op = "upload" /\ call[c].phase = "insert" /\ Holding(f) # {}
    BY <1>6 DEF Collide, At
  <2>2. Len(Rows(f)) # 0
    BY <1>1, <2>1 DEF OwnOf, HoldOf, Accepted
  <2> QED
    BY <2>1, <2>2, MoveCall DEF Phase, Reading
<1>7. CASE LookAgain(c)
  <2>1. /\ call[c].request.op = "upload" /\ call[c].phase = "again"
        /\ UNCHANGED <<tables, stored, before>>
    BY <1>7 DEF LookAgain, At
  <2>2. CASE Holding(f) = {} /\ Return(c, "error", 0)
    BY <2>1, <2>2, EndCall DEF Answer
  <2>3. ASSUME NEW i \in Holding(f), Return(c, "duplicate", i) PROVE StoreInv'
    <3>1. i \in Id /\ i \in Nat /\ stored[i] = f /\ dataset[i] # NoSet
      BY <1>1 DEF Holding, StoreInv, SetOf
    <3> QED
      BY <2>1, <2>3, <3>1, EndCall DEF Answer
  <2> QED
    BY <1>7, <2>2, <2>3 DEF LookAgain
<1>8. CASE Fill(c)
  <2>1. /\ Go(c, "filled", call[c].id) /\ UNCHANGED <<dataset, row, ran, stored, before, nextId>>
        /\ call[c].request.op = "upload" /\ call[c].phase = "inserted"
    BY <1>8 DEF Fill, At, tables
  <2>2. /\ call[c].id \in Id /\ call[c].id \in Nat /\ stored[call[c].id] = NoFile
        /\ call[c].id < nextId' /\ Holding(f) = {} /\ Len(Rows(f)) # 0
    BY <1>1, <2>1 DEF OwnOf, HoldOf, Inserts, Accepted
  <2>3. ASSUME NEW d \in Call \ {c}
        PROVE  /\ Inserts(d) => call[d].request.file # f
               /\ Inserts(d) \/ call[d].answer = "stored" => call[d].id # call[c].id
    <3>1. Pair(c, d)
      BY DEF StoreInv
    <3> QED
      BY <2>1, <3>1 DEF Pair, Inserts
  <2> QED
    BY <2>1, <2>2, <2>3, MoveCall DEF Phase, Reading
<1> QED
  BY <1>2, <1>3, <1>4, <1>5, <1>6, <1>7, <1>8

LEMMA LockSteps ==
  ASSUME StoreInv, NEW c \in Call,
         Delete(c) \/ DeleteNothing(c) \/ Rename(c) \/ RenameNothing(c) \/ Reread(c) \/ Fail(c)
  PROVE  StoreInv'
<1>1. OwnOf(c) /\ TypeOK /\ call[c].id \in Nat
  BY CallFacts DEF StoreInv
<1>2. ASSUME NEW op \in {"delete", "rename"}, NEW p \in {"deleting", "renaming"},
             Lock(c, op, p), op = "delete" <=> p = "deleting"
      PROVE  StoreInv'
  <2>1. /\ call[c].request.op = op /\ call[c].phase = "received"
        /\ dataset[call[c].id] # NoSet /\ Go(c, p, call[c].id)
        /\ UNCHANGED <<dataset, row, ran, stored, before, nextId>>
    BY <1>2 DEF Lock, At, tables
  <2>2. \A d \in Call \ {c} : Writes(d) => call[d].id # call[c].id
    BY <1>2 DEF Lock, Writing, Writes
  <2> QED
    BY <1>1, <1>2, <2>1, <2>2, MoveCall DEF Phase, Reading, Accepted
<1>3. CASE Delete(c)
  BY <1>2, <1>3 DEF Delete
<1>4. CASE Rename(c)
  BY <1>2, <1>4 DEF Rename
<1>5. ASSUME NEW op \in {"delete", "rename"}, NEW a \in {"nothing", "missing"},
             FindNothing(c, op, a)
      PROVE  StoreInv'
  BY <1>1, <1>5, EndCall DEF FindNothing, At, Answer
<1>6. CASE DeleteNothing(c)
  BY <1>5, <1>6 DEF DeleteNothing
<1>7. CASE RenameNothing(c)
  BY <1>5, <1>7 DEF RenameNothing
<1>8. CASE Reread(c)
  BY <1>1, <1>8, EndCall DEF Reread, At, Answer
<1>9. CASE Fail(c)
  BY <1>1, <1>9, EndCall DEF Fail, Answer
<1> QED
  BY <1>3, <1>4, <1>6, <1>7, <1>8, <1>9

LEMMA AskFacts ==
  ASSUME StoreInv, NEW op \in {"upload", "delete", "rename"} \cup Reading, NEW r \in Asks(op)
  PROVE  /\ r \in Request /\ r.op = op /\ r.id \in Nat
         /\ op = "upload" => r.file \in File
         /\ op # "upload" => r.id \in Id /\ stored[r.id] # NoFile
         /\ op \in {"run", "cases", "case"} => r.id \in ran
<1>1. /\ \A i \in ran : i \in Id /\ stored[i] # NoFile
      /\ Label \subseteq Name \cup {NoName} /\ Id \subseteq Nat
  <2>1. ASSUME NEW i \in ran PROVE i \in Id /\ stored[i] # NoFile
    <3>1. i \in Id /\ dataset[i] # NoSet /\ dataset[i] \in Header
      BY DEF StoreInv, TypeOK, SetOf
    <3> QED
      BY <3>1, HeaderFacts DEF StoreInv, SetOf
  <2> QED
    BY <2>1, BenchmarkAssumption DEF Id
<1>2. CASE op = "upload"
  <2>1. PICK f \in File, n \in Label : r = [op |-> op, file |-> f, id |-> 0, name |-> n]
    BY <1>2 DEF Asks
  <2> QED
    BY <1>1, <1>2, <2>1 DEF Request
<1>3. CASE op = "rename"
  <2>1. PICK i \in {j \in Id : Known(j)}, n \in Name \cup {NoName} :
          r = [op |-> op, file |-> NoFile, id |-> i, name |-> n]
    BY <1>3 DEF Asks
  <2> QED
    BY <1>1, <1>3, <2>1 DEF Request, Known
<1>4. CASE op \in {"run", "cases", "case"}
  <2>1. PICK i \in ran : r = [op |-> op, file |-> NoFile, id |-> i, name |-> NoName]
    BY <1>4 DEF Asks
  <2> QED
    BY <1>1, <1>4, <2>1 DEF Request, Reading
<1>5. CASE op \in {"delete", "export", "page", "summary"}
  <2>1. PICK i \in {j \in Id : Known(j)} :
          r = [op |-> op, file |-> NoFile, id |-> i, name |-> NoName]
    BY <1>5 DEF Asks
  <2> QED
    BY <1>1, <1>5, <2>1 DEF Request, Known, Reading
<1> QED
  BY <1>2, <1>3, <1>4, <1>5 DEF Reading

LEMMA ReceiveStep ==
  ASSUME StoreInv, NEW c \in Call, NEW op \in {"upload", "delete", "rename"} \cup Reading,
         Receive(c, op)
  PROVE  StoreInv'
<1>1. PICK r \in Asks(op) :
        call' = [call EXCEPT ![c] = [Idle EXCEPT !.request = r, !.phase = "received", !.id = r.id]]
  BY DEF Receive
<1>2. /\ r \in Request /\ r.op = op /\ r.id \in Nat
      /\ op = "upload" => r.file \in File
      /\ op # "upload" => r.id \in Id /\ stored[r.id] # NoFile
      /\ op \in {"run", "cases", "case"} => r.id \in ran
  BY AskFacts
<1> DEFINE x == [Idle EXCEPT !.request = r, !.phase = "received", !.id = r.id]
<1>3. /\ x.request = r /\ x.phase = "received" /\ x.id = r.id /\ x.seen = <<>>
      /\ x.answer = "none"
  BY DEF Idle
<1>4. x \in CallState
  <2>1. "received" \in Phase /\ "none" \in Answer /\ <<>> \in Seq(Amount)
    BY DEF Phase, Answer
  <2> QED
    BY <1>2, <2>1 DEF CallState, Idle
<1> HIDE DEF x
<1>5. Others(c) /\ call'[c] = x
  BY <1>1, <1>4 DEF Others, StoreInv, TypeOK, x
<1>6. /\ call[c].phase # "done" /\ UNCHANGED <<dataset, row, ran, nextId, stored>>
      /\ before' = [before EXCEPT ![c] = {d \in Call : call[d].phase = "done"}]
  BY DEF Receive, tables
<1>7. /\ before' \in [Call -> SUBSET Call] /\ before'[c] = {d \in Call : call[d].phase = "done"}
      /\ \A d \in Call \ {c} : before'[d] = before[d]
  BY <1>6 DEF StoreInv, TypeOK
<1>8. PhaseOf(c)' /\ HoldOf(c)'
  BY <1>2, <1>3, <1>5, <1>6
     DEF PhaseOf, HoldOf, Inserts, Writes, Accepted
<1>9. ReadOf(c)'
  <2>1. op \in Reading => Len(Statements[op]) \in Nat \ {0}
    BY StatementsFacts
  <2>2. Len(<<>>) = 0 /\ \A k \in DOMAIN <<>> : FALSE
    OBVIOUS
  <2>3. op \in Reading => Len(<<>>) < Len(Statements[op])
    BY <2>1, <2>2
  <2> QED
    BY <1>2, <1>3, <1>5, <1>6, <2>2, <2>3 DEF ReadOf
<1>10. OrderOf(c)'
  <2>1. \A d \in before'[c] : call'[d].phase = "done"
    BY <1>5, <1>6, <1>7, DoneKept
  <2> QED
    BY <1>3, <1>5, <2>1 DEF OrderOf
<1>11. \A d \in Call \ {c} : Pair(c, d)'
  BY <1>3, <1>5 DEF Pair, Inserts, Writes
<1> QED
  BY <1>5, <1>6, <1>7, <1>8, <1>9, <1>10, <1>11, CallOnly DEF OwnOf

\* What one statement finds: nothing once the set is gone, and all of it before.
LEMMA ShowsFacts ==
  ASSUME StoreInv, NEW c \in Call, call[c].phase = "received", call[c].request.op \in Reading,
         NEW k \in DOMAIN Statements[call[c].request.op]
  PROVE  LET n == Shows(Statements[call[c].request.op][k], call[c].id)
         IN  /\ n \in Amount
             /\ dataset[call[c].id] = NoSet => n = 0
             /\ dataset[call[c].id] # NoSet =>
                  n # 0 /\ n = Whole(call[c].request.op, call[c].id)[k]
<1> DEFINE op == call[c].request.op
           i == call[c].id
           n == Shows(Statements[op][k], i)
<1>1. OwnOf(c) /\ i \in Id /\ stored[i] # NoFile
  BY DEF StoreInv, OwnOf, PhaseOf, Reading
<1>2. SetOf(i) /\ stored[i] \in File /\ dataset[i] \in Header \cup {NoSet}
  BY <1>1 DEF StoreInv, TypeOK
<1>3. dataset[i] = NoSet => n = 0
  BY DEF Shows
<1>4. ASSUME dataset[i] # NoSet
      PROVE  n = (IF Statements[op][k] \in Single THEN 1 ELSE Len(row[i]))
  <2>1. CASE op \in {"run", "cases", "case"}
    <3>1. i \in ran
      BY <1>1, <1>4, <2>1 DEF OwnOf, ReadOf
    <3> QED
      BY <1>4, <3>1 DEF Shows
  <2>2. CASE op \in {"export", "page", "summary"}
    <3>1. Statements[op][k] \in {"dataset", "row"}
      BY <2>2, StatementsFacts
    <3> QED
      BY <1>4, <3>1 DEF Shows
  <2> QED
    BY <2>1, <2>2 DEF Reading
<1>5. dataset[i] # NoSet => row[i] = Rows(stored[i]) /\ Len(Rows(stored[i])) # 0
  BY <1>1, <1>2 DEF SetOf
<1>6. Len(Rows(stored[i])) \in Amount /\ 0 \in Amount /\ 1 \in Amount
  BY <1>2 DEF Amount
<1>7. dataset[i] # NoSet => n # 0 /\ n = Whole(op, i)[k]
  BY <1>4, <1>5 DEF Whole
<1>8. n \in Amount
  BY <1>3, <1>4, <1>5, <1>6
<1> HIDE DEF n
<1> QED
  BY <1>3, <1>7, <1>8 DEF n

LEMMA ReadStep ==
  ASSUME StoreInv, NEW c \in Call, Read(c)
  PROVE  StoreInv'
<1> DEFINE op == call[c].request.op
           i == call[c].id
           k == Len(call[c].seen) + 1
           n == Shows(Statements[op][k], i)
<1>1. /\ call[c].phase = "received" /\ op \in Reading
      /\ UNCHANGED <<dataset, row, ran, nextId, stored, before>>
  BY DEF Read, tables
<1>2. /\ OwnOf(c) /\ i \in Id /\ stored[i] # NoFile /\ call[c].answer = "none"
      /\ call[c] \in CallState /\ call[c].seen \in Seq(Amount)
      /\ before \in [Call -> SUBSET Call]
  BY <1>1, CallFacts DEF StoreInv, OwnOf, PhaseOf, Reading, TypeOK
<1>3. /\ Statements[op] \in Seq({"dataset", "row", "run", "case", "detail"})
      /\ Len(call[c].seen) < Len(Statements[op])
  BY <1>1, <1>2, StatementsFacts DEF OwnOf, ReadOf
<1>4. k \in DOMAIN Statements[op] /\ k \in Nat
  BY <1>2, <1>3
<1>5. /\ n \in Amount
      /\ dataset[i] = NoSet => n = 0
      /\ dataset[i] # NoSet => n # 0 /\ n = Whole(op, i)[k]
  BY <1>1, <1>4, ShowsFacts
<1>6. Seen(c) = Append(call[c].seen, n)
  BY DEF Seen
<1> HIDE DEF n
<1> DEFINE sn == Seen(c)
           fin == Finished(c)
<1>7. /\ sn \in Seq(Amount) /\ Len(sn) = k /\ DOMAIN sn = 1..k /\ sn[k] = n
      /\ \A m \in 1..(k - 1) : sn[m] = call[c].seen[m] /\ m \in DOMAIN call[c].seen
  BY <1>2, <1>5, <1>6
<1>8. /\ fin \in {"missing", "read", "none"}
      /\ fin = "missing" => sn = <<0>>
      /\ fin = "none" => Len(sn) # Len(Statements[op])
  BY DEF Finished
<1>9. fin = "missing" => dataset[i] = NoSet
  <2>1. sn = <<0>> => Len(sn) = 1 /\ sn[1] = 0
    OBVIOUS
  <2>2. sn = <<0>> => n = 0
    BY <1>7, <2>1
  <2> QED
    BY <1>5, <1>8, <2>2
<1> DEFINE p == IF fin = "none" THEN "received" ELSE "done"
           x == [call[c] EXCEPT !.seen = sn, !.answer = fin, !.phase = p]
<1>10. call' = [call EXCEPT ![c] = x]
  BY DEF Read
<1> HIDE DEF sn, fin
<1>11. /\ x \in CallState /\ x.request = call[c].request /\ x.id = i /\ x.seen = sn
       /\ x.answer = fin /\ x.phase = p /\ p \in {"received", "done"}
       /\ fin # "none" => p = "done"
  BY <1>2, <1>7, <1>8 DEF CallState, Phase, Answer
<1> HIDE DEF x, p
<1>12. Others(c) /\ call'[c] = x
  BY <1>10, <1>11 DEF Others, StoreInv, TypeOK
<1>13. PhaseOf(c)' /\ HoldOf(c)'
  BY <1>1, <1>2, <1>8, <1>9, <1>11, <1>12
     DEF OwnOf, PhaseOf, HoldOf, Inserts, Writes, Accepted, Reading
<1>14. ASSUME NEW m \in 1..k
       PROVE  \/ sn[m] = Whole(op, i)[m] /\ \A j \in 1..m : sn[j] # 0
              \/ sn[m] = 0 /\ dataset[i] = NoSet
  <2>1. \A j \in 1..(k - 1) :
          \/ sn[j] = Whole(op, i)[j] /\ \A l \in 1..j : sn[l] # 0
          \/ sn[j] = 0 /\ dataset[i] = NoSet
    <3> SUFFICES ASSUME NEW j \in 1..(k - 1)
                 PROVE  \/ sn[j] = Whole(op, i)[j] /\ \A l \in 1..j : sn[l] # 0
                        \/ sn[j] = 0 /\ dataset[i] = NoSet
      OBVIOUS
    <3>1. j \in DOMAIN call[c].seen /\ FoundAt(c, j)
      BY <1>1, <1>2, <1>7 DEF OwnOf, ReadOf
    <3>2. \A l \in 1..j : sn[l] = call[c].seen[l]
      <4>1. \A l \in 1..j : l \in 1..(k - 1)
        BY <1>4
      <4> QED
        BY <1>7, <4>1
    <3>3. sn[j] = call[c].seen[j]
      BY <1>7
    <3> QED
      BY <3>1, <3>2, <3>3 DEF FoundAt
  <2>2. CASE m = k /\ dataset[i] # NoSet
    <3>1. \A j \in 1..(k - 1) : j \in 1..j /\ sn[j] # 0
      BY <1>4, <2>1, <2>2
    <3>2. \A j \in 1..m : j = k \/ j \in 1..(k - 1)
      BY <1>4, <2>2
    <3> QED
      BY <1>5, <1>7, <2>2, <3>1, <3>2
  <2>3. CASE m = k /\ dataset[i] = NoSet
    BY <1>5, <1>7, <2>3
  <2>4. CASE m # k
    <3>1. m \in 1..(k - 1)
      BY <1>4, <2>4
    <3> QED
      BY <2>1, <3>1
  <2> QED
    BY <2>2, <2>3, <2>4
<1>15. ReadOf(c)'
  <2>1. p = "received" => Len(sn) < Len(Statements[op])
    <3>1. p = "received" => fin = "none"
      BY <1>8 DEF p
    <3> QED
      BY <1>2, <1>3, <1>7, <1>8, <3>1
  <2>2. \A m \in DOMAIN sn : FoundAt(c, m)'
    <3>1. Whole(op, i)' = Whole(op, i)
      BY <1>1, <1>11, <1>12 DEF Whole
    <3> QED
      BY <1>1, <1>7, <1>11, <1>12, <1>14, <3>1 DEF FoundAt
  <2> QED
    BY <1>1, <1>2, <1>11, <1>12, <2>1, <2>2 DEF OwnOf, ReadOf
<1>16. OrderOf(c)'
  <2>1. \A d \in before[c] : call'[d].phase = "done"
    BY <1>1, <1>2, <1>12, DoneKept DEF OwnOf, OrderOf
  <2> QED
    BY <1>1, <1>8, <1>11, <1>12, <2>1 DEF OrderOf
<1>17. \A d \in Call \ {c} : Pair(c, d)'
  BY <1>8, <1>11, <1>12 DEF Pair, Inserts, Writes
<1> QED
  BY <1>1, <1>2, <1>12, <1>13, <1>15, <1>16, <1>17, CallOnly DEF OwnOf

LEMMA PresentFacts ==
  ASSUME StoreInv, NEW i \in Id, dataset[i] # NoSet
  PROVE  /\ dataset[i] \in Header /\ stored[i] = dataset[i].file
         /\ stored[i] \in File /\ stored[i] # NoFile
<1>1. dataset[i] \in Header /\ SetOf(i)
  BY DEF StoreInv, TypeOK
<1> QED
  BY <1>1, HeaderFacts DEF SetOf

LEMMA CommitUploadStep ==
  ASSUME StoreInv, NEW c \in Call, CommitUpload(c)
  PROVE  StoreInv'
<1> DEFINE f == call[c].request.file
           i == call[c].id
           h == NewHeader(f, call[c].request.name)
<1>1. /\ call[c].request.op = "upload" /\ call[c].phase = "filled" /\ TypeOK
      /\ dataset' = [dataset EXCEPT ![i] = h] /\ row' = [row EXCEPT ![i] = Rows(f)]
      /\ stored' = [stored EXCEPT ![i] = f] /\ UNCHANGED <<ran, nextId, before>>
  BY DEF CommitUpload, At, StoreInv
<1>2. /\ OwnOf(c) /\ i \in Id /\ i \in Nat /\ stored[i] = NoFile /\ i < nextId
      /\ Holding(f) = {} /\ Len(Rows(f)) # 0 /\ f \in File
      /\ call[c].request.name \in Name \cup {NoName} /\ Inserts(c)
  BY <1>1, CallFacts DEF StoreInv, OwnOf, HoldOf, PhaseOf, Inserts, Accepted, Request
<1>3. /\ h \in Header /\ h # NoSet /\ h.file = f /\ h.count = Len(Rows(f)) /\ f # NoFile
  BY <1>2, NewHeaderFacts, HeaderFacts, BenchmarkAssumption
<1> HIDE DEF h
<1>4. PICK a \in {"stored", "failed"} :
        /\ Others(c)
        /\ call'[c].phase = "done" /\ call'[c].id = i /\ call'[c].request = call[c].request
        /\ call'[c].answer = a
  BY <1>1, <1>2, ReturnShape DEF CommitUpload, Answer
<1>5. /\ \A j \in Id : /\ dataset'[j] = IF j = i THEN h ELSE dataset[j]
                       /\ row'[j] = IF j = i THEN Rows(f) ELSE row[j]
                       /\ stored'[j] = IF j = i THEN f ELSE stored[j]
      /\ \A j \in Id : stored[j] # NoFile => stored'[j] = stored[j] /\ j # i
      /\ dataset' \in [Id -> Header \cup {NoSet}] /\ row' \in [Id -> Table]
      /\ stored' \in [Id -> File \cup {NoFile}]
  BY <1>1, <1>2, <1>3 DEF TypeOK, Table
<1>6. TypeOK'
  BY <1>1, <1>4, <1>5 DEF TypeOK, Others
<1>7. /\ \A d \in Call : call[d].phase = "done" => call'[d] = call[d]
      /\ \A d \in Call, j \in Id : Deletes(d, j) => Deletes(d, j)'
      /\ \A d \in Call : call[d].phase = "done" =>
           \A j \in Nat : Deletes(d, j)' = Deletes(d, j)
  BY <1>1, <1>4, DoneKept
<1>8. ASSUME NEW j \in Id PROVE SetOf(j)'
  <2>1. SetOf(j)
    BY DEF StoreInv
  <2>2. stored[i] = NoFile => i \notin ran \/ dataset[i] # NoSet
    BY <1>2 DEF StoreInv, SetOf
  <2> QED
    BY <1>1, <1>2, <1>3, <1>5, <1>7, <2>1, <2>2 DEF SetOf
<1>9. \A j, l \in Id : Apart(j, l)'
  BY <1>2, <1>3, <1>5 DEF Apart, Holding, StoreInv
<1>10. OwnOf(c)'
  <2>1. \A d \in before[c] : call'[d].phase = "done"
    BY <1>2, <1>7, <1>1 DEF OwnOf, OrderOf, TypeOK
  <2> QED
    BY <1>1, <1>2, <1>4, <1>5, <2>1
       DEF OwnOf, PhaseOf, HoldOf, Inserts, Writes, Accepted, ReadOf, Reading, OrderOf
<1>11. ASSUME NEW d \in Call \ {c} PROVE OwnOf(d)' /\ Pair(c, d)'
  <2>1. /\ call'[d] = call[d] /\ OwnOf(d) /\ Pair(c, d) /\ before[d] \subseteq Call
        /\ before'[d] = before[d] /\ call[d].id \in Nat
    BY <1>1, <1>4, CallFacts DEF Others, StoreInv, TypeOK
  <2>2. PhaseOf(d)'
    BY <1>5, <2>1 DEF OwnOf, PhaseOf
  <2>3. HoldOf(d)'
    <3>1. Inserts(d) => /\ call[d].id # i /\ call[d].id \in Id
                        /\ call[d].request.file # f /\ Holding(call[d].request.file) = {}
      BY <1>2, <2>1 DEF Pair, OwnOf, HoldOf
    <3>2. Inserts(d) => Holding(call[d].request.file)' = {}
      BY <1>3, <1>5, <2>1, <3>1 DEF Holding
    <3>3. Writes(d) => call[d].id \in Id
      BY <2>1 DEF OwnOf, PhaseOf, Writes
    <3>4. call[d].answer \in {"stored", "duplicate"} => call[d].request.file \in File
      BY <2>1 DEF OwnOf, PhaseOf
    <3> QED
      BY <1>1, <1>2, <1>3, <1>5, <2>1, <3>1, <3>2, <3>3, <3>4, BenchmarkAssumption
         DEF OwnOf, HoldOf, Inserts, Writes
  <2>4. ReadOf(d)'
    <3>1. CASE call[d].phase = "idle"
      <4>1. call[d].seen = <<>>
        BY <2>1, <3>1 DEF OwnOf, PhaseOf, Idle
      <4>2. \A k \in DOMAIN <<>> : FALSE
        OBVIOUS
      <4> QED
        BY <2>1, <3>1, <4>1, <4>2 DEF ReadOf
    <3>2. CASE call[d].request.op \in Reading /\ call[d].phase # "idle"
      <4>1. call[d].id \in Id /\ call[d].id # i /\ stored'[call[d].id] = stored[call[d].id]
        BY <1>5, <2>1, <3>2 DEF OwnOf, PhaseOf, Reading
      <4>2. /\ dataset'[call[d].id] = dataset[call[d].id]
            /\ Whole(call[d].request.op, call[d].id)' = Whole(call[d].request.op, call[d].id)
        BY <1>5, <2>1, <4>1 DEF Whole
      <4>3. \A k \in DOMAIN call[d].seen : FoundAt(d, k)'
        BY <2>1, <3>2, <4>2 DEF OwnOf, ReadOf, FoundAt
      <4> QED
        BY <1>1, <2>1, <3>2, <4>2, <4>3 DEF OwnOf, ReadOf
    <3>3. CASE call[d].request.op \notin Reading
      BY <2>1, <3>3 DEF ReadOf
    <3> QED
      BY <3>1, <3>2, <3>3
  <2>5. OrderOf(d)'
    <3>1. \A e \in before[d] : call[e].phase = "done" /\ call'[e] = call[e]
      BY <1>7, <2>1 DEF OwnOf, OrderOf
    <3>2. call[d].answer = "duplicate" =>
            \A e \in before[d] : Deletes(e, call[d].id)' => call'[e].answer # "deleted"
      BY <1>7, <2>1, <3>1 DEF OwnOf, OrderOf
    <3>3. call[d].phase = "again" \/ call[d].answer = "error" => call[d].request.file # NoFile
      BY <2>1, BenchmarkAssumption DEF OwnOf, PhaseOf, Accepted
    <3>4. call[d].phase = "again" =>
            \E j \in Id : /\ stored'[j] = call[d].request.file
                          /\ dataset'[j] # NoSet \/ \E e \in Call \ before[d] : Deletes(e, j)'
      BY <1>3, <1>5, <1>7, <2>1, <3>3 DEF OwnOf, OrderOf
    <3>5. call[d].answer = "error" =>
            \E j \in Id, e \in Call \ before[d] :
              stored'[j] = call[d].request.file /\ Deletes(e, j)'
      BY <1>5, <1>7, <2>1, <3>3 DEF OwnOf, OrderOf
    <3> QED
      BY <2>1, <3>1, <3>2, <3>4, <3>5 DEF OrderOf
  <2>6. Pair(c, d)'
    BY <1>2, <1>4, <2>1 DEF Pair, Inserts, Writes
  <2> QED
    BY <2>2, <2>3, <2>4, <2>5, <2>6 DEF OwnOf
<1>12. \A d \in Call : OwnOf(d)'
  BY <1>10, <1>11
<1> QED
  BY <1>4, <1>6, <1>8, <1>9, <1>11, <1>12, PairsKept DEF StoreInv

LEMMA CommitDeleteStep ==
  ASSUME StoreInv, NEW c \in Call, CommitDelete(c)
  PROVE  StoreInv'
<1> DEFINE i == call[c].id
<1>1. /\ call[c].request.op = "delete" /\ call[c].phase = "deleting" /\ TypeOK
      /\ dataset' = [dataset EXCEPT ![i] = NoSet] /\ row' = [row EXCEPT ![i] = <<>>]
      /\ ran' = ran \ {i} /\ UNCHANGED <<nextId, stored, before>>
  BY DEF CommitDelete, At, StoreInv
<1>2. OwnOf(c) /\ i \in Id /\ i \in Nat /\ stored[i] # NoFile /\ dataset[i] # NoSet /\ Writes(c)
  BY <1>1, CallFacts DEF StoreInv, OwnOf, HoldOf, PhaseOf, Writes
<1>3. PICK a \in {"deleted", "failed"} :
        /\ Others(c)
        /\ call'[c].phase = "done" /\ call'[c].id = i /\ call'[c].request = call[c].request
        /\ call'[c].answer = a
  BY <1>1, <1>2, ReturnShape DEF CommitDelete, Answer
<1>4. /\ \A j \in Id : /\ dataset'[j] = IF j = i THEN NoSet ELSE dataset[j]
                       /\ row'[j] = IF j = i THEN <<>> ELSE row[j]
      /\ dataset' \in [Id -> Header \cup {NoSet}] /\ row' \in [Id -> Table]
  BY <1>1, <1>2 DEF TypeOK, Table
<1>5. TypeOK'
  BY <1>1, <1>3, <1>4 DEF TypeOK, Others
<1>6. /\ \A d \in Call : call[d].phase = "done" => call'[d] = call[d]
      /\ \A d \in Call, j \in Id : Deletes(d, j) => Deletes(d, j)'
      /\ \A d \in Call : call[d].phase = "done" =>
           \A j \in Nat : Deletes(d, j)' = Deletes(d, j)
      /\ \A j \in Id : j = i => Deletes(c, j)'
  BY <1>1, <1>3, DoneKept DEF Deletes
<1>7. ASSUME NEW j \in Id PROVE SetOf(j)'
  <2>1. SetOf(j)
    BY DEF StoreInv
  <2> QED
    BY <1>1, <1>2, <1>4, <1>6, <2>1 DEF SetOf
<1>8. \A j, l \in Id : Apart(j, l)'
  BY <1>4 DEF Apart, StoreInv
<1>9. OwnOf(c)'
  <2>1. \A d \in before[c] : call'[d].phase = "done"
    BY <1>1, <1>2, <1>6 DEF OwnOf, OrderOf, TypeOK
  <2> QED
    BY <1>1, <1>2, <1>3, <1>4, <2>1
       DEF OwnOf, PhaseOf, HoldOf, Inserts, Writes, Accepted, ReadOf, Reading, OrderOf
<1>10. ASSUME NEW d \in Call \ {c} PROVE OwnOf(d)' /\ Pair(c, d)'
  <2>1. /\ call'[d] = call[d] /\ OwnOf(d) /\ Pair(c, d) /\ before[d] \subseteq Call
        /\ before'[d] = before[d] /\ call[d].id \in Nat
    BY <1>1, <1>3, CallFacts DEF Others, StoreInv, TypeOK
  <2>2. PhaseOf(d)'
    BY <1>1, <2>1 DEF OwnOf, PhaseOf
  <2>3. HoldOf(d)'
    <3>1. Inserts(d) => Holding(call[d].request.file)' = {}
      BY <1>4, <2>1 DEF Holding, OwnOf, HoldOf
    <3>2. Writes(d) => call[d].id \in Id /\ call[d].id # i
      BY <1>2, <2>1 DEF OwnOf, PhaseOf, Writes, Pair
    <3> QED
      BY <1>1, <1>4, <2>1, <3>1, <3>2 DEF OwnOf, HoldOf, Inserts, Writes
  <2>4. ReadOf(d)'
    <3>1. CASE call[d].phase = "idle"
      <4>1. call[d].seen = <<>>
        BY <2>1, <3>1 DEF OwnOf, PhaseOf, Idle
      <4>2. \A k \in DOMAIN <<>> : FALSE
        OBVIOUS
      <4> QED
        BY <2>1, <3>1, <4>1, <4>2 DEF ReadOf
    <3>2. CASE call[d].request.op \in Reading /\ call[d].phase # "idle"
      <4>1. call[d].id \in Id
        BY <2>1, <3>2 DEF OwnOf, PhaseOf, Reading
      <4>2. /\ dataset[call[d].id] = NoSet => dataset'[call[d].id] = NoSet
            /\ call[d].id = i => dataset'[call[d].id] = NoSet
            /\ Whole(call[d].request.op, call[d].id)' = Whole(call[d].request.op, call[d].id)
        BY <1>1, <1>4, <2>1, <4>1 DEF Whole
      <4>3. \A k \in DOMAIN call[d].seen : FoundAt(d, k)'
        BY <2>1, <3>2, <4>2 DEF OwnOf, ReadOf, FoundAt
      <4> QED
        BY <1>1, <2>1, <3>2, <4>2, <4>3 DEF OwnOf, ReadOf
    <3>3. CASE call[d].request.op \notin Reading
      BY <2>1, <3>3 DEF ReadOf
    <3> QED
      BY <3>1, <3>2, <3>3
  <2>5. OrderOf(d)'
    <3>1. \A e \in before[d] : call[e].phase = "done" /\ call'[e] = call[e]
      BY <1>6, <2>1 DEF OwnOf, OrderOf
    <3>2. call[d].answer = "duplicate" =>
            \A e \in before[d] : Deletes(e, call[d].id)' => call'[e].answer # "deleted"
      BY <1>6, <2>1, <3>1 DEF OwnOf, OrderOf
    <3>3. c \in Call \ before[d]
      BY <1>1, <3>1
    <3>4. call[d].phase = "again" =>
            \E j \in Id : /\ stored'[j] = call[d].request.file
                          /\ dataset'[j] # NoSet \/ \E e \in Call \ before[d] : Deletes(e, j)'
      BY <1>1, <1>4, <1>6, <2>1, <3>3 DEF OwnOf, OrderOf
    <3>5. call[d].answer = "error" =>
            \E j \in Id, e \in Call \ before[d] :
              stored'[j] = call[d].request.file /\ Deletes(e, j)'
      BY <1>1, <1>6, <2>1 DEF OwnOf, OrderOf
    <3> QED
      BY <2>1, <3>1, <3>2, <3>4, <3>5 DEF OrderOf
  <2>6. Pair(c, d)'
    <3>1. call[d].answer = "deleted" => call[d].id # i
      BY <1>2, <2>1 DEF OwnOf, HoldOf
    <3> QED
      BY <1>3, <2>1, <3>1 DEF Pair, Inserts, Writes
  <2> QED
    BY <2>2, <2>3, <2>4, <2>5, <2>6 DEF OwnOf
<1>11. \A d \in Call : OwnOf(d)'
  BY <1>9, <1>10
<1> QED
  BY <1>3, <1>5, <1>7, <1>8, <1>10, <1>11, PairsKept DEF StoreInv

LEMMA CommitRenameStep ==
  ASSUME StoreInv, NEW c \in Call, CommitRename(c)
  PROVE  StoreInv'
<1> DEFINE i == call[c].id
           n == CleanName(call[c].request.name)
<1>1. /\ call[c].request.op = "rename" /\ call[c].phase = "renaming" /\ TypeOK
      /\ dataset' = [dataset EXCEPT ![i].name = n] /\ Go(c, "reread", i)
      /\ UNCHANGED <<row, ran, nextId, stored, before>>
  BY DEF CommitRename, At, StoreInv
<1>2. /\ OwnOf(c) /\ i \in Id /\ i \in Nat /\ dataset[i] # NoSet /\ call[c].answer = "none"
      /\ call[c].request.name \in Name \cup {NoName}
  BY <1>1, CallFacts DEF StoreInv, OwnOf, HoldOf, PhaseOf, Writes, Request
<1>3. /\ Others(c)
      /\ call'[c].phase = "reread" /\ call'[c].id = i /\ call'[c].request = call[c].request
      /\ call'[c].seen = call[c].seen /\ call'[c].answer = "none"
  BY <1>1, <1>2, GoShape DEF Phase
<1>4. n \in Name
  BY <1>2, BenchmarkAssumption DEF CleanName
<1> HIDE DEF n
<1>5. /\ [dataset[i] EXCEPT !.name = n] \in Header
      /\ [dataset[i] EXCEPT !.name = n].file = dataset[i].file
      /\ [dataset[i] EXCEPT !.name = n].count = dataset[i].count
  BY <1>2, <1>4, PresentFacts DEF Header
<1>6. /\ \A j \in Id : /\ dataset'[j] = NoSet <=> dataset[j] = NoSet
                       /\ dataset[j] # NoSet => /\ dataset'[j].file = dataset[j].file
                                                /\ dataset'[j].count = dataset[j].count
      /\ dataset' \in [Id -> Header \cup {NoSet}]
  BY <1>1, <1>2, <1>5, HeaderFacts DEF TypeOK
<1>7. TypeOK'
  BY <1>1, <1>3, <1>6 DEF TypeOK, Others
<1>8. /\ \A d \in Call : call[d].phase = "done" => call'[d] = call[d]
      /\ \A d \in Call, j \in Id : Deletes(d, j) => Deletes(d, j)'
      /\ \A d \in Call : call[d].phase = "done" =>
           \A j \in Nat : Deletes(d, j)' = Deletes(d, j)
  BY <1>1, <1>3, DoneKept
<1>9. ASSUME NEW j \in Id PROVE SetOf(j)'
  <2>1. SetOf(j)
    BY DEF StoreInv
  <2> QED
    BY <1>1, <1>6, <1>8, <2>1 DEF SetOf
<1>10. \A j, l \in Id : Apart(j, l)'
  BY <1>6 DEF Apart, StoreInv
<1>11. OwnOf(c)'
  <2>1. \A d \in before[c] : call'[d].phase = "done"
    BY <1>1, <1>2, <1>8 DEF OwnOf, OrderOf, TypeOK
  <2> QED
    BY <1>1, <1>2, <1>3, <2>1
       DEF OwnOf, PhaseOf, HoldOf, Inserts, Writes, Accepted, ReadOf, Reading, OrderOf
<1>12. ASSUME NEW d \in Call \ {c} PROVE OwnOf(d)' /\ Pair(c, d)'
  <2>1. /\ call'[d] = call[d] /\ OwnOf(d) /\ before[d] \subseteq Call
        /\ before'[d] = before[d] /\ call[d].id \in Nat
    BY <1>1, <1>3, CallFacts DEF Others, StoreInv, TypeOK
  <2>2. PhaseOf(d)'
    BY <1>1, <2>1 DEF OwnOf, PhaseOf
  <2>3. HoldOf(d)'
    <3>1. Holding(call[d].request.file)' = Holding(call[d].request.file)
      BY <1>6, <2>1 DEF Holding
    <3>2. Writes(d) => call[d].id \in Id
      BY <2>1 DEF OwnOf, PhaseOf, Writes
    <3> QED
      BY <1>1, <1>6, <2>1, <3>1, <3>2 DEF OwnOf, HoldOf, Inserts, Writes
  <2>4. ReadOf(d)'
    <3>1. CASE call[d].phase = "idle"
      <4>1. call[d].seen = <<>>
        BY <2>1, <3>1 DEF OwnOf, PhaseOf, Idle
      <4>2. \A k \in DOMAIN <<>> : FALSE
        OBVIOUS
      <4> QED
        BY <2>1, <3>1, <4>1, <4>2 DEF ReadOf
    <3>2. CASE call[d].request.op \in Reading /\ call[d].phase # "idle"
      <4>1. call[d].id \in Id
        BY <2>1, <3>2 DEF OwnOf, PhaseOf, Reading
      <4>2. /\ dataset[call[d].id] = NoSet <=> dataset'[call[d].id] = NoSet
            /\ Whole(call[d].request.op, call[d].id)' = Whole(call[d].request.op, call[d].id)
        BY <1>1, <1>6, <2>1, <4>1 DEF Whole
      <4>3. \A k \in DOMAIN call[d].seen : FoundAt(d, k)'
        BY <2>1, <3>2, <4>2 DEF OwnOf, ReadOf, FoundAt
      <4> QED
        BY <1>1, <2>1, <3>2, <4>2, <4>3 DEF OwnOf, ReadOf
    <3>3. CASE call[d].request.op \notin Reading
      BY <2>1, <3>3 DEF ReadOf
    <3> QED
      BY <3>1, <3>2, <3>3
  <2>5. OrderOf(d)'
    <3>1. \A e \in before[d] : call[e].phase = "done" /\ call'[e] = call[e]
      BY <1>8, <2>1 DEF OwnOf, OrderOf
    <3>2. call[d].answer = "duplicate" =>
            \A e \in before[d] : Deletes(e, call[d].id)' => call'[e].answer # "deleted"
      BY <1>8, <2>1, <3>1 DEF OwnOf, OrderOf
    <3> QED
      BY <1>1, <1>6, <1>8, <2>1, <3>1, <3>2 DEF OwnOf, OrderOf
  <2>6. Pair(c, d)'
    BY <1>3, <2>1 DEF Pair, Inserts, Writes
  <2> QED
    BY <2>2, <2>3, <2>4, <2>5, <2>6 DEF OwnOf
<1>13. \A d \in Call : OwnOf(d)'
  BY <1>11, <1>12
<1> QED
  BY <1>3, <1>7, <1>9, <1>10, <1>12, <1>13, PairsKept DEF StoreInv

LEMMA LoadStep ==
  ASSUME StoreInv, NEW i \in Id, Load(i)
  PROVE  StoreInv'
<1>1. /\ dataset[i] # NoSet /\ ran' = ran \cup {i}
      /\ UNCHANGED <<dataset, row, nextId, call, stored, before>>
  BY DEF Load
<1>2. TypeOK'
  BY <1>1 DEF StoreInv, TypeOK
<1>3. \A j \in Id : SetOf(j)'
  BY <1>1 DEF StoreInv, SetOf, Deletes
<1>4. \A j, l \in Id : Apart(j, l)'
  BY <1>1 DEF StoreInv, Apart
<1>5. ASSUME NEW c \in Call PROVE OwnOf(c)'
  <2>1. OwnOf(c)
    BY DEF StoreInv
  <2>2. ReadOf(c)'
    BY <1>1, <2>1 DEF OwnOf, ReadOf, FoundAt, Whole
  <2> QED
    BY <1>1, <2>1, <2>2
       DEF OwnOf, PhaseOf, HoldOf, OrderOf, Inserts, Writes, Holding, Deletes
<1>6. \A c, d \in Call : c # d => Pair(c, d)'
  BY <1>1 DEF StoreInv, Pair, Inserts, Writes
<1> QED
  BY <1>2, <1>3, <1>4, <1>5, <1>6 DEF StoreInv

LEMMA InitStore == Init => StoreInv
<1> SUFFICES ASSUME Init PROVE StoreInv
  OBVIOUS
<1>1. Idle \in CallState /\ 1 \in Nat
  <2>1. /\ NoRequest \in Request /\ "idle" \in Phase /\ "none" \in Answer
        /\ 0 \in Nat /\ <<>> \in Seq(Amount)
    BY DEF NoRequest, Request, Phase, Answer, Reading
  <2> QED
    BY <2>1 DEF Idle, CallState
<1>2. TypeOK
  BY <1>1 DEF Init, TypeOK, Table
<1>3. \A i \in Id : SetOf(i)
  BY DEF Init, SetOf
<1>4. \A i, j \in Id : Apart(i, j)
  BY DEF Init, Apart
<1>5. /\ Idle.phase = "idle" /\ Idle.answer = "none" /\ Idle.request.op = "page"
      /\ Idle.seen = <<>> /\ \A k \in DOMAIN <<>> : FALSE
  BY DEF Idle, NoRequest
<1>6. ASSUME NEW c \in Call PROVE OwnOf(c)
  BY <1>5 DEF Init, OwnOf, PhaseOf, HoldOf, ReadOf, OrderOf, Inserts, Writes, Accepted
<1>7. \A c, d \in Call : c # d => Pair(c, d)
  BY <1>5 DEF Init, Pair, Inserts, Writes
<1> QED
  BY <1>2, <1>3, <1>4, <1>6, <1>7 DEF StoreInv

LEMMA NextStore == StoreInv /\ [Next]_vars => StoreInv'
<1> SUFFICES ASSUME StoreInv, [Next]_vars PROVE StoreInv'
  OBVIOUS
<1>1. CASE UNCHANGED vars
  <2>1. UNCHANGED <<dataset, row, ran, nextId, call, stored, before>>
    BY <1>1 DEF vars
  <2>2. TypeOK' /\ (\A i \in Id : SetOf(i)') /\ (\A i, j \in Id : Apart(i, j)')
    BY <2>1 DEF StoreInv, TypeOK, SetOf, Apart, Deletes
  <2>3. ASSUME NEW c \in Call PROVE OwnOf(c)'
    <3>1. OwnOf(c)
      BY DEF StoreInv
    <3>2. PhaseOf(c)' /\ HoldOf(c)'
      BY <2>1, <3>1 DEF OwnOf, PhaseOf, HoldOf, Inserts, Writes, Holding
    <3>3. ReadOf(c)'
      BY <2>1, <3>1 DEF OwnOf, ReadOf, FoundAt, Whole
    <3>4. OrderOf(c)'
      BY <2>1, <3>1 DEF OwnOf, OrderOf, Deletes
    <3> QED
      BY <3>2, <3>3, <3>4 DEF OwnOf
  <2>4. \A c, d \in Call : c # d => Pair(c, d)'
    BY <2>1 DEF StoreInv, Pair, Inserts, Writes
  <2> QED
    BY <2>2, <2>3, <2>4 DEF StoreInv
<1>2. ASSUME NEW c \in Call, Step(c) PROVE StoreInv'
  BY <1>2, UploadSteps, LockSteps, CommitUploadStep, CommitDeleteStep, CommitRenameStep, ReadStep
     DEF Step
<1>3. ASSUME NEW c \in Call, Fail(c) PROVE StoreInv'
  BY <1>3, LockSteps
<1>4. ASSUME NEW c \in Call, NEW op \in {"upload", "delete", "rename"} \cup Reading, Receive(c, op)
      PROVE  StoreInv'
  BY <1>4, ReceiveStep
<1>5. ASSUME NEW i \in Id, Load(i) PROVE StoreInv'
  BY <1>5, LoadStep
<1> QED
  BY <1>1, <1>2, <1>3, <1>4, <1>5 DEF Next

LEMMA StoreCorrect == Spec => []StoreInv
<1>1. QED
  BY InitStore, NextStore, PTL DEF Spec, Safety

-----------------------------------------------------------------------------
\* Every table, transaction and answer keeps its type, whatever the calls are.
THEOREM StoreTypeCorrect == Spec => []TypeOK
<1>1. StoreInv => TypeOK
  BY DEF StoreInv
<1>2. QED
  BY <1>1, StoreCorrect, PTL

\* For any number of calls, files and sets, a set is visible with all of its
\* prompts or not at all.
THEOREM WholeSetsCorrect == Spec => []WholeSets
<1>1. StoreInv => WholeSets
  BY DEF StoreInv, SetOf, WholeSets
<1>2. QED
  BY <1>1, StoreCorrect, PTL

\* A set some call reported gone never comes back, and one call deleted it.
THEOREM GoneForGoodCorrect == Spec => []GoneForGood
<1>1. StoreInv => GoneForGood
  BY DEF StoreInv, OwnOf, HoldOf, Pair, GoneForGood
<1>2. QED
  BY <1>1, StoreCorrect, PTL

\* The statements of a read count all of a set, or nothing from some statement
\* on, and then because the set was deleted.
THEOREM ReadsWholeOrGoneCorrect == Spec => []ReadsWholeOrGone
<1>1. StoreInv => ReadsWholeOrGone
  BY DEF StoreInv, OwnOf, ReadOf, FoundAt, ReadsWholeOrGone
<1>2. QED
  BY <1>1, StoreCorrect, PTL

\* Of uploads of the same bytes, in any number and any order, the answers are
\* about one set, unless a delete came between.
THEOREM UploadsAgreeCorrect == Spec => []UploadsAgree
<1>1. StoreInv => UploadsAgree
  <2> SUFFICES ASSUME StoreInv, NEW c \in Call,
                      call[c].request.op = "upload", call[c].phase = "done"
               PROVE
        LET f == call[c].request.file
            i == call[c].id
        IN
        /\ call[c].answer \in {"stored", "duplicate"} => i \in Id /\ stored[i] = f
        /\ call[c].answer = "duplicate" =>
             \A d \in before[c] : Deletes(d, i) => call[d].answer # "deleted"
        /\ call[c].answer = "stored" =>
             \A d \in Call \ {c} : call[d].request.file = f /\ call[d].answer = "stored" =>
               \E e \in Call : Deletes(e, i) \/ Deletes(e, call[d].id)
        /\ call[c].answer = "error" =>
             \E j \in Id, d \in Call \ before[c] : stored[j] = f /\ Deletes(d, j)
    BY DEF UploadsAgree
  <2> DEFINE f == call[c].request.file
             i == call[c].id
  <2>1. OwnOf(c) /\ f \in File /\ f # NoFile
    BY BenchmarkAssumption DEF StoreInv, OwnOf, PhaseOf
  <2>2. ASSUME call[c].answer = "stored", NEW d \in Call \ {c},
               call[d].request.file = f, call[d].answer = "stored"
        PROVE  \E e \in Call : Deletes(e, i) \/ Deletes(e, call[d].id)
    <3> DEFINE j == call[d].id
    <3>1. i \in Id /\ j \in Id /\ stored[i] = f /\ stored[j] = f
      BY <2>1, <2>2 DEF StoreInv, OwnOf, HoldOf
    <3>2. i # j
      BY <2>2 DEF StoreInv, Pair
    <3>3. ~(dataset[i] # NoSet /\ dataset[j] # NoSet)
      BY <3>1, <3>2, PresentFacts DEF StoreInv, Apart
    <3> QED
      BY <2>1, <3>1, <3>3 DEF StoreInv, SetOf
  <2> QED
    BY <2>1, <2>2 DEF OwnOf, HoldOf, OrderOf
<1>2. QED
  BY <1>1, StoreCorrect, PTL

-----------------------------------------------------------------------------
(* The catalogue.                                                          *)

Held == [i \in Id |-> IF dataset[i] = NoSet THEN NoSet
                     ELSE [file |-> dataset[i].file, name |-> dataset[i].name]]
Used == {i \in Id : stored[i] # NoFile}

LEMMA HeldKept ==
  ASSUME UNCHANGED <<dataset, stored>>
  PROVE  UNCHANGED <<Held, Used>>
BY DEF Held, Used

LEMMA CatalogueMoves ==
  ASSUME NEW i \in Id, NEW f \in File, NEW n \in Name
  PROVE  (Sets!Add(i, f, n) \/ Sets!Relabel(i, n) \/ Sets!Remove(i)) => Sets!Next
BY DEF Sets!Next

LEMMA CatalogueStep == StoreInv /\ [Next]_vars => [Sets!Next]_<<Held, Used>>
<1> SUFFICES ASSUME StoreInv, [Next]_vars PROVE [Sets!Next]_<<Held, Used>>
  OBVIOUS
<1> USE DEF StoreInv
<1>1. ASSUME NEW c \in Call, CommitUpload(c) PROVE Sets!Next
  <2> DEFINE f == call[c].request.file
             i == call[c].id
             h == NewHeader(f, call[c].request.name)
  <2>1. /\ dataset' = [dataset EXCEPT ![i] = h] /\ stored' = [stored EXCEPT ![i] = f]
        /\ call[c].request.op = "upload" /\ Inserts(c) /\ OwnOf(c) /\ TypeOK
    BY <1>1 DEF CommitUpload, At, Inserts
  <2>2. /\ i \in Id /\ stored[i] = NoFile /\ Holding(f) = {} /\ f \in File /\ f # NoFile
        /\ call[c].request.name \in Name \cup {NoName}
    BY <2>1, CallFacts, BenchmarkAssumption DEF OwnOf, HoldOf, PhaseOf, Request
  <2>3. h \in Header /\ h # NoSet /\ h.file = f /\ h.name \in Name
    BY <2>2, NewHeaderFacts, HeaderFacts
  <2> HIDE DEF h
  <2>4. \A j \in Id : /\ dataset'[j] = IF j = i THEN h ELSE dataset[j]
                     /\ stored'[j] = IF j = i THEN f ELSE stored[j]
    BY <2>1, <2>2 DEF TypeOK
  <2>5. PICK j \in Id, g \in File, n \in Name : j = i /\ g = f /\ n = h.name
    BY <2>2, <2>3
  <2>6. Held' = [Held EXCEPT ![j] = [file |-> g, name |-> n]]
    BY <2>2, <2>3, <2>4, <2>5 DEF Held
  <2>7. Used' = Used \cup {j} /\ j \notin Used
    BY <2>2, <2>4, <2>5 DEF Used
  <2>8. \A l \in Id : Held[l] # NoSet => Held[l].file # g
    BY <2>2, <2>5 DEF Held, Holding
  <2>9. Sets!Add(j, g, n)
    BY <2>6, <2>7, <2>8 DEF Sets!Add, Held, Used
  <2> QED
    BY <2>9, CatalogueMoves
<1>2. ASSUME NEW c \in Call, CommitDelete(c) PROVE Sets!Next
  <2> DEFINE i == call[c].id
  <2>1. /\ dataset' = [dataset EXCEPT ![i] = NoSet] /\ stored' = stored
        /\ i \in Id /\ dataset[i] # NoSet
    BY <1>2 DEF CommitDelete, At, OwnOf, PhaseOf, HoldOf, Writes
  <2>2. \A j \in Id : dataset'[j] = IF j = i THEN NoSet ELSE dataset[j]
    BY <2>1 DEF TypeOK
  <2>3. Held' = [Held EXCEPT ![i] = NoSet] /\ Used' = Used
    BY <2>1, <2>2 DEF Held, Used
  <2>4. Held[i] # NoSet
    <3>1. Held[i] = [file |-> dataset[i].file, name |-> dataset[i].name]
      BY <2>1 DEF Held
    <3>2. dataset[i].file \in File /\ dataset[i].name \in Name
      BY <2>1 DEF TypeOK, Header
    <3> QED
      BY <3>1, <3>2, NoSetAssumption
  <2> QED
    BY <2>1, <2>3, <2>4 DEF Sets!Next, Sets!Remove, Held, Used
<1>3. ASSUME NEW c \in Call, CommitRename(c) PROVE Sets!Next
  <2> DEFINE i == call[c].id
             n == CleanName(call[c].request.name)
  <2>1. /\ dataset' = [dataset EXCEPT ![i].name = n] /\ stored' = stored
        /\ i \in Id /\ dataset[i] # NoSet /\ OwnOf(c)
    BY <1>3 DEF CommitRename, At, OwnOf, PhaseOf, HoldOf, Writes
  <2>2. n \in Name
    <3>1. call[c].request.name \in Name \cup {NoName}
      BY CallFacts DEF Request
    <3> QED
      BY <3>1, BenchmarkAssumption DEF CleanName
  <2> HIDE DEF n
  <2>3. PICK j \in Id, m \in Name : j = i /\ m = n
    BY <2>1, <2>2
  <2>4. /\ dataset[j] \in Header /\ dataset[j].file \in File /\ dataset[j].name \in Name
        /\ [dataset[j] EXCEPT !.name = m].file = dataset[j].file
        /\ [dataset[j] EXCEPT !.name = m].name = m
        /\ [dataset[j] EXCEPT !.name = m] \in Header
    BY <2>1, <2>3, PresentFacts DEF Header
  <2>5. \A l \in Id : dataset'[l] = IF l = j THEN [dataset[j] EXCEPT !.name = m] ELSE dataset[l]
    BY <2>1, <2>3 DEF TypeOK
  <2>6. [dataset[j] EXCEPT !.name = m] # NoSet
    BY <2>4, NoSetAssumption
  <2>7. \A l \in Id : Held'[l] = IF l = j THEN [file |-> dataset[j].file, name |-> m] ELSE Held[l]
    BY <2>4, <2>5, <2>6 DEF Held
  <2>8. Held[j] = [file |-> dataset[j].file, name |-> dataset[j].name]
    BY <2>1, <2>3 DEF Held
  <2>9. Held' = [Held EXCEPT ![j] = [file |-> Held[j].file, name |-> m]]
    <3>1. Held[j].file = dataset[j].file
      BY <2>8
    <3>2. Held' = [l \in Id |-> Held'[l]] /\ Held = [l \in Id |-> Held[l]]
      BY DEF Held
    <3> HIDE DEF Held
    <3> QED
      BY <2>7, <3>1, <3>2
  <2>10. Held[j] # NoSet /\ Used' = Used
    BY <2>1, <2>4, <2>8, NoSetAssumption DEF Used
  <2>11. Sets!Relabel(j, m)
    BY <2>9, <2>10 DEF Sets!Relabel, Held, Used
  <2>12. PICK g \in File : g = dataset[j].file
    BY <2>4
  <2> QED
    BY <2>11, CatalogueMoves
<1>4. CASE UNCHANGED <<dataset, stored>>
  BY <1>4, HeldKept
<1>5. [Sets!Next]_<<Held, Used>> \/ UNCHANGED <<dataset, stored>>
  BY <1>1, <1>2, <1>3
     DEF Next, Step, vars, tables, Reject, Recognise, LookUp, Insert, Collide, LookAgain, Fill, Delete,
         DeleteNothing, Rename, RenameNothing, Reread, Read, Fail, Load, Receive, Lock, FindNothing
<1> QED
  BY <1>4, <1>5

\* The store is a catalogue for every number of calls: the same bytes are one
\* set, a set is never edited, and a number never names two.
THEOREM IsCatalogueCorrect == Spec => IsCatalogue
<1>1. Init => Sets!Init
  BY BenchmarkAssumption DEF Init, Sets!Init
<1>2. StoreInv /\ [Next]_vars => [Sets!Next]_<<Held, Used>>
  BY CatalogueStep
<1>3. QED
  BY <1>1, <1>2, StoreCorrect, PTL DEF Spec, Safety, IsCatalogue, Sets!Spec, Held, Used

-----------------------------------------------------------------------------
(* The parser: what its loop has made of a file after n lines.             *)

Below == {pair \in Nat \X Nat : pair[1] < pair[2]}

LEMMA LeastExists ==
  ASSUME NEW S \in SUBSET Nat, S # {}
  PROVE  \E i \in S : \A j \in S : i <= j
<1>1. IsWellFoundedOn(Below, Nat)
  BY NatLessThanWellFounded DEF OpToRel, Below
<1>2. PICK i \in S : \A j \in S : <<j, i>> \notin Below
  BY <1>1, WFMin
<1>3. \A j \in S : i <= j
  <2> SUFFICES ASSUME NEW j \in S PROVE i <= j
    OBVIOUS
  <2>1. i \in Nat /\ j \in Nat /\ <<j, i>> \notin Below
    BY <1>2
  <2>2. ~(j < i)
    BY <2>1 DEF Below
  <2> QED
    BY <2>1, <2>2
<1> QED
  BY <1>3

\* The loop up to line n, as a function there may be.
Reads(f, n, read) ==
  read = [k \in 0..n |->
            IF k = 0 THEN [rows |-> <<>>, problem |-> ~f.readable]
            ELSE ReadLine(read[k - 1], f.lines[k])]

LEMMA ReadsExists ==
  ASSUME NEW f, NEW n \in Nat
  PROVE  \E read : Reads(f, n, read)
<1> DEFINE S == {m \in Nat : ~\E read : Reads(f, m, read)}
           start == [rows |-> <<>>, problem |-> ~f.readable]
<1> SUFFICES ASSUME S # {} PROVE FALSE
  OBVIOUS
<1>1. PICK m \in S : \A k \in S : m <= k
  <2> HIDE DEF S
  <2>1. S \in SUBSET Nat
    BY DEF S
  <2> QED
    BY <2>1, LeastExists
<1>2. m # 0
  <2> DEFINE one == [k \in 0..0 |-> start]
  <2>1. \A k \in 0..0 : k = 0
    OBVIOUS
  <2>2. one = [k \in 0..0 |-> IF k = 0 THEN start ELSE ReadLine(one[k - 1], f.lines[k])]
    BY <2>1
  <2> HIDE DEF one
  <2>3. Reads(f, 0, one)
    BY <2>2 DEF Reads
  <2> QED
    BY <2>3
<1>3. m \in Nat /\ m - 1 \in Nat /\ m - 1 \notin S
  BY <1>1, <1>2
<1>4. PICK prev : Reads(f, m - 1, prev)
  BY <1>3
<1> DEFINE read == [k \in 0..m |-> IF k = m THEN ReadLine(prev[m - 1], f.lines[m])
                                   ELSE prev[k]]
<1>5. \A k \in 0..(m - 1) :
        prev[k] = IF k = 0 THEN start ELSE ReadLine(prev[k - 1], f.lines[k])
  BY <1>4 DEF Reads
<1>6. \A k \in 0..m :
        read[k] = IF k = 0 THEN start ELSE ReadLine(read[k - 1], f.lines[k])
  <2> SUFFICES ASSUME NEW k \in 0..m
               PROVE  read[k] = IF k = 0 THEN start ELSE ReadLine(read[k - 1], f.lines[k])
    OBVIOUS
  <2>1. CASE k = 0
    <3>1. 0 \in 0..m /\ 0 \in 0..(m - 1) /\ 0 # m
      BY <1>2, <1>3
    <3> QED
      BY <1>5, <2>1, <3>1
  <2>2. CASE k # 0
    <3>1. k - 1 \in 0..m /\ k - 1 # m /\ read[k - 1] = prev[k - 1]
      BY <1>3, <2>2
    <3>2. CASE k = m
      BY <2>2, <3>1, <3>2
    <3>3. CASE k # m
      <4>1. k \in 0..(m - 1)
        BY <1>3, <3>3
      <4> QED
        BY <1>5, <2>2, <3>1, <3>3, <4>1
    <3> QED
      BY <3>2, <3>3
  <2> QED
    BY <2>1, <2>2
<1>7. read = [k \in 0..m |-> read[k]]
  OBVIOUS
<1> HIDE DEF read
<1>8. Reads(f, m, read)
  BY <1>6, <1>7 DEF Reads
<1> QED
  BY <1>1, <1>8

\* The loop starts with nothing and goes on line by line.
LEMMA ReadToDef ==
  ASSUME NEW f \in File
  PROVE  /\ Len(f.lines) \in Nat
         /\ \A n \in 0..Len(f.lines) :
              ReadTo(f)[n] = IF n = 0 THEN [rows |-> <<>>, problem |-> ~f.readable]
                             ELSE ReadLine(ReadTo(f)[n - 1], f.lines[n])
<1>1. Len(f.lines) \in Nat
  BY BenchmarkAssumption
<1>2. \E read : Reads(f, Len(f.lines), read)
  BY <1>1, ReadsExists
<1>3. ReadTo(f) = CHOOSE read : Reads(f, Len(f.lines), read)
  BY DEF ReadTo, Reads
<1>4. Reads(f, Len(f.lines), ReadTo(f))
  BY <1>2, <1>3
<1> HIDE <1>3
<1> QED
  BY <1>1, <1>4 DEF Reads

\* The lines that hold something among the first n.
HeldTo(f, n) == {k \in 1..n : f.lines[k] # Blank}

\* Nothing among them keeps the file from becoming a set.
Fine(f, n) ==
  /\ f.readable
  /\ Cardinality(HeldTo(f, n)) <= MaxRows
  /\ \A k \in HeldTo(f, n) : f.lines[k].object /\ f.lines[k].sound /\ f.lines[k].id # NoId
  /\ \A j, k \in HeldTo(f, n) : f.lines[j].id = f.lines[k].id => j = k

\* One row for each of them, numbered as they come.
RowFor(f, rows, k) ==
  LET r == Cardinality(HeldTo(f, k)) IN
  r \in DOMAIN rows /\ rows[r] = [no |-> r, doc |-> f.lines[k]]

Row == [no: Nat, doc: Line]

ParsedTo(f, n) ==
  LET read == ReadTo(f)[n] IN
  /\ read \in [rows: Seq(Row), problem: BOOLEAN]
  /\ read.problem <=> ~Fine(f, n)
  /\ ~read.problem =>
       /\ Len(read.rows) = Cardinality(HeldTo(f, n))
       /\ \A k \in HeldTo(f, n) : RowFor(f, read.rows, k)
       /\ \A r \in DOMAIN read.rows : \E k \in HeldTo(f, n) : Cardinality(HeldTo(f, k)) = r

LEMMA HeldToFacts ==
  ASSUME NEW f \in File, NEW n \in 1..Len(f.lines)
  PROVE  /\ IsFiniteSet(HeldTo(f, n)) /\ Cardinality(HeldTo(f, n)) \in Nat
         /\ IsFiniteSet(HeldTo(f, n - 1)) /\ Cardinality(HeldTo(f, n - 1)) \in Nat
         /\ f.lines[n] \in Line
         /\ HeldTo(f, n - 1) \subseteq HeldTo(f, n) /\ n \notin HeldTo(f, n - 1)
         /\ f.lines[n] = Blank => HeldTo(f, n) = HeldTo(f, n - 1)
         /\ f.lines[n] # Blank =>
              /\ HeldTo(f, n) = HeldTo(f, n - 1) \cup {n}
              /\ Cardinality(HeldTo(f, n)) = Cardinality(HeldTo(f, n - 1)) + 1
<1>1. Len(f.lines) \in Nat /\ f.lines \in Seq(Line)
  BY BenchmarkAssumption
<1>2. IsFiniteSet(1..n) /\ IsFiniteSet(1..(n - 1))
  BY <1>1, FS_Interval
<1>3. IsFiniteSet(HeldTo(f, n)) /\ IsFiniteSet(HeldTo(f, n - 1))
  <2>1. HeldTo(f, n) \in SUBSET (1..n) /\ HeldTo(f, n - 1) \in SUBSET (1..(n - 1))
    BY DEF HeldTo
  <2> QED
    BY <1>2, <2>1, FS_Subset
<1>4. Cardinality(HeldTo(f, n)) \in Nat /\ Cardinality(HeldTo(f, n - 1)) \in Nat
  BY <1>3, FS_CardinalityType
<1>5. 1..n = (1..(n - 1)) \cup {n} /\ n \notin 1..(n - 1)
  BY <1>1
<1>6. f.lines[n] \in Line
  BY <1>1
<1>7. HeldTo(f, n - 1) \subseteq HeldTo(f, n) /\ n \notin HeldTo(f, n - 1)
  BY <1>5 DEF HeldTo
<1>8. f.lines[n] = Blank => HeldTo(f, n) = HeldTo(f, n - 1)
  BY <1>5 DEF HeldTo
<1>9. f.lines[n] # Blank => HeldTo(f, n) = HeldTo(f, n - 1) \cup {n}
  BY <1>5 DEF HeldTo
<1>10. Cardinality(HeldTo(f, n - 1) \cup {n}) = Cardinality(HeldTo(f, n - 1)) + 1
  BY <1>3, <1>7, FS_AddElement
<1> QED
  BY <1>3, <1>4, <1>6, <1>7, <1>8, <1>9, <1>10

LEMMA ParsedNothing ==
  ASSUME NEW f \in File
  PROVE  ParsedTo(f, 0)
<1>1. ReadTo(f)[0] = [rows |-> <<>>, problem |-> ~f.readable]
  <2>1. Len(f.lines) \in Nat /\ 0 \in 0..Len(f.lines)
    BY ReadToDef
  <2> QED
    BY <2>1, ReadToDef
<1>2. HeldTo(f, 0) = {} /\ Cardinality({}) = 0
  BY FS_EmptySet DEF HeldTo
<1>3. Fine(f, 0) <=> f.readable
  BY <1>2, BenchmarkAssumption DEF Fine
<1>4. f.readable \in BOOLEAN
  BY BenchmarkAssumption
<1>5. <<>> \in Seq(Row) /\ Len(<<>>) = 0 /\ DOMAIN <<>> = {}
  OBVIOUS
<1> QED
  <2> DEFINE read == ReadTo(f)[0]
  <2>1. read \in [rows: Seq(Row), problem: BOOLEAN]
    BY <1>1, <1>4, <1>5
  <2>2. read.rows = <<>> /\ read.problem = ~f.readable
    BY <1>1
  <2> HIDE DEF read
  <2>3. Len(read.rows) = Cardinality(HeldTo(f, 0))
    BY <1>2, <1>5, <2>2
  <2>4. \A k \in HeldTo(f, 0) : RowFor(f, read.rows, k)
    BY <1>2
  <2>5. \A r \in DOMAIN read.rows : \E k \in HeldTo(f, 0) : Cardinality(HeldTo(f, k)) = r
    BY <1>5, <2>2
  <2>6. read.problem <=> ~Fine(f, 0)
    BY <1>3, <1>4, <2>2
  <2> QED
    BY <2>1, <2>3, <2>4, <2>5, <2>6 DEF ParsedTo, read

\* One turn of the loop.
LEMMA ParsedLine ==
  ASSUME NEW f \in File, NEW n \in 1..Len(f.lines), ParsedTo(f, n - 1)
  PROVE  ParsedTo(f, n)
<1> DEFINE old == ReadTo(f)[n - 1]
           new == ReadTo(f)[n]
           line == f.lines[n]
           was == HeldTo(f, n - 1)
           is == HeldTo(f, n)
           added == [no |-> Len(old.rows) + 1, doc |-> line]
<1>1. new = ReadLine(old, line)
  <2>1. Len(f.lines) \in Nat /\ n \in 0..Len(f.lines) /\ n # 0
    BY ReadToDef
  <2> QED
    BY <2>1, ReadToDef
<1>2. /\ old \in [rows: Seq(Row), problem: BOOLEAN]
      /\ old.problem <=> ~Fine(f, n - 1)
      /\ ~old.problem =>
           /\ Len(old.rows) = Cardinality(was)
           /\ \A k \in was : RowFor(f, old.rows, k)
           /\ \A r \in DOMAIN old.rows : \E k \in was : Cardinality(HeldTo(f, k)) = r
  BY DEF ParsedTo
<1>3. /\ Cardinality(is) \in Nat /\ Cardinality(was) \in Nat
      /\ line \in Line /\ was \subseteq is /\ n \notin was
      /\ line = Blank => is = was
      /\ line # Blank => is = was \cup {n} /\ Cardinality(is) = Cardinality(was) + 1
  BY HeldToFacts
<1> HIDE DEF old, new, line, was, is
<1>4. CASE line = Blank
  <2>1. new = old
    BY <1>1, <1>4 DEF ReadLine
  <2>2. Fine(f, n) <=> Fine(f, n - 1)
    BY <1>3, <1>4 DEF Fine, was, is
  <2> QED
    BY <1>2, <1>3, <1>4, <2>1, <2>2 DEF ParsedTo, new, is
<1>5. CASE line # Blank /\ Faulty(old, line)
  <2>1. new = [old EXCEPT !.problem = TRUE]
    BY <1>1, <1>5 DEF ReadLine
  <2>2. new \in [rows: Seq(Row), problem: BOOLEAN] /\ new.problem
    BY <1>2, <2>1
  <2>3. ~Fine(f, n)
    <3>1. CASE old.problem
      <4>1. ~Fine(f, n - 1)
        BY <1>2, <3>1
      <4>2. MaxRows \in Nat
        BY BenchmarkAssumption
      <4> QED
        BY <1>3, <1>5, <4>1, <4>2 DEF Fine, was, is
    <3>2. CASE ~old.problem
      <4>1. CASE Len(old.rows) >= MaxRows
        <5>1. MaxRows \in Nat
          BY BenchmarkAssumption
        <5> QED
          BY <1>2, <1>3, <1>5, <3>2, <4>1, <5>1 DEF Fine, is
      <4>2. CASE ~line.object \/ line.id = NoId \/ ~line.sound
        <5>1. n \in is
          BY <1>3, <1>5
        <5> QED
          BY <4>2, <5>1 DEF Fine, is, line
      <4>3. ASSUME NEW m \in DOMAIN old.rows, old.rows[m].doc.id = line.id PROVE ~Fine(f, n)
        <5>1. PICK k \in was : Cardinality(HeldTo(f, k)) = m
          BY <1>2, <3>2
        <5>2. old.rows[m] = [no |-> m, doc |-> f.lines[k]]
          BY <1>2, <3>2, <5>1 DEF RowFor
        <5>3. f.lines[k].id = f.lines[n].id /\ k # n /\ k \in is /\ n \in is
          BY <1>3, <1>5, <4>3, <5>2 DEF line
        <5> QED
          BY <5>3 DEF Fine, is
      <4> QED
        BY <1>5, <4>1, <4>2, <4>3 DEF Faulty
    <3> QED
      BY <3>1, <3>2
  <2> QED
    BY <2>2, <2>3 DEF ParsedTo, new
<1>6. CASE line # Blank /\ ~Faulty(old, line)
  <2>1. new = [old EXCEPT !.rows = Append(old.rows, added)]
    BY <1>1, <1>6 DEF ReadLine
  <2>2. old.rows \in Seq(Row) /\ Len(old.rows) \in Nat /\ added \in Row
    BY <1>2, <1>3 DEF Row
  <2> HIDE DEF added
  <2>3. /\ new \in [rows: Seq(Row), problem: BOOLEAN]
        /\ new.problem = old.problem /\ new.rows = Append(old.rows, added)
    <3>1. Append(old.rows, added) \in Seq(Row)
      BY <2>2
    <3> QED
      BY <1>2, <2>1, <3>1
  <2>4. /\ Len(new.rows) = Len(old.rows) + 1 /\ DOMAIN new.rows = 1..(Len(old.rows) + 1)
        /\ \A r \in 1..Len(old.rows) : new.rows[r] = old.rows[r]
        /\ new.rows[Len(old.rows) + 1] = added
    BY <2>2, <2>3
  <2>5. is = was \cup {n} /\ Cardinality(is) = Cardinality(was) + 1
    BY <1>3, <1>6
  <2>6. ~old.problem => Fine(f, n)
    <3> SUFFICES ASSUME ~old.problem PROVE Fine(f, n)
      OBVIOUS
    <3>1. Fine(f, n - 1)
      BY <1>2
    <3>2. Cardinality(is) <= MaxRows
      <4>1. Len(old.rows) < MaxRows
        BY <1>6, <2>2, BenchmarkAssumption DEF Faulty
      <4> QED
        BY <1>2, <1>3, <2>5, <4>1, BenchmarkAssumption
    <3>3. line.object /\ line.sound /\ line.id # NoId
      BY <1>6 DEF Faulty
    <3>4. \A k \in was : f.lines[k].id # line.id
      <4> SUFFICES ASSUME NEW k \in was PROVE f.lines[k].id # line.id
        OBVIOUS
      <4>1. PICK r \in DOMAIN old.rows : old.rows[r] = [no |-> r, doc |-> f.lines[k]]
        BY <1>2 DEF RowFor
      <4>2. old.rows[r].doc = f.lines[k]
        BY <4>1
      <4> QED
        BY <1>6, <4>2 DEF Faulty
    <3>5. \A k \in is : f.lines[k].object /\ f.lines[k].sound /\ f.lines[k].id # NoId
      BY <2>5, <3>1, <3>3 DEF Fine, was, line
    <3>6. \A j, k \in is : f.lines[j].id = f.lines[k].id => j = k
      BY <2>5, <3>1, <3>4 DEF Fine, was, line
    <3> QED
      BY <3>1, <3>2, <3>5, <3>6 DEF Fine, is
  <2>7. old.problem => ~Fine(f, n)
    <3>1. old.problem => ~Fine(f, n - 1)
      BY <1>2
    <3> QED
      BY <1>3, <2>5, <3>1, BenchmarkAssumption DEF Fine, was, is
  <2>8. ASSUME ~old.problem
        PROVE  /\ Len(new.rows) = Cardinality(is)
               /\ \A k \in is : RowFor(f, new.rows, k)
               /\ \A r \in DOMAIN new.rows : \E k \in is : Cardinality(HeldTo(f, k)) = r
    <3>1. Len(old.rows) = Cardinality(was)
      BY <1>2, <2>8
    <3>2. \A k \in was : RowFor(f, new.rows, k)
      <4> SUFFICES ASSUME NEW k \in was PROVE RowFor(f, new.rows, k)
        OBVIOUS
      <4> DEFINE r == Cardinality(HeldTo(f, k))
      <4>1. r \in DOMAIN old.rows /\ old.rows[r] = [no |-> r, doc |-> f.lines[k]]
        BY <1>2, <2>8 DEF RowFor
      <4> HIDE DEF r
      <4>2. r \in DOMAIN new.rows /\ new.rows[r] = old.rows[r]
        <5>1. DOMAIN old.rows = 1..Len(old.rows)
          BY <2>2
        <5>2. r \in 1..Len(old.rows) /\ r \in 1..(Len(old.rows) + 1)
          BY <2>2, <4>1, <5>1
        <5> QED
          BY <2>4, <5>2
      <4> QED
        BY <4>1, <4>2 DEF RowFor, r
    <3>3. RowFor(f, new.rows, n)
      <4>1. Cardinality(HeldTo(f, n)) = Len(old.rows) + 1
        BY <2>5, <3>1 DEF is
      <4>2. Len(old.rows) + 1 \in DOMAIN new.rows
        BY <2>2, <2>4
      <4> QED
        BY <2>4, <4>1, <4>2 DEF RowFor, added, line
    <3>4. \A r \in DOMAIN new.rows : \E k \in is : Cardinality(HeldTo(f, k)) = r
      <4> SUFFICES ASSUME NEW r \in DOMAIN new.rows
                   PROVE  \E k \in is : Cardinality(HeldTo(f, k)) = r
        OBVIOUS
      <4>1. CASE r = Len(old.rows) + 1
        BY <2>5, <3>1, <4>1 DEF is
      <4>2. CASE r # Len(old.rows) + 1
        <5>1. r \in DOMAIN old.rows
          BY <2>2, <2>4, <4>2
        <5> QED
          BY <1>2, <2>5, <2>8, <5>1
      <4> QED
        BY <4>1, <4>2
    <3> QED
      BY <2>4, <2>5, <3>1, <3>2, <3>3, <3>4
  <2> QED
    BY <1>2, <2>3, <2>6, <2>7, <2>8 DEF ParsedTo, new, is
<1> QED
  BY <1>4, <1>5, <1>6

LEMMA ParsedAll ==
  ASSUME NEW f \in File
  PROVE  \A n \in 0..Len(f.lines) : ParsedTo(f, n)
<1> DEFINE S == {n \in 0..Len(f.lines) : ~ParsedTo(f, n)}
<1> SUFFICES ASSUME S # {} PROVE FALSE
  OBVIOUS
<1>1. Len(f.lines) \in Nat
  BY ReadToDef
<1>2. S \in SUBSET Nat
  BY <1>1
<1>3. PICK n \in S : \A k \in S : n <= k
  <2> HIDE DEF S
  <2> QED
    BY <1>2, LeastExists
<1>4. n # 0
  BY <1>3, ParsedNothing
<1>5. n \in 1..Len(f.lines) /\ n - 1 \in 0..Len(f.lines) /\ n - 1 \notin S
  BY <1>1, <1>3, <1>4
<1>6. ParsedTo(f, n - 1)
  BY <1>5
<1>7. ParsedTo(f, n)
  BY <1>5, <1>6, ParsedLine
<1> QED
  BY <1>3, <1>7

\* Lines that hold something are told apart by how many there are up to them.
LEMMA RankFacts ==
  ASSUME NEW f \in File
  PROVE  /\ NonBlank(f) = HeldTo(f, Len(f.lines))
         /\ IsFiniteSet(NonBlank(f)) /\ Cardinality(NonBlank(f)) \in Nat
         /\ \A k \in NonBlank(f) :
              /\ {j \in NonBlank(f) : j <= k} = HeldTo(f, k)
              /\ Cardinality(HeldTo(f, k)) \in 1..Cardinality(NonBlank(f))
         /\ \A j, k \in NonBlank(f) :
              Cardinality(HeldTo(f, j)) = Cardinality(HeldTo(f, k)) => j = k
<1>1. f.lines \in Seq(Line) /\ Len(f.lines) \in Nat /\ DOMAIN f.lines = 1..Len(f.lines)
  BY BenchmarkAssumption
<1>2. NonBlank(f) = HeldTo(f, Len(f.lines)) /\ NonBlank(f) \in SUBSET (1..Len(f.lines))
  BY <1>1 DEF NonBlank, HeldTo
<1>3. IsFiniteSet(NonBlank(f)) /\ Cardinality(NonBlank(f)) \in Nat
  <2>1. IsFiniteSet(1..Len(f.lines))
    BY <1>1, FS_Interval
  <2>2. IsFiniteSet(NonBlank(f))
    BY <1>2, <2>1, FS_Subset
  <2> QED
    BY <2>2, FS_CardinalityType
<1>4. \A k \in NonBlank(f) : /\ {j \in NonBlank(f) : j <= k} = HeldTo(f, k)
                            /\ HeldTo(f, k) \in SUBSET NonBlank(f) /\ k \in HeldTo(f, k)
  BY <1>1 DEF NonBlank, HeldTo
<1>5. \A k \in NonBlank(f) : /\ IsFiniteSet(HeldTo(f, k))
                            /\ Cardinality(HeldTo(f, k)) \in 1..Cardinality(NonBlank(f))
  <2> SUFFICES ASSUME NEW k \in NonBlank(f)
               PROVE  /\ IsFiniteSet(HeldTo(f, k))
                      /\ Cardinality(HeldTo(f, k)) \in 1..Cardinality(NonBlank(f))
    OBVIOUS
  <2>1. /\ IsFiniteSet(HeldTo(f, k))
        /\ Cardinality(HeldTo(f, k)) <= Cardinality(NonBlank(f))
    BY <1>3, <1>4, FS_Subset
  <2>2. Cardinality(HeldTo(f, k)) \in Nat /\ Cardinality(HeldTo(f, k)) # 0
    BY <1>4, <2>1, FS_CardinalityType, FS_EmptySet
  <2> QED
    BY <1>3, <2>1, <2>2
<1>6. ASSUME NEW j \in NonBlank(f), NEW k \in NonBlank(f), j < k
      PROVE  Cardinality(HeldTo(f, j)) # Cardinality(HeldTo(f, k))
  <2>1. HeldTo(f, j) \in SUBSET HeldTo(f, k) /\ k \notin HeldTo(f, j) /\ k \in HeldTo(f, k)
    <3>1. j \in Nat /\ k \in Nat
      BY <1>1, <1>2
    <3> QED
      BY <1>4, <1>6, <3>1 DEF HeldTo
  <2> QED
    BY <1>5, <2>1, FS_Subset
<1>7. \A j, k \in NonBlank(f) :
        Cardinality(HeldTo(f, j)) = Cardinality(HeldTo(f, k)) => j = k
  <2>1. \A j, k \in NonBlank(f) : j \in Nat /\ k \in Nat
    BY <1>1, <1>2
  <2> QED
    BY <1>6, <2>1
<1> QED
  BY <1>2, <1>3, <1>4, <1>5, <1>7

LEMMA NthFacts ==
  ASSUME NEW f \in File, NEW k \in NonBlank(f)
  PROVE  Nth(f, Cardinality(HeldTo(f, k))) = k
<1>1. \A j \in NonBlank(f) : {i \in NonBlank(f) : i <= j} = HeldTo(f, j)
  BY RankFacts
<1>2. Nth(f, Cardinality(HeldTo(f, k))) =
        CHOOSE j \in NonBlank(f) : Cardinality(HeldTo(f, j)) = Cardinality(HeldTo(f, k))
  BY <1>1 DEF Nth
<1>3. \A j \in NonBlank(f) : Cardinality(HeldTo(f, j)) = Cardinality(HeldTo(f, k)) => j = k
  BY RankFacts
<1> QED
  BY <1>2, <1>3

\* A file is well formed exactly if nothing in it is wrong and it has a line.
LEMMA WellFormedIsFine ==
  ASSUME NEW f \in File,
         Fine(f, Len(f.lines)) =>
           \A r \in 1..Cardinality(NonBlank(f)) :
             \E k \in NonBlank(f) : Cardinality(HeldTo(f, k)) = r
  PROVE  f \in WellFormed <=> Fine(f, Len(f.lines)) /\ NonBlank(f) # {}
<1> DEFINE H == NonBlank(f)
           C == Cardinality(H)
           rank(k) == Cardinality(HeldTo(f, k))
           lines == Content(f)
<1>1. /\ H = HeldTo(f, Len(f.lines)) /\ C \in Nat /\ (C = 0 <=> H = {})
      /\ \A k \in H : rank(k) \in 1..C /\ Nth(f, rank(k)) = k
      /\ \A j, k \in H : rank(j) = rank(k) => j = k
  BY RankFacts, NthFacts, FS_EmptySet
<1>2. lines = [n \in 1..C |-> f.lines[Nth(f, n)]] /\ DOMAIN lines = 1..C /\ Len(lines) = C
  <2>1. lines = [n \in 1..C |-> f.lines[Nth(f, n)]]
    BY DEF Content
  <2> HIDE DEF lines
  <2>2. DOMAIN lines = 1..C
    BY <2>1
  <2>3. Len(lines) = C
    BY <1>1, <2>1
  <2> QED
    BY <2>1, <2>2, <2>3
<1>3. \A k \in H : rank(k) \in DOMAIN lines /\ lines[rank(k)] = f.lines[k]
  BY <1>1, <1>2
<1>4. f \in WellFormed <=>
        /\ f.readable
        /\ C \in 1..MaxRows
        /\ \A n \in 1..C : lines[n].object /\ lines[n].sound /\ lines[n].id # NoId
        /\ \A m, n \in 1..C : lines[m].id = lines[n].id => m = n
  BY <1>2 DEF WellFormed
<1>5. Fine(f, Len(f.lines)) <=>
        /\ f.readable
        /\ C <= MaxRows
        /\ \A k \in H : f.lines[k].object /\ f.lines[k].sound /\ f.lines[k].id # NoId
        /\ \A j, k \in H : f.lines[j].id = f.lines[k].id => j = k
  BY <1>1 DEF Fine
<1>6. MaxRows \in Nat
  BY BenchmarkAssumption
<1>7. Fine(f, Len(f.lines)) => \A r \in 1..C : \E k \in H : rank(k) = r
  OBVIOUS
<1> HIDE DEF H, C, rank, lines
<1>8. ASSUME f \in WellFormed PROVE Fine(f, Len(f.lines)) /\ H # {}
  <2>1. \A k \in H : f.lines[k].object /\ f.lines[k].sound /\ f.lines[k].id # NoId
    <3> SUFFICES ASSUME NEW k \in H
                 PROVE  f.lines[k].object /\ f.lines[k].sound /\ f.lines[k].id # NoId
      OBVIOUS
    <3>1. PICK n \in 1..C : lines[n] = f.lines[k]
      BY <1>1, <1>3
    <3> QED
      BY <1>4, <1>8, <3>1
  <2>2. \A j, k \in H : f.lines[j].id = f.lines[k].id => j = k
    BY <1>1, <1>2, <1>3, <1>4, <1>8
  <2>3. C <= MaxRows /\ C # 0
    BY <1>1, <1>4, <1>6, <1>8
  <2> QED
    BY <1>1, <1>4, <1>5, <1>8, <2>1, <2>2, <2>3
<1>9. ASSUME Fine(f, Len(f.lines)), H # {} PROVE f \in WellFormed
  <2>1. \A r \in 1..C : \E k \in H : rank(k) = r /\ lines[r] = f.lines[k]
    BY <1>3, <1>7, <1>9
  <2>2. \A n \in 1..C : lines[n].object /\ lines[n].sound /\ lines[n].id # NoId
    BY <1>5, <1>9, <2>1
  <2>3. \A m, n \in 1..C : lines[m].id = lines[n].id => m = n
    BY <1>5, <1>9, <2>1
  <2>4. C \in 1..MaxRows
    BY <1>1, <1>5, <1>6, <1>9
  <2> QED
    BY <1>4, <1>5, <1>9, <2>2, <2>3, <2>4
<1> QED
  BY <1>8, <1>9 DEF H

\* What the loop makes of a file is what the file says: it is refused exactly if
\* it is not well formed, and its rows are its lines in their order.
THEOREM ParserCorrect ==
  ASSUME NEW f \in File
  PROVE  /\ Refused(f) <=> f \notin WellFormed
         /\ ~Refused(f) => Rows(f) = AsRows[f]
<1> DEFINE N == Len(f.lines)
           read == ReadTo(f)[N]
           C == Cardinality(NonBlank(f))
<1>1. N \in Nat /\ N \in 0..N
  BY ReadToDef
<1>2. ParsedTo(f, N)
  BY <1>1, ParsedAll
<1>3. Parse[f] = read /\ Rows(f) = read.rows /\ (Refused(f) <=> read.problem \/ Len(read.rows) = 0)
  BY DEF Parse, Rows, Refused
<1>4. NonBlank(f) = HeldTo(f, N) /\ C \in Nat /\ (C = 0 <=> NonBlank(f) = {})
  BY RankFacts, FS_EmptySet
<1>5. /\ read.rows \in Seq(Row) /\ read.problem \in BOOLEAN
      /\ read.problem <=> ~Fine(f, N)
      /\ ~read.problem =>
           /\ Len(read.rows) = C
           /\ \A k \in NonBlank(f) : RowFor(f, read.rows, k)
           /\ \A r \in DOMAIN read.rows : \E k \in NonBlank(f) : Cardinality(HeldTo(f, k)) = r
  BY <1>2, <1>4 DEF ParsedTo
<1>6. DOMAIN read.rows = 1..Len(read.rows) /\ Len(read.rows) \in Nat
  BY <1>5
<1>7. f \in WellFormed <=> Fine(f, N) /\ NonBlank(f) # {}
  <2>1. Fine(f, N) => \A r \in 1..C : \E k \in NonBlank(f) : Cardinality(HeldTo(f, k)) = r
    BY <1>5, <1>6
  <2> QED
    BY <2>1, WellFormedIsFine
<1>8. Refused(f) <=> f \notin WellFormed
  BY <1>3, <1>4, <1>5, <1>7
<1>9. ASSUME ~read.problem PROVE read.rows = AsRows[f]
  <2>1. AsRows[f] = [n \in DOMAIN Content(f) |-> [no |-> n, doc |-> Content(f)[n]]]
    BY DEF AsRows
  <2>2. Content(f) = [n \in 1..C |-> f.lines[Nth(f, n)]]
    BY DEF Content
  <2>3. \A n \in 1..C : read.rows[n] = [no |-> n, doc |-> Content(f)[n]]
    <3> SUFFICES ASSUME NEW n \in 1..C PROVE read.rows[n] = [no |-> n, doc |-> Content(f)[n]]
      OBVIOUS
    <3>1. PICK k \in NonBlank(f) : Cardinality(HeldTo(f, k)) = n
      BY <1>5, <1>6, <1>9
    <3>2. read.rows[n] = [no |-> n, doc |-> f.lines[k]]
      BY <1>5, <1>9, <3>1 DEF RowFor
    <3>3. Nth(f, n) = k
      BY <3>1, NthFacts
    <3> QED
      BY <2>2, <3>2, <3>3
  <2>4. DOMAIN AsRows[f] = 1..C /\ \A n \in 1..C : AsRows[f][n] = [no |-> n, doc |-> Content(f)[n]]
    BY <2>1, <2>2
  <2>5. DOMAIN read.rows = 1..C /\ read.rows = [n \in 1..C |-> read.rows[n]]
    BY <1>5, <1>6, <1>9
  <2>6. AsRows[f] = [n \in 1..C |-> [no |-> n, doc |-> Content(f)[n]]]
    BY <2>1, <2>2
  <2> HIDE DEF read, C
  <2> QED
    BY <2>3, <2>5, <2>6
<1> QED
  BY <1>3, <1>8, <1>9

-----------------------------------------------------------------------------
(* Files become sets: a call past its judgement, and a set, have a file that *)
(* was not refused.                                                        *)

Judged(c) ==
  /\ call[c].phase \in Accepted \/ call[c].answer \in {"stored", "duplicate", "error"} =>
       ~Refused(call[c].request.file)
  /\ call[c].answer = "rejected" => Refused(call[c].request.file)

JudgedInv ==
  /\ \A c \in Call : Judged(c)
  /\ \A i \in Id : stored[i] # NoFile => ~Refused(stored[i])

LEMMA JudgedOnly ==
  ASSUME StoreInv, JudgedInv, NEW c \in Call, Others(c), UNCHANGED stored, Judged(c)'
  PROVE  JudgedInv'
<1>1. ASSUME NEW d \in Call, d # c PROVE Judged(d)'
  <2>1. call'[d] = call[d] /\ Judged(d)
    BY <1>1 DEF Others, JudgedInv
  <2> QED
    BY <2>1 DEF Judged
<1> QED
  BY <1>1 DEF JudgedInv

\* A call that goes on with a file that was not refused, or with none.
LEMMA JudgedGo ==
  ASSUME StoreInv, JudgedInv, NEW c \in Call, NEW p \in Phase, NEW i \in Nat, Go(c, p, i),
         call[c].phase # "done", UNCHANGED stored,
         p \in Accepted => ~Refused(call[c].request.file)
  PROVE  JudgedInv'
<1>1. /\ Others(c)
      /\ call'[c].phase = p /\ call'[c].request = call[c].request
      /\ call'[c].answer = call[c].answer
  BY GoShape DEF StoreInv
<1>2. call[c].answer = "none"
  BY DEF StoreInv, OwnOf, PhaseOf
<1>3. Judged(c)'
  BY <1>1, <1>2 DEF Judged
<1> QED
  BY <1>1, <1>3, JudgedOnly

LEMMA JudgedReturn ==
  ASSUME StoreInv, JudgedInv, NEW c \in Call, NEW a \in Answer, NEW i \in Nat, Return(c, a, i),
         UNCHANGED stored,
         a \in {"stored", "duplicate", "error"} => ~Refused(call[c].request.file),
         a = "rejected" => Refused(call[c].request.file)
  PROVE  JudgedInv'
<1>1. /\ Others(c)
      /\ call'[c].phase = "done" /\ call'[c].request = call[c].request /\ call'[c].answer = a
  BY ReturnShape DEF StoreInv
<1>2. Judged(c)'
  BY <1>1 DEF Judged, Accepted
<1> QED
  BY <1>1, <1>2, JudgedOnly

LEMMA JudgedUpload ==
  ASSUME StoreInv, JudgedInv, NEW c \in Call,
         \/ Reject(c) \/ Recognise(c) \/ LookUp(c) \/ Insert(c) \/ Collide(c) \/ LookAgain(c)
         \/ Fill(c) \/ CommitUpload(c)
  PROVE  JudgedInv'
<1> DEFINE f == call[c].request.file
<1>1. /\ TypeOK /\ nextId \in Nat /\ call[c].id \in Nat /\ 0 \in Nat /\ Id \subseteq Nat
      /\ OwnOf(c)
  BY CallFacts DEF StoreInv
<1>2. call[c].phase \in Accepted => ~Refused(f)
  BY DEF JudgedInv, Judged
<1>3. CASE Reject(c)
  BY <1>1, <1>3, JudgedReturn DEF Reject, Answer
<1>4. CASE Recognise(c)
  <2>1. PICK i \in Holding(f) : Return(c, "duplicate", i)
    BY <1>4 DEF Recognise
  <2>2. i \in Nat
    BY <1>1, <2>1 DEF Holding
  <2> QED
    BY <1>4, <2>1, <2>2, JudgedReturn DEF Recognise, Answer
<1>5. CASE LookUp(c)
  <2>1. call[c].phase # "done" /\ Go(c, "insert", 0) /\ UNCHANGED stored /\ ~Refused(f)
    BY <1>5 DEF LookUp, At
  <2> QED
    BY <1>1, <2>1, JudgedGo DEF Phase
<1>6. CASE Insert(c) \/ Collide(c) \/ Fill(c)
  <2>1. call[c].phase # "done" /\ UNCHANGED stored /\ call[c].phase \in Accepted
    BY <1>6 DEF Insert, Collide, Fill, At, Accepted
  <2>2. \/ Go(c, "inserted", nextId) \/ Go(c, "again", 0) \/ Go(c, "filled", call[c].id)
    BY <1>6 DEF Insert, Collide, Fill
  <2> QED
    BY <1>1, <1>2, <2>1, <2>2, JudgedGo DEF Phase
<1>7. CASE LookAgain(c)
  <2>1. ~Refused(f) /\ UNCHANGED stored
    BY <1>2, <1>7 DEF LookAgain, At, Accepted
  <2>2. \E i \in Nat : Return(c, "duplicate", i) \/ Return(c, "error", i)
    BY <1>1, <1>7 DEF LookAgain, Holding
  <2> QED
    BY <2>1, <2>2, JudgedReturn DEF Answer
<1>8. CASE CommitUpload(c)
  <2> DEFINE i == call[c].id
  <2>1. ~Refused(f) /\ stored' = [stored EXCEPT ![i] = f]
    BY <1>2, <1>8 DEF CommitUpload, At, Accepted
  <2>2. PICK told \in {"stored", "failed"} : Return(c, told, i)
    BY <1>8 DEF CommitUpload
  <2>3. /\ Others(c) /\ call'[c].phase = "done" /\ call'[c].request = call[c].request
        /\ call'[c].answer \in {"stored", "failed"}
    BY <1>1, <2>2, ReturnShape DEF Answer
  <2>4. Judged(c)'
    BY <2>1, <2>3 DEF Judged, Accepted
  <2>5. ASSUME NEW d \in Call, d # c PROVE Judged(d)'
    <3>1. call'[d] = call[d] /\ Judged(d)
      BY <2>3, <2>5 DEF Others, JudgedInv
    <3> QED
      BY <3>1 DEF Judged
  <2>6. \A j \in Id : stored'[j] = IF j = i THEN f ELSE stored[j]
    BY <1>1, <2>1 DEF TypeOK
  <2> QED
    BY <2>1, <2>4, <2>5, <2>6 DEF JudgedInv
<1> QED
  BY <1>3, <1>4, <1>5, <1>6, <1>7, <1>8

\* No other statement judges a file.
LEMMA JudgedElsewhere ==
  ASSUME StoreInv, JudgedInv, NEW c \in Call,
         \/ Delete(c) \/ DeleteNothing(c) \/ CommitDelete(c) \/ Rename(c) \/ RenameNothing(c)
         \/ CommitRename(c) \/ Reread(c) \/ Read(c) \/ Fail(c)
  PROVE  JudgedInv'
<1>1. TypeOK /\ call[c].id \in Nat
  BY CallFacts DEF StoreInv
<1>2. UNCHANGED stored
  BY DEF Delete, DeleteNothing, CommitDelete, Rename, RenameNothing, CommitRename, Reread, Read, Fail,
         Lock, FindNothing
<1>3. CASE Delete(c) \/ Rename(c) \/ CommitRename(c)
  <2>1. call[c].phase # "done"
    BY <1>3 DEF Delete, Rename, CommitRename, Lock, At
  <2>2. \E p \in {"deleting", "renaming", "reread"} : Go(c, p, call[c].id)
    BY <1>3 DEF Delete, Rename, CommitRename, Lock
  <2>3. \A p \in {"deleting", "renaming", "reread"} : p \in Phase /\ p \notin Accepted
    BY DEF Phase, Accepted
  <2> QED
    BY <1>1, <1>2, <2>1, <2>2, <2>3, JudgedGo
<1>4. CASE DeleteNothing(c) \/ CommitDelete(c) \/ RenameNothing(c) \/ Reread(c) \/ Fail(c)
  <2>1. \E a \in {"nothing", "deleted", "failed", "missing", "renamed"} : Return(c, a, call[c].id)
    BY <1>4 DEF DeleteNothing, CommitDelete, RenameNothing, Reread, Fail, FindNothing
  <2>2. \A a \in {"nothing", "deleted", "failed", "missing", "renamed"} :
          a \in Answer /\ a \notin {"stored", "duplicate", "error", "rejected"}
    BY DEF Answer
  <2> QED
    BY <1>1, <1>2, <2>1, <2>2, JudgedReturn
<1>5. CASE Read(c)
  <2>1. StoreInv'
    BY <1>5, ReadStep
  <2>2. call' = [call EXCEPT ![c].seen = Seen(c), ![c].answer = Finished(c),
                             ![c].phase = IF Finished(c) = "none" THEN "received" ELSE "done"]
    BY <1>5 DEF Read
  <2>3. \A d \in Call \ {c} : call'[d] = call[d]
    BY <1>1, <2>2 DEF TypeOK
  <2>4. Others(c)
    BY <2>1, <2>3 DEF Others, StoreInv, TypeOK
  <2>5. call'[c].phase \in {"received", "done"} /\ call'[c].answer = Finished(c)
    BY <1>1, <2>2 DEF TypeOK, CallState
  <2>6. Finished(c) \in {"missing", "read", "none"}
    BY DEF Finished
  <2>7. Judged(c)'
    BY <2>5, <2>6 DEF Judged, Accepted
  <2> QED
    BY <1>2, <2>4, <2>7, JudgedOnly
<1> QED
  BY <1>3, <1>4, <1>5

LEMMA JudgedReceive ==
  ASSUME StoreInv, JudgedInv, NEW c \in Call,
         NEW op \in {"upload", "delete", "rename"} \cup Reading, Receive(c, op)
  PROVE  JudgedInv'
<1>1. PICK r \in Asks(op) :
        call' = [call EXCEPT ![c] = [Idle EXCEPT !.request = r, !.phase = "received", !.id = r.id]]
  BY DEF Receive
<1>2. StoreInv'
  BY ReceiveStep
<1>3. TypeOK /\ UNCHANGED stored
  BY DEF StoreInv, Receive
<1>4. \A d \in Call \ {c} : call'[d] = call[d]
  BY <1>1, <1>3 DEF TypeOK
<1>5. Others(c)
  BY <1>2, <1>4 DEF Others, StoreInv, TypeOK
<1>6. call'[c].phase = "received" /\ call'[c].answer = "none"
  BY <1>1, <1>3 DEF TypeOK, Idle
<1>7. Judged(c)'
  BY <1>6 DEF Judged, Accepted
<1> QED
  BY <1>3, <1>5, <1>7, JudgedOnly

LEMMA NextJudged == StoreInv /\ JudgedInv /\ [Next]_vars => JudgedInv'
<1> SUFFICES ASSUME StoreInv, JudgedInv, [Next]_vars PROVE JudgedInv'
  OBVIOUS
<1>1. CASE UNCHANGED vars
  BY <1>1 DEF vars, JudgedInv, Judged
<1>2. ASSUME NEW c \in Call, Step(c) PROVE JudgedInv'
  BY <1>2, JudgedUpload, JudgedElsewhere DEF Step
<1>3. ASSUME NEW c \in Call, Fail(c) PROVE JudgedInv'
  BY <1>3, JudgedElsewhere
<1>4. ASSUME NEW c \in Call, NEW op \in {"upload", "delete", "rename"} \cup Reading, Receive(c, op)
      PROVE  JudgedInv'
  BY <1>4, JudgedReceive
<1>5. ASSUME NEW i \in Id, Load(i) PROVE JudgedInv'
  BY <1>5 DEF Load, JudgedInv, Judged
<1> QED
  BY <1>1, <1>2, <1>3, <1>4, <1>5 DEF Next

LEMMA JudgedCorrect == Spec => []JudgedInv
<1>1. Init => JudgedInv
  BY DEF Init, JudgedInv, Judged, Idle, Accepted
<1>2. QED
  BY <1>1, NextJudged, StoreCorrect, PTL DEF Spec, Safety

\* A file that a call has judged was refused exactly if it is not well formed,
\* and a set is what its file holds, whatever the files and the calls are.
THEOREM FilesBecomeSetsCorrect == Spec => []FilesBecomeSets
<1>1. ASSUME StoreInv, JudgedInv PROVE FilesBecomeSets
  <2>1. ASSUME NEW c \in Call, call[c].request.op = "upload"
        PROVE  LET f == call[c].request.file IN
               /\ call[c].answer = "rejected" => f \notin WellFormed
               /\ call[c].answer \in {"stored", "duplicate", "error"} => f \in WellFormed
    <3>1. call[c].request.file \in File /\ Judged(c)
      BY <1>1, <2>1 DEF StoreInv, OwnOf, PhaseOf, JudgedInv
    <3> QED
      BY <3>1, ParserCorrect DEF Judged
  <2>2. ASSUME NEW i \in Id, dataset[i] # NoSet PROVE row[i] = AsRows[stored[i]]
    <3>1. stored[i] \in File /\ stored[i] # NoFile
      BY <1>1, <2>2, PresentFacts
    <3>2. row[i] = Rows(stored[i]) /\ ~Refused(stored[i])
      BY <1>1, <2>2, <3>1 DEF StoreInv, SetOf, JudgedInv
    <3> QED
      BY <3>1, <3>2, ParserCorrect
  <2> QED
    BY <2>1, <2>2 DEF FilesBecomeSets
<1>2. QED
  BY <1>1, StoreCorrect, JudgedCorrect, PTL
=============================================================================
