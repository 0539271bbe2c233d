--------------------------- MODULE IngestionProofs ---------------------------
(***************************************************************************)
(* What holds of Ingestion for any documents and limits, any number of     *)
(* runs, and any changes upstream and in sources.csv.                      *)
(***************************************************************************)
EXTENDS Ingestion, TLAPS

-----------------------------------------------------------------------------
(* The inductive invariant *)

\* A document in work compares its content with the label its own row already has, which is why
\* a recorded sha256 can only be met by the same content again.
LabelInv(d) == task[d].at # "off" => row[d].label = label[d]

\* Past the drift check the content in hand is the recorded one, if one is recorded.
KeptInv(d) ==
    /\ task[d].at = "fetched" => task[d].got \in Nat
    /\ task[d].at \in {"fetched", "kept", "loaded", "writing"} => raw[d] = task[d].got
    /\ task[d].at \in {"kept", "loaded", "writing"} =>
        task[d].got \in Nat /\ task[d].sha = task[d].got /\ row[d].sha \in {None, task[d].got}
    /\ task[d].at = "writing" => jsonl[d] = Torn

\* What is about to be committed.
ClosingInv(d) ==
    task[d].at = "closing" =>
        /\ row[d].sha # None => task[d].sha = row[d].sha
        /\ \/ task[d].status = "failed"
           \/ /\ task[d].status = "extracted"
              /\ task[d].sha \in Nat /\ jsonl[d] = task[d].sha /\ raw[d] = task[d].sha

\* The phases of a task that has overwritten the raw file.
Past == Open \ {"asking"}

Readable(d) ==
    row[d].status \in {"extracted", "indexed"} =>
        /\ row[d].sha # None
        /\ jsonl[d] \in {row[d].sha, Torn}
        /\ jsonl[d] = Torn => stops > 0 \/ task[d].at = "writing"
        /\ raw[d] # row[d].sha => stops > 0 \/ task[d].at \in Past

\* No task outlives its run.
OnInv(d) == On \/ task[d].at = "off"

DocInv(d) == OnInv(d) /\ LabelInv(d) /\ KeptInv(d) /\ ClosingInv(d) /\ Readable(d)

IInv == TypeOK /\ \A d \in Docs : DocInv(d)

-----------------------------------------------------------------------------
(* Steps *)

\* A document that a step does not touch stays in order.
LEMMA Elsewhere ==
    ASSUME NEW d \in Docs, DocInv(d), stops' = stops, force' = force,
           row'[d] = row[d], task'[d] = task[d], jsonl'[d] = jsonl[d], raw'[d] = raw[d],
           label'[d] = label[d]
    PROVE  DocInv(d)'
BY DEF DocInv, OnInv, On, LabelInv, KeptInv, ClosingInv, Readable, Past, Open

\* It is enough to look at the document whose task moves.
LEMMA OneDocument ==
    ASSUME IInv, NEW d \in Docs, stops' = stops, label' = label, force' = force,
           \A e \in Docs \ {d} : /\ row'[e] = row[e] /\ task'[e] = task[e]
                               /\ jsonl'[e] = jsonl[e] /\ raw'[e] = raw[e],
           TypeOK', DocInv(d)'
    PROVE  IInv'
<1>1. ASSUME NEW e \in Docs, e # d PROVE DocInv(e)'
  <2>1. DocInv(e)
    BY DEF IInv
  <2> QED BY <1>1, <2>1, Elsewhere
<1> QED BY <1>1 DEF IInv

\* The selection is among the valid rows.
LEMMA SelectionIsValid ==
    ASSUME NEW valid \in SUBSET Docs, NEW selected \in Selections(valid)
    PROVE  selected \subseteq valid
BY DEF Selections

LEMMA InitIInv ==
    ASSUME Init
    PROVE  IInv
<1>1. row \in [Docs -> Row] /\ task \in [Docs -> Task]
  BY DEF Init, Row, Task, Unregistered, Idle
<1>2. TypeOK
  BY <1>1 DEF Init, TypeOK, NoLabels
<1>3. ASSUME NEW d \in Docs PROVE DocInv(d)
  <2>1. task[d].at = "off" /\ row[d].status = None
    BY DEF Init, Idle, Unregistered
  <2> QED BY <2>1, NoneAssumption DEF DocInv, OnInv, LabelInv, KeptInv, ClosingInv, Readable, Statuses
<1> QED BY <1>2, <1>3 DEF IInv

\* Registration changes no recorded content, and no status but that of a new row.
LEMMA Registered ==
    ASSUME IInv, Begin, NEW d \in Docs
    PROVE  /\ row'[d].sha = row[d].sha
           /\ row'[d].status \in {"extracted", "indexed"} => row'[d].status = row[d].status
<1>1. row[d] \in Row
  BY DEF IInv, TypeOK
<1> DEFINE New == [Unregistered EXCEPT !.status = "registered", !.label = csv[d]]
           Known == [row[d] EXCEPT !.label = csv[d]]
<1>2. /\ row'[d] \in {row[d], New, Known}
      /\ (row'[d] \notin {row[d], Known} => row[d] = Unregistered)
  <2>1. PICK valid \in SUBSET Docs \ {{}} :
          row' = [e \in Docs |->
                   IF e \notin valid THEN row[e]
                   ELSE IF row[e] = Unregistered
                        THEN [Unregistered EXCEPT !.status = "registered", !.label = csv[e]]
                        ELSE [row[e] EXCEPT !.label = csv[e]]]
    BY DEF Begin
  <2>2. row'[d] = IF d \notin valid THEN row[d] ELSE IF row[d] = Unregistered THEN New ELSE Known
    BY <2>1, Zenon
  <2> HIDE DEF New, Known
  <2> QED BY <2>2
<1>3. New.status = "registered" /\ New.sha = None
  BY DEF Unregistered
<1>4. Known.status = row[d].status /\ Known.sha = row[d].sha
  BY <1>1 DEF Row
<1>5. Unregistered.sha = None
  BY DEF Unregistered
<1> HIDE DEF New, Known
<1> QED BY <1>2, <1>3, <1>4, <1>5

LEMMA BeginStep == ASSUME IInv, Begin PROVE IInv'
<1>1. PICK valid \in SUBSET Docs \ {{}} :
        /\ row' = [d \in Docs |->
                    IF d \notin valid THEN row[d]
                    ELSE IF row[d] = Unregistered
                         THEN [Unregistered EXCEPT !.status = "registered", !.label = csv[d]]
                         ELSE [row[d] EXCEPT !.label = csv[d]]]
        /\ \E selected \in Selections(valid) :
            task' = [d \in Docs |-> IF d \in selected THEN [Idle EXCEPT !.at = "queued"] ELSE Idle]
  BY DEF Begin
<1>2. PICK selected \in Selections(valid) :
        task' = [d \in Docs |-> IF d \in selected THEN [Idle EXCEPT !.at = "queued"] ELSE Idle]
  BY <1>1
<1>3. selected \subseteq valid
  BY SelectionIsValid
<1>4. /\ label' = csv /\ force' \in BOOLEAN /\ runs' = runs + 1
      /\ UNCHANGED <<upstream, csv, edits, raw, jsonl, stops>>
  BY DEF Begin, world, disk
<1>5. TypeOK'
  <2>1. task' \in [Docs -> Task]
    BY <1>2 DEF Idle, Task
  <2>2. ASSUME NEW d \in Docs PROVE row'[d] \in Row
    <3>1. row[d] \in Row /\ csv[d] \in Nat
      BY DEF IInv, TypeOK
    <3>2. [row[d] EXCEPT !.label = csv[d]] \in Row
      BY <3>1 DEF Row
    <3>3. [Unregistered EXCEPT !.status = "registered", !.label = csv[d]] \in Row
      BY <3>1 DEF Row, Statuses, Unregistered
    <3> QED BY <1>1, <3>1, <3>2, <3>3
  <2>3. row' \in [Docs -> Row]
    BY <1>1, <2>2
  <2> QED BY <1>4, <2>1, <2>3 DEF IInv, TypeOK
<1>6. ASSUME NEW d \in Docs PROVE DocInv(d)'
  <2>1. task'[d].at \in {"off", "queued"} /\ (task'[d].at # "off" => d \in valid)
    BY <1>2, <1>3 DEF Idle
  <2>2. d \in valid => row'[d].label = csv[d]
    BY <1>1 DEF IInv, TypeOK, Row, Unregistered
  <2>3. /\ row'[d].status \in {"extracted", "indexed"} =>
            row'[d].status = row[d].status /\ row'[d].sha = row[d].sha
    BY Registered
  <2>4. LabelInv(d)' /\ KeptInv(d)' /\ ClosingInv(d)'
    BY <1>4, <2>1, <2>2 DEF LabelInv, KeptInv, ClosingInv
  <2>5. Readable(d)'
    <3>1. Readable(d) /\ task[d].at = "off"
      BY DEF Begin, IInv, DocInv, OnInv
    <3> QED BY <1>4, <2>3, <3>1 DEF Readable, Past, Open
  <2>6. OnInv(d)'
    BY <1>4, NoneAssumption DEF OnInv, On
  <2> QED BY <2>4, <2>5, <2>6 DEF DocInv
<1> QED BY <1>5, <1>6 DEF IInv

\* What a step leaves of the other tasks.
Others(d) == task' \in [Docs -> Task] /\ \A e \in Docs \ {d} : task'[e] = task[e]

\* A step within a task that changes neither the row nor the JSONL.
LEMMA TaskStep ==
    ASSUME IInv, NEW d \in Docs, Others(d),
           UNCHANGED <<world, row, jsonl, run, bounds>>, raw' \in [Docs -> Nat \cup {None}],
           On, task[d].at # "off", task[d].at # "writing",
           task'[d].at \notin {"off", "writing"},
           \A e \in Docs \ {d} : raw'[e] = raw[e],
           task'[d].at \notin Past => raw'[d] = raw[d] /\ task[d].at \notin Past,
           task'[d].at \in {"fetched", "kept", "loaded"} => raw'[d] = task'[d].got,
           task'[d].at = "fetched" => task'[d].got \in Nat,
           task'[d].at \in {"kept", "loaded"} =>
                /\ task'[d].got \in Nat /\ task'[d].sha = task'[d].got
                /\ row[d].sha \in {None, task'[d].got},
           task'[d].at = "closing" =>
                task'[d].status = "failed" /\ (row[d].sha # None => task'[d].sha = row[d].sha)
    PROVE  IInv'
<1>1. TypeOK'
  BY DEF IInv, TypeOK, Others, world, run, bounds
<1>2. DocInv(d)'
  <2>1. DocInv(d)
    BY DEF IInv
  <2> QED
    BY <2>1 DEF DocInv, OnInv, On, LabelInv, KeptInv, ClosingInv, Readable, Past, Open, world, run,
                 bounds
<1> QED BY <1>1, <1>2, OneDocument DEF Others, world, run, bounds

\* What the assignments to several fields of a task leave.
LEMMA EndsAs ==
    ASSUME IInv, NEW d \in Docs, NEW p \in {"done", "closing"}, NEW s \in Statuses,
           task' = [task EXCEPT ![d].at = p, ![d].status = s]
    PROVE  Others(d) /\ task'[d].at = p /\ task'[d].status = s /\ task'[d].sha = task[d].sha
<1>1. task \in [Docs -> Task]
  BY DEF IInv, TypeOK
<1>2. PICK f : f = [task EXCEPT ![d].at = p]
  OBVIOUS
<1>3. /\ f \in [Docs -> Task] /\ f[d].at = p /\ f[d].sha = task[d].sha
      /\ \A e \in Docs \ {d} : f[e] = task[e]
  BY <1>1, <1>2 DEF Task, Open
<1>4. task' = [f EXCEPT ![d].status = s]
  BY <1>2, Zenon
<1>5. task' \in [Docs -> Task]
  BY <1>1, Zenon DEF Task, Open
<1>6. /\ task'[d].at = p /\ task'[d].status = s /\ task'[d].sha = task[d].sha
      /\ \A e \in Docs \ {d} : task'[e] = task[e]
  BY <1>3, <1>4 DEF Task
<1> QED BY <1>5, <1>6 DEF Others

LEMMA StartStep == ASSUME IInv, NEW d \in Docs, Start(d) PROVE IInv'
<1>4. /\ On /\ task[d].at = "queued" /\ UNCHANGED <<world, row, disk, run, bounds>>
      /\ raw \in [Docs -> Nat \cup {None}]
  <2>1. At(d, "queued") /\ UNCHANGED <<world, row, disk, run, bounds>>
    BY Zenon DEF Start
  <2> QED BY <2>1 DEF At, IInv, TypeOK
<1>1. CASE ~force /\ row[d].status = "extracted"
  <2>1. task' = [task EXCEPT ![d].at = "done", ![d].status = "extracted"]
    BY <1>1, Zenon DEF Start
  <2>2. "done" \in {"done", "closing"} /\ "extracted" \in Statuses
    BY DEF Statuses
  <2>3. Others(d) /\ task'[d].at = "done"
    BY <2>1, <2>2, EndsAs, Zenon
  <2> QED BY <2>3, <1>4, TaskStep DEF disk, Past, Open
<1>2. CASE ~(~force /\ row[d].status = "extracted")
  <2>1. Others(d) /\ task'[d].at = "asking"
    <3>1. Goto(d, "asking")
      BY <1>2, Zenon DEF Start
    <3> QED BY <3>1 DEF Goto, Others, IInv, TypeOK, Task, Open
  <2> QED BY <2>1, <1>4, TaskStep DEF disk, Past, Open
<1> QED BY <1>1, <1>2

\* A failed document keeps the sha256 its transaction has.
LEMMA FailTask ==
    ASSUME IInv, NEW d \in Docs, NEW sha \in Nat \cup {None}, Fail(d, sha)
    PROVE  /\ Others(d) /\ task'[d].at = "closing" /\ task'[d].status = "failed"
           /\ task'[d].sha = sha
<1>1. task \in [Docs -> Task]
  BY DEF IInv, TypeOK
<1>2. PICK f : f = [task EXCEPT ![d].at = "closing"]
  OBVIOUS
<1>3. /\ f \in [Docs -> Task] /\ f[d].at = "closing" /\ f[d].got = task[d].got
      /\ \A e \in Docs \ {d} : f[e] = task[e]
  BY <1>1, <1>2 DEF Task, Open
<1>4. PICK g : g = [f EXCEPT ![d].status = "failed"]
  OBVIOUS
<1>5. /\ g \in [Docs -> Task] /\ g[d].at = "closing" /\ g[d].status = "failed"
      /\ g[d].got = task[d].got
      /\ \A e \in Docs \ {d} : g[e] = task[e]
  BY <1>3, <1>4 DEF Task, Statuses
<1>6. task' = [g EXCEPT ![d].sha = sha]
  BY <1>2, <1>4, Zenon DEF Fail
<1> QED BY <1>5, <1>6 DEF Task, Others

LEMMA FetchFailsStep == ASSUME IInv, NEW d \in Docs, FetchFails(d) PROVE IInv'
<1>1. CASE Fail(d, row[d].sha)
  <2>1. row[d].sha \in Nat \cup {None}
    BY DEF IInv, TypeOK, Row
  <2>2. /\ Others(d) /\ task'[d].at = "closing" /\ task'[d].status = "failed"
        /\ task'[d].sha = row[d].sha
    BY <1>1, <2>1, FailTask
  <2> QED BY <2>2, TaskStep DEF FetchFails, At, disk, Past, Open, IInv, TypeOK
<1>2. CASE task' = [task EXCEPT ![d].tries = @ + 1]
  <2>1. Others(d) /\ task'[d].at = task[d].at
    BY <1>2 DEF Others, IInv, TypeOK, Task
  <2> QED BY <2>1, TaskStep DEF FetchFails, At, disk, Past, Open, IInv, TypeOK
<1> QED BY <1>1, <1>2 DEF FetchFails

LEMMA FetchStep == ASSUME IInv, NEW d \in Docs, Fetch(d) PROVE IInv'
<1>1. Others(d) /\ task'[d].at = "fetched" /\ task'[d].got \in Nat /\ task'[d].got = upstream[d]
  <2>1. task \in [Docs -> Task] /\ upstream[d] \in Nat
    BY DEF IInv, TypeOK
  <2>2. PICK f : f = [task EXCEPT ![d].at = "fetched"]
    OBVIOUS
  <2>3. /\ f \in [Docs -> Task] /\ f[d].at = "fetched"
        /\ \A e \in Docs \ {d} : f[e] = task[e]
    BY <2>1, <2>2 DEF Task, Open
  <2>4. task' = [f EXCEPT ![d].got = upstream[d]]
    BY <2>2, Zenon DEF Fetch
  <2> QED BY <2>1, <2>3, <2>4 DEF Task, Others
<1>2. /\ raw' \in [Docs -> Nat \cup {None}]
      /\ raw'[d] = upstream[d] /\ \A e \in Docs \ {d} : raw'[e] = raw[e]
  BY DEF Fetch, IInv, TypeOK
<1> QED BY <1>1, <1>2, TaskStep DEF Fetch, At, Past, Open

LEMMA DriftStep == ASSUME IInv, NEW d \in Docs, Drift(d) PROVE IInv'
<1>1. row[d].sha \in Nat \cup {None}
  BY DEF IInv, TypeOK, Row
<1>2. /\ Others(d) /\ task'[d].at = "closing" /\ task'[d].status = "failed"
      /\ task'[d].sha = row[d].sha
  BY <1>1, FailTask DEF Drift
<1> QED BY <1>2, TaskStep DEF Drift, At, disk, Past, Open, IInv, TypeOK

LEMMA KeepStep == ASSUME IInv, NEW d \in Docs, Keep(d) PROVE IInv'
<1>1. task[d].got \in Nat /\ row[d].label = label[d] /\ raw[d] = task[d].got
  BY DEF Keep, At, IInv, DocInv, KeptInv, LabelInv
<1>2. row[d].sha \in {None, task[d].got}
  BY <1>1 DEF Keep, Drifted
<1>3. /\ Others(d) /\ task'[d].at = "kept"
      /\ task'[d].got = task[d].got /\ task'[d].sha = task[d].got
  <2>1. task \in [Docs -> Task]
    BY DEF IInv, TypeOK
  <2>2. PICK f : f = [task EXCEPT ![d].at = "kept"]
    OBVIOUS
  <2>3. /\ f \in [Docs -> Task] /\ f[d].at = "kept" /\ f[d].got = task[d].got
        /\ \A e \in Docs \ {d} : f[e] = task[e]
    BY <2>1, <2>2 DEF Task, Open
  <2>4. PICK g : g = [f EXCEPT ![d].status = "downloaded"]
    OBVIOUS
  <2>5. /\ g \in [Docs -> Task] /\ g[d].at = "kept" /\ g[d].status = "downloaded"
        /\ g[d].got = task[d].got
        /\ \A e \in Docs \ {d} : g[e] = task[e]
    BY <2>3, <2>4 DEF Task, Statuses
  <2>6. task' = [g EXCEPT ![d].sha = task[d].got]
    BY <2>2, <2>4, Zenon DEF Keep
  <2> QED BY <1>1, <2>5, <2>6 DEF Task, Others
<1> QED BY <1>1, <1>2, <1>3, TaskStep DEF Keep, At, disk, Past, Open, IInv, TypeOK

LEMMA ExtractStep == ASSUME IInv, NEW d \in Docs, Extract(d) PROVE IInv'
<1>1. /\ task[d].got \in Nat /\ task[d].sha = task[d].got /\ row[d].sha \in {None, task[d].got}
      /\ raw[d] = task[d].got
  BY DEF Extract, At, IInv, DocInv, KeptInv
<1>2. CASE Goto(d, "loaded")
  <2>1. /\ Others(d) /\ task'[d].at = "loaded"
        /\ task'[d].got = task[d].got /\ task'[d].sha = task[d].sha
    BY <1>2 DEF Goto, Others, IInv, TypeOK, Task, Open
  <2> QED BY <1>1, <2>1, TaskStep DEF Extract, At, disk, Past, Open, IInv, TypeOK
<1>3. CASE Fail(d, task[d].sha)
  <2>1. /\ Others(d) /\ task'[d].at = "closing" /\ task'[d].status = "failed"
        /\ task'[d].sha = task[d].sha
    BY <1>1, <1>3, FailTask
  <2> QED BY <1>1, <2>1, TaskStep DEF Extract, At, disk, Past, Open, IInv, TypeOK
<1> QED BY <1>2, <1>3 DEF Extract

LEMMA OpenJsonlStep == ASSUME IInv, NEW d \in Docs, OpenJsonl(d) PROVE IInv'
<1>1. /\ task[d].got \in Nat /\ task[d].sha = task[d].got /\ row[d].sha \in {None, task[d].got}
      /\ Readable(d) /\ row[d].label = label[d] /\ raw[d] = task[d].got
  BY DEF OpenJsonl, At, IInv, DocInv, KeptInv, LabelInv
<1>2. /\ Others(d) /\ task'[d].at = "writing"
      /\ task'[d].got = task[d].got /\ task'[d].sha = task[d].sha
  BY DEF OpenJsonl, Goto, Others, IInv, TypeOK, Task, Open
<1>3. jsonl' = [jsonl EXCEPT ![d] = Torn] /\ On /\ UNCHANGED <<world, row, raw, run, bounds>>
  BY DEF OpenJsonl, At
<1>4. TypeOK' /\ jsonl'[d] = Torn /\ \A e \in Docs \ {d} : jsonl'[e] = jsonl[e]
  BY <1>2, <1>3 DEF IInv, TypeOK, Others, world, run, bounds
<1>5. DocInv(d)'
  BY <1>1, <1>2, <1>3, <1>4
  DEF DocInv, OnInv, On, LabelInv, KeptInv, ClosingInv, Readable, Past, Open, world, disk, run,
      bounds
<1> QED BY <1>2, <1>3, <1>4, <1>5, OneDocument DEF Others, world, run, bounds

LEMMA WriteJsonlStep == ASSUME IInv, NEW d \in Docs, WriteJsonl(d) PROVE IInv'
<1>1. /\ task[d].got \in Nat /\ task[d].sha = task[d].got /\ row[d].sha \in {None, task[d].got}
      /\ Readable(d) /\ row[d].label = label[d] /\ raw[d] = task[d].got
  BY DEF WriteJsonl, At, IInv, DocInv, KeptInv, LabelInv
<1>2. /\ Others(d) /\ task'[d].at = "closing" /\ task'[d].status = "extracted"
      /\ task'[d].sha = task[d].sha
  <2>1. task' = [task EXCEPT ![d].at = "closing", ![d].status = "extracted"]
    BY Zenon DEF WriteJsonl
  <2>2. "closing" \in {"done", "closing"} /\ "extracted" \in Statuses
    BY DEF Statuses
  <2> QED BY <2>1, <2>2, EndsAs, Zenon
<1>3. jsonl' = [jsonl EXCEPT ![d] = task[d].got] /\ On /\ UNCHANGED <<world, row, raw, run, bounds>>
  BY DEF WriteJsonl, At
<1>4. TypeOK' /\ jsonl'[d] = task[d].got /\ \A e \in Docs \ {d} : jsonl'[e] = jsonl[e]
  BY <1>1, <1>2, <1>3 DEF IInv, TypeOK, Others, world, run, bounds
<1>5. DocInv(d)'
  BY <1>1, <1>2, <1>3, <1>4, ConstantsAssumption
  DEF DocInv, OnInv, On, LabelInv, KeptInv, ClosingInv, Readable, Past, Open, world, disk, run,
      bounds
<1> QED BY <1>2, <1>3, <1>4, <1>5, OneDocument DEF Others, world, run, bounds

LEMMA CommitStep == ASSUME IInv, NEW d \in Docs, Commit(d) PROVE IInv'
<1>1. /\ row[d] \in Row /\ task[d] \in Task /\ row[d].label = label[d]
      /\ \/ task[d].status = "failed"
         \/ /\ task[d].status = "extracted"
            /\ task[d].sha \in Nat /\ jsonl[d] = task[d].sha /\ raw[d] = task[d].sha
  BY DEF Commit, At, IInv, TypeOK, DocInv, LabelInv, ClosingInv
<1>2. Others(d) /\ task'[d].at = "done"
  BY DEF Commit, Goto, Others, IInv, TypeOK, Task
<1>3. /\ row' \in [Docs -> Row] /\ \A e \in Docs \ {d} : row'[e] = row[e]
      /\ row'[d].status = task[d].status /\ row'[d].sha = task[d].sha
      /\ row'[d].label = row[d].label
  <2>1. row \in [Docs -> Row] /\ label[d] \in Nat \cup {None}
    BY DEF IInv, TypeOK
  <2>2. PICK w \in Nat \cup {None} :
          row' = [row EXCEPT ![d].status = task[d].status, ![d].sha = task[d].sha, ![d].under = w]
    BY <1>1, <2>1 DEF Commit, Row
  <2>3. PICK f : f = [row EXCEPT ![d].status = task[d].status, ![d].sha = task[d].sha]
    OBVIOUS
  <2>4. /\ f \in [Docs -> Row] /\ \A e \in Docs \ {d} : f[e] = row[e]
        /\ f[d].status = task[d].status /\ f[d].sha = task[d].sha /\ f[d].label = row[d].label
    BY <1>1, <2>1, <2>3 DEF Row, Task
  <2>5. row' = [f EXCEPT ![d].under = w]
    BY <2>2, <2>3, Zenon
  <2> QED BY <2>4, <2>5 DEF Row
<1>4. On /\ UNCHANGED <<world, disk, run, bounds>>
  BY DEF Commit, At
<1>5. TypeOK'
  BY <1>2, <1>3, <1>4 DEF IInv, TypeOK, Others, world, disk, run, bounds
<1>6. DocInv(d)'
  BY <1>1, <1>2, <1>3, <1>4, ConstantsAssumption
  DEF DocInv, OnInv, On, LabelInv, KeptInv, ClosingInv, Readable, Past, Open, world, disk, run,
      bounds
<1> QED BY <1>2, <1>3, <1>4, <1>5, <1>6, OneDocument DEF Others, disk, run, bounds

LEMMA IndexStep == ASSUME IInv, NEW d \in Docs, Index(d) PROVE IInv'
<1>1. /\ row' \in [Docs -> Row] /\ \A e \in Docs \ {d} : row'[e] = row[e]
      /\ row'[d].sha = row[d].sha /\ row'[d].label = row[d].label /\ row[d].status = "extracted"
  BY DEF Index, IInv, TypeOK, Row, Statuses
<1>2. UNCHANGED <<world, disk, run, task, bounds>>
  BY DEF Index
<1>3. TypeOK'
  BY <1>1, <1>2 DEF IInv, TypeOK, world, disk, run, bounds
<1>4. DocInv(d)'
  <2>1. DocInv(d)
    BY DEF IInv
  <2> QED BY <1>1, <1>2, <2>1
      DEF DocInv, OnInv, On, LabelInv, KeptInv, ClosingInv, Readable, Past, Open, world, disk, run,
          bounds
<1> QED BY <1>1, <1>2, <1>3, <1>4, OneDocument DEF disk, run, bounds

\* The end of a run, by its report or by an exception.
LEMMA EndStep == ASSUME IInv, Report \/ Stop PROVE IInv'
<1>1. /\ task' = [d \in Docs |-> Idle] /\ label' = NoLabels /\ force' = None
      /\ UNCHANGED <<world, row, disk>> /\ runs' = runs
      /\ stops' \in Nat /\ stops' >= stops
  BY DEF Report, Stop, bounds, IInv, TypeOK
<1>2. TypeOK'
  <2>1. task' \in [Docs -> Task]
    BY <1>1 DEF Idle, Task
  <2> QED BY <1>1, <2>1 DEF IInv, TypeOK, world, disk, NoLabels
<1>3. ASSUME NEW d \in Docs, task[d].at \in Past PROVE stops' > 0
  <2>1. ~Report
    BY <1>3 DEF Report, Finished, Past, Open
  <2> QED BY <2>1 DEF Stop, IInv, TypeOK
<1>4. ASSUME NEW d \in Docs PROVE DocInv(d)'
  <2>1. Readable(d) /\ stops \in Nat
    BY DEF IInv, DocInv, TypeOK
  <2>2. task'[d].at = "off"
    BY <1>1 DEF Idle
  <2>3. Readable(d)'
    BY <1>1, <1>3, <2>1 DEF Readable, Past, Open, disk
  <2> QED BY <2>2, <2>3 DEF DocInv, OnInv, LabelInv, KeptInv, ClosingInv
<1> QED BY <1>2, <1>4 DEF IInv

\* Nothing the world does touches a row, a file or a task.
LEMMA WorldStep ==
    ASSUME IInv, \/ UNCHANGED vars
                 \/ \E d \in Docs : Publish(d) \/ Bump(d)
    PROVE  IInv'
<1>1. UNCHANGED <<row, disk, run, task, bounds>>
  BY DEF vars, Publish, Bump
<1>2. /\ upstream' \in [Docs -> Nat] /\ csv' \in [Docs -> Nat] /\ edits' \in Nat
  BY DEF vars, world, Publish, Bump, IInv, TypeOK
<1>3. TypeOK'
  BY <1>1, <1>2 DEF IInv, TypeOK, disk, run, bounds
<1>4. ASSUME NEW d \in Docs PROVE DocInv(d)'
  <2>1. DocInv(d)
    BY DEF IInv
  <2> QED BY <1>1, <2>1, Elsewhere DEF disk, run, bounds
<1> QED BY <1>3, <1>4 DEF IInv

LEMMA IInvStep ==
    ASSUME IInv, [Next]_vars
    PROVE  IInv'
<1>1. ASSUME NEW d \in Docs, Work(d) PROVE IInv'
  BY <1>1, StartStep, FetchFailsStep, FetchStep, DriftStep, KeepStep, ExtractStep, OpenJsonlStep,
     WriteJsonlStep, CommitStep DEF Work
<1> QED BY <1>1, BeginStep, EndStep, IndexStep, WorldStep DEF Next

LEMMA Invariance == Spec => []IInv
<1>1. Init => IInv
  BY InitIInv
<1>2. IInv /\ [Next]_vars => IInv'
  BY IInvStep
<1> QED BY <1>1, <1>2, PTL DEF Spec

-----------------------------------------------------------------------------
(* The theorems *)

\* The variables keep their types.
THEOREM IngestionTyped == Spec => []TypeOK
<1>1. IInv => TypeOK
  BY DEF IInv
<1> QED BY <1>1, Invariance, PTL

\* What indexing reads of an extracted document is the content the row records, or a file that a
\* run which stopped left torn.
THEOREM Readables == Spec => []ExtractedIsReadable
<1>1. IInv => ExtractedIsReadable
  BY DEF IInv, DocInv, Readable, Past, ExtractedIsReadable
<1> QED BY <1>1, Invariance, PTL

\* No step replaces a recorded content, in the row or in the JSONL, under an unchanged label
\* (AC-27).  The proof gives the same whatever the label, since the row already has the new label
\* when the drift check compares it with the run's: a bump does not clear the check.
THEOREM ContentStands == Spec => RecordedContentStands
<1> DEFINE Stands == \A d \in Docs : row[d].sha # None =>
        /\ row'[d].sha = row[d].sha
        /\ jsonl[d] = row[d].sha => jsonl'[d] \in {row[d].sha, Torn}
<1>1. IInv /\ [Next]_vars => [Stands]_vars
  <2> SUFFICES ASSUME IInv, Next, NEW d \in Docs, row[d].sha # None
               PROVE  /\ row'[d].sha = row[d].sha
                      /\ jsonl[d] = row[d].sha => jsonl'[d] \in {row[d].sha, Torn}
    OBVIOUS
  <2>1. CASE Begin
    <3>1. jsonl' = jsonl
      BY <2>1 DEF Begin, disk
    <3>2. row'[d].sha = row[d].sha
      BY <2>1, Registered
    <3> QED BY <3>1, <3>2
  <2>2. ASSUME NEW e \in Docs, Commit(e)
        PROVE  jsonl' = jsonl /\ row'[d].sha = row[d].sha
    <3>1. row'[d].sha = IF e = d THEN task[d].sha ELSE row[d].sha
      BY <2>2 DEF Commit, IInv, TypeOK, Row
    <3> QED BY <2>2, <3>1 DEF Commit, At, disk, IInv, DocInv, ClosingInv
  <2>3. ASSUME NEW e \in Docs, WriteJsonl(e)
        PROVE  row' = row /\ jsonl'[d] \in {jsonl[d], row[d].sha}
    BY <2>3 DEF WriteJsonl, At, IInv, TypeOK, DocInv, KeptInv
  <2>4. ASSUME NEW e \in Docs, OpenJsonl(e)
        PROVE  row' = row /\ jsonl'[d] \in {jsonl[d], Torn}
    BY <2>4 DEF OpenJsonl, IInv, TypeOK
  <2>5. ASSUME NEW e \in Docs, Index(e)
        PROVE  jsonl' = jsonl /\ row'[d].sha = row[d].sha
    BY <2>5 DEF Index, disk, IInv, TypeOK, Row
  <2>6. ASSUME NEW e \in Docs,
               \/ Start(e) \/ FetchFails(e) \/ Fetch(e) \/ Drift(e) \/ Keep(e) \/ Extract(e)
               \/ Publish(e) \/ Bump(e)
        PROVE  row' = row /\ jsonl' = jsonl
    BY <2>6 DEF Start, FetchFails, Fetch, Drift, Keep, Extract, Publish, Bump, disk
  <2>7. CASE Report \/ Stop
    BY <2>7 DEF Report, Stop, disk
  <2> QED BY <2>1, <2>2, <2>3, <2>4, <2>5, <2>6, <2>7 DEF Next, Work
<1>2. [Stands]_vars => [\A d \in Docs : Unbumped(d) =>
                          /\ row'[d].sha = row[d].sha
                          /\ jsonl[d] = row[d].sha => jsonl'[d] \in {row[d].sha, Torn}]_vars
  BY DEF Unbumped
<1> QED BY <1>1, <1>2, Invariance, PTL DEF Spec, RecordedContentStands
=============================================================================
