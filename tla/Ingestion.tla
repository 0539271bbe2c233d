------------------------------ MODULE Ingestion ------------------------------
(***************************************************************************)
(* The ingestion command (python -m app.ingestion.run): the registry       *)
(* upsert, then one task per selected document that downloads it, refuses  *)
(* an unannounced change of its content, extracts and cleans it, writes    *)
(* its JSONL and commits its row.                                          *)
(*                                                                         *)
(* A content is a number, and so is a version label; the sha256 of a       *)
(* content is the content.  One run is on at a time.  A run ends with its  *)
(* report, with an exception that no task catches, or with its process.    *)
(***************************************************************************)
EXTENDS Naturals, FiniteSets

CONSTANTS
    Docs,          \* documents of sources.csv
    FileType,      \* file_type of each document
    Legacy,        \* documents whose content is an OLE2 binary
    Concurrency,   \* INGEST_CONCURRENCY
    MaxAttempts,   \* INGEST_MAX_RETRIES, which counts the first attempt
    MaxRuns,       \* bound on the runs of the command
    MaxEdits,      \* bound on the changes upstream and in sources.csv
    MaxStops,      \* bound on the runs that do not reach their report
    None,
    Torn           \* a file opened for writing and not written yet

ASSUME ConstantsAssumption ==
    /\ IsFiniteSet(Docs) /\ Legacy \subseteq Docs
    /\ FileType \in [Docs -> {"pdf", "html", "docx", "pptx", "xlsx"}]
    /\ {Concurrency, MaxAttempts} \subseteq Nat \ {0}
    /\ {MaxRuns, MaxEdits, MaxStops} \subseteq Nat
    /\ None \notin Nat /\ Torn \notin Nat /\ None # Torn

VARIABLES
    upstream,  \* the content each URL serves
    csv,       \* the version_label of each row of sources.csv
    row,       \* documents, as committed; "under" is history: the label under which the
               \* recorded content was last kept
    raw,       \* data/raw/{doc_id}.{file_type}
    jsonl,     \* data/extracted/{doc_id}.jsonl
    force,     \* --force, None when no run is on
    label,     \* the labels the run read
    task,      \* the task of each document
    runs, edits, stops

disk == <<raw, jsonl>>
world == <<upstream, csv, edits>>
run == <<force, label>>
bounds == <<runs, stops>>
vars == <<world, row, disk, run, task, bounds>>

Statuses == {"registered", "downloaded", "extracted", "indexed", "failed"}
ASSUME NoneAssumption == None \notin Statuses /\ None \notin BOOLEAN

Unregistered == [status |-> None, sha |-> None, label |-> None, under |-> None]

\* A task: where it is, the attempts of its download, what it downloaded, and the status and
\* the sha256 that its transaction will leave in the row.
Idle == [at |-> "off", tries |-> 0, got |-> None, status |-> None, sha |-> None]
Open == {"asking", "fetched", "kept", "loaded", "writing", "closing"}

On == force # None
NoLabels == [d \in Docs |-> None]
At(d, p) == On /\ task[d].at = p
Goto(d, p) == task' = [task EXCEPT ![d].at = p]

Init ==
    /\ upstream = [d \in Docs |-> 0] /\ csv = [d \in Docs |-> 0]
    /\ row = [d \in Docs |-> Unregistered]
    /\ raw = [d \in Docs |-> None] /\ jsonl = [d \in Docs |-> None]
    /\ force = None /\ label = NoLabels
    /\ task = [d \in Docs |-> Idle]
    /\ runs = 0 /\ edits = 0 /\ stops = 0

-----------------------------------------------------------------------------
(* The run *)

\* load_sources: the rows that validate.  A duplicate doc_id raises before anything is done.
Selections(valid) ==
    {valid} \cup {{d} : d \in valid} \cup {{d \in valid : FileType[d] = t} : t \in {FileType[d] : d \in valid}}

\* main: sources.csv is read, every row of it is registered and committed, whatever is selected.
\* A known row keeps its status and its sha256.
Begin ==
    /\ ~On /\ runs < MaxRuns /\ runs' = runs + 1
    /\ force' \in BOOLEAN
    /\ label' = csv
    /\ \E valid \in SUBSET Docs \ {{}} :
        /\ row' = [d \in Docs |->
                    IF d \notin valid THEN row[d]
                    ELSE IF row[d] = Unregistered
                         THEN [Unregistered EXCEPT !.status = "registered", !.label = csv[d]]
                         ELSE [row[d] EXCEPT !.label = csv[d]]]
        /\ \E selected \in Selections(valid) :
            task' = [d \in Docs |-> IF d \in selected THEN [Idle EXCEPT !.at = "queued"] ELSE Idle]
    /\ UNCHANGED <<world, disk, stops>>

\* Mutant: a document that is done keeps its place in the work gate.
StartNeverReleased(d) ==
    /\ At(d, "queued")
    /\ Cardinality({e \in Docs : task[e].at \in Open \cup {"done"}}) < Concurrency
    /\ IF ~force /\ row[d].status = "extracted"
       THEN task' = [task EXCEPT ![d].at = "done", ![d].status = "extracted"]
       ELSE Goto(d, "asking")
    /\ UNCHANGED <<world, row, disk, run, bounds>>

\* _bounded: at most INGEST_CONCURRENCY documents at a time.  Without --force a document that is
\* already extracted is skipped.
Start(d) ==
    /\ At(d, "queued")
    /\ Cardinality({e \in Docs : task[e].at \in Open}) < Concurrency
    /\ IF ~force /\ row[d].status = "extracted"
       THEN task' = [task EXCEPT ![d].at = "done", ![d].status = "extracted"]
       ELSE Goto(d, "asking")
    /\ UNCHANGED <<world, row, disk, run, bounds>>

\* set_status(failed): the sha256 of the row stays what the transaction has.
Fail(d, sha) == task' = [task EXCEPT ![d].at = "closing", ![d].status = "failed", ![d].sha = sha]

\* fetch: one request at a time holds the rate gate; a timeout, a transport error or a 5xx is
\* tried again while attempts last, a 4xx or a content of another type is not.
FetchFails(d) ==
    /\ At(d, "asking")
    /\ \/ /\ task[d].tries + 1 < MaxAttempts
          /\ task' = [task EXCEPT ![d].tries = @ + 1]
       \/ Fail(d, row[d].sha)
    /\ UNCHANGED <<world, row, disk, run, bounds>>

\* The raw file is overwritten at once.
Fetch(d) ==
    /\ At(d, "asking")
    /\ raw' = [raw EXCEPT ![d] = upstream[d]]
    /\ task' = [task EXCEPT ![d].at = "fetched", ![d].got = upstream[d]]
    /\ UNCHANGED <<world, row, jsonl, run, bounds>>

\* Mutant: --force switches the check off.
DriftedUnlessForced(d) ==
    /\ ~force
    /\ row[d].sha # None
    /\ row[d].sha # task[d].got
    /\ row[d].label = label[d]

\* check_version_drift: new content under the label of the row.
Drifted(d) ==
    /\ row[d].sha # None
    /\ row[d].sha # task[d].got
    /\ row[d].label = label[d]

Drift(d) ==
    /\ At(d, "fetched") /\ Drifted(d)
    /\ Fail(d, row[d].sha)
    /\ UNCHANGED <<world, row, disk, run, bounds>>

\* Mutant: the transition to downloaded leaves out the sha256.
KeepUnsigned(d) ==
    /\ At(d, "fetched") /\ ~Drifted(d)
    /\ task' = [task EXCEPT ![d].at = "kept", ![d].status = "downloaded", ![d].sha = row[d].sha]
    /\ UNCHANGED <<world, row, disk, run, bounds>>

\* set_status(downloaded) records the sha256 in the transaction.
Keep(d) ==
    /\ At(d, "fetched") /\ ~Drifted(d)
    /\ task' = [task EXCEPT ![d].at = "kept", ![d].status = "downloaded", ![d].sha = task[d].got]
    /\ UNCHANGED <<world, row, disk, run, bounds>>

\* convert_legacy: the target is chosen by the suffix of the raw file, which is the file_type of
\* the document and so never one of a legacy format.
LegacyTarget == [doc |-> "docx", ppt |-> "pptx"]
Loadable(d) == d \in Legacy /\ FileType[d] \in {"docx", "pptx"} => FileType[d] \in DOMAIN LegacyTarget

\* The loader, its scan detection and OCR included, and the cleaning of its blocks.
Extract(d) ==
    /\ At(d, "kept")
    /\ \/ Loadable(d) /\ Goto(d, "loaded")
       \/ Fail(d, task[d].sha)
    /\ UNCHANGED <<world, row, disk, run, bounds>>

\* write_jsonl truncates the file, then writes it.
OpenJsonl(d) ==
    /\ At(d, "loaded")
    /\ jsonl' = [jsonl EXCEPT ![d] = Torn]
    /\ Goto(d, "writing")
    /\ UNCHANGED <<world, row, raw, run, bounds>>

WriteJsonl(d) ==
    /\ At(d, "writing")
    /\ jsonl' = [jsonl EXCEPT ![d] = task[d].got]
    /\ task' = [task EXCEPT ![d].at = "closing", ![d].status = "extracted"]
    /\ UNCHANGED <<world, row, raw, run, bounds>>

\* The transaction kept the content it downloaded.
Kept(d) == task[d].sha # None /\ task[d].sha = task[d].got

Commit(d) ==
    /\ At(d, "closing")
    /\ row' = [row EXCEPT ![d].status = task[d].status, ![d].sha = task[d].sha,
                          ![d].under = IF Kept(d) THEN label[d] ELSE @]
    /\ Goto(d, "done")
    /\ UNCHANGED <<world, disk, run, bounds>>

Finished == On /\ \A d \in Docs : task[d].at \in {"off", "done"}

\* build_report, write_report.
Report ==
    /\ Finished
    /\ force' = None /\ label' = NoLabels /\ task' = [d \in Docs |-> Idle]
    /\ UNCHANGED <<world, row, disk, bounds>>

\* A task raises what ingest_one does not catch, which ends the gather and cancels the other
\* tasks, or the process dies: every open transaction is rolled back.
Stop ==
    /\ On /\ stops < MaxStops /\ stops' = stops + 1
    /\ \E d \in Docs : task[d].at \in Open
    /\ force' = None /\ label' = NoLabels /\ task' = [d \in Docs |-> Idle]
    /\ UNCHANGED <<world, row, disk, runs>>

-----------------------------------------------------------------------------
(* The world *)

Publish(d) ==
    /\ edits < MaxEdits /\ edits' = edits + 1
    /\ upstream' = [upstream EXCEPT ![d] = @ + 1]
    /\ UNCHANGED <<csv, row, disk, run, task, bounds>>

\* The maintainer bumps the version_label.
Bump(d) ==
    /\ edits < MaxEdits /\ edits' = edits + 1
    /\ csv' = [csv EXCEPT ![d] = @ + 1]
    /\ UNCHANGED <<upstream, row, disk, run, task, bounds>>

\* The indexing command, which reads the JSONL of the documents it finds extracted.
Index(d) ==
    /\ ~On /\ row[d].status = "extracted"
    /\ row' = [row EXCEPT ![d].status = "indexed"]
    /\ UNCHANGED <<world, disk, run, task, bounds>>

Work(d) ==
    \/ Start(d) \/ FetchFails(d) \/ Fetch(d) \/ Drift(d) \/ Keep(d) \/ Extract(d)
    \/ OpenJsonl(d) \/ WriteJsonl(d) \/ Commit(d)

Next ==
    \/ Begin \/ Report \/ Stop
    \/ \E d \in Docs : Work(d) \/ Publish(d) \/ Bump(d) \/ Index(d)

\* Every await of a task returns.  The code enforces it for the requests, by their timeout; that
\* an office conversion, an OCR subprocess (run without a timeout: legacy.py:43, ocr.py:56) and a
\* parser thread return is assumed of those programs.
Fairness == WF_vars(Report) /\ \A d \in Docs : WF_vars(Work(d))
Spec == Init /\ [][Next]_vars /\ Fairness

-----------------------------------------------------------------------------
Row == [status : Statuses \cup {None}, sha : Nat \cup {None}, label : Nat \cup {None},
        under : Nat \cup {None}]

Task == [at : Open \cup {"off", "queued", "done"}, tries : Nat, got : Nat \cup {None},
         status : Statuses \cup {None}, sha : Nat \cup {None}]

TypeOK ==
    /\ upstream \in [Docs -> Nat] /\ csv \in [Docs -> Nat]
    /\ row \in [Docs -> Row]
    /\ raw \in [Docs -> Nat \cup {None}] /\ jsonl \in [Docs -> Nat \cup {None, Torn}]
    /\ force \in BOOLEAN \cup {None} /\ label \in [Docs -> Nat \cup {None}]
    /\ task \in [Docs -> Task]
    /\ {runs, edits, stops} \subseteq Nat

\* What the indexing command reads of a document it finds extracted is the JSONL of the content
\* whose sha256 the row records, and that of its raw file, although both files are written before
\* the row is committed and before the drift check refuses what was downloaded: that leaves the
\* document failed.  Only a run that stopped leaves a torn JSONL or another content's raw file
\* behind, and a routine run then skips the document (run.py:72-80).
ExtractedIsReadable ==
    \A d \in Docs : row[d].status \in {"extracted", "indexed"} =>
        /\ row[d].sha # None
        /\ jsonl[d] \in {row[d].sha, Torn}
        /\ jsonl[d] = Torn => stops > 0 \/ task[d].at = "writing"
        /\ raw[d] # row[d].sha => stops > 0 \/ task[d].at \in Open \ {"asking"}

\* The label is the one under which the recorded content was kept, as far as a run is on.
Unbumped(d) == row[d].sha # None /\ label[d] \in {None, row[d].under}

\* Unless its version_label was bumped, no run replaces a content that a row records by another
\* one, in the row or in its JSONL, with or without --force (AC-27, AC-28; run.py:106-123).
RecordedContentStands ==
    [][\A d \in Docs : Unbumped(d) =>
        /\ row'[d].sha = row[d].sha
        /\ jsonl[d] = row[d].sha => jsonl'[d] \in {row[d].sha, Torn}]_vars

\* Every run ends, with its retries and whatever its tasks wait for.
RunsEnd == On ~> ~On
=============================================================================
