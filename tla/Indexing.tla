------------------------------- MODULE Indexing -------------------------------
(***************************************************************************)
(* The indexing command (indexing/run.py) and the four stores it keeps in  *)
(* step: Pinecone's vectors, the chunks table, bm25.pkl and the manifest.  *)
(* It runs alone, may fail or die between any two calls, and is run again; *)
(* ingestion changes the documents meanwhile.                              *)
(*                                                                         *)
(* One action is a call to a store or a transaction's commit.  A chunk id  *)
(* is a document and a position (make_chunk_id); the text under it is      *)
(* named by what it was split from, the version of the extracted document  *)
(* and the strategy.                                                       *)
(***************************************************************************)
EXTENDS Naturals, Sequences, FiniteSets

CONSTANTS
    Docs,
    Org,         \* Org[d]: "pu" or "hec", the namespace of d
    MaxVersion,  \* a document is extracted at most so often
    Strategies,  \* "fixed", "structure"
    Size,        \* Size[t]: the number of chunks the text t is split into
    None, Torn,
    MaxRuns,     \* runs of the command
    MaxFaults    \* calls that fail, runs that die, documents rejected or misplaced

Namespaces == {"pu", "hec"}
Texts == [ver : 1..MaxVersion, strat : Strategies]

ASSUME ConstantsAssumption ==
    /\ IsFiniteSet(Docs) /\ IsFiniteSet(Strategies) /\ Org \in [Docs -> Namespaces]
    /\ {MaxVersion, MaxRuns, MaxFaults} \subseteq Nat
    /\ Size \in [Texts -> Nat]
    /\ None \notin Texts
    /\ None \notin [strategy : Strategies, counts : [Namespaces -> Nat]]
    /\ Torn \notin [strategy : Strategies, counts : [Namespaces -> Nat]] \cup {None}

\* Chunk ids, and those of one document split as t.
Ids == {<<d, i>> : d \in Docs, i \in UNION {0..Size[t] - 1 : t \in Texts}}
ChunksOf(d, t) == {<<d, i>> : i \in 0..Size[t] - 1}
Store == [Ids -> Texts \cup {None}]
Present(store, ns) == {c \in Ids : store[c] # None /\ Org[c[1]] = ns}

VARIABLES
    status, art,  \* per document: documents.status; version of its .jsonl, 0 if missing
    vectors,      \* Pinecone: chunk id -> text or None
    chunks,       \* the chunks table: chunk id -> text or None
    bm25,         \* bm25.pkl: the corpus it was built from, or None if unreadable
    manifest,     \* index_manifest.json, None if missing, Torn if unreadable
    pc, args,     \* the command: control point, arguments
    left,         \* namespaces still to wipe
    todo,         \* documents still to index
    doc, text,    \* the document being indexed and the text it is split as
    result,       \* per document: the text this run indexed it as, or None
    clean,        \* no call of this run failed
    torn,         \* namespaces whose vectors are gone and whose chunks are not (history)
    runs, faults

docVars   == <<status, art>>
fileVars  == <<bm25, manifest>>
runVars   == <<args, left, todo, doc, text, result>>
vars == <<docVars, vectors, chunks, fileVars, pc, runVars, clean, torn, runs, faults>>

Ended  == {"idle", "refused", "mismatch", "complete", "died"}
Phases == Ended \cup {"select", "wipe", "index", "upsert", "commit", "reconcile", "manifest"}
Statuses == {"registered", "extracted", "indexed", "failed"}
Selections == {<<"pu", "hec">>, <<"pu">>, <<"hec">>}
Touched == {args.namespaces[i] : i \in DOMAIN args.namespaces}

Empty == [c \in Ids |-> None]

Init ==
    /\ status = [d \in Docs |-> "registered"] /\ art = [d \in Docs |-> 0]
    /\ vectors = Empty /\ chunks = Empty
    /\ bm25 = None /\ manifest = None
    /\ pc = "idle"
    /\ \E s \in Strategies :
         args = [strategy |-> s, namespaces |-> <<"pu", "hec">>, wipe |-> FALSE]
    /\ left = <<>> /\ todo = {} /\ doc = None /\ text = None
    /\ result = [d \in Docs |-> None]
    /\ clean = TRUE /\ torn = {}
    /\ runs = 0 /\ faults = 0

Fault == faults < MaxFaults /\ faults' = faults + 1
-----------------------------------------------------------------------------
\* guard_strategy: a changed strategy needs --wipe; an unreadable manifest raises.
Guard(strategy, wipe) ==
    IF wipe \/ manifest = None THEN "select"
    ELSE IF manifest = Torn THEN "died"
    ELSE IF manifest.strategy = strategy THEN "select" ELSE "refused"

Begin ==
    /\ pc \in Ended
    /\ runs < MaxRuns /\ runs' = runs + 1
    /\ \E strategy \in Strategies, namespaces \in Selections, wipe \in BOOLEAN :
         /\ args' = [strategy |-> strategy, namespaces |-> namespaces, wipe |-> wipe]
         /\ left' = IF wipe THEN namespaces ELSE <<>>
         /\ pc' = Guard(strategy, wipe)
    /\ todo' = {} /\ doc' = None /\ text' = None
    /\ result' = [d \in Docs |-> None]
    /\ clean' = TRUE
    /\ UNCHANGED <<docVars, vectors, chunks, fileVars, torn, faults>>

\* --bm25-only; it too may end with the file opened and not written.
Bm25Only ==
    /\ pc \in Ended
    /\ runs < MaxRuns /\ runs' = runs + 1
    /\ \/ bm25' = chunks /\ UNCHANGED <<pc, clean, faults>>
       \/ bm25' = None /\ pc' = "died" /\ clean' = FALSE /\ Fault
    /\ UNCHANGED <<docVars, vectors, chunks, manifest, runVars, torn>>

\* indexed_targets
Select ==
    /\ pc = "select"
    /\ todo' = {d \in Docs : status[d] \in {"extracted", "indexed"} /\ Org[d] \in Touched}
    /\ pc' = IF args.wipe THEN "wipe" ELSE "index"
    /\ UNCHANGED <<docVars, vectors, chunks, fileVars, args, left, doc, text, result,
                   clean, torn, runs, faults>>

\* Mutation: a wipe removes the rows and leaves the vectors.
WipeRowsOnly ==
    /\ pc = "wipe" /\ left # <<>>
    /\ left' = Tail(left)
    /\ UNCHANGED <<docVars, vectors, chunks, fileVars, pc, args, todo, doc, text, result,
                   clean, torn, runs, faults>>

\* wipe_namespace: Pinecone's delete_all is immediate, the DELETE waits for the commit.
Wipe ==
    /\ pc = "wipe" /\ left # <<>>
    /\ vectors' = [c \in Ids |-> IF Org[c[1]] = Head(left) THEN None ELSE vectors[c]]
    /\ torn' = torn \cup {Head(left)}
    /\ left' = Tail(left)
    /\ UNCHANGED <<docVars, chunks, fileVars, pc, args, todo, doc, text, result, clean, runs, faults>>

RowsWiped ==
    /\ chunks' = [c \in Ids |-> IF Org[c[1]] \in Touched THEN None ELSE chunks[c]]
    /\ torn' = torn \ Touched

WipeCommit ==
    /\ pc = "wipe" /\ left = <<>>
    /\ RowsWiped
    /\ pc' = "index"
    /\ UNCHANGED <<docVars, vectors, fileVars, runVars, clean, runs, faults>>
-----------------------------------------------------------------------------
\* One document.

\* No extracted file, or an empty one: "skipped".
Skip(d) ==
    /\ pc = "index" /\ d \in todo /\ art[d] = 0
    /\ todo' = todo \ {d}
    /\ UNCHANGED <<docVars, vectors, chunks, fileVars, pc, args, left, doc, text, result,
                   clean, torn, runs, faults>>

\* load_blocks, split
Load(d) ==
    /\ pc = "index" /\ d \in todo /\ art[d] # 0
    /\ doc' = d /\ text' = [ver |-> art[d], strat |-> args.strategy]
    /\ todo' = todo \ {d}
    /\ pc' = "upsert"
    /\ UNCHANGED <<docVars, vectors, chunks, fileVars, args, left, result, clean, torn, runs, faults>>

\* The vectors of S are upserted.
Written(S) == [c \in Ids |-> IF c \in S THEN text ELSE vectors[c]]

\* Mutation: failed batches are gathered as results and forgotten.
UpsertSwallowsFailures ==
    /\ pc = "upsert"
    /\ \E S \in SUBSET ChunksOf(doc, text) : vectors' = Written(S)
    /\ pc' = "commit"
    /\ UNCHANGED <<docVars, chunks, fileVars, runVars, clean, torn, runs, faults>>

\* embed_chunks and upsert: every batch succeeded.
Upsert ==
    /\ pc = "upsert"
    /\ vectors' = Written(ChunksOf(doc, text))
    /\ pc' = "commit"
    /\ UNCHANGED <<docVars, chunks, fileVars, runVars, clean, torn, runs, faults>>

\* The document cannot be read or split, or an embedding or a batch failed; the other batches may have been written.
UpsertFails ==
    /\ pc = "upsert" /\ Fault
    /\ \E S \in SUBSET ChunksOf(doc, text) : vectors' = Written(S)
    /\ pc' = "index" /\ clean' = FALSE
    /\ UNCHANGED <<docVars, chunks, fileVars, runVars, torn, runs>>

\* replace_chunks and mark_indexed.
Replaced == [c \in Ids |-> IF c[1] # doc THEN chunks[c]
                           ELSE IF c \in ChunksOf(doc, text) THEN text ELSE None]

CommitDoc ==
    /\ pc = "commit"
    /\ chunks' = Replaced
    /\ status' = [status EXCEPT ![doc] = "indexed"]
    /\ result' = [result EXCEPT ![doc] = text]
    /\ pc' = "index"
    /\ UNCHANGED <<art, vectors, fileVars, args, left, todo, doc, text, clean, torn, runs, faults>>

\* The commit raises, although the database may have carried it out: "failed" either way.
CommitFails ==
    /\ pc = "commit" /\ Fault
    /\ \/ UNCHANGED <<chunks, status>>
       \/ chunks' = Replaced /\ status' = [status EXCEPT ![doc] = "indexed"]
    /\ pc' = "index" /\ clean' = FALSE
    /\ UNCHANGED <<art, vectors, fileVars, runVars, torn, runs>>
-----------------------------------------------------------------------------
\* The end of a run.

\* Mutation: the sparse index is built from the documents of this run.
BuildBm25FromRun ==
    /\ pc = "index" /\ todo = {}
    /\ bm25' = [c \in Ids |-> IF result[c[1]] # None THEN chunks[c] ELSE None]
    /\ pc' = "reconcile"
    /\ UNCHANGED <<docVars, vectors, chunks, manifest, runVars, clean, torn, runs, faults>>

BuildBm25 ==
    /\ pc = "index" /\ todo = {}
    /\ bm25' = chunks
    /\ pc' = "reconcile"
    /\ UNCHANGED <<docVars, vectors, chunks, manifest, runVars, clean, torn, runs, faults>>

\* The chunks counted by the results of this run.
Counted(ns) == UNION {ChunksOf(d, result[d]) : d \in {e \in Docs : result[e] # None /\ Org[e] = ns}}

Reconciles == \A ns \in Touched :
                 Cardinality(Present(chunks, ns)) = Cardinality(Counted(ns))

\* Mutation: a shortfall is not an error, only a surplus of counted vectors is.
ReconcilesUpTo == \A ns \in Touched :
                     Cardinality(Present(chunks, ns)) >= Cardinality(Counted(ns))
ReconcileLoose ==
    /\ pc = "reconcile"
    /\ pc' = IF ReconcilesUpTo THEN "manifest" ELSE "mismatch"
    /\ UNCHANGED <<docVars, vectors, chunks, fileVars, runVars, clean, torn, runs, faults>>

Reconcile ==
    /\ pc = "reconcile"
    /\ pc' = IF Reconciles THEN "manifest" ELSE "mismatch"
    /\ UNCHANGED <<docVars, vectors, chunks, fileVars, runVars, clean, torn, runs, faults>>

\* Mutation: the manifest describes the namespaces of this run only.
WriteManifestOfRun ==
    /\ pc = "manifest"
    /\ manifest' = [strategy |-> args.strategy,
                    counts |-> [ns \in Touched |-> Cardinality(Present(chunks, ns))]]
    /\ pc' = "complete"
    /\ UNCHANGED <<docVars, vectors, chunks, bm25, runVars, clean, torn, runs, faults>>

WriteManifest ==
    /\ pc = "manifest"
    /\ manifest' = [strategy |-> args.strategy,
                    counts |-> [ns \in Namespaces |-> Cardinality(Present(chunks, ns))]]
    /\ pc' = "complete"
    /\ UNCHANGED <<docVars, vectors, chunks, bm25, runVars, clean, torn, runs, faults>>

\* An exception nobody catches or the end of the process.  Batches in flight may arrive,
\* the wipe's commit may have been carried out, and files are opened before they are written.
Die ==
    /\ pc \notin Ended /\ Fault
    /\ pc' = "died" /\ clean' = FALSE
    /\ \/ UNCHANGED <<vectors, chunks, torn, fileVars>>
       \/ /\ pc = "upsert"
          /\ \E S \in SUBSET ChunksOf(doc, text) : vectors' = Written(S)
          /\ UNCHANGED <<chunks, torn, fileVars>>
       \/ pc = "wipe" /\ left = <<>> /\ RowsWiped /\ UNCHANGED <<vectors, fileVars>>
       \/ pc = "index" /\ todo = {} /\ bm25' = None
          /\ UNCHANGED <<vectors, chunks, torn, manifest>>
       \/ pc = "manifest" /\ manifest' = Torn /\ UNCHANGED <<vectors, chunks, torn, bm25>>
    /\ UNCHANGED <<docVars, runVars, runs>>
-----------------------------------------------------------------------------
\* Ingestion, meanwhile.

Extract(d) ==
    /\ art[d] < MaxVersion
    /\ art' = [art EXCEPT ![d] = @ + 1]
    /\ status' = [status EXCEPT ![d] = "extracted"]
    /\ UNCHANGED <<vectors, chunks, fileVars, pc, runVars, clean, torn, runs, faults>>

\* A dead link, drift, a failed extraction.
Reject(d) ==
    /\ status[d] # "failed" /\ Fault
    /\ status' = [status EXCEPT ![d] = "failed"]
    /\ UNCHANGED <<art, vectors, chunks, fileVars, pc, runVars, clean, torn, runs>>

\* The command runs where the extracted file is not.
Misplace(d) ==
    /\ art[d] # 0 /\ Fault
    /\ art' = [art EXCEPT ![d] = 0]
    /\ UNCHANGED <<status, vectors, chunks, fileVars, pc, runVars, clean, torn, runs>>

Run == \/ Begin \/ Bm25Only \/ Select \/ Wipe \/ WipeCommit
       \/ \E d \in Docs : Skip(d) \/ Load(d)
       \/ Upsert \/ UpsertFails \/ CommitDoc \/ CommitFails
       \/ BuildBm25 \/ Reconcile \/ WriteManifest \/ Die
Ingest == \E d \in Docs : Extract(d) \/ Reject(d) \/ Misplace(d)

Next == Run \/ Ingest
Spec == Init /\ [][Next]_vars
-----------------------------------------------------------------------------
\* Each variable holds a value of its type.
TypeOK ==
    /\ status \in [Docs -> Statuses] /\ art \in [Docs -> 0..MaxVersion]
    /\ vectors \in Store /\ chunks \in Store /\ bm25 \in Store \cup {None}
    /\ manifest \in [strategy : Strategies, counts : [Namespaces -> Nat]] \cup {None, Torn}
    /\ pc \in Phases
    /\ args \in [strategy : Strategies, namespaces : Selections, wipe : BOOLEAN]
    /\ left \in Seq(Namespaces) /\ todo \subseteq Docs
    /\ doc \in Docs \cup {None} /\ text \in Texts \cup {None}
    /\ result \in [Docs -> Texts \cup {None}]
    /\ clean \in BOOLEAN /\ torn \subseteq Namespaces
    /\ runs \in Nat /\ faults \in Nat

\* A run that writes its manifest has rewritten every chunk of the namespaces it touched:
\* each was split in this run, with this strategy, and its vector has the same text.  The
\* code only compares two totals (reconcile in run.py's main).
ManifestMeansRebuilt ==
    pc = "complete" =>
        \A c \in Ids : Org[c[1]] \in Touched /\ chunks[c] # None =>
            /\ chunks[c] = result[c[1]] /\ chunks[c].strat = manifest.strategy
            /\ vectors[c] = chunks[c]

\* Every chunk keeps a vector under its id, so that a sparse hit can be hydrated, except
\* where a wipe stopped between deleting the vectors and deleting the rows (index_one
\* upserts before it commits; wipe_namespace).
RowsHaveVectors ==
    \A c \in Ids : chunks[c] # None => vectors[c] # None \/ Org[c[1]] \in torn

\* After a run that got as far as reconciling, the sparse index is the whole table, not
\* the subset the run touched (docstring of rebuild_bm25).
Bm25SpansCorpus == pc \in {"reconcile", "manifest", "mismatch", "complete"} => bm25 = chunks

\* A run with --wipe whose calls all succeed always gets its manifest, and leaves no vector
\* without a chunk in the namespaces it was given (runbook: replacing a document
\* "needs a namespace wipe first").
WipeStartsAfresh ==
    args.wipe /\ clean =>
        /\ pc # "mismatch"
        /\ pc = "complete" => \A c \in Ids :
               Org[c[1]] \in Touched /\ vectors[c] # None => chunks[c] # None

\* Requirement AC-21: "The system shall keep Pinecone vector count == Postgres `chunks`
\* count per namespace after a successful run".
CountsReconciled ==
    pc = "complete" => \A ns \in Touched :
        Cardinality(Present(vectors, ns)) = Cardinality(Present(chunks, ns))
=============================================================================
