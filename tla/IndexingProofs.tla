---------------------------- MODULE IndexingProofs ----------------------------
(***************************************************************************)
(* What holds of Indexing for every corpus, every split, and any number of *)
(* runs and faults.                                                        *)
(***************************************************************************)
EXTENDS Indexing, FiniteSetTheorems, TLAPS

-----------------------------------------------------------------------------
(* The inductive invariant *)

\* The phases before a run has begun its first document, and those in which it works on one.
Starting == {"select", "wipe"}
OnDoc == {"upsert", "commit"}

\* A document in hand belongs to the run, is split with its strategy and has no result yet.
DocInv ==
    pc \in OnDoc =>
        /\ doc \in Docs /\ Org[doc] \in Touched /\ doc \notin todo
        /\ text \in Texts /\ text.strat = args.strategy
        /\ result[doc] = None

\* The documents still to be indexed belong to the run and have no result.
TodoInv == \A d \in todo : Org[d] \in Touched /\ result[d] = None
StartInv == /\ pc \in Starting => \A d \in Docs : result[d] = None
            /\ pc = "select" /\ args.wipe => left = args.namespaces

\* At the commit every vector of the document is in place.
WrittenInv == pc = "commit" => \A c \in ChunksOf(doc, text) : vectors[c] = text

\* A document with a result has exactly the chunks of that result, each with its vector.
ResultInv ==
    \A d \in Docs : result[d] # None =>
        /\ Org[d] \in Touched /\ result[d].strat = args.strategy
        /\ \A c \in Ids : c[1] = d /\ chunks[c] # None => c \in ChunksOf(d, result[d])
        /\ \A c \in ChunksOf(d, result[d]) : chunks[c] = result[d] /\ vectors[c] = result[d]

\* Once the totals have been found equal, every chunk of the run's namespaces is of its making.
AllRebuilt == \A c \in Ids : Org[c[1]] \in Touched /\ chunks[c] # None => result[c[1]] # None
ReconciledInv == pc \in {"manifest", "complete"} => AllRebuilt
ManifestInv == pc = "complete" => manifest # None /\ manifest # Torn
                                  /\ manifest.strategy = args.strategy

\* While a wipe runs, a namespace it has dealt with holds no vector.
WipingInv ==
    pc = "wipe" => /\ args.wipe
                   /\ \A ns \in Touched : \/ \E i \in DOMAIN left : left[i] = ns
                                          \/ Present(vectors, ns) = {}

\* After a wipe, as long as nothing fails, both stores hold the chunks of this run and no more,
\* but for the vectors of the document in hand.
Fresh(c) ==
    IF result[c[1]] # None
    THEN c \notin ChunksOf(c[1], result[c[1]]) => vectors[c] = None
    ELSE /\ chunks[c] = None
         /\ vectors[c] # None => pc = "commit" /\ c \in ChunksOf(doc, text)
FreshInv ==
    args.wipe /\ clean /\ pc \notin {"idle", "refused", "died", "select", "wipe"} =>
        /\ pc # "mismatch"
        /\ \A c \in Ids : Org[c[1]] \in Touched => Fresh(c)

IInv == /\ TypeOK /\ DocInv /\ TodoInv /\ StartInv /\ WrittenInv /\ ResultInv
        /\ ReconciledInv /\ ManifestInv /\ WipingInv /\ FreshInv
        /\ RowsHaveVectors /\ Bm25SpansCorpus
-----------------------------------------------------------------------------
(* Constants and data *)

\* What the proofs use of chunk ids.
LEMMA IdsFacts ==
    /\ \A c \in Ids : c[1] \in Docs
    /\ \A d \in Docs, t \in Texts : ChunksOf(d, t) \subseteq Ids
    /\ \A d \in Docs, t \in Texts : \A c \in ChunksOf(d, t) : c[1] = d
<1>1. \A c \in Ids : c[1] \in Docs
  BY DEF Ids
<1>2. \A d \in Docs, t \in Texts : ChunksOf(d, t) \subseteq Ids
  BY DEF Ids, ChunksOf
<1>3. \A d \in Docs, t \in Texts : \A c \in ChunksOf(d, t) : c[1] = d
  BY DEF ChunksOf
<1> QED BY <1>1, <1>2, <1>3

\* There are finitely many chunk ids, so that counting them means something.
LEMMA IdsFinite == IsFiniteSet(Ids)
<1> USE ConstantsAssumption
<1> DEFINE P == (1..MaxVersion) \X Strategies
           f == [p \in P |-> [ver |-> p[1], strat |-> p[2]]]
           Ranges == {0..Size[t] - 1 : t \in Texts}
           g == [t \in Texts |-> 0..Size[t] - 1]
<1>1. IsFiniteSet(Texts)
  <2>1. IsFiniteSet(1..MaxVersion)
    BY FS_Interval
  <2>2. IsFiniteSet(P)
    BY <2>1, FS_Product
  <2>3. f \in Surjection(P, Texts)
    <3>1. f \in [P -> Texts]
      BY DEF Texts
    <3>2. \A t \in Texts : \E p \in P : f[p] = t
      <4> TAKE t \in Texts
      <4>1. <<t.ver, t.strat>> \in P
        BY DEF Texts
      <4>2. f[<<t.ver, t.strat>>] = t
        BY <4>1 DEF Texts
      <4> QED BY <4>1, <4>2
    <3> QED BY <3>1, <3>2 DEF Surjection
  <2> QED BY <2>2, <2>3, FS_Surjection
<1>2. IsFiniteSet(Ranges)
  <2>1. g \in Surjection(Texts, Ranges)
    BY DEF Surjection
  <2> QED BY <1>1, <2>1, FS_Surjection
<1>3. \A R \in Ranges : IsFiniteSet(R)
  <2> TAKE R \in Ranges
  <2>1. PICK t \in Texts : R = 0..Size[t] - 1
    OBVIOUS
  <2>2. Size[t] - 1 \in Int
    OBVIOUS
  <2> QED BY <2>1, <2>2, FS_Interval
<1>4. IsFiniteSet(Docs \X UNION Ranges)
  BY <1>2, <1>3, FS_UNION, FS_Product
<1>5. Ids \subseteq Docs \X UNION Ranges
  BY DEF Ids
<1> QED BY <1>4, <1>5, FS_Subset

\* The set a count ranges over is finite.
LEMMA PresentFinite ==
  ASSUME NEW store, NEW ns
  PROVE  IsFiniteSet(Present(store, ns)) /\ Cardinality(Present(store, ns)) \in Nat
<1>1. Present(store, ns) \subseteq Ids
  BY DEF Present
<1> QED BY <1>1, IdsFinite, FS_Subset, FS_CardinalityType

-----------------------------------------------------------------------------
(* Every step keeps the inductive invariant *)

\* What an upsert and a commit write is a store again.
LEMMA StoreFacts ==
    ASSUME TypeOK
    PROVE  /\ \A S : Written(S) \in Store
           /\ Replaced \in Store
           /\ RowsWiped => chunks' \in Store /\ torn' \subseteq Namespaces
BY DEF TypeOK, Written, Replaced, RowsWiped, Store

\* Every step keeps the types.
LEMMA TypeStep ==
    ASSUME TypeOK, [Next]_vars
    PROVE  TypeOK'
<1> USE DEF TypeOK, Fault, docVars, fileVars, runVars
<1>1. /\ None \notin Texts /\ MaxVersion \in Nat
      /\ \A ns \in Namespaces : Cardinality(Present(chunks, ns)) \in Nat
  BY ConstantsAssumption, PresentFinite
<1>2. CASE Begin
  <2>1. PICK strategy \in Strategies, namespaces \in Selections, wipe \in BOOLEAN :
           /\ args' = [strategy |-> strategy, namespaces |-> namespaces, wipe |-> wipe]
           /\ left' = IF wipe THEN namespaces ELSE <<>>
           /\ pc' = Guard(strategy, wipe)
    BY <1>2 DEF Begin
  <2>2. namespaces \in Seq(Namespaces) /\ <<>> \in Seq(Namespaces)
    <3>1. /\ <<"pu">> \in Seq(Namespaces) /\ <<"hec">> \in Seq(Namespaces)
          /\ <<>> \in Seq(Namespaces)
      BY DEF Namespaces
    <3>2. <<"pu", "hec">> \in Seq(Namespaces)
      BY DEF Namespaces
    <3> QED BY <3>1, <3>2 DEF Selections
  <2>3. pc' \in Phases
    BY <2>1 DEF Guard, Phases, Ended
  <2>4. UNCHANGED <<docVars, vectors, chunks, fileVars, torn, faults>> /\ runs' \in Nat
        /\ todo' = {} /\ doc' = None /\ text' = None
        /\ result' = [d \in Docs |-> None] /\ clean' = TRUE
    BY <1>2 DEF Begin
  <2> QED BY <2>1, <2>2, <2>3, <2>4
<1>3. CASE Bm25Only
  <2>1. bm25' \in Store \cup {None} /\ clean' \in BOOLEAN /\ pc' \in Phases
    BY <1>3 DEF Bm25Only, Phases, Ended
  <2>2. runs' \in Nat /\ faults' \in Nat
    BY <1>3 DEF Bm25Only
  <2> QED BY <1>3, <2>1, <2>2 DEF Bm25Only
<1>4. CASE Select
  BY <1>1, <1>4 DEF Select, Phases
<1>5. CASE Wipe
  BY <1>1, <1>5 DEF Wipe, Store
<1>6. CASE WipeCommit
  BY <1>1, <1>6, StoreFacts DEF WipeCommit, Phases
<1>7. ASSUME NEW d \in Docs, Skip(d) PROVE TypeOK'
  BY <1>1, <1>7 DEF Skip
<1>8. ASSUME NEW d \in Docs, Load(d) PROVE TypeOK'
  BY <1>1, <1>8 DEF Load, Texts, Phases
<1>9. CASE Upsert
  BY <1>1, <1>9, StoreFacts DEF Upsert, Phases
<1>10. CASE UpsertFails
  <2>1. vectors' \in Store
    BY <1>10, StoreFacts DEF UpsertFails
  <2>2. faults' \in Nat /\ pc' \in Phases
    BY <1>10 DEF UpsertFails, Phases
  <2> QED BY <1>10, <2>1, <2>2 DEF UpsertFails
<1>11. CASE CommitDoc
  BY <1>1, <1>11, StoreFacts DEF CommitDoc, Phases, Statuses
<1>12. CASE CommitFails
  <2>1. chunks' \in Store
    BY <1>12, StoreFacts DEF CommitFails
  <2>2. status' \in [Docs -> Statuses]
    BY <1>12 DEF CommitFails, Statuses
  <2>3. faults' \in Nat /\ pc' \in Phases
    BY <1>12 DEF CommitFails, Phases
  <2> QED BY <1>12, <2>1, <2>2, <2>3 DEF CommitFails
<1>13. CASE BuildBm25
  BY <1>1, <1>13 DEF BuildBm25, Phases
<1>14. CASE Reconcile
  <2>1. pc' \in Phases
    BY <1>14 DEF Reconcile, Phases, Ended
  <2> QED BY <1>14, <2>1 DEF Reconcile
<1>15. CASE WriteManifest
  <2>1. manifest' \in [strategy : Strategies, counts : [Namespaces -> Nat]]
    BY <1>1, <1>15 DEF WriteManifest
  <2>2. pc' \in Phases
    BY <1>15 DEF WriteManifest, Phases, Ended
  <2> QED BY <1>15, <2>1, <2>2 DEF WriteManifest
<1>16. CASE Die
  <2>1. vectors' \in Store
    BY <1>16, StoreFacts DEF Die
  <2>2. chunks' \in Store /\ torn' \subseteq Namespaces
    BY <1>16, StoreFacts DEF Die
  <2>3. /\ bm25' \in Store \cup {None}
        /\ manifest' \in [strategy : Strategies, counts : [Namespaces -> Nat]] \cup {None, Torn}
    BY <1>16 DEF Die
  <2>4. pc' \in Phases /\ clean' \in BOOLEAN
    BY <1>16 DEF Die, Phases, Ended
  <2>5. faults' \in Nat
    BY <1>16 DEF Die
  <2> QED BY <1>16, <2>1, <2>2, <2>3, <2>4, <2>5 DEF Die
<1>17. ASSUME NEW d \in Docs, Extract(d) PROVE TypeOK'
  BY <1>1, <1>17 DEF Extract, Statuses
<1>18. ASSUME NEW d \in Docs, Reject(d) PROVE TypeOK'
  BY <1>1, <1>18 DEF Reject, Statuses
<1>19. ASSUME NEW d \in Docs, Misplace(d) PROVE TypeOK'
  BY <1>1, <1>19 DEF Misplace
<1>20. CASE UNCHANGED vars
  BY <1>20 DEF vars
<1> QED BY <1>2, <1>3, <1>4, <1>5, <1>6, <1>7, <1>8, <1>9, <1>10, <1>11, <1>12, <1>13, <1>14, <1>15, <1>16, <1>17, <1>18, <1>19, <1>20 DEF Next, Run, Ingest

\* Every step keeps the document in hand.
LEMMA DocStep ==
    ASSUME TypeOK, DocInv, TodoInv, StartInv, [Next]_vars
    PROVE  DocInv'
<1> USE DEF DocInv, OnDoc, Touched, Fault, docVars, fileVars, runVars
<1>1. todo \subseteq Docs /\ art \in [Docs -> 0..MaxVersion] /\ args.strategy \in Strategies
      /\ result \in [Docs -> Texts \cup {None}]
  BY DEF TypeOK
<1>2. CASE Begin
  BY <1>1, <1>2 DEF Begin, Guard
<1>3. CASE Bm25Only
  BY <1>1, <1>3 DEF Bm25Only, Ended
<1>4. CASE Select
  BY <1>1, <1>4 DEF Select
<1>5. CASE Wipe
  BY <1>1, <1>5 DEF Wipe
<1>6. CASE WipeCommit
  BY <1>1, <1>6 DEF WipeCommit
<1>7. ASSUME NEW d \in Docs, Skip(d) PROVE DocInv'
  BY <1>1, <1>7 DEF Skip
<1>8. ASSUME NEW d \in Docs, Load(d) PROVE DocInv'
  BY <1>1, <1>8 DEF Load, Texts, TodoInv, Touched
<1>9. CASE Upsert
  BY <1>1, <1>9 DEF Upsert
<1>10. CASE UpsertFails
  BY <1>1, <1>10 DEF UpsertFails
<1>11. CASE CommitDoc
  BY <1>1, <1>11 DEF CommitDoc
<1>12. CASE CommitFails
  BY <1>1, <1>12 DEF CommitFails
<1>13. CASE BuildBm25
  BY <1>1, <1>13 DEF BuildBm25
<1>14. CASE Reconcile
  BY <1>1, <1>14 DEF Reconcile
<1>15. CASE WriteManifest
  BY <1>1, <1>15 DEF WriteManifest
<1>16. CASE Die
  BY <1>1, <1>16 DEF Die, Ended
<1>17. ASSUME NEW d \in Docs, Extract(d) PROVE DocInv'
  BY <1>1, <1>17 DEF Extract
<1>18. ASSUME NEW d \in Docs, Reject(d) PROVE DocInv'
  BY <1>1, <1>18 DEF Reject
<1>19. ASSUME NEW d \in Docs, Misplace(d) PROVE DocInv'
  BY <1>1, <1>19 DEF Misplace
<1>20. CASE UNCHANGED vars
  BY <1>20 DEF vars
<1> QED BY <1>2, <1>3, <1>4, <1>5, <1>6, <1>7, <1>8, <1>9, <1>10, <1>11, <1>12, <1>13, <1>14, <1>15, <1>16, <1>17, <1>18, <1>19, <1>20 DEF Next, Run, Ingest

\* Every step keeps the list of documents.
LEMMA TodoStep ==
    ASSUME TypeOK, DocInv, TodoInv, StartInv, [Next]_vars
    PROVE  TodoInv'
<1> USE DEF TodoInv, Touched, Fault, docVars, fileVars, runVars
<1>1. todo \subseteq Docs /\ result \in [Docs -> Texts \cup {None}]
  BY DEF TypeOK
<1>2. CASE Begin
  BY <1>1, <1>2 DEF Begin
<1>3. CASE Bm25Only
  BY <1>1, <1>3 DEF Bm25Only
<1>4. CASE Select
  BY <1>1, <1>4 DEF Select, StartInv, Starting
<1>5. CASE Wipe
  BY <1>1, <1>5 DEF Wipe
<1>6. CASE WipeCommit
  BY <1>1, <1>6 DEF WipeCommit
<1>7. ASSUME NEW d \in Docs, Skip(d) PROVE TodoInv'
  BY <1>1, <1>7 DEF Skip
<1>8. ASSUME NEW d \in Docs, Load(d) PROVE TodoInv'
  BY <1>1, <1>8 DEF Load
<1>9. CASE Upsert
  BY <1>1, <1>9 DEF Upsert
<1>10. CASE UpsertFails
  BY <1>1, <1>10 DEF UpsertFails
<1>11. CASE CommitDoc
  BY <1>1, <1>11 DEF CommitDoc, DocInv, OnDoc
<1>12. CASE CommitFails
  BY <1>1, <1>12 DEF CommitFails
<1>13. CASE BuildBm25
  BY <1>1, <1>13 DEF BuildBm25
<1>14. CASE Reconcile
  BY <1>1, <1>14 DEF Reconcile
<1>15. CASE WriteManifest
  BY <1>1, <1>15 DEF WriteManifest
<1>16. CASE Die
  BY <1>1, <1>16 DEF Die
<1>17. ASSUME NEW d \in Docs, Extract(d) PROVE TodoInv'
  BY <1>1, <1>17 DEF Extract
<1>18. ASSUME NEW d \in Docs, Reject(d) PROVE TodoInv'
  BY <1>1, <1>18 DEF Reject
<1>19. ASSUME NEW d \in Docs, Misplace(d) PROVE TodoInv'
  BY <1>1, <1>19 DEF Misplace
<1>20. CASE UNCHANGED vars
  BY <1>20 DEF vars
<1> QED BY <1>2, <1>3, <1>4, <1>5, <1>6, <1>7, <1>8, <1>9, <1>10, <1>11, <1>12, <1>13, <1>14, <1>15, <1>16, <1>17, <1>18, <1>19, <1>20 DEF Next, Run, Ingest

\* A run starts with no result.
LEMMA StartStep ==
    ASSUME TypeOK, StartInv, [Next]_vars
    PROVE  StartInv'
<1> USE DEF StartInv, Starting, Fault, docVars, fileVars, runVars
<1>1. CASE Begin
  BY <1>1 DEF Begin, Guard
<1>2. CASE Bm25Only
  BY <1>2 DEF Bm25Only, Ended
<1>3. CASE Select
  BY <1>3 DEF Select
<1>4. CASE Wipe
  BY <1>4 DEF Wipe
<1>5. CASE WipeCommit
  BY <1>5 DEF WipeCommit
<1>6. ASSUME NEW d \in Docs, Skip(d) PROVE StartInv'
  BY <1>6 DEF Skip
<1>7. ASSUME NEW d \in Docs, Load(d) PROVE StartInv'
  BY <1>7 DEF Load
<1>8. CASE Upsert
  BY <1>8 DEF Upsert
<1>9. CASE UpsertFails
  BY <1>9 DEF UpsertFails
<1>10. CASE CommitDoc
  BY <1>10 DEF CommitDoc
<1>11. CASE CommitFails
  BY <1>11 DEF CommitFails
<1>12. CASE BuildBm25
  BY <1>12 DEF BuildBm25
<1>13. CASE Reconcile
  BY <1>13 DEF Reconcile
<1>14. CASE WriteManifest
  BY <1>14 DEF WriteManifest
<1>15. CASE Die
  BY <1>15 DEF Die, Ended
<1>16. ASSUME NEW d \in Docs, Extract(d) PROVE StartInv'
  BY <1>16 DEF Extract
<1>17. ASSUME NEW d \in Docs, Reject(d) PROVE StartInv'
  BY <1>17 DEF Reject
<1>18. ASSUME NEW d \in Docs, Misplace(d) PROVE StartInv'
  BY <1>18 DEF Misplace
<1>19. CASE UNCHANGED vars
  BY <1>19 DEF vars
<1> QED BY <1>1, <1>2, <1>3, <1>4, <1>5, <1>6, <1>7, <1>8, <1>9, <1>10, <1>11, <1>12, <1>13, <1>14, <1>15, <1>16, <1>17, <1>18, <1>19 DEF Next, Run, Ingest

\* At the commit the document's vectors are in place.
LEMMA WrittenStep ==
    ASSUME TypeOK, DocInv, WrittenInv, [Next]_vars
    PROVE  WrittenInv'
<1> USE DEF WrittenInv, Fault, docVars, fileVars, runVars
<1>1. text \in Texts => \A d \in Docs : ChunksOf(d, text) \subseteq Ids
  BY IdsFacts
<1>2. CASE Begin
  BY <1>1, <1>2 DEF Begin, Guard
<1>3. CASE Bm25Only
  BY <1>1, <1>3 DEF Bm25Only
<1>4. CASE Select
  BY <1>1, <1>4 DEF Select
<1>5. CASE Wipe
  BY <1>1, <1>5 DEF Wipe
<1>6. CASE WipeCommit
  BY <1>1, <1>6 DEF WipeCommit
<1>7. ASSUME NEW d \in Docs, Skip(d) PROVE WrittenInv'
  BY <1>1, <1>7 DEF Skip
<1>8. ASSUME NEW d \in Docs, Load(d) PROVE WrittenInv'
  BY <1>1, <1>8 DEF Load
<1>9. CASE Upsert
  BY <1>1, <1>9 DEF Upsert, Written, DocInv, OnDoc
<1>10. CASE UpsertFails
  BY <1>1, <1>10 DEF UpsertFails
<1>11. CASE CommitDoc
  BY <1>1, <1>11 DEF CommitDoc
<1>12. CASE CommitFails
  BY <1>1, <1>12 DEF CommitFails
<1>13. CASE BuildBm25
  BY <1>1, <1>13 DEF BuildBm25
<1>14. CASE Reconcile
  BY <1>1, <1>14 DEF Reconcile
<1>15. CASE WriteManifest
  BY <1>1, <1>15 DEF WriteManifest
<1>16. CASE Die
  BY <1>1, <1>16 DEF Die
<1>17. ASSUME NEW d \in Docs, Extract(d) PROVE WrittenInv'
  BY <1>1, <1>17 DEF Extract
<1>18. ASSUME NEW d \in Docs, Reject(d) PROVE WrittenInv'
  BY <1>1, <1>18 DEF Reject
<1>19. ASSUME NEW d \in Docs, Misplace(d) PROVE WrittenInv'
  BY <1>1, <1>19 DEF Misplace
<1>20. CASE UNCHANGED vars
  BY <1>20 DEF vars
<1> QED BY <1>2, <1>3, <1>4, <1>5, <1>6, <1>7, <1>8, <1>9, <1>10, <1>11, <1>12, <1>13, <1>14, <1>15, <1>16, <1>17, <1>18, <1>19, <1>20 DEF Next, Run, Ingest

\* A row keeps its vector.
LEMMA RowsStep ==
    ASSUME TypeOK, DocInv, WrittenInv, RowsHaveVectors, [Next]_vars
    PROVE  RowsHaveVectors'
<1> USE DEF RowsHaveVectors, Fault, docVars, fileVars, runVars
<1>1. None \notin Texts /\ vectors \in Store /\ chunks \in Store
  BY ConstantsAssumption DEF TypeOK
<1>2. CASE Begin
  BY <1>1, <1>2 DEF Begin
<1>3. CASE Bm25Only
  BY <1>1, <1>3 DEF Bm25Only
<1>4. CASE Select
  BY <1>1, <1>4 DEF Select
<1>5. CASE Wipe
  BY <1>1, <1>5 DEF Wipe, Store
<1>6. CASE WipeCommit
  BY <1>1, <1>6 DEF WipeCommit, RowsWiped, Store
<1>7. ASSUME NEW d \in Docs, Skip(d) PROVE RowsHaveVectors'
  BY <1>1, <1>7 DEF Skip
<1>8. ASSUME NEW d \in Docs, Load(d) PROVE RowsHaveVectors'
  BY <1>1, <1>8 DEF Load
<1>9. CASE Upsert
  BY <1>1, <1>9 DEF Upsert, Written, DocInv, OnDoc
<1>10. CASE UpsertFails
  BY <1>1, <1>10 DEF UpsertFails, Written, DocInv, OnDoc
<1>11. CASE CommitDoc
  BY <1>1, <1>11 DEF CommitDoc , Replaced, DocInv, OnDoc, WrittenInv
<1>12. CASE CommitFails
  BY <1>1, <1>12 DEF CommitFails , Replaced, DocInv, OnDoc, WrittenInv
<1>13. CASE BuildBm25
  BY <1>1, <1>13 DEF BuildBm25
<1>14. CASE Reconcile
  BY <1>1, <1>14 DEF Reconcile
<1>15. CASE WriteManifest
  BY <1>1, <1>15 DEF WriteManifest
<1>16. CASE Die
  BY <1>1, <1>16 DEF Die, Written, RowsWiped, DocInv, OnDoc
<1>17. ASSUME NEW d \in Docs, Extract(d) PROVE RowsHaveVectors'
  BY <1>1, <1>17 DEF Extract
<1>18. ASSUME NEW d \in Docs, Reject(d) PROVE RowsHaveVectors'
  BY <1>1, <1>18 DEF Reject
<1>19. ASSUME NEW d \in Docs, Misplace(d) PROVE RowsHaveVectors'
  BY <1>1, <1>19 DEF Misplace
<1>20. CASE UNCHANGED vars
  BY <1>20 DEF vars
<1> QED BY <1>2, <1>3, <1>4, <1>5, <1>6, <1>7, <1>8, <1>9, <1>10, <1>11, <1>12, <1>13, <1>14, <1>15, <1>16, <1>17, <1>18, <1>19, <1>20 DEF Next, Run, Ingest

\* The sparse index follows the table.
LEMMA Bm25Step ==
    ASSUME Bm25SpansCorpus, [Next]_vars
    PROVE  Bm25SpansCorpus'
<1> USE DEF Bm25SpansCorpus, Fault, docVars, fileVars, runVars
<1>1. CASE Begin
  BY <1>1 DEF Begin, Guard
<1>2. CASE Bm25Only
  BY <1>2 DEF Bm25Only, Ended
<1>3. CASE Select
  BY <1>3 DEF Select
<1>4. CASE Wipe
  BY <1>4 DEF Wipe
<1>5. CASE WipeCommit
  BY <1>5 DEF WipeCommit
<1>6. ASSUME NEW d \in Docs, Skip(d) PROVE Bm25SpansCorpus'
  BY <1>6 DEF Skip
<1>7. ASSUME NEW d \in Docs, Load(d) PROVE Bm25SpansCorpus'
  BY <1>7 DEF Load
<1>8. CASE Upsert
  BY <1>8 DEF Upsert
<1>9. CASE UpsertFails
  BY <1>9 DEF UpsertFails
<1>10. CASE CommitDoc
  BY <1>10 DEF CommitDoc
<1>11. CASE CommitFails
  BY <1>11 DEF CommitFails
<1>12. CASE BuildBm25
  BY <1>12 DEF BuildBm25
<1>13. CASE Reconcile
  BY <1>13 DEF Reconcile
<1>14. CASE WriteManifest
  BY <1>14 DEF WriteManifest
<1>15. CASE Die
  BY <1>15 DEF Die, Ended
<1>16. ASSUME NEW d \in Docs, Extract(d) PROVE Bm25SpansCorpus'
  BY <1>16 DEF Extract
<1>17. ASSUME NEW d \in Docs, Reject(d) PROVE Bm25SpansCorpus'
  BY <1>17 DEF Reject
<1>18. ASSUME NEW d \in Docs, Misplace(d) PROVE Bm25SpansCorpus'
  BY <1>18 DEF Misplace
<1>19. CASE UNCHANGED vars
  BY <1>19 DEF vars
<1> QED BY <1>1, <1>2, <1>3, <1>4, <1>5, <1>6, <1>7, <1>8, <1>9, <1>10, <1>11, <1>12, <1>13, <1>14, <1>15, <1>16, <1>17, <1>18, <1>19 DEF Next, Run, Ingest

\* A completed run's manifest names its strategy.
LEMMA ManifestStep ==
    ASSUME TypeOK, ManifestInv, [Next]_vars
    PROVE  ManifestInv'
<1> USE DEF ManifestInv, Fault, docVars, fileVars, runVars
<1>1. /\ \A m \in [strategy : Strategies, counts : [Namespaces -> Nat]] : m # None /\ m # Torn
      /\ \A ns \in Namespaces : Cardinality(Present(chunks, ns)) \in Nat
  BY ConstantsAssumption, PresentFinite
<1>2. CASE Begin
  BY <1>1, <1>2 DEF Begin, Guard
<1>3. CASE Bm25Only
  BY <1>1, <1>3 DEF Bm25Only
<1>4. CASE Select
  BY <1>1, <1>4 DEF Select
<1>5. CASE Wipe
  BY <1>1, <1>5 DEF Wipe
<1>6. CASE WipeCommit
  BY <1>1, <1>6 DEF WipeCommit
<1>7. ASSUME NEW d \in Docs, Skip(d) PROVE ManifestInv'
  BY <1>1, <1>7 DEF Skip
<1>8. ASSUME NEW d \in Docs, Load(d) PROVE ManifestInv'
  BY <1>1, <1>8 DEF Load
<1>9. CASE Upsert
  BY <1>1, <1>9 DEF Upsert
<1>10. CASE UpsertFails
  BY <1>1, <1>10 DEF UpsertFails
<1>11. CASE CommitDoc
  BY <1>1, <1>11 DEF CommitDoc
<1>12. CASE CommitFails
  BY <1>1, <1>12 DEF CommitFails
<1>13. CASE BuildBm25
  BY <1>1, <1>13 DEF BuildBm25
<1>14. CASE Reconcile
  BY <1>1, <1>14 DEF Reconcile
<1>15. CASE WriteManifest
  BY <1>1, <1>15 DEF WriteManifest, TypeOK
<1>16. CASE Die
  BY <1>1, <1>16 DEF Die, Ended
<1>17. ASSUME NEW d \in Docs, Extract(d) PROVE ManifestInv'
  BY <1>1, <1>17 DEF Extract
<1>18. ASSUME NEW d \in Docs, Reject(d) PROVE ManifestInv'
  BY <1>1, <1>18 DEF Reject
<1>19. ASSUME NEW d \in Docs, Misplace(d) PROVE ManifestInv'
  BY <1>1, <1>19 DEF Misplace
<1>20. CASE UNCHANGED vars
  BY <1>20 DEF vars
<1> QED BY <1>2, <1>3, <1>4, <1>5, <1>6, <1>7, <1>8, <1>9, <1>10, <1>11, <1>12, <1>13, <1>14, <1>15, <1>16, <1>17, <1>18, <1>19, <1>20 DEF Next, Run, Ingest

\* A document with a result keeps its chunks and their vectors.
LEMMA ResultStep ==
    ASSUME TypeOK, DocInv, TodoInv, StartInv, WrittenInv, ResultInv, [Next]_vars
    PROVE  ResultInv'
<1> USE DEF ResultInv, Fault, docVars, fileVars, runVars
<1>1. /\ None \notin Texts /\ vectors \in Store /\ chunks \in Store
      /\ result \in [Docs -> Texts \cup {None}]
      /\ \A c \in Ids : c[1] \in Docs
      /\ \A d \in Docs, t \in Texts : ChunksOf(d, t) \subseteq Ids
      /\ \A d \in Docs, t \in Texts : \A c \in ChunksOf(d, t) : c[1] = d
  BY ConstantsAssumption, IdsFacts DEF TypeOK
<1>2. CASE Begin
  BY <1>1, <1>2 DEF Begin
<1>3. CASE Bm25Only
  BY <1>1, <1>3 DEF Bm25Only, Touched
<1>4. CASE Select
  BY <1>1, <1>4 DEF Select, Touched
<1>5. CASE Wipe
  BY <1>1, <1>5 DEF Wipe, StartInv, Starting
<1>6. CASE WipeCommit
  BY <1>1, <1>6 DEF WipeCommit, StartInv, Starting
<1>7. ASSUME NEW d \in Docs, Skip(d) PROVE ResultInv'
  BY <1>1, <1>7 DEF Skip, Touched
<1>8. ASSUME NEW d \in Docs, Load(d) PROVE ResultInv'
  BY <1>1, <1>8 DEF Load, Touched
<1>9. CASE Upsert
  BY <1>1, <1>9 DEF Upsert, Written, DocInv, OnDoc, Touched
<1>10. CASE UpsertFails
  BY <1>1, <1>10 DEF UpsertFails, Written, DocInv, OnDoc, Touched
<1>11. CASE CommitDoc
  BY <1>1, <1>11 DEF CommitDoc, Replaced, WrittenInv, DocInv, OnDoc, Touched
<1>12. CASE CommitFails
  BY <1>1, <1>12 DEF CommitFails, Replaced, DocInv, OnDoc, Touched
<1>13. CASE BuildBm25
  BY <1>1, <1>13 DEF BuildBm25, Touched
<1>14. CASE Reconcile
  BY <1>1, <1>14 DEF Reconcile, Touched
<1>15. CASE WriteManifest
  BY <1>1, <1>15 DEF WriteManifest, Touched
<1>16. CASE Die
  BY <1>1, <1>16 DEF Die, Written, RowsWiped, StartInv, Starting, DocInv, OnDoc, Touched
<1>17. ASSUME NEW d \in Docs, Extract(d) PROVE ResultInv'
  BY <1>1, <1>17 DEF Extract, Touched
<1>18. ASSUME NEW d \in Docs, Reject(d) PROVE ResultInv'
  BY <1>1, <1>18 DEF Reject, Touched
<1>19. ASSUME NEW d \in Docs, Misplace(d) PROVE ResultInv'
  BY <1>1, <1>19 DEF Misplace, Touched
<1>20. CASE UNCHANGED vars
  BY <1>20 DEF vars, Touched
<1> QED BY <1>2, <1>3, <1>4, <1>5, <1>6, <1>7, <1>8, <1>9, <1>10, <1>11, <1>12, <1>13, <1>14, <1>15, <1>16, <1>17, <1>18, <1>19, <1>20 DEF Next, Run, Ingest

\* The chunks a run counts are in the table.
LEMMA CountedPresent ==
    ASSUME TypeOK, ResultInv, NEW ns
    PROVE  Counted(ns) \subseteq Present(chunks, ns)
<1> SUFFICES ASSUME NEW d \in Docs, result[d] # None, Org[d] = ns,
                    NEW b \in ChunksOf(d, result[d])
             PROVE  b \in Present(chunks, ns)
  BY DEF Counted
<1>1. result[d] \in Texts /\ None \notin Texts
  BY ConstantsAssumption DEF TypeOK
<1>2. b \in Ids /\ b[1] = d
  BY <1>1, IdsFacts
<1>3. chunks[b] = result[d]
  BY DEF ResultInv
<1> QED BY <1>1, <1>2, <1>3 DEF Present

\* Equal totals mean that every chunk is of this run's making.
LEMMA ReconciledStep ==
    ASSUME TypeOK, ResultInv, ReconciledInv, [Next]_vars
    PROVE  ReconciledInv'
<1> USE DEF ReconciledInv, Fault, docVars, fileVars, runVars
<1>1. CASE Begin
  BY <1>1 DEF Begin, Guard
<1>2. CASE Bm25Only
  BY <1>2 DEF Bm25Only, AllRebuilt, Touched
<1>3. CASE Select
  BY <1>3 DEF Select
<1>4. CASE Wipe
  BY <1>4 DEF Wipe
<1>5. CASE WipeCommit
  BY <1>5 DEF WipeCommit
<1>6. ASSUME NEW d \in Docs, Skip(d) PROVE ReconciledInv'
  BY <1>6 DEF Skip
<1>7. ASSUME NEW d \in Docs, Load(d) PROVE ReconciledInv'
  BY <1>7 DEF Load
<1>8. CASE Upsert
  BY <1>8 DEF Upsert
<1>9. CASE UpsertFails
  BY <1>9 DEF UpsertFails
<1>10. CASE CommitDoc
  BY <1>10 DEF CommitDoc
<1>11. CASE CommitFails
  BY <1>11 DEF CommitFails
<1>12. CASE BuildBm25
  BY <1>12 DEF BuildBm25
<1>13. CASE Reconcile
  <2>1. SUFFICES ASSUME Reconciles, NEW c \in Ids, Org[c[1]] \in Touched, chunks[c] # None
                PROVE  result[c[1]] # None
    BY <1>13 DEF Reconcile, AllRebuilt, Touched
  <2> DEFINE ns == Org[c[1]]
  <2>2. Counted(ns) \subseteq Present(chunks, ns)
    BY CountedPresent
  <2>3. Cardinality(Present(chunks, ns)) = Cardinality(Counted(ns))
    BY <2>1 DEF Reconciles
  <2>4. Present(chunks, ns) = Counted(ns)
    BY <2>2, <2>3, PresentFinite, FS_Subset
  <2>5. c \in Counted(ns)
    BY <2>1, <2>4 DEF Present
  <2>6. PICK d \in Docs : result[d] # None /\ c \in ChunksOf(d, result[d])
    BY <2>5 DEF Counted
  <2>7. c[1] = d
    BY <2>6, IdsFacts DEF TypeOK
  <2> QED BY <2>6, <2>7
<1>14. CASE WriteManifest
  BY <1>14 DEF WriteManifest, AllRebuilt, Touched
<1>15. CASE Die
  BY <1>15 DEF Die, Ended
<1>16. ASSUME NEW d \in Docs, Extract(d) PROVE ReconciledInv'
  BY <1>16 DEF Extract, AllRebuilt, Touched
<1>17. ASSUME NEW d \in Docs, Reject(d) PROVE ReconciledInv'
  BY <1>17 DEF Reject, AllRebuilt, Touched
<1>18. ASSUME NEW d \in Docs, Misplace(d) PROVE ReconciledInv'
  BY <1>18 DEF Misplace, AllRebuilt, Touched
<1>19. CASE UNCHANGED vars
  BY <1>19 DEF vars, AllRebuilt, Touched
<1> QED BY <1>1, <1>2, <1>3, <1>4, <1>5, <1>6, <1>7, <1>8, <1>9, <1>10, <1>11, <1>12, <1>13, <1>14, <1>15, <1>16, <1>17, <1>18, <1>19 DEF Next, Run, Ingest

\* A wipe leaves no vector behind it.
LEMMA WipingStep ==
    ASSUME TypeOK, StartInv, WipingInv, [Next]_vars
    PROVE  WipingInv'
<1> USE DEF WipingInv, Touched, Fault, docVars, fileVars, runVars
<1>1. CASE Begin
  BY <1>1 DEF Begin, Guard
<1>2. CASE Bm25Only
  BY <1>2 DEF Bm25Only, Ended
<1>3. CASE Select
  BY <1>3 DEF Select, StartInv, Starting
<1>4. CASE Wipe
  <2>1. left \in Seq(Namespaces) /\ left # <<>>
    BY <1>4 DEF Wipe, TypeOK
  <2>2. \A i \in DOMAIN left : i = 1 \/ (i - 1 \in DOMAIN left' /\ left[i] = left'[i - 1])
    BY <2>1, <1>4 DEF Wipe
  <2>3. Present(vectors', left[1]) = {}
    BY <2>1, <1>4 DEF Wipe, Present
  <2>4. \A ns : Present(vectors, ns) = {} => Present(vectors', ns) = {}
    BY <1>4 DEF Wipe, Present
  <2>5. UNCHANGED <<pc, args>> /\ pc = "wipe"
    BY <1>4 DEF Wipe
  <2>6. ASSUME NEW ns \in Touched, Present(vectors', ns) # {}
        PROVE  \E i \in DOMAIN left' : left'[i] = ns
    <3>1. PICK i \in DOMAIN left : left[i] = ns
      BY <2>4, <2>5, <2>6
    <3>2. i # 1
      BY <2>3, <2>6, <3>1
    <3> QED BY <2>2, <3>1, <3>2
  <2> QED BY <2>5, <2>6
<1>5. CASE WipeCommit
  BY <1>5 DEF WipeCommit
<1>6. ASSUME NEW d \in Docs, Skip(d) PROVE WipingInv'
  BY <1>6 DEF Skip
<1>7. ASSUME NEW d \in Docs, Load(d) PROVE WipingInv'
  BY <1>7 DEF Load
<1>8. CASE Upsert
  BY <1>8 DEF Upsert
<1>9. CASE UpsertFails
  BY <1>9 DEF UpsertFails
<1>10. CASE CommitDoc
  BY <1>10 DEF CommitDoc
<1>11. CASE CommitFails
  BY <1>11 DEF CommitFails
<1>12. CASE BuildBm25
  BY <1>12 DEF BuildBm25
<1>13. CASE Reconcile
  BY <1>13 DEF Reconcile
<1>14. CASE WriteManifest
  BY <1>14 DEF WriteManifest
<1>15. CASE Die
  BY <1>15 DEF Die, Ended
<1>16. ASSUME NEW d \in Docs, Extract(d) PROVE WipingInv'
  BY <1>16 DEF Extract
<1>17. ASSUME NEW d \in Docs, Reject(d) PROVE WipingInv'
  BY <1>17 DEF Reject
<1>18. ASSUME NEW d \in Docs, Misplace(d) PROVE WipingInv'
  BY <1>18 DEF Misplace
<1>19. CASE UNCHANGED vars
  BY <1>19 DEF vars
<1> QED BY <1>1, <1>2, <1>3, <1>4, <1>5, <1>6, <1>7, <1>8, <1>9, <1>10, <1>11, <1>12, <1>13, <1>14, <1>15, <1>16, <1>17, <1>18, <1>19 DEF Next, Run, Ingest

\* After a wipe only the run's own chunks are in the stores.
LEMMA FreshStep ==
    ASSUME TypeOK, DocInv, StartInv, WrittenInv, WipingInv, ResultInv, FreshInv, [Next]_vars
    PROVE  FreshInv'
<1> USE DEF FreshInv, Fault, docVars, fileVars, runVars
<1>1. /\ None \notin Texts /\ vectors \in Store /\ chunks \in Store
      /\ result \in [Docs -> Texts \cup {None}]
      /\ \A c \in Ids : c[1] \in Docs
      /\ \A d \in Docs, t \in Texts : ChunksOf(d, t) \subseteq Ids
      /\ \A d \in Docs, t \in Texts : \A c \in ChunksOf(d, t) : c[1] = d
  BY ConstantsAssumption, IdsFacts DEF TypeOK
<1>2. CASE Begin
  BY <1>1, <1>2 DEF Begin, Guard
<1>3. CASE Bm25Only
  BY <1>1, <1>3 DEF Bm25Only, Ended, Fresh, Touched
<1>4. CASE Select
  BY <1>1, <1>4 DEF Select, Fresh, Touched
<1>5. CASE Wipe
  BY <1>1, <1>5 DEF Wipe, Fresh, Touched
<1>6. CASE WipeCommit
  <2>1. \A c \in Ids : Org[c[1]] \in Touched => vectors[c] = None
    <3>1. \A i \in DOMAIN left : FALSE
      BY <1>6 DEF WipeCommit
    <3>2. \A ns \in Touched : Present(vectors, ns) = {}
      BY <3>1, <1>6 DEF WipeCommit, WipingInv
    <3> QED BY <3>2 DEF Present
  <2>2. \A c \in Ids : Org[c[1]] \in Touched => chunks'[c] = None
    BY <1>1, <1>6 DEF WipeCommit, RowsWiped, Touched
  <2>3. \A d \in Docs : result'[d] = None
    BY <1>6 DEF WipeCommit, StartInv, Starting
  <2>4. UNCHANGED <<vectors, args>> /\ pc' = "index"
    BY <1>6 DEF WipeCommit
  <2> QED BY <1>1, <2>1, <2>2, <2>3, <2>4 DEF Fresh, Touched
<1>7. ASSUME NEW d \in Docs, Skip(d) PROVE FreshInv'
  BY <1>1, <1>7 DEF Skip, Fresh, Touched
<1>8. ASSUME NEW d \in Docs, Load(d) PROVE FreshInv'
  BY <1>1, <1>8 DEF Load, Fresh, Touched
<1>9. CASE Upsert
  BY <1>1, <1>9 DEF Upsert, Written, DocInv, OnDoc, Fresh, Touched
<1>10. CASE UpsertFails
  BY <1>1, <1>10 DEF UpsertFails, Fresh, Touched
<1>11. CASE CommitDoc
  BY <1>1, <1>11 DEF CommitDoc, Replaced, DocInv, OnDoc, Fresh, Touched
<1>12. CASE CommitFails
  BY <1>1, <1>12 DEF CommitFails, Fresh, Touched
<1>13. CASE BuildBm25
  BY <1>1, <1>13 DEF BuildBm25, Fresh, Touched
<1>14. CASE Reconcile
  <2>1. SUFFICES ASSUME args.wipe, clean PROVE FreshInv'
    BY <1>14 DEF Reconcile
  <2>2. \A c \in Ids : Org[c[1]] \in Touched => Fresh(c)
    BY <2>1, <1>14 DEF Reconcile
  <2>3. \A ns \in Touched : Present(chunks, ns) = Counted(ns)
    <3> TAKE ns \in Touched
    <3>1. Present(chunks, ns) \subseteq Counted(ns)
      BY <1>1, <2>2 DEF Fresh, Present, Counted, ResultInv
    <3> QED BY <3>1, CountedPresent
  <2>4. pc' = "manifest"
    BY <2>3, <1>14 DEF Reconcile, Reconciles
  <2>5. UNCHANGED <<vectors, chunks, args, result>>
    BY <1>14 DEF Reconcile
  <2>6. \A c \in Ids : Org[c[1]] \in Touched' => Fresh(c)'
    BY <2>2, <2>4, <2>5, <1>14 DEF Reconcile, Fresh, Touched
  <2> QED BY <2>4, <2>6
<1>15. CASE WriteManifest
  BY <1>1, <1>15 DEF WriteManifest, Fresh, Touched
<1>16. CASE Die
  BY <1>1, <1>16 DEF Die, Fresh, Touched
<1>17. ASSUME NEW d \in Docs, Extract(d) PROVE FreshInv'
  BY <1>1, <1>17 DEF Extract, Fresh, Touched
<1>18. ASSUME NEW d \in Docs, Reject(d) PROVE FreshInv'
  BY <1>1, <1>18 DEF Reject, Fresh, Touched
<1>19. ASSUME NEW d \in Docs, Misplace(d) PROVE FreshInv'
  BY <1>1, <1>19 DEF Misplace, Fresh, Touched
<1>20. CASE UNCHANGED vars
  BY <1>20 DEF vars, Fresh, Touched
<1> QED BY <1>2, <1>3, <1>4, <1>5, <1>6, <1>7, <1>8, <1>9, <1>10, <1>11, <1>12, <1>13, <1>14, <1>15, <1>16, <1>17, <1>18, <1>19, <1>20 DEF Next, Run, Ingest

-----------------------------------------------------------------------------
(* Theorems *)

LEMMA InitInv == Init => IInv
<1> SUFFICES ASSUME Init PROVE IInv
  OBVIOUS
<1>1. /\ pc = "idle" /\ todo = {} /\ chunks = [c \in Ids |-> None]
      /\ result = [d \in Docs |-> None]
  BY DEF Init, Empty
<1>2. TypeOK
  <2>1. PICK s \in Strategies :
          args = [strategy |-> s, namespaces |-> <<"pu", "hec">>, wipe |-> FALSE]
    BY DEF Init
  <2>2. args \in [strategy : Strategies, namespaces : Selections, wipe : BOOLEAN]
    BY <2>1 DEF Selections
  <2>3. vectors \in Store /\ chunks \in Store
    BY DEF Init, Empty, Store
  <2>4. art \in [Docs -> 0..MaxVersion] /\ status \in [Docs -> Statuses]
    BY ConstantsAssumption DEF Init, Statuses
  <2>5. left \in Seq(Namespaces) /\ pc \in Phases
    BY DEF Init, Phases, Ended
  <2> QED BY <2>2, <2>3, <2>4, <2>5 DEF Init, TypeOK
<1>3. DocInv /\ TodoInv /\ StartInv /\ WrittenInv /\ ResultInv
  BY <1>1 DEF DocInv, OnDoc, TodoInv, StartInv, Starting, WrittenInv, ResultInv
<1>4. ReconciledInv /\ ManifestInv /\ WipingInv /\ FreshInv
  BY <1>1 DEF ReconciledInv, ManifestInv, WipingInv, FreshInv
<1>5. RowsHaveVectors /\ Bm25SpansCorpus
  BY <1>1 DEF RowsHaveVectors, Bm25SpansCorpus
<1> QED BY <1>2, <1>3, <1>4, <1>5 DEF IInv

LEMMA StepInv == IInv /\ [Next]_vars => IInv'
<1> SUFFICES ASSUME IInv, [Next]_vars PROVE IInv'
  OBVIOUS
<1> USE DEF IInv
<1>1. TypeOK' /\ DocInv' /\ TodoInv' /\ StartInv'
  BY TypeStep, DocStep, TodoStep, StartStep
<1>2. WrittenInv' /\ ResultInv'
  BY WrittenStep, ResultStep
<1>3. ReconciledInv' /\ ManifestInv'
  BY ReconciledStep, ManifestStep
<1>4. WipingInv' /\ FreshInv'
  BY WipingStep, FreshStep
<1>5. RowsHaveVectors' /\ Bm25SpansCorpus'
  BY RowsStep, Bm25Step
<1> QED BY <1>1, <1>2, <1>3, <1>4, <1>5

LEMMA Invariance == Spec => []IInv
BY InitInv, StepInv, PTL DEF Spec

\* Every variable keeps its type whatever fails, dies or is run again.
THEOREM TypeCorrect == Spec => []TypeOK
<1>1. IInv => TypeOK
  BY DEF IInv
<1> QED BY <1>1, Invariance, PTL

\* The two totals that main compares suffice: for any corpus and any history of failed, partial
\* and interrupted runs, a run that writes its manifest has rewritten every chunk of its
\* namespaces with its strategy, and their vectors with the same text.
THEOREM ManifestIsEarned == Spec => []ManifestMeansRebuilt
<1>1. IInv => ManifestMeansRebuilt
  <2> SUFFICES ASSUME IInv, pc = "complete",
                      NEW c \in Ids, Org[c[1]] \in Touched, chunks[c] # None
               PROVE  /\ chunks[c] = result[c[1]] /\ chunks[c].strat = manifest.strategy
                      /\ vectors[c] = chunks[c]
    BY DEF ManifestMeansRebuilt
  <2>1. c[1] \in Docs /\ result[c[1]] # None
    BY IdsFacts DEF IInv, ReconciledInv, AllRebuilt
  <2>2. c \in ChunksOf(c[1], result[c[1]])
    BY <2>1 DEF IInv, ResultInv
  <2>3. /\ chunks[c] = result[c[1]] /\ vectors[c] = result[c[1]]
        /\ result[c[1]].strat = args.strategy
    BY <2>1, <2>2 DEF IInv, ResultInv
  <2>4. manifest.strategy = args.strategy
    BY DEF IInv, ManifestInv
  <2> QED BY <2>3, <2>4
<1> QED BY <1>1, Invariance, PTL

\* A sparse hit can be hydrated: each row has a vector under its id, unless a wipe stopped
\* between the two deletions.
THEOREM RowsKeepVectors == Spec => []RowsHaveVectors
<1>1. IInv => RowsHaveVectors
  BY DEF IInv
<1> QED BY <1>1, Invariance, PTL

\* A run over some of the documents does not shrink the sparse index to them.
THEOREM SparseIndexIsWhole == Spec => []Bm25SpansCorpus
<1>1. IInv => Bm25SpansCorpus
  BY DEF IInv
<1> QED BY <1>1, Invariance, PTL

\* Whatever earlier runs left behind, a run with --wipe in which nothing fails reconciles, and
\* leaves no vector without a chunk in its namespaces.
THEOREM WipeRepairs == Spec => []WipeStartsAfresh
<1>1. IInv => WipeStartsAfresh
  <2> SUFFICES ASSUME IInv, args.wipe, clean
               PROVE  /\ pc # "mismatch"
                      /\ pc = "complete" => \A c \in Ids :
                           Org[c[1]] \in Touched /\ vectors[c] # None => chunks[c] # None
    BY DEF WipeStartsAfresh
  <2>1. pc # "mismatch"
    BY DEF IInv, FreshInv
  <2>2. ASSUME pc = "complete", NEW c \in Ids, Org[c[1]] \in Touched, vectors[c] # None
        PROVE  chunks[c] # None
    <3>1. Fresh(c) /\ c[1] \in Docs
      BY <2>2, IdsFacts DEF IInv, FreshInv
    <3>2. result[c[1]] # None /\ c \in ChunksOf(c[1], result[c[1]])
      BY <2>2, <3>1 DEF Fresh
    <3> QED BY <3>1, <3>2 DEF IInv, ResultInv
  <2> QED BY <2>1, <2>2
<1> QED BY <1>1, Invariance, PTL
===============================================================================
