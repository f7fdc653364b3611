--------------------------- MODULE IngestionProofs ---------------------------
(***************************************************************************)
(* Theorems about Ingestion, for every choice of its constants.  The       *)
(* inductive invariant IInv is established in layers: CtlInv (types and    *)
(* control state) by itself, then the database parts on top of it.         *)
(***************************************************************************)
EXTENDS Ingestion, TLAPS, FiniteSetTheorems

Typed == TypeOK /\ IsFiniteSet(chunks) /\ Control
CtlInv == Typed /\ OpenFiles

USE ConstantsAssumption, DistinctValues

-----------------------------------------------------------------------------
(* Facts about the operators of the model. *)

\* A task has one source, and tags that are known or None.
LEMMA TaskFacts ==
    ASSUME NEW t \in Tasks
    PROVE  /\ SourceOf[t] \in Sources
           /\ t # None
           /\ t \in IngestTasks <=> t \notin DeleteTasks
    BY DEF Tasks

\* The tags an attempt resolves are tags.
LEMMA ResolveTagType ==
    ASSUME NEW t \in IngestTasks, access \in [Sources -> Access]
    PROVE  ResolveTag(t) \in Tags
    BY DEF ResolveTag, Tags, Tasks, Access

\* An attempt inserts finitely many chunks: one per ordinal of its text.
LEMMA NewChunksFinite ==
    ASSUME NEW w \in Workers, text[w] \in Contents
    PROVE  /\ IsFiniteSet(NewChunks(w))
           /\ Cardinality(NewChunks(w)) = ChunkCount[text[w]]
  <1> DEFINE n == ChunkCount[text[w]]
             Row(o) == [document |-> AttemptId(w), source |-> SourceOf[task[w]],
                        tag |-> tag[w], text |-> text[w], ordinal |-> o]
             f == [o \in 1 .. n |-> Row(o)]
  <1>1. n \in Nat
    OBVIOUS
  <1>2. NewChunks(w) = {Row(o) : o \in 1 .. n}
    BY DEF NewChunks
  <1>3. \A o, p \in 1 .. n : Row(o) = Row(p) => o = p
    OBVIOUS
  <1>4. f \in Bijection(1 .. n, NewChunks(w))
    BY <1>2, <1>3 DEF Bijection, Injection, Surjection, IsInjective
  <1>5. IsFiniteSet(1 .. n) /\ Cardinality(1 .. n) = n
    <2> HIDE DEF n
    <2>1. 1 \in Int /\ n \in Int
      BY <1>1
    <2>2. IsFiniteSet(1 .. n) /\ Cardinality(1 .. n) = IF 1 > n THEN 0 ELSE n - 1 + 1
      BY <2>1, FS_Interval, Zenon
    <2> QED
      BY <1>1, <2>2
  <1> QED
    BY <1>4, <1>5, FS_Bijection DEF ExistsBijection

\* An ingest attempt stages below the directory of its instance and source.
LEMMA PathFacts ==
    ASSUME NEW w \in Workers, task[w] \in IngestTasks
    PROVE  StagingDir(w) \in Instances \X Sources /\ StagingPath(w) \in Paths
    BY DEF StagingDir, StagingPath, Paths, Tasks

\* A status update never brings a deleted source back, nor deletes one.
LEMMA SetStatusFacts ==
    ASSUME status \in [Sources -> Statuses], NEW s \in Sources,
           NEW v \in Statuses \ {"gone"}, SetStatus(s, v)
    PROVE  /\ status' \in [Sources -> Statuses]
           /\ \A r \in Sources : Exists(r)' <=> Exists(r)
    BY DEF SetStatus, Statuses, Exists

\* What an attempt persists is well-typed, finite, and keeps every source.
LEMMA StoreDocumentFacts ==
    ASSUME DatabaseTypeOK, IsFiniteSet(chunks), NEW w \in Workers,
           task[w] \in IngestTasks, text[w] \in Contents, tag[w] \in Tags,
           attempt[w] \in 1 .. MaxAttempts, StoreDocument(w), access' = access
    PROVE  /\ DatabaseTypeOK' /\ IsFiniteSet(chunks)'
           /\ \A r \in Sources : Exists(r)' <=> Exists(r)
  <1>1. SourceOf[task[w]] \in Sources /\ AttemptId(w) \in AttemptIds
    BY DEF AttemptId, AttemptIds, Tasks
  <1>2. status' \in [Sources -> Statuses] /\ \A r \in Sources : Exists(r)' <=> Exists(r)
    BY <1>1, SetStatusFacts DEF StoreDocument, DatabaseTypeOK, Statuses
  <1>3. documents' \subseteq Document
    BY <1>1 DEF StoreDocument, DatabaseTypeOK, Document
  <1>4. NewChunks(w) \subseteq Chunk
    BY <1>1 DEF NewChunks, Chunk
  <1>5. audit' \subseteq AuditEvent
    BY <1>1 DEF StoreDocument, IngestedEvent, DatabaseTypeOK, AuditEvent
  <1>6. IsFiniteSet(chunks \cup NewChunks(w))
    <2>1. IsFiniteSet(NewChunks(w))
      BY NewChunksFinite
    <2> QED
      BY ONLY IsFiniteSet(chunks), <2>1, FS_Union
  <1> QED
    BY <1>2, <1>3, <1>4, <1>5, <1>6 DEF StoreDocument, DatabaseTypeOK

\* Ending attempts leaves the other slots alone and the ended ones idle.
LEMMA FinishFacts ==
    ASSUME LocalTypeOK, Control, NEW W \in SUBSET Workers, Finish(W),
           dispatched' = dispatched
    PROVE  LocalTypeOK' /\ Control'
  <1>1. LocalTypeOK'
    BY DEF LocalTypeOK, Finish, NoTag, Tags, Nothing
  <1>2. ASSUME NEW v \in Workers
        PROVE  \/ v \in W /\ pc'[v] = "idle" /\ task'[v] = None
               \/ /\ v \notin W
                  /\ pc'[v] = pc[v] /\ task'[v] = task[v] /\ attempt'[v] = attempt[v]
                  /\ tag'[v] = tag[v] /\ text'[v] = text[v]
    BY DEF Finish
  <1>3. Control'
    BY <1>2 DEF Control, IngestLabels, DeleteLabels
  <1> QED
    BY <1>1, <1>3

-----------------------------------------------------------------------------
(* Layer 1: types and control. *)

LEMMA CtlInit == Init => CtlInv
  <1> SUFFICES ASSUME Init PROVE CtlInv
    OBVIOUS
  <1>1. TypeOK
    BY DEF Init, TypeOK, DatabaseTypeOK, StagingTypeOK, LocalTypeOK, Tags, NoTag,
           Statuses, Nothing
  <1>2. Control
    BY DEF Init, Control, IngestLabels, DeleteLabels
  <1>3. IsFiniteSet(chunks)
    BY FS_EmptySet DEF Init
  <1>4. OpenFiles
    BY DEF Init, OpenFiles
  <1> QED
    BY <1>1, <1>2, <1>3, <1>4 DEF CtlInv, Typed

\* The path of an open file has bytes, and can be written.
LEMMA FilledPath ==
    ASSUME CtlInv, NEW w \in Workers, w \in opened
    PROVE  LET old == files[StagingPath(w)]
               new == ContentOf[task[w]]
           IN  /\ StagingPath(w) \in Paths
               /\ old \in Contents
               /\ new \in Contents
               /\ Overwritten[<<old, new>>] \in Contents
               /\ Blends[<<old, new>>] \subseteq Contents
  <1>1. task[w] \in IngestTasks /\ files[StagingPath(w)] # None
    BY DEF CtlInv, OpenFiles, Typed, Control, IngestLabels
  <1>2. StagingPath(w) \in Paths /\ ContentOf[task[w]] \in Contents
    BY <1>1, PathFacts
  <1>3. files[StagingPath(w)] \in Contents
    BY <1>1, <1>2 DEF CtlInv, Typed, TypeOK, StagingTypeOK
  <1> QED
    BY <1>2, <1>3

\* A reader finds bytes at its path, or nothing.
LEMMA ReadableType ==
    ASSUME CtlInv, NEW w \in Workers, pc[w] = "parse"
    PROVE  Readable(w) \subseteq Contents \cup {None}
  <1> DEFINE p == StagingPath(w)
  <1>1. files[p] \in Contents \cup {None}
    BY PathFacts DEF CtlInv, Typed, TypeOK, StagingTypeOK, Control, IngestLabels
  <1>2. ASSUME NEW v \in opened, StagingPath(v) = p
        PROVE  Blends[<<files[p], ContentOf[task[v]]>>] \subseteq Contents
    BY <1>2, FilledPath DEF CtlInv, Typed, TypeOK, StagingTypeOK
  <1>3. ASSUME NEW c \in Readable(w)
        PROVE  c \in Contents \cup {None}
    <2>1. CASE c = files[p]
      BY <1>1, <2>1
    <2>2. ASSUME NEW v \in opened, StagingPath(v) = p,
                 c \in Blends[<<files[p], ContentOf[task[v]]>>]
          PROVE  c \in Contents
      BY <1>2, <2>2
    <2>3. c = files[p] \/ \E v \in opened :
              StagingPath(v) = p /\ c \in Blends[<<files[p], ContentOf[task[v]]>>]
      BY ONLY <1>3 DEF Readable
    <2> QED
      BY <2>1, <2>2, <2>3
  <1> QED
    BY <1>3

LEMMA UnlinkType ==
    ASSUME StagingTypeOK, NEW P, Unlink(P)
    PROVE  files' \in [Paths -> Contents \cup {None}] /\ opened' \subseteq Workers
  BY DEF StagingTypeOK, Unlink

\* One step of the system preserves types and control state.
LEMMA TypedNext == CtlInv /\ [Next]_vars => Typed'
  <1> SUFFICES ASSUME CtlInv, [Next]_vars
               PROVE  Typed'
    OBVIOUS
  <1> USE DEF CtlInv, Typed, TypeOK, DatabaseTypeOK, StagingTypeOK, LocalTypeOK, Control,
              IngestLabels, DeleteLabels, GoTo, Exists, Tasks,
              dbVars, diskVars, queueVars, localVars, pastVars, outsideVars
  <1>1. ASSUME NEW t \in Tasks, NEW w \in Workers, Dispatch(t, w)
        PROVE  Typed'
    <2>1. SourceNow(SourceOf[t]) \in [live : BOOLEAN, documents : SUBSET Document]
      BY DEF SourceNow
    <2>2. access[SourceOf[t]] \in Access
      BY TaskFacts
    <2>3. DatabaseTypeOK' /\ StagingTypeOK' /\ IsFiniteSet(chunks)'
      BY <1>1 DEF Dispatch
    <2>4. LocalTypeOK'
      <3>1. /\ pc' \in [Workers -> {"idle", "reply"} \cup IngestLabels \cup DeleteLabels]
            /\ task' \in [Workers -> Tasks \cup {None}]
            /\ tag' = tag /\ text' = text /\ counted' = counted
        BY <1>1 DEF Dispatch, Begin
      <3>2. attempt' \in [Workers -> 0 .. MaxAttempts]
        <4>1. dispatched[t] + 1 \in 0 .. MaxAttempts
          BY <1>1 DEF Dispatch
        <4> QED
          BY <1>1, <4>1 DEF Dispatch, Begin
      <3>3. before' \in [Workers -> [live : BOOLEAN, documents : SUBSET Document]]
        BY <1>1, <2>1 DEF Dispatch, Begin
      <3>4. shared' \subseteq Workers
        BY <1>1 DEF Dispatch, Begin, Sharing
      <3>5. seen' \in [Workers -> SUBSET Access]
        BY <1>1, <2>2 DEF Dispatch, Begin
      <3> QED
        BY <3>1, <3>2, <3>3, <3>4, <3>5
    <2>5. Control'
      BY <1>1 DEF Dispatch, Begin
    <2>6. dispatched' \in [Tasks -> 0 .. MaxAttempts]
      BY <1>1 DEF Dispatch
    <2> QED
      BY <1>1, <2>3, <2>4, <2>5, <2>6 DEF Dispatch
  <1>2. ASSUME NEW w \in Workers, CheckIdempotency(w)
        PROVE  Typed'
    <2>1. TypeOK' /\ IsFiniteSet(chunks)'
      BY <1>2 DEF CheckIdempotency
    <2>2. Control'
      BY <1>2 DEF CheckIdempotency
    <2> QED
      BY <2>1, <2>2
  <1>3. ASSUME NEW w \in Workers, MarkProcessing(w)
        PROVE  Typed'
    <2>1. task[w] \in IngestTasks /\ SourceOf[task[w]] \in Sources
      BY <1>3 DEF MarkProcessing
    <2>2. /\ status' \in [Sources -> Statuses]
          /\ \A r \in Sources : Exists(r)' <=> Exists(r)
      BY <1>3, <2>1, SetStatusFacts DEF MarkProcessing, Statuses
    <2>3. ResolveTag(task[w]) \in Tags
      BY <2>1, ResolveTagType
    <2>4. TypeOK' /\ IsFiniteSet(chunks)'
      <3>1. lost' \subseteq Sources
        BY <1>3 DEF MarkProcessing, SetStatus
      <3>2. LocalTypeOK'
        BY <1>3, <2>3 DEF MarkProcessing
      <3> QED
        BY <1>3, <2>2, <3>1, <3>2 DEF MarkProcessing
    <2>5. Control'
      BY <1>3 DEF MarkProcessing
    <2> QED
      BY <2>4, <2>5
  <1>4. ASSUME NEW w \in Workers, MakeStagingDir(w)
        PROVE  Typed'
    <2>1. TypeOK' /\ IsFiniteSet(chunks)'
      BY <1>4, PathFacts DEF MakeStagingDir
    <2>2. Control'
      BY <1>4 DEF MakeStagingDir
    <2> QED
      BY <2>1, <2>2
  <1>5. ASSUME NEW w \in Workers, WriteStagedFile(w)
        PROVE  Typed'
    <2>1. TypeOK' /\ IsFiniteSet(chunks)'
      <3>1. files' \in [Paths -> Contents \cup {None}]
        BY <1>5, FilledPath DEF WriteStagedFile
      <3>2. LocalTypeOK' /\ opened' \subseteq Workers
        BY <1>5 DEF WriteStagedFile
      <3> QED
        BY <1>5, <3>1, <3>2 DEF WriteStagedFile
    <2>2. Control'
      BY <1>5 DEF WriteStagedFile
    <2> QED
      BY <2>1, <2>2
  <1>6. ASSUME NEW w \in Workers, ParseAndEmbed(w)
        PROVE  Typed'
    <2>1. TypeOK' /\ IsFiniteSet(chunks)'
      <3>1. text' \in [Workers -> Contents \cup {None}]
        <4>1. pc[w] = "parse" => Readable(w) \subseteq Contents \cup {None}
          BY ReadableType
        <4> QED
          BY <1>6, <4>1 DEF ParseAndEmbed
      <3>2. LocalTypeOK'
        BY <1>6, <3>1 DEF ParseAndEmbed
      <3> QED
        BY <1>6, <3>2 DEF ParseAndEmbed
    <2>2. Control'
      BY <1>6 DEF ParseAndEmbed
    <2> QED
      BY <2>1, <2>2
  <1>7. ASSUME NEW w \in Workers, CleanupStaging(w)
        PROVE  Typed'
    <2>1. TypeOK' /\ IsFiniteSet(chunks)'
      <3>1. files' \in [Paths -> Contents \cup {None}] /\ opened' \subseteq Workers
        BY <1>7, UnlinkType DEF CleanupStaging
      <3>2. LocalTypeOK'
        BY <1>7 DEF CleanupStaging, AfterStaging
      <3> QED
        BY <1>7, <3>1, <3>2 DEF CleanupStaging
    <2>2. Control'
      BY <1>7 DEF CleanupStaging, AfterStaging
    <2> QED
      BY <2>1, <2>2
  <1>8. ASSUME NEW w \in Workers, Persist(w)
        PROVE  Typed'
    <2>1. CASE Exists(SourceOf[task[w]])
      <3>1. /\ DatabaseTypeOK' /\ IsFiniteSet(chunks)'
            /\ \A r \in Sources : Exists(r)' <=> Exists(r)
        BY <1>8, <2>1, StoreDocumentFacts DEF Persist
      <3>2. TypeOK'
        <4>1. StoreDocument(w) /\ pc' = [pc EXCEPT ![w] = "reply"]
          BY <1>8, <2>1 DEF Persist
        <4>2. lost' \subseteq Sources
          BY <4>1 DEF StoreDocument, SetStatus
        <4>3. LocalTypeOK'
          BY <1>8, <4>1 DEF Persist
        <4> QED
          BY <1>8, <3>1, <4>2, <4>3 DEF Persist
      <3>3. Control'
        BY <1>8, <3>1 DEF Persist
      <3> QED
        BY <3>1, <3>2, <3>3
    <2>2. CASE ~ Exists(SourceOf[task[w]])
      <3>1. TypeOK' /\ IsFiniteSet(chunks)'
        BY <1>8, <2>2 DEF Persist
      <3>2. Control'
        BY <1>8, <2>2, SMTT(30) DEF Persist
      <3> QED
        BY <3>1, <3>2
    <2> QED
      BY <2>1, <2>2
  <1>9. ASSUME NEW w \in Workers, RecordFailure(w)
        PROVE  Typed'
    <2>1. SourceOf[task[w]] \in Sources
      BY <1>9 DEF RecordFailure
    <2>2. /\ status' \in [Sources -> Statuses]
          /\ \A r \in Sources : Exists(r)' <=> Exists(r)
      <3>1. CASE SetStatus(SourceOf[task[w]], "failed")
        BY <2>1, <3>1, SetStatusFacts DEF Statuses
      <3>2. CASE status' = status
        BY <3>2
      <3> QED
        BY <1>9, <3>1, <3>2 DEF RecordFailure
    <2>3. LocalTypeOK' /\ Control'
      <3>1. Finish({w}) /\ dispatched' = dispatched
        BY <1>9 DEF RecordFailure
      <3> HIDE DEF LocalTypeOK, Control
      <3> QED
        BY <3>1, FinishFacts
    <2>4. lost' \subseteq Sources
      BY <1>9, <2>1 DEF RecordFailure, SetStatus
    <2> QED
      BY <1>9, <2>2, <2>3, <2>4 DEF RecordFailure
  <1>10. ASSUME NEW w \in Workers, CountChunks(w)
        PROVE  Typed'
    <2>1. Cardinality(ChunksIn(SourceOf[task[w]])) \in Nat
      BY FS_Subset, FS_CardinalityType DEF ChunksIn
    <2>2. TypeOK' /\ IsFiniteSet(chunks)'
      BY <1>10, <2>1 DEF CountChunks
    <2>3. Control'
      BY <1>10 DEF CountChunks
    <2> QED
      BY <2>2, <2>3
  <1>11. ASSUME NEW w \in Workers, DeleteSource(w)
        PROVE  Typed'
    <2>1. task[w] \in Tasks /\ AttemptId(w) \in AttemptIds
      BY <1>11 DEF DeleteSource, AttemptId, AttemptIds
    <2>2. IsFiniteSet(chunks)'
      BY <1>11, FS_Subset DEF DeleteSource, AfterCascade
    <2>3. DatabaseTypeOK'
      BY <1>11, <2>1 DEF DeleteSource, AfterCascade, DeletionEvents,
             AuditEvent, Statuses
    <2>4. TypeOK'
      BY <1>11, <2>3 DEF DeleteSource
    <2>5. Control'
      BY <1>11 DEF DeleteSource
    <2> QED
      BY <2>2, <2>4, <2>5
  <1>12. ASSUME NEW w \in Workers, Reply(w)
        PROVE  Typed'
    <2>1. LocalTypeOK' /\ Control'
      BY <1>12, FinishFacts DEF Reply
    <2> QED
      BY <1>12, <2>1 DEF Reply
  <1>13. ASSUME NEW w \in Workers, ReplyLost(w)
        PROVE  Typed'
    <2>1. LocalTypeOK' /\ Control'
      BY <1>13, FinishFacts DEF ReplyLost
    <2> QED
      BY <1>13, <2>1 DEF ReplyLost
  <1>14. ASSUME NEW w \in Workers, WriteFails(w)
        PROVE  Typed'
    <2>1. TypeOK' /\ IsFiniteSet(chunks)'
      <3>1. files' \in [Paths -> Contents \cup {None}]
        BY <1>14, FilledPath, SMTT(30) DEF WriteFails
      <3>2. LocalTypeOK' /\ opened' \subseteq Workers
        BY <1>14 DEF WriteFails
      <3> QED
        BY <1>14, <3>1, <3>2 DEF WriteFails
    <2>2. Control'
      BY <1>14 DEF WriteFails
    <2> QED
      BY <2>1, <2>2
  <1>15. ASSUME NEW w \in Workers, PersistUnacknowledged(w)
        PROVE  Typed'
    <2>1. /\ DatabaseTypeOK' /\ IsFiniteSet(chunks)'
          /\ \A r \in Sources : Exists(r)' <=> Exists(r)
      BY <1>15, StoreDocumentFacts DEF PersistUnacknowledged
    <2>2. TypeOK'
      <3>1. lost' \subseteq Sources
        BY <1>15, <2>1 DEF PersistUnacknowledged, StoreDocument, SetStatus
      <3>2. LocalTypeOK'
        BY <1>15 DEF PersistUnacknowledged
      <3> QED
        BY <1>15, <2>1, <3>1, <3>2 DEF PersistUnacknowledged
    <2>3. Control'
      BY <1>15, <2>1 DEF PersistUnacknowledged
    <2> QED
      BY <2>1, <2>2, <2>3
  <1>16. ASSUME NEW w \in Workers, DatabaseError(w)
        PROVE  Typed'
    <2>1. TypeOK' /\ IsFiniteSet(chunks)'
      BY <1>16 DEF DatabaseError
    <2>2. Control'
      BY <1>16 DEF DatabaseError
    <2> QED
      BY <2>1, <2>2
  <1>17. ASSUME NEW w \in Workers, DeleteError(w)
        PROVE  Typed'
    <2>1. LocalTypeOK' /\ Control'
      BY <1>17, FinishFacts DEF DeleteError
    <2> QED
      BY <1>17, <2>1 DEF DeleteError
  <1>18. ASSUME NEW i \in Instances, Crash(i)
        PROVE  Typed'
    <2>1. LocalTypeOK' /\ Control'
      BY <1>18, FinishFacts DEF Crash
    <2>2. StagingTypeOK'
      BY <1>18 DEF Crash
    <2> QED
      BY <1>18, <2>1, <2>2 DEF Crash
  <1>19. ASSUME NEW w \in Workers, PruneStagingDir(w) \/ RemoveStagingDir(w)
        PROVE  Typed'
    <2>1. TypeOK' /\ IsFiniteSet(chunks)'
      <3>1. StagingTypeOK'
        BY <1>19, UnlinkType DEF PruneStagingDir, RemoveStagingDir
      <3>2. LocalTypeOK'
        BY <1>19, SMTT(30) DEF PruneStagingDir, RemoveStagingDir, AfterStaging
      <3> QED
        BY <1>19, <3>1, <3>2 DEF PruneStagingDir, RemoveStagingDir
    <2>2. Control'
      BY <1>19 DEF PruneStagingDir, RemoveStagingDir, AfterStaging
    <2> QED
      BY <2>1, <2>2
  <1>20. ASSUME NEW w \in Workers, OpenStagedFile(w)
        PROVE  Typed'
    <2>1. TypeOK' /\ IsFiniteSet(chunks)'
      <3>1. StagingTypeOK'
        <4>1. EmptyFile \in Contents
          OBVIOUS
        <4>2. \/ files' = [files EXCEPT ![StagingPath(w)] = EmptyFile] /\ opened' = opened \cup {w}
              \/ files' = files /\ opened' = opened
          BY <1>20 DEF OpenStagedFile
        <4>3. dirs' = dirs
          BY <1>20 DEF OpenStagedFile
        <4> QED
          BY ONLY <4>1, <4>2, <4>3, StagingTypeOK DEF StagingTypeOK
      <3>2. LocalTypeOK'
        BY <1>20 DEF OpenStagedFile
      <3> QED
        BY <1>20, <3>1, <3>2 DEF OpenStagedFile
    <2>2. Control'
      BY <1>20 DEF OpenStagedFile
    <2> QED
      BY <2>1, <2>2
  <1>21. ASSUME NEW s \in Sources, Reclassify(s)
        PROVE  Typed'
    <2>1. TypeOK' /\ IsFiniteSet(chunks)'
      BY <1>21 DEF Reclassify
    <2>2. Control'
      BY <1>21 DEF Reclassify
    <2> QED
      BY <2>1, <2>2
  <1>22. CASE UNCHANGED vars
    BY <1>22 DEF vars
  <1> QED
    BY <1>1, <1>2, <1>3, <1>4, <1>5, <1>6, <1>7, <1>8, <1>9, <1>10, <1>11, <1>12,
       <1>13, <1>14, <1>15, <1>16, <1>17, <1>18, <1>19, <1>20, <1>21, <1>22
       DEF Next, Work, IngestStep, DeleteStep, Fault

LEMMA OpenFilesNext == CtlInv /\ [Next]_vars => OpenFiles'
  <1> SUFFICES ASSUME CtlInv, [Next]_vars, NEW v \in opened'
               PROVE  pc'[v] = "write" /\ files'[StagingPath(v)'] # None
    BY DEF OpenFiles
  <1> DEFINE Goal == pc'[v] = "write" /\ files'[StagingPath(v)'] # None
  <1> USE DEF CtlInv, Typed, TypeOK, StagingTypeOK, LocalTypeOK, GoTo, diskVars,
              queueVars, localVars
  <1>1. ASSUME task'[v] = task[v]
        PROVE  StagingPath(v)' = StagingPath(v)
    BY <1>1 DEF StagingPath
  <1>2. ASSUME v \in opened
        PROVE  /\ v \in Workers /\ pc[v] = "write" /\ task[v] \in IngestTasks
               /\ files[StagingPath(v)] # None /\ StagingPath(v) \in Paths
    BY <1>2, PathFacts DEF OpenFiles, Control, IngestLabels
  <1>3. ASSUME NEW w \in Workers,
               \/ CheckIdempotency(w) \/ MarkProcessing(w) \/ MakeStagingDir(w)
               \/ ParseAndEmbed(w) \/ PruneStagingDir(w) \/ Persist(w)
               \/ CountChunks(w) \/ DeleteSource(w)
               \/ PersistUnacknowledged(w) \/ DatabaseError(w)
        PROVE  Goal
    <2>1. /\ files' = files /\ opened' = opened /\ task' = task
          /\ pc[w] # "write" /\ \A u \in Workers : u # w => pc'[u] = pc[u]
      BY <1>3 DEF CheckIdempotency, MarkProcessing, MakeStagingDir, ParseAndEmbed,
           PruneStagingDir, Persist, CountChunks, DeleteSource,
           PersistUnacknowledged, DatabaseError
    <2> QED
      BY <1>1, <1>2, <2>1
  <1>4. ASSUME NEW w \in Workers,
               RecordFailure(w) \/ Reply(w) \/ ReplyLost(w) \/ DeleteError(w)
        PROVE  Goal
    <2>1. /\ files' = files /\ opened' = opened
          /\ pc[w] # "write"
          /\ \A u \in Workers : u # w => pc'[u] = pc[u] /\ task'[u] = task[u]
      BY <1>4 DEF RecordFailure, Reply, ReplyLost, DeleteError, Finish
    <2> QED
      BY <1>1, <1>2, <2>1
  <1>5. ASSUME NEW w \in Workers, OpenStagedFile(w)
        PROVE  Goal
    <2>1. /\ pc[w] = "open" /\ task' = task /\ task[w] \in IngestTasks
          /\ \A u \in Workers : u # w => pc'[u] = pc[u]
          /\ StagingPath(w) \in Paths
      BY <1>5, PathFacts DEF OpenStagedFile, Control, IngestLabels
    <2>2. CASE /\ files' = [files EXCEPT ![StagingPath(w)] = EmptyFile]
               /\ opened' = opened \cup {w} /\ pc' = [pc EXCEPT ![w] = "write"]
      <3>1. files'[StagingPath(w)] # None /\ \A p \in Paths : files[p] # None => files'[p] # None
        BY <2>1, <2>2
      <3> QED
        BY <1>1, <1>2, <2>1, <2>2, <3>1
    <2>3. CASE files' = files /\ opened' = opened
      BY <1>1, <1>2, <2>1, <2>3
    <2> QED
      BY <1>5, <2>2, <2>3 DEF OpenStagedFile
  <1>6. ASSUME NEW w \in Workers, WriteStagedFile(w) \/ WriteFails(w)
        PROVE  Goal
    <2>1. /\ opened' = opened \ {w} /\ task' = task
          /\ \A u \in Workers : u # w => pc'[u] = pc[u]
      BY <1>6 DEF WriteStagedFile, WriteFails
    <2>2. \A p \in Paths : files[p] # None => files'[p] # None
      <3>1. task[w] \in IngestTasks
        BY <1>6 DEF WriteStagedFile, WriteFails, Control, IngestLabels
      <3>2. StagingPath(w) \in Paths /\ (w \in opened => files[StagingPath(w)] \in Contents)
        BY <3>1, PathFacts DEF OpenFiles
      <3> QED
        BY <1>6, <3>1, <3>2 DEF WriteStagedFile, WriteFails
    <2> QED
      BY <1>1, <1>2, <2>1, <2>2
  <1>7. ASSUME NEW w \in Workers, CleanupStaging(w) \/ RemoveStagingDir(w)
        PROVE  Goal
    <2>1. /\ v \in opened /\ task' = task /\ pc[w] # "write"
          /\ \A u \in Workers : u # w => pc'[u] = pc[u]
          /\ files'[StagingPath(v)] = files[StagingPath(v)]
      <3>1. v \in opened
        BY <1>7 DEF CleanupStaging, RemoveStagingDir, Unlink
      <3> QED
        BY <1>2, <1>7, <3>1 DEF CleanupStaging, RemoveStagingDir, Unlink
    <2> QED
      BY <1>1, <1>2, <2>1
  <1>8. ASSUME NEW i \in Instances, Crash(i)
        PROVE  Goal
    <2>1. v \in opened /\ Host[v] # i
      BY <1>8 DEF Crash
    <2>2. pc'[v] = pc[v] /\ task'[v] = task[v]
      BY <1>2, <1>8, <2>1 DEF Crash, Finish
    <2>3. files'[StagingPath(v)] = files[StagingPath(v)]
      BY <1>2, <1>8, <2>1 DEF Crash, StagingPath
    <2> QED
      BY <1>1, <1>2, <2>1, <2>2, <2>3
  <1>9. ASSUME NEW t \in Tasks, NEW w \in Workers, Dispatch(t, w)
        PROVE  Goal
    <2>1. /\ files' = files /\ opened' = opened /\ pc[w] = "idle"
          /\ \A u \in Workers : u # w => pc'[u] = pc[u] /\ task'[u] = task[u]
      BY <1>9 DEF Dispatch, Begin
    <2> QED
      BY <1>1, <1>2, <2>1
  <1>10. ASSUME NEW s \in Sources, Reclassify(s)
         PROVE  Goal
    BY <1>1, <1>2, <1>10 DEF Reclassify
  <1>11. CASE UNCHANGED vars
    BY <1>1, <1>2, <1>11 DEF vars
  <1> QED
    BY <1>3, <1>4, <1>5, <1>6, <1>7, <1>8, <1>9, <1>10, <1>11
       DEF Next, Work, IngestStep, DeleteStep, Fault

LEMMA CtlNext == CtlInv /\ [Next]_vars => CtlInv'
  BY TypedNext, OpenFilesNext DEF CtlInv

\* Types and control state hold throughout.
THEOREM TypeCorrect == Spec => []TypeOK
  <1>1. Spec => []CtlInv
    BY CtlInit, CtlNext, PTL DEF Spec
  <1>2. CtlInv => TypeOK
    BY DEF CtlInv, Typed
  <1> QED
    BY <1>1, <1>2, PTL

-----------------------------------------------------------------------------
(* How a step can touch the database, the answers and the ids. *)

\* The index and the set of sources stay as they are.
Quiet ==
    /\ UNCHANGED <<documents, chunks, audit>>
    /\ \A r \in Sources : Exists(r)' <=> Exists(r)
    /\ \A r \in Sources : status'[r] = "ready" => status[r] = "ready"

\* The second transaction of w commits, acknowledged or not.
Persisting(w) ==
    /\ pc[w] = "persist"
    /\ Exists(SourceOf[task[w]])
    /\ StoreDocument(w)
    /\ GoTo(w, "reply") \/ GoTo(w, "failed")
    /\ UNCHANGED <<queueVars, localVars>>

LEMMA StepKinds ==
    ASSUME CtlInv, [Next]_vars
    PROVE  \/ Quiet
           \/ \E w \in Workers : Persisting(w)
           \/ \E w \in Workers : DeleteSource(w)
  <1> USE DEF CtlInv, Typed, TypeOK, DatabaseTypeOK, dbVars
  <1>1. ASSUME NEW w \in Workers,
               MarkProcessing(w) \/ RecordFailure(w)
        PROVE  Quiet
    <2>1. SourceOf[task[w]] \in Sources
      BY <1>1 DEF MarkProcessing, RecordFailure, Control, IngestLabels, Tasks
    <2>2. \/ status' = status
          \/ \E v \in {"processing", "failed"} : SetStatus(SourceOf[task[w]], v)
      BY <1>1 DEF MarkProcessing, RecordFailure
    <2>3. \A r \in Sources : Exists(r)' <=> Exists(r)
      BY <2>1, <2>2, SetStatusFacts DEF Statuses, Exists
    <2>4. \A r \in Sources : status'[r] = "ready" => status[r] = "ready"
      BY <2>1, <2>2 DEF SetStatus
    <2> QED
      BY <1>1, <2>3, <2>4 DEF Quiet, MarkProcessing, RecordFailure
  <1>2. ASSUME NEW w \in Workers,
               Persist(w) \/ PersistUnacknowledged(w)
        PROVE  Quiet \/ Persisting(w)
    BY <1>2 DEF Persist, PersistUnacknowledged, Quiet, Persisting, Exists
  <1>3. ASSUME NEW w \in Workers,
               \/ CheckIdempotency(w) \/ MakeStagingDir(w) \/ OpenStagedFile(w)
               \/ WriteStagedFile(w) \/ ParseAndEmbed(w) \/ CleanupStaging(w) \/ PruneStagingDir(w) \/ RemoveStagingDir(w)
               \/ CountChunks(w)
               \/ Reply(w) \/ ReplyLost(w) \/ WriteFails(w) \/ DatabaseError(w)
               \/ DeleteError(w)
        PROVE  Quiet
    BY <1>3 DEF CheckIdempotency, MakeStagingDir, OpenStagedFile, WriteStagedFile, ParseAndEmbed,
                CleanupStaging, PruneStagingDir, RemoveStagingDir, AfterStaging,
                CountChunks, Reply, ReplyLost, WriteFails,
                DatabaseError, DeleteError, Quiet, Exists
  <1>4. ASSUME NEW t \in Tasks, NEW w \in Workers, Dispatch(t, w)
        PROVE  Quiet
    BY <1>4 DEF Dispatch, Quiet, Exists
  <1>5. ASSUME NEW i \in Instances, Crash(i)
        PROVE  Quiet
    BY <1>5 DEF Crash, Quiet, Exists
  <1>6. ASSUME NEW s \in Sources, Reclassify(s)
        PROVE  Quiet
    BY <1>6 DEF Reclassify, Quiet, Exists
  <1>7. CASE UNCHANGED vars
    BY <1>7 DEF vars, Quiet, Exists
  <1> QED
    BY <1>1, <1>2, <1>3, <1>4, <1>5, <1>6, <1>7
       DEF Next, Work, IngestStep, DeleteStep, Fault

\* The attempt of slot v goes on under its id and cannot return to a step
\* before its insertion, or the slot is idle afterwards.
KeepsId(v) ==
    \/ pc'[v] = "idle"
    \/ /\ pc[v] # "idle" /\ AttemptId(v)' = AttemptId(v)
       /\ pc'[v] \in InsertLabels => pc[v] \in InsertLabels

\* Only a dispatch gives a slot a new id.
LEMMA StepIds ==
    ASSUME CtlInv, [Next]_vars
    PROVE  \/ \E t \in Tasks, w \in Workers : Dispatch(t, w)
           \/ dispatched' = dispatched /\ \A v \in Workers : KeepsId(v)
  <1>1. ASSUME NEW w \in Workers,
               \/ CheckIdempotency(w) \/ MarkProcessing(w) \/ MakeStagingDir(w)
               \/ OpenStagedFile(w)
               \/ WriteStagedFile(w) \/ ParseAndEmbed(w) \/ CleanupStaging(w)
               \/ PruneStagingDir(w) \/ RemoveStagingDir(w)
               \/ Persist(w) \/ CountChunks(w) \/ DeleteSource(w)
               \/ WriteFails(w) \/ PersistUnacknowledged(w) \/ DatabaseError(w)
        PROVE  dispatched' = dispatched /\ \A v \in Workers : KeepsId(v)
    BY <1>1 DEF CtlInv, Typed, TypeOK, LocalTypeOK, KeepsId, AttemptId, InsertLabels,
                IngestLabels, DeleteLabels, queueVars, localVars, GoTo,
                CheckIdempotency, MarkProcessing, MakeStagingDir, OpenStagedFile, WriteStagedFile,
                ParseAndEmbed, CleanupStaging, PruneStagingDir, RemoveStagingDir, AfterStaging,
                Persist, CountChunks, DeleteSource,
                WriteFails, PersistUnacknowledged, DatabaseError
  <1>2. ASSUME NEW w \in Workers,
               RecordFailure(w) \/ Reply(w) \/ ReplyLost(w) \/ DeleteError(w)
        PROVE  dispatched' = dispatched /\ \A v \in Workers : KeepsId(v)
    BY <1>2 DEF KeepsId, AttemptId, queueVars, RecordFailure, Reply, ReplyLost,
                DeleteError, Finish
  <1>3. ASSUME NEW i \in Instances, Crash(i)
        PROVE  dispatched' = dispatched /\ \A v \in Workers : KeepsId(v)
    BY <1>3 DEF KeepsId, AttemptId, queueVars, Crash, Finish
  <1>4. ASSUME NEW s \in Sources, Reclassify(s)
        PROVE  dispatched' = dispatched /\ \A v \in Workers : KeepsId(v)
    BY <1>4 DEF KeepsId, AttemptId, queueVars, Reclassify
  <1>5. ASSUME UNCHANGED vars
        PROVE  dispatched' = dispatched /\ \A v \in Workers : KeepsId(v)
    BY <1>5 DEF vars, queueVars, localVars, KeepsId, AttemptId
  <1> QED
    BY <1>1, <1>2, <1>3, <1>4, <1>5 DEF Next, Work, IngestStep, DeleteStep, Fault

\* An attempt starts to answer 200 only by finding or storing its document or
\* by deleting its source.
LEMMA StepReplies ==
    ASSUME CtlInv, [Next]_vars, NEW v \in Workers, pc'[v] = "reply"
    PROVE  /\ task'[v] = task[v]
           /\ pc[v] = "reply" \/ CheckIdempotency(v) \/ Persist(v) \/ DeleteSource(v)
  <1> USE DEF CtlInv, Typed, TypeOK, LocalTypeOK, queueVars, localVars, GoTo, Finish
  <1>1. ASSUME NEW t \in Tasks, NEW w \in Workers, Dispatch(t, w)
        PROVE  pc[v] = "reply" /\ task'[v] = task[v]
    BY <1>1 DEF Dispatch, Begin
  <1>2. ASSUME NEW w \in Workers,
               CheckIdempotency(w) \/ Persist(w) \/ DeleteSource(w)
        PROVE  (v = w \/ pc[v] = "reply") /\ task'[v] = task[v]
    BY <1>2 DEF CheckIdempotency, Persist, DeleteSource
  <1>3. ASSUME NEW w \in Workers,
               \/ MarkProcessing(w) \/ MakeStagingDir(w) \/ OpenStagedFile(w)
               \/ WriteStagedFile(w) \/ ParseAndEmbed(w) \/ CleanupStaging(w) \/ PruneStagingDir(w) \/ RemoveStagingDir(w)
               \/ RecordFailure(w)
               \/ CountChunks(w) \/ Reply(w) \/ ReplyLost(w) \/ WriteFails(w)
               \/ PersistUnacknowledged(w) \/ DatabaseError(w) \/ DeleteError(w)
        PROVE  pc[v] = "reply" /\ task'[v] = task[v]
    BY <1>3 DEF MarkProcessing, MakeStagingDir, OpenStagedFile, WriteStagedFile, ParseAndEmbed,
                CleanupStaging, PruneStagingDir, RemoveStagingDir, AfterStaging,
                RecordFailure, CountChunks, Reply, ReplyLost,
                WriteFails, PersistUnacknowledged, DatabaseError, DeleteError
  <1>4. ASSUME NEW i \in Instances, Crash(i)
        PROVE  pc[v] = "reply" /\ task'[v] = task[v]
    BY <1>4 DEF Crash
  <1>5. ASSUME NEW s \in Sources, Reclassify(s)
        PROVE  pc[v] = "reply" /\ task'[v] = task[v]
    BY <1>5 DEF Reclassify
  <1>6. CASE UNCHANGED vars
    BY <1>6 DEF vars
  <1> QED
    BY <1>1, <1>2, <1>3, <1>4, <1>5, <1>6 DEF Next, Work, IngestStep, DeleteStep, Fault

\* The queue forgets a task only when an attempt of it answers 200.
LEMMA StepAcks ==
    ASSUME [Next]_vars
    PROVE  acked' = acked \/ \E w \in Workers : Reply(w)
    BY DEF Next, vars, queueVars, Work, IngestStep, DeleteStep, Fault, Dispatch, Crash,
           Reclassify,
           CheckIdempotency, MarkProcessing, MakeStagingDir, OpenStagedFile, WriteStagedFile,
           ParseAndEmbed, CleanupStaging, PruneStagingDir, RemoveStagingDir, AfterStaging,
                Persist, RecordFailure, CountChunks,
           DeleteSource, ReplyLost, WriteFails, PersistUnacknowledged,
           DatabaseError, DeleteError

-----------------------------------------------------------------------------
(* Layer 2: what the database says, and the ids the proof needs. *)

LEMMA FreshInit == Init => FreshIds
  BY DEF Init, FreshIds, InsertLabels, IngestLabels, DeleteLabels

LEMMA FreshNext ==
    ASSUME CtlInv, FreshIds, [Next]_vars
    PROVE  FreshIds'
  <1> USE DEF CtlInv, Typed, TypeOK
  <1>1. ASSUME NEW t \in Tasks, NEW w \in Workers, Dispatch(t, w)
        PROVE  FreshIds'
    <2>1. UNCHANGED <<documents, audit>>
      BY <1>1 DEF Dispatch, dbVars
    <2>2. \A u \in Tasks : dispatched'[u] >= dispatched[u]
      BY <1>1 DEF Dispatch
    <2>3. AttemptId(w)' = <<t, dispatched[t] + 1>>
      BY <1>1 DEF Dispatch, Begin, AttemptId, LocalTypeOK
    <2>4. ASSUME NEW v \in Workers, v # w
          PROVE  AttemptId(v)' = AttemptId(v) /\ pc'[v] = pc[v]
      BY <1>1, <2>4 DEF Dispatch, Begin, AttemptId, LocalTypeOK
    <2>5. ASSUME NEW v \in Workers, v # w, pc[v] # "idle"
          PROVE  AttemptId(v) # <<t, dispatched[t] + 1>>
      BY <2>5 DEF Control, AttemptId, LocalTypeOK
    <2>6. ASSUME NEW r \in documents \cup audit
          PROVE  /\ r.id # <<t, dispatched[t] + 1>>
                 /\ r.id[2] <= dispatched'[r.id[1]]
      <3>1. r.id \in AttemptIds
        BY DEF DatabaseTypeOK, Document, AuditEvent
      <3>2. r.id[1] \in Tasks /\ r.id[2] \in Nat /\ r.id[2] <= dispatched[r.id[1]]
        BY <3>1 DEF AttemptIds, FreshIds
      <3> QED
        BY <3>2, <2>2, <1>1 DEF Dispatch
    <2>7. ASSUME NEW u \in Workers, NEW v \in Workers, pc'[u] # "idle",
                 pc'[v] # "idle", AttemptId(u)' = AttemptId(v)'
          PROVE  u = v
      BY <2>3, <2>4, <2>5, <2>7 DEF FreshIds
    <2>8. ASSUME NEW v \in Workers, pc'[v] \in InsertLabels, NEW r \in documents \cup audit
          PROVE  r.id # AttemptId(v)'
      BY <2>3, <2>4, <2>6, <2>8 DEF FreshIds
    <2>9. \A d1, d2 \in documents' : d1.id = d2.id => d1 = d2
      BY <2>1 DEF FreshIds
    <2> QED
      BY <2>1, <2>6, <2>7, <2>8, <2>9 DEF FreshIds
  <1>2. CASE dispatched' = dispatched /\ \A v \in Workers : KeepsId(v)
    <2>1. \A v, w \in Workers :
            pc'[v] # "idle" /\ pc'[w] # "idle" /\ AttemptId(v)' = AttemptId(w)' => v = w
      BY <1>2 DEF KeepsId, FreshIds
    <2>2. CASE documents' = documents /\ audit' = audit
      BY <1>2, <2>1, <2>2 DEF KeepsId, FreshIds, InsertLabels, IngestLabels,
                              DeleteLabels
    <2>3. ASSUME NEW w \in Workers, pc[w] \in InsertLabels, pc'[w] \notin InsertLabels,
                 NEW doc, documents' \subseteq documents \cup {doc}, doc.id = AttemptId(w),
                 NEW event, audit' = audit \cup {event}, event.id = AttemptId(w)
          PROVE  FreshIds'
      <3>1. \A r \in documents \cup audit : r.id # AttemptId(w)
        BY <2>3 DEF FreshIds
      <3>2. \A d1, d2 \in documents' : d1.id = d2.id => d1 = d2
        BY <2>3, <3>1 DEF FreshIds
      <3>3. AttemptId(w)[2] <= dispatched[AttemptId(w)[1]]
        BY <2>3 DEF Control, AttemptId, LocalTypeOK, InsertLabels, IngestLabels,
                    DeleteLabels
      <3>4. \A r \in documents' \cup audit' : r.id[2] <= dispatched'[r.id[1]]
        BY <1>2, <2>3, <3>3 DEF FreshIds
      <3>5. ASSUME NEW v \in Workers, pc'[v] \in InsertLabels,
                   NEW r \in documents' \cup audit'
            PROVE  r.id # AttemptId(v)'
        <4>1. v # w /\ pc[v] # "idle" /\ pc[v] \in InsertLabels
                    /\ AttemptId(v)' = AttemptId(v)
          BY <1>2, <2>3, <3>5 DEF KeepsId, InsertLabels, IngestLabels, DeleteLabels
        <4>2. AttemptId(v) # AttemptId(w)
          BY <2>3, <4>1 DEF FreshIds, InsertLabels, IngestLabels, DeleteLabels
        <4> QED
          BY <2>3, <3>5, <4>1, <4>2 DEF FreshIds
      <3> QED
        BY <2>1, <3>2, <3>4, <3>5 DEF FreshIds
    <2>4. ASSUME NEW w \in Workers, Persisting(w)
          PROVE  FreshIds'
      <3>1. pc[w] \in InsertLabels /\ pc'[w] \notin InsertLabels
        BY <2>4 DEF Persisting, GoTo, LocalTypeOK, InsertLabels, IngestLabels,
                    DeleteLabels
      <3> QED
        BY <2>3, <2>4, <3>1 DEF Persisting, StoreDocument, IngestedEvent
    <2>5. ASSUME NEW w \in Workers, DeleteSource(w)
          PROVE  FreshIds'
      <3>1. pc[w] \in InsertLabels /\ pc'[w] \notin InsertLabels
        BY <2>5 DEF DeleteSource, GoTo, LocalTypeOK, InsertLabels, IngestLabels,
                    DeleteLabels
      <3>2. PICK doc, event :
                /\ documents' \subseteq documents \cup {doc} /\ doc.id = AttemptId(w)
                /\ audit' = audit \cup {event} /\ event.id = AttemptId(w)
        <4> DEFINE event == [event |-> "deletion_verified", id |-> AttemptId(w),
                             source |-> SourceOf[task[w]], chunks |-> counted[w]]
        <4>1. event.id = AttemptId(w) /\ audit' = audit \cup {event}
          BY <2>5 DEF DeleteSource, DeletionEvents
        <4>2. documents' \subseteq documents \cup {event}
          BY <2>5 DEF DeleteSource
        <4> HIDE DEF event
        <4> QED
          BY <4>1, <4>2
      <3> QED
        BY <2>3, <3>1, <3>2
    <2> QED
      BY <2>2, <2>4, <2>5, StepKinds DEF Quiet
  <1> QED
    BY <1>1, <1>2, StepIds

IndexInv == NoOrphans /\ DocumentsAreAudited
AnswerInv == ReplyIsEarned /\ AckedIngestIsStored /\ AckedDeleteIsPurged

\* The insertion of a document leaves the chunks of every other alone, and
\* gives its own exactly the new ones.
LEMMA PersistedChunks ==
    ASSUME CtlInv, FreshIds, NoOrphans, NEW w \in Workers, Persisting(w)
    PROVE  /\ chunks' = chunks \cup NewChunks(w)
           /\ \A d \in documents : ChunksOf(d.id)' = ChunksOf(d.id)
           /\ ChunksOf(AttemptId(w))' = NewChunks(w)
           /\ ChunksOf(AttemptId(w)) = {}
  <1>1. chunks' = chunks \cup NewChunks(w)
    BY DEF Persisting, StoreDocument
  <1>2. \A d \in documents : d.id # AttemptId(w)
    BY DEF Persisting, FreshIds, InsertLabels, IngestLabels
  <1>3. \A c \in chunks : c.document # AttemptId(w)
    BY <1>2 DEF NoOrphans
  <1>4. \A c \in NewChunks(w) : c.document = AttemptId(w)
    BY DEF NewChunks
  <1>5. \A d \in documents : ChunksOf(d.id)' = ChunksOf(d.id)
    BY <1>1, <1>2, <1>4 DEF ChunksOf
  <1>6. ChunksOf(AttemptId(w)) = {}
    BY <1>3 DEF ChunksOf
  <1>7. UNCHANGED AttemptId(w)
    BY DEF Persisting, AttemptId, localVars
  <1>8. ChunksOf(AttemptId(w))' = NewChunks(w)
    BY <1>1, <1>3, <1>4, <1>7 DEF ChunksOf
  <1> QED
    BY <1>1, <1>5, <1>6, <1>8

\* A deletion removes the documents and chunks of its source and keeps every
\* other document with its chunks.
LEMMA DeletedChunks ==
    ASSUME CtlInv, FreshIds, NoOrphans, NEW w \in Workers, DeleteSource(w)
    PROVE  /\ \A c \in chunks' : c \in chunks /\ c.source # SourceOf[task[w]]
           /\ \A d \in documents' : /\ d \in documents /\ d.source # SourceOf[task[w]]
                                    /\ ChunksOf(d.id)' = ChunksOf(d.id)
           /\ \A d \in documents : d.source # SourceOf[task[w]] => d \in documents'
           /\ \A r \in Sources : Exists(r)' <=> Exists(r) /\ r # SourceOf[task[w]]
  <1> DEFINE s == SourceOf[task[w]]
  <1>1. chunks' = AfterCascade(s) /\ documents' = {d \in documents : d.source # s}
    BY DEF DeleteSource
  <1>2. ASSUME NEW d \in documents'
        PROVE  ChunksOf(d.id)' = ChunksOf(d.id)
    <2>1. d \in documents /\ d.source # s
      BY <1>1
    <2>2. ASSUME NEW c \in chunks, c.document = d.id
          PROVE  c \in AfterCascade(s)
      <3>1. c.source = d.source
        BY <2>1, <2>2 DEF NoOrphans, FreshIds
      <3> QED
        BY <2>1, <2>2, <3>1 DEF AfterCascade, FreshIds
    <2> QED
      BY <1>1, <2>2 DEF ChunksOf, AfterCascade
  <1>3. \A r \in Sources : Exists(r)' <=> Exists(r) /\ r # s
    BY DEF DeleteSource, Exists, CtlInv, Typed, TypeOK, DatabaseTypeOK
  <1> QED
    BY <1>1, <1>2, <1>3 DEF AfterCascade

LEMMA IndexInit == Init => IndexInv
  BY DEF Init, IndexInv, NoOrphans, DocumentsAreAudited

LEMMA IndexNext ==
    ASSUME CtlInv, FreshIds, IndexInv, [Next]_vars
    PROVE  IndexInv'
  <1> USE DEF IndexInv
  <1>1. \A d \in documents : d.source \in Sources
    BY DEF CtlInv, Typed, TypeOK, DatabaseTypeOK, Document
  <1>2. CASE Quiet
    <2>1. NoOrphans'
      BY <1>1, <1>2 DEF Quiet, NoOrphans
    <2>2. DocumentsAreAudited'
      <3>1. ASSUME NEW d \in documents
            PROVE  ChunksOf(d.id)' = ChunksOf(d.id)
        BY <1>2 DEF Quiet, ChunksOf
      <3>2. documents' = documents /\ audit' = audit
        BY <1>2 DEF Quiet
      <3> QED
        BY <3>1, <3>2 DEF DocumentsAreAudited
    <2> QED
      BY <2>1, <2>2
  <1>3. ASSUME NEW w \in Workers, Persisting(w)
        PROVE  IndexInv'
    <2> DEFINE s == SourceOf[task[w]]
               new == [id |-> AttemptId(w), source |-> s, hash |-> ContentOf[task[w]]]
               event == [event |-> "document_ingested", id |-> AttemptId(w),
                         source |-> s, chunks |-> ChunkCount[text[w]]]
    <2>1. /\ documents' = documents \cup {new} /\ audit' = audit \cup {event}
          /\ new.id = AttemptId(w) /\ new.source = s
          /\ event.id = AttemptId(w) /\ event.source = s
          /\ event.event = "document_ingested"
          /\ event.chunks = ChunkCount[text[w]]
      BY <1>3 DEF Persisting, StoreDocument, IngestedEvent
    <2>2. s \in Sources /\ text[w] \in Contents
      BY <1>3 DEF CtlInv, Typed, TypeOK, LocalTypeOK, Control, IngestLabels, Persisting, Tasks
    <2>3. \A r \in Sources : Exists(r)' <=> Exists(r)
      BY <1>3, <2>2, SetStatusFacts
         DEF Persisting, StoreDocument, CtlInv, Typed, TypeOK, DatabaseTypeOK, Statuses
    <2>4. \A c \in NewChunks(w) :
            c.document = AttemptId(w) /\ c.source = s /\ c.tag = tag[w] /\ c.text = text[w]
      BY DEF NewChunks
    <2>5. Exists(s)
      BY <1>3 DEF Persisting
    <2> HIDE DEF s, new, event
    <2>6. NoOrphans'
      <3>1. \A c \in chunks' : \E d \in documents' : d.id = c.document /\ d.source = c.source
        BY <1>3, <2>1, <2>4, PersistedChunks DEF NoOrphans
      <3>2. \A d \in documents' : Exists(d.source)'
        BY <1>1, <2>1, <2>2, <2>3, <2>5 DEF NoOrphans
      <3> QED
        BY <3>1, <3>2 DEF NoOrphans
    <2>7. DocumentsAreAudited'
      <3>1. ASSUME NEW d \in documents
            PROVE  \E e \in audit' :
                        /\ e.event = "document_ingested"
                        /\ e.id = d.id /\ e.source = d.source
                        /\ e.chunks = Cardinality(ChunksOf(d.id)')
                        /\ \A c1, c2 \in ChunksOf(d.id)' :
                                c1.tag = c2.tag /\ c1.text = c2.text
        BY <1>3, <2>1, PersistedChunks DEF DocumentsAreAudited
      <3>2. Cardinality(NewChunks(w)) = ChunkCount[text[w]]
        BY <2>2, NewChunksFinite
      <3>3. /\ event \in audit'
            /\ event.event = "document_ingested"
            /\ event.id = new.id /\ event.source = new.source
            /\ event.chunks = Cardinality(NewChunks(w))
            /\ \A c1, c2 \in NewChunks(w) : c1.tag = c2.tag /\ c1.text = c2.text
        BY <2>1, <2>4, <3>2
      <3>4. ASSUME NEW d \in documents'
            PROVE  \E e \in audit' :
                        /\ e.event = "document_ingested"
                        /\ e.id = d.id /\ e.source = d.source
                        /\ e.chunks = Cardinality(ChunksOf(d.id)')
                        /\ \A c1, c2 \in ChunksOf(d.id)' :
                                c1.tag = c2.tag /\ c1.text = c2.text
        <4>1. CASE d \in documents
          BY <3>1, <4>1
        <4>2. CASE d = new
          <5>1. ChunksOf(d.id)' = NewChunks(w)
            BY <1>3, <2>1, <2>4, <4>2, PersistedChunks DEF ChunksOf
          <5> QED
            BY <3>3, <4>2, <5>1
        <4> QED
          BY <2>1, <4>1, <4>2
      <3> QED
        BY <3>4 DEF DocumentsAreAudited, ChunksOf
    <2> QED
      BY <2>6, <2>7
  <1>4. ASSUME NEW w \in Workers, DeleteSource(w)
        PROVE  IndexInv'
    <2>1. NoOrphans'
      <3>1. ASSUME NEW c \in chunks'
            PROVE  \E d \in documents' : d.id = c.document /\ d.source = c.source
        BY <1>4, <3>1, DeletedChunks DEF NoOrphans
      <3>2. ASSUME NEW d \in documents'
            PROVE  Exists(d.source)'
        BY <1>1, <1>4, <3>2, DeletedChunks DEF NoOrphans
      <3> QED
        BY <3>1, <3>2 DEF NoOrphans
    <2>2. DocumentsAreAudited'
      <3>1. audit \subseteq audit'
        BY <1>4 DEF DeleteSource
      <3>2. ASSUME NEW d \in documents'
            PROVE  \E e \in audit' :
                        /\ e.event = "document_ingested"
                        /\ e.id = d.id /\ e.source = d.source
                        /\ e.chunks = Cardinality(ChunksOf(d.id)')
                        /\ \A c1, c2 \in ChunksOf(d.id)' :
                                c1.tag = c2.tag /\ c1.text = c2.text
        BY <1>4, <3>1, DeletedChunks DEF DocumentsAreAudited
      <3> QED
        BY <3>2 DEF DocumentsAreAudited, ChunksOf
    <2> QED
      BY <2>1, <2>2
  <1> QED
    BY <1>2, <1>3, <1>4, StepKinds

\* A stored upload stays stored until its source is deleted, and a deleted
\* source stays deleted.
LEMMA StoredStays ==
    ASSUME CtlInv, FreshIds, IndexInv, [Next]_vars, NEW t \in Tasks
    PROVE  /\ ~ Exists(SourceOf[t]) => ~ Exists(SourceOf[t])'
           /\ t \in IngestTasks /\ SameDocuments(t) # {} =>
                SameDocuments(t)' # {} \/ ~ Exists(SourceOf[t])'
  <1> DEFINE s == SourceOf[t]
  <1>1. s \in Sources
    BY TaskFacts
  <1>2. CASE Quiet
    BY <1>1, <1>2 DEF Quiet, SameDocuments, Exists
  <1>3. ASSUME NEW w \in Workers, Persisting(w)
        PROVE  (Exists(s)' <=> Exists(s)) /\ documents \subseteq documents'
    <2>1. SourceOf[task[w]] \in Sources
      BY <1>3 DEF CtlInv, Typed, TypeOK, LocalTypeOK, Control, IngestLabels, Persisting, Tasks
    <2> QED
      BY <1>1, <1>3, <2>1, SetStatusFacts
         DEF Persisting, StoreDocument, CtlInv, Typed, TypeOK, DatabaseTypeOK, Statuses, Exists
  <1>4. ASSUME NEW w \in Workers, DeleteSource(w)
        PROVE  /\ ~ Exists(s) => ~ Exists(s)'
               /\ Exists(s)' => \A d \in documents : d.source = s => d \in documents'
    BY <1>1, <1>4, DeletedChunks DEF IndexInv, Exists
  <1> QED
    BY <1>2, <1>3, <1>4, StepKinds DEF SameDocuments, Exists

LEMMA AnswerInit == Init => AnswerInv
  BY DEF Init, AnswerInv, ReplyIsEarned, AckedIngestIsStored, AckedDeleteIsPurged

LEMMA AnswerNext ==
    ASSUME CtlInv, FreshIds, IndexInv, IndexInv', AnswerInv, [Next]_vars
    PROVE  AnswerInv'
  <1> USE DEF AnswerInv
  <1>1. ASSUME NEW v \in Workers, pc'[v] = "reply", NEW t, t = task'[v]
        PROVE  \/ t \in IngestTasks /\ SameDocuments(t)' # {}
               \/ ~ Exists(SourceOf[t])'
    <2>1. t = task[v]
      BY <1>1, StepReplies
    <2>2. CASE pc[v] = "reply"
      <3>1. t \in Tasks
        BY <2>1, <2>2 DEF CtlInv, Typed, TypeOK, LocalTypeOK, Control
      <3>2. (t \in IngestTasks /\ SameDocuments(t) # {}) \/ ~ Exists(SourceOf[t])
        BY <2>1, <2>2 DEF ReplyIsEarned
      <3> QED
        BY <3>1, <3>2, StoredStays
    <2>3. CASE CheckIdempotency(v)
      <3>1. t \in IngestTasks
        BY <2>1, <2>3 DEF CheckIdempotency, CtlInv, Typed, Control, IngestLabels
      <3>2. SameDocuments(t) # {}
        BY <1>1, <2>1, <2>3 DEF CheckIdempotency, GoTo, CtlInv, Typed, TypeOK, LocalTypeOK
      <3>3. documents' = documents
        BY <2>3 DEF CheckIdempotency, dbVars
      <3> QED
        BY <3>1, <3>2, <3>3 DEF SameDocuments
    <2>4. CASE Persist(v)
      <3>1. t \in IngestTasks
        BY <2>1, <2>4 DEF Persist, CtlInv, Typed, Control, IngestLabels
      <3>2. StoreDocument(v)
        BY <1>1, <2>4 DEF Persist, GoTo, CtlInv, Typed, TypeOK, LocalTypeOK
      <3> DEFINE new == [id |-> AttemptId(v), source |-> SourceOf[t],
                         hash |-> ContentOf[t]]
      <3>3. new \in documents' /\ new.source = SourceOf[t] /\ new.hash = ContentOf[t]
        BY <2>1, <3>2 DEF StoreDocument
      <3> HIDE DEF new
      <3> QED
        BY <3>1, <3>3 DEF SameDocuments
    <2>5. CASE DeleteSource(v)
      <3>1. SourceOf[t] \in Sources
        BY <2>1, <2>5 DEF DeleteSource, CtlInv, Typed, Control, DeleteLabels, Tasks
      <3>2. ~ Exists(SourceOf[t])'
        BY <2>1, <2>5, <3>1 DEF DeleteSource, Exists, CtlInv, Typed, TypeOK, DatabaseTypeOK
      <3> QED
        BY <3>2
    <2> QED
      BY <1>1, <2>2, <2>3, <2>4, <2>5, StepReplies
  <1>2. ReplyIsEarned'
    BY <1>1 DEF ReplyIsEarned, Exists, SameDocuments
  <1>3. ASSUME NEW t \in acked'
        PROVE  \/ t \in IngestTasks /\ SameDocuments(t)' # {}
               \/ ~ Exists(SourceOf[t])'
    <2>1. CASE t \in acked
      <3>1. t \in Tasks
        BY <2>1 DEF CtlInv, Typed, TypeOK
      <3>2. \/ t \in IngestTasks /\ SameDocuments(t) # {}
            \/ ~ Exists(SourceOf[t])
        BY <2>1, <3>1 DEF AckedIngestIsStored, AckedDeleteIsPurged, Tasks
      <3> QED
        BY <3>1, <3>2, StoredStays
    <2>2. ASSUME NEW w \in Workers, Reply(w), t = task[w]
          PROVE  \/ t \in IngestTasks /\ SameDocuments(t)' # {}
                 \/ ~ Exists(SourceOf[t])'
      <3>1. pc[w] = "reply"
        BY <2>2 DEF Reply
      <3>2. t \in Tasks
        BY <2>2, <3>1 DEF CtlInv, Typed, TypeOK, LocalTypeOK, Control
      <3> QED
        BY <2>2, <3>1, <3>2, StoredStays DEF ReplyIsEarned
    <2> QED
      BY <2>1, <2>2, StepAcks DEF Reply
  <1>4. AckedIngestIsStored'
    BY <1>3 DEF AckedIngestIsStored, Exists
  <1>5. AckedDeleteIsPurged'
    <2>1. ASSUME NEW t \in DeleteTasks, t \in acked'
          PROVE  ~ Exists(SourceOf[t])'
      BY <1>3, <2>1
    <2>2. ASSUME NEW t \in DeleteTasks, t \in acked'
          PROVE  ChunksIn(SourceOf[t])' = {}
      BY <2>1, <2>2 DEF IndexInv, NoOrphans, ChunksIn, Exists
    <2> QED
      BY <2>1, <2>2 DEF AckedDeleteIsPurged, Exists, ChunksIn
  <1> QED
    BY <1>2, <1>4, <1>5

-----------------------------------------------------------------------------
(* The theorems. *)

LEMMA LayersInvariant == Spec => [](CtlInv /\ FreshIds /\ IndexInv /\ AnswerInv)
  <1> DEFINE Inv == CtlInv /\ FreshIds /\ IndexInv /\ AnswerInv
  <1>1. Init => Inv
    BY CtlInit, FreshInit, IndexInit, AnswerInit
  <1>2. Inv /\ [Next]_vars => Inv'
    BY CtlNext, FreshNext, IndexNext, AnswerNext
  <1> QED
    BY <1>1, <1>2, PTL DEF Spec

\* The inductive invariant that the runs check holds for all constants.
THEOREM InductiveInvariant == Spec => []IInv
  <1>1. CtlInv /\ FreshIds /\ IndexInv /\ AnswerInv => IInv
    BY DEF CtlInv, Typed, IndexInv, AnswerInv, IInv
  <1> QED
    BY <1>1, LayersInvariant, PTL

\* No ingest brings back anything of a source that was deleted under it: every
\* chunk has its document, every document its source.
THEOREM IndexHasNoOrphans == Spec => []NoOrphans
  <1>1. IInv => NoOrphans
    BY DEF IInv
  <1> QED
    BY <1>1, InductiveInvariant, PTL

\* Whatever fails, an upload the queue was told is done is in the database, or
\* its source was deleted.
THEOREM AnswersAreEarned == Spec => [](AckedIngestIsStored /\ AckedDeleteIsPurged)
  <1>1. IInv => AckedIngestIsStored /\ AckedDeleteIsPurged
    BY DEF IInv
  <1> QED
    BY <1>1, InductiveInvariant, PTL

\* A delete the queue was told is done has purged its source, and no retry of an
\* ingest brings it back.
THEOREM DeletesArePurged == Spec => []AckedDeleteIsPurged
  <1>1. IInv => AckedDeleteIsPurged
    BY DEF IInv
  <1> QED
    BY <1>1, InductiveInvariant, PTL

\* Every document in the index has an audit event with its true chunk count.
THEOREM AuditExplainsIndex == Spec => []DocumentsAreAudited
  <1>1. IInv => DocumentsAreAudited
    BY DEF IInv
  <1> QED
    BY <1>1, InductiveInvariant, PTL

\* The status becomes "ready" with a document, and documents go with their source.
LEMMA ReadyStep ==
    ASSUME CtlInv, ReadyHasDocument, [Next]_vars
    PROVE  ReadyHasDocument'
  <1> USE DEF CtlInv, Typed, TypeOK, DatabaseTypeOK
  <1>1. CASE Quiet
    BY <1>1 DEF Quiet, ReadyHasDocument
  <1>2. ASSUME NEW w \in Workers, Persisting(w)
        PROVE  ReadyHasDocument'
    <2> DEFINE new == [id |-> AttemptId(w), source |-> SourceOf[task[w]],
                       hash |-> ContentOf[task[w]]]
    <2>1. new \in documents' /\ documents \subseteq documents'
      BY <1>2 DEF Persisting, StoreDocument
    <2>2. new.source = SourceOf[task[w]]
      OBVIOUS
    <2>3. \A s \in Sources : s # SourceOf[task[w]] => status'[s] = status[s]
      BY <1>2 DEF Persisting, StoreDocument, SetStatus
    <2> HIDE DEF new
    <2> QED
      BY <2>1, <2>2, <2>3 DEF ReadyHasDocument
  <1>3. ASSUME NEW w \in Workers, DeleteSource(w)
        PROVE  ReadyHasDocument'
    <2>1. \A s \in Sources : status'[s] = "ready" =>
              s # SourceOf[task[w]] /\ status[s] = "ready"
      BY <1>3 DEF DeleteSource
    <2> QED
      BY <1>3, <2>1 DEF DeleteSource, ReadyHasDocument
  <1> QED
    BY <1>1, <1>2, <1>3, StepKinds

\* A source that shows "ready" has a document, whatever attempts and failures write
\* to its status column and in whatever order.
THEOREM ReadySourcesHaveDocuments == Spec => []ReadyHasDocument
  <1> DEFINE Inv == CtlInv /\ FreshIds /\ IndexInv /\ AnswerInv
  <1>1. Init => ReadyHasDocument
    BY DEF Init, ReadyHasDocument
  <1>2. Inv /\ ReadyHasDocument /\ [Next]_vars => ReadyHasDocument'
    BY ReadyStep
  <1> QED
    BY <1>1, <1>2, LayersInvariant, PTL DEF Spec

\* A document disappears only with its source, and that deletion is audited.
THEOREM DeletionIsAudited == Spec => OnlyAuditedDeletion
  <1> DEFINE Inv == CtlInv /\ FreshIds /\ IndexInv /\ AnswerInv
             Audited == \A d \in documents \ documents' :
                            /\ status'[d.source] = "gone"
                            /\ \E e \in audit' \ audit :
                                  e.event = "deletion_verified" /\ e.source = d.source
  <1>1. ASSUME Inv, [Next]_vars
        PROVE  Audited
    <2>1. CASE documents \subseteq documents'
      BY <2>1
    <2>2. ASSUME NEW w \in Workers, DeleteSource(w)
          PROVE  Audited
      <3>1. /\ SourceOf[task[w]] \in Sources
            /\ pc[w] \in InsertLabels
        BY <1>1, <2>2 DEF DeleteSource, CtlInv, Typed, TypeOK, LocalTypeOK, Control, DeleteLabels,
                    InsertLabels, Tasks
      <3>2. status'[SourceOf[task[w]]] = "gone"
        BY <1>1, <2>2, <3>1 DEF DeleteSource, CtlInv, Typed, TypeOK, DatabaseTypeOK
      <3>3. \E e \in audit' \ audit :
                e.event = "deletion_verified" /\ e.source = SourceOf[task[w]]
        <4> DEFINE new == [event |-> "deletion_verified", id |-> AttemptId(w),
                           source |-> SourceOf[task[w]], chunks |-> counted[w]]
        <4>1. /\ new \in audit' /\ new.event = "deletion_verified"
              /\ new.source = SourceOf[task[w]] /\ new.id = AttemptId(w)
          BY <2>2 DEF DeleteSource, DeletionEvents
        <4>2. \A e \in audit : e.id # AttemptId(w)
          BY <1>1, <3>1 DEF FreshIds
        <4> HIDE DEF new
        <4> QED
          BY <4>1, <4>2
      <3>4. \A d \in documents \ documents' : d.source = SourceOf[task[w]]
        BY <2>2 DEF DeleteSource
      <3> QED
        BY <3>2, <3>3, <3>4
    <2> QED
      BY <1>1, <2>1, <2>2, StepKinds DEF Quiet, Persisting, StoreDocument
  <1>2. Inv /\ [Next]_vars => [Audited]_vars
    BY <1>1
  <1> QED
    BY <1>2, LayersInvariant, PTL DEF Spec, OnlyAuditedDeletion

-----------------------------------------------------------------------------
(* Refinement: the worker implements the abstract index. *)

View == [s \in Sources |-> SourceView(s)]

LEMMA RefinementInit == Init => Index!Init
  BY DEF Init, Index!Init, LiveSources, SourceView, Exists

LEMMA RefinementStep ==
    ASSUME CtlInv, FreshIds, IndexInv, IndexInv', [Next]_vars
    PROVE  [Index!Next]_(Index!vars)
  <1>1. \A d \in documents : d.source \in Sources
    BY DEF CtlInv, Typed, TypeOK, DatabaseTypeOK, Document
  <1>2. CASE Quiet
    <2>1. LiveSources' = LiveSources
      BY <1>2 DEF Quiet, LiveSources
    <2>2. ASSUME NEW s \in Sources
          PROVE  SourceView(s)' = SourceView(s)
      BY <1>2 DEF Quiet, SourceView, DocumentView, ChunksOf
    <2> QED
      BY <2>1, <2>2 DEF Index!vars
  <1>3. ASSUME NEW w \in Workers, Persisting(w),
               NEW id, id = AttemptId(w), NEW s, s = SourceOf[task[w]],
               NEW h, h = ContentOf[task[w]]
        PROVE  Index!Next
    <2> DEFINE new == [id |-> id, source |-> s, hash |-> h]
               d == [id |-> id, chunks |-> NewChunks(w)]
    <2>1. documents' = documents \cup {new} /\ new.id = id /\ new.source = s
      BY <1>3 DEF Persisting, StoreDocument
    <2>2. s \in Sources /\ text[w] \in Contents
      BY <1>3 DEF CtlInv, Typed, TypeOK, LocalTypeOK, Control, IngestLabels, Persisting, Tasks
    <2>3. \A r \in Sources : Exists(r)' <=> Exists(r)
      BY <1>3, <2>2, SetStatusFacts
         DEF Persisting, StoreDocument, CtlInv, Typed, TypeOK, DatabaseTypeOK, Statuses
    <2>4. LiveSources' = LiveSources /\ s \in LiveSources
      BY <1>3, <2>2, <2>3 DEF LiveSources, Persisting
    <2>5. \A e \in documents : e.id # id /\ ChunksOf(e.id)' = ChunksOf(e.id)
      BY <1>3, PersistedChunks DEF IndexInv, Persisting, FreshIds, InsertLabels,
                                   IngestLabels
    <2>6. ChunksOf(id)' = NewChunks(w)
      <3>1. chunks' = chunks \cup NewChunks(w) /\ ChunksOf(id) = {}
        BY <1>3, PersistedChunks DEF IndexInv
      <3>2. \A c \in NewChunks(w) : c.document = id
        BY <1>3 DEF NewChunks
      <3> QED
        BY <3>1, <3>2 DEF ChunksOf
    <2> HIDE DEF new, d
    <2>7. ASSUME NEW e \in documents
          PROVE  DocumentView(e)' = DocumentView(e)
      BY <2>5 DEF DocumentView
    <2>8. DocumentView(new)' = d
      <3>1. ASSUME NEW e, e.id = id
            PROVE  DocumentView(e)' = d
        BY <2>6, <3>1 DEF DocumentView, d
      <3> QED
        BY <2>1, <3>1 DEF new, DocumentView
    <2>9. SourceView(s)' = SourceView(s) \cup {d}
      BY <2>1, <2>7, <2>8 DEF SourceView
    <2>10. \A r \in Sources : r # s => SourceView(r)' = SourceView(r)
      BY <2>1, <2>7 DEF SourceView
    <2>11. View' = [View EXCEPT ![s] = @ \cup {d}]
      BY <2>2, <2>9, <2>10 DEF View
    <2>12. Index!Labelled(s, d)
      <3>1. d.chunks = NewChunks(w)
        BY DEF d
      <3>2. \A c \in NewChunks(w) : c.source = s /\ c.tag = tag[w]
        BY <1>3 DEF NewChunks
      <3> QED
        BY <3>1, <3>2 DEF Index!Labelled
    <2>13. \A e \in SourceView(s) : e.id # d.id
      BY <2>5 DEF SourceView, DocumentView, d
    <2>14. Index!Publish(s, d)
      BY <2>2, <2>4, <2>11, <2>12, <2>13 DEF Index!Publish, View
    <2>15. d \in View'[s]
      BY <2>2, <2>9 DEF View
    <2> QED
      BY <2>2, <2>14, <2>15 DEF Index!Next, View
  <1>4. ASSUME NEW w \in Workers, DeleteSource(w), NEW s, s = SourceOf[task[w]]
        PROVE  Index!Next
    <2>1. s \in Sources
      BY <1>4 DEF DeleteSource, CtlInv, Typed, TypeOK, LocalTypeOK, Control, DeleteLabels, Tasks
    <2>2. /\ \A d \in documents' : /\ d \in documents /\ d.source # s
                                   /\ ChunksOf(d.id)' = ChunksOf(d.id)
          /\ \A d \in documents : d.source # s => d \in documents'
          /\ \A r \in Sources : Exists(r)' <=> Exists(r) /\ r # s
      BY <1>4, DeletedChunks DEF IndexInv
    <2>3. LiveSources' = LiveSources \ {s}
      BY <2>2 DEF LiveSources
    <2>4. SourceView(s)' = {}
      BY <2>2 DEF SourceView
    <2>5. ASSUME NEW d \in documents'
          PROVE  DocumentView(d)' = DocumentView(d)
      BY <2>2 DEF DocumentView
    <2>6. \A r \in Sources : r # s => SourceView(r)' = SourceView(r)
      BY <2>2, <2>5 DEF SourceView
    <2>7. View' = [View EXCEPT ![s] = {}]
      BY <2>1, <2>4, <2>6 DEF View
    <2> QED
      BY <2>1, <2>3, <2>7 DEF Index!Next, Index!Purge, View
  <1> QED
    BY <1>2, <1>3, <1>4, StepKinds

\* The worker implements the abstract index for all tasks, placements and
\* faults: documents appear whole, never change, and go only with their source.
THEOREM IndexIsImplemented == Spec => ImplementsIndex
  <1> DEFINE Inv == CtlInv /\ FreshIds /\ IndexInv /\ AnswerInv
  <1>1. Inv /\ Inv' /\ [Next]_vars => [Index!Next]_(Index!vars)
    BY RefinementStep
  <1> QED
    BY <1>1, RefinementInit, LayersInvariant, PTL DEF Spec, ImplementsIndex, Index!Spec

-----------------------------------------------------------------------------
(* What a step does to one slot: leave it alone, end or begin its attempt, or *)
(* take its attempt further.                                                  *)

Stays(v) ==
    /\ pc'[v] = pc[v] /\ task'[v] = task[v] /\ attempt'[v] = attempt[v]
    /\ tag'[v] = tag[v] /\ text'[v] = text[v] /\ counted'[v] = counted[v]
    /\ before'[v] = before[v]
    /\ seen[v] \subseteq seen'[v]
    /\ v \in shared => v \in shared'

Ends(v) ==
    /\ pc'[v] = "idle" /\ task'[v] = None /\ text'[v] = None

Acts(v) ==
    /\ UNCHANGED <<task, attempt, pastVars, access>>
    /\ \/ CheckIdempotency(v) \/ MarkProcessing(v) \/ MakeStagingDir(v)
       \/ OpenStagedFile(v) \/ WriteStagedFile(v) \/ WriteFails(v)
       \/ ParseAndEmbed(v) \/ CleanupStaging(v) \/ PruneStagingDir(v)
       \/ RemoveStagingDir(v) \/ Persist(v) \/ CountChunks(v) \/ DeleteSource(v)
       \/ PersistUnacknowledged(v) \/ DatabaseError(v)

LEMMA SlotSteps ==
    ASSUME CtlInv, [Next]_vars, NEW v \in Workers
    PROVE  \/ Stays(v) \/ Ends(v) \/ Acts(v)
           \/ \E t \in Tasks : Dispatch(t, v)
  <1> USE DEF CtlInv, Typed, TypeOK, LocalTypeOK, localVars, pastVars, outsideVars
  <1>1. ASSUME NEW w \in Workers,
               \/ CheckIdempotency(w) \/ MarkProcessing(w) \/ MakeStagingDir(w)
               \/ OpenStagedFile(w) \/ WriteStagedFile(w) \/ WriteFails(w)
               \/ ParseAndEmbed(w) \/ CleanupStaging(w) \/ PruneStagingDir(w)
               \/ RemoveStagingDir(w) \/ Persist(w) \/ CountChunks(w) \/ DeleteSource(w)
               \/ PersistUnacknowledged(w) \/ DatabaseError(w)
        PROVE  Stays(v) \/ Acts(v)
    <2>1. /\ UNCHANGED <<task, attempt, pastVars, access>>
          /\ w # v => /\ pc'[v] = pc[v] /\ tag'[v] = tag[v] /\ text'[v] = text[v]
                      /\ counted'[v] = counted[v]
      BY <1>1 DEF CheckIdempotency, MarkProcessing, MakeStagingDir, OpenStagedFile,
             WriteStagedFile, WriteFails, ParseAndEmbed, CleanupStaging, PruneStagingDir,
             RemoveStagingDir, AfterStaging, Persist, CountChunks, DeleteSource,
             PersistUnacknowledged, DatabaseError, GoTo
    <2>2. CASE w = v
      BY ONLY <1>1, <2>1, <2>2 DEF Acts
    <2> QED
      BY <2>1, <2>2 DEF Stays
  <1>2. ASSUME NEW W \in SUBSET Workers, Finish(W)
        PROVE  Stays(v) \/ Ends(v)
    BY <1>2 DEF Finish, Stays, Ends
  <1>3. ASSUME NEW w \in Workers,
               RecordFailure(w) \/ Reply(w) \/ ReplyLost(w) \/ DeleteError(w)
        PROVE  Stays(v) \/ Ends(v)
    <2>1. Finish({w}) /\ {w} \in SUBSET Workers
      BY <1>3 DEF RecordFailure, Reply, ReplyLost, DeleteError
    <2> QED
      BY ONLY <1>2, <2>1
  <1>4. ASSUME NEW i \in Instances, Crash(i)
        PROVE  Stays(v) \/ Ends(v)
    <2>1. Finish({w \in Workers : Host[w] = i})
      BY <1>4 DEF Crash
    <2>2. {w \in Workers : Host[w] = i} \in SUBSET Workers
      OBVIOUS
    <2> QED
      BY ONLY <1>2, <2>1, <2>2
  <1>5. ASSUME NEW t \in Tasks, NEW w \in Workers, Dispatch(t, w)
        PROVE  Stays(v) \/ Dispatch(t, v)
    BY <1>5 DEF Dispatch, Begin, Stays
  <1>6. ASSUME NEW s \in Sources, Reclassify(s)
        PROVE  Stays(v)
    BY <1>6 DEF Reclassify, Stays
  <1>7. CASE UNCHANGED vars
    BY <1>7 DEF vars, Stays
  <1> QED
    BY <1>1, <1>3, <1>4, <1>5, <1>6, <1>7 DEF Next, Work, IngestStep, DeleteStep, Fault

\* An ingest attempt that has a slot works on a known source.
LEMMA RunningFacts ==
    ASSUME CtlInv, NEW v \in Workers
    PROVE  /\ pc[v] \in IngestLabels => task[v] \in IngestTasks
           /\ pc[v] # "idle" <=> task[v] \in Tasks
           /\ task[v] \in Tasks => SourceOf[task[v]] \in Sources
  BY DEF CtlInv, Typed, TypeOK, LocalTypeOK, Control, Tasks

\* A source that exists now existed before.
LEMMA NothingReturns ==
    ASSUME CtlInv, FreshIds, IndexInv, [Next]_vars, NEW s \in Sources, Exists(s)'
    PROVE  Exists(s)
  <1>1. ASSUME NEW w \in Workers, Persisting(w)
        PROVE  Exists(s)
    <2>1. SourceOf[task[w]] \in Sources /\ SetStatus(SourceOf[task[w]], "ready")
      BY <1>1, RunningFacts DEF Persisting, IngestLabels, StoreDocument, Tasks
    <2> QED
      BY <2>1, SetStatusFacts DEF CtlInv, Typed, TypeOK, DatabaseTypeOK, Statuses
  <1>2. ASSUME NEW w \in Workers, DeleteSource(w)
        PROVE  Exists(s)
    BY <1>2, DeletedChunks DEF IndexInv
  <1> QED
    BY <1>1, <1>2, StepKinds DEF Quiet

\* A row that appears under the id of the attempt of w is of its own insertion.
LEMMA NewRows ==
    ASSUME CtlInv, FreshIds, IndexInv, [Next]_vars, NEW w \in Workers
    PROVE  /\ \A d \in documents' \ documents : d.id = AttemptId(w) =>
                /\ Persisting(w)
                /\ d.source = SourceOf[task[w]] /\ d.hash = ContentOf[task[w]]
           /\ \A c \in chunks' \ chunks : c.document = AttemptId(w) =>
                Persisting(w) /\ c \in NewChunks(w)
           /\ \A e \in audit' \ audit :
                e.event = "deletion_verified" /\ e.id = AttemptId(w) =>
                    /\ DeleteSource(w)
                    /\ e.source = SourceOf[task[w]] /\ e.chunks = counted[w]
  <1>1. ASSUME NEW v \in Workers, pc[v] \in InsertLabels, AttemptId(v) = AttemptId(w)
        PROVE  v = w
    <2>1. pc[v] # "idle" /\ task[v] # None
      BY <1>1, RunningFacts DEF InsertLabels, IngestLabels, DeleteLabels
    <2>2. pc[w] # "idle"
      BY <1>1, <2>1 DEF AttemptId, CtlInv, Typed, Control
    <2> QED
      BY <1>1, <2>1, <2>2 DEF FreshIds
  <1>2. CASE Quiet
    BY <1>2 DEF Quiet
  <1>3. ASSUME NEW v \in Workers, Persisting(v)
        PROVE  /\ \A d \in documents' \ documents : d.id = AttemptId(w) =>
                    v = w /\ d.source = SourceOf[task[w]] /\ d.hash = ContentOf[task[w]]
               /\ \A c \in chunks' \ chunks : c.document = AttemptId(w) =>
                    v = w /\ c \in NewChunks(w)
               /\ \A e \in audit' \ audit : e.event # "deletion_verified"
    <2>1. pc[v] \in InsertLabels
      BY <1>3 DEF Persisting, InsertLabels, IngestLabels
    <2>2. ASSUME NEW d \in documents' \ documents, d.id = AttemptId(w)
          PROVE  v = w /\ d.source = SourceOf[task[w]] /\ d.hash = ContentOf[task[w]]
      <3>1. d = [id |-> AttemptId(v), source |-> SourceOf[task[v]], hash |-> ContentOf[task[v]]]
        BY <1>3, <2>2 DEF Persisting, StoreDocument
      <3>2. d.id = AttemptId(v) /\ d.source = SourceOf[task[v]] /\ d.hash = ContentOf[task[v]]
        BY <3>1
      <3> QED
        BY <1>1, <2>1, <2>2, <3>2
    <2>3. ASSUME NEW c \in chunks' \ chunks, c.document = AttemptId(w)
          PROVE  v = w /\ c \in NewChunks(w)
      <3>1. c \in NewChunks(v)
        BY <1>3, <2>3 DEF Persisting, StoreDocument
      <3>2. c.document = AttemptId(v)
        BY <3>1 DEF NewChunks
      <3> QED
        BY <1>1, <2>1, <2>3, <3>1, <3>2
    <2>4. \A e \in audit' \ audit : e.event # "deletion_verified"
      BY <1>3 DEF Persisting, StoreDocument, IngestedEvent
    <2> QED
      BY <2>2, <2>3, <2>4
  <1>4. ASSUME NEW v \in Workers, DeleteSource(v)
        PROVE  /\ documents' \subseteq documents /\ chunks' \subseteq chunks
               /\ \A e \in audit' \ audit : e.id = AttemptId(w) =>
                    v = w /\ e.source = SourceOf[task[w]] /\ e.chunks = counted[w]
    <2>1. pc[v] \in InsertLabels
      BY <1>4 DEF DeleteSource, InsertLabels, DeleteLabels
    <2>2. ASSUME NEW e \in audit' \ audit, e.id = AttemptId(w)
          PROVE  v = w /\ e.source = SourceOf[task[w]] /\ e.chunks = counted[w]
      <3>1. e = [event |-> "deletion_verified", id |-> AttemptId(v),
                 source |-> SourceOf[task[v]], chunks |-> counted[v]]
        BY <1>4, <2>2 DEF DeleteSource, DeletionEvents
      <3>2. e.id = AttemptId(v) /\ e.source = SourceOf[task[v]] /\ e.chunks = counted[v]
        BY <3>1
      <3> QED
        BY <1>1, <2>1, <2>2, <3>2
    <2> QED
      BY <1>4, <2>2 DEF DeleteSource, AfterCascade
  <1> QED
    BY <1>2, <1>3, <1>4, StepKinds

-----------------------------------------------------------------------------
(* The access tags of chunks. *)

TaggedLabels == {"mkdir", "open", "write", "parse", "cleanup", "prune", "rmtree", "persist"}

\* The tag of w replaces at most the department of an access that the source had.
TagFrom(w) ==
    \E a \in seen[w] : tag[w] = [a EXCEPT !.dept = IF RequestDept[task[w]] = None
                                             THEN @ ELSE RequestDept[task[w]]]

TagInv ==
    \A w \in Workers : task[w] \in Tasks =>
        /\ access[SourceOf[task[w]]] \in seen[w]
        /\ pc[w] \in TaggedLabels /\ Exists(SourceOf[task[w]]) => TagFrom(w)

\* An attempt sees each access its source has while it runs.
LEMMA SeenStep ==
    ASSUME CtlInv, [Next]_vars, NEW w \in Workers, task'[w] \in Tasks,
           task[w] \in Tasks => access[SourceOf[task[w]]] \in seen[w]
    PROVE  access'[SourceOf[task'[w]]] \in seen'[w]
  <1> USE DEF CtlInv, Typed, TypeOK, DatabaseTypeOK, LocalTypeOK
  <1>1. CASE access' = access
    <2>1. CASE Stays(w) \/ Acts(w)
      BY <1>1, <2>1 DEF Stays, Acts, pastVars
    <2>2. CASE Ends(w)
      BY <2>2 DEF Ends, Tasks
    <2>3. ASSUME NEW t \in Tasks, Dispatch(t, w)
          PROVE  task'[w] = t /\ seen'[w] = {access[SourceOf[t]]}
      BY <2>3 DEF Dispatch, Begin
    <2> QED
      BY <1>1, <2>1, <2>2, <2>3, SlotSteps
  <1>2. ASSUME NEW s \in Sources, Reclassify(s)
        PROVE  access'[SourceOf[task'[w]]] \in seen'[w]
    <2>1. task' = task /\ SourceOf[task[w]] \in Sources
      BY <1>2, RunningFacts DEF Reclassify
    <2> QED
      BY <1>2, <2>1 DEF Reclassify
  <1>3. access' = access \/ \E s \in Sources : Reclassify(s)
    BY DEF Next, vars, outsideVars, localVars, Work, IngestStep, DeleteStep, Fault, Dispatch,
           Crash, CheckIdempotency, MarkProcessing, MakeStagingDir, OpenStagedFile,
           WriteStagedFile, ParseAndEmbed, CleanupStaging, PruneStagingDir, RemoveStagingDir,
           Persist, RecordFailure, CountChunks, DeleteSource, Reply, ReplyLost, WriteFails,
           PersistUnacknowledged, DatabaseError, DeleteError
  <1> QED
    BY <1>1, <1>2, <1>3

LEMMA TagStep ==
    ASSUME CtlInv, FreshIds, IndexInv, TagInv, [Next]_vars
    PROVE  TagInv'
  <1> SUFFICES ASSUME NEW w \in Workers, task'[w] \in Tasks
               PROVE  /\ access'[SourceOf[task'[w]]] \in seen'[w]
                      /\ pc'[w] \in TaggedLabels /\ Exists(SourceOf[task[w]])' =>
                            TagFrom(w)'
    BY DEF TagInv
  <1>1. access'[SourceOf[task'[w]]] \in seen'[w]
    BY SeenStep DEF TagInv
  <1>2. ASSUME pc'[w] \in TaggedLabels, Exists(SourceOf[task[w]])'
        PROVE  TagFrom(w)'
    <2> USE DEF CtlInv, Typed, TypeOK, DatabaseTypeOK, LocalTypeOK
    <2>1. SourceOf[task'[w]] \in Sources /\ Exists(SourceOf[task'[w]])
      BY <1>2, NothingReturns
    <2>2. ASSUME pc[w] \in TaggedLabels, task'[w] = task[w], tag'[w] = tag[w],
                 seen[w] \subseteq seen'[w]
          PROVE  TagFrom(w)'
      BY <2>1, <2>2 DEF TagInv, TagFrom
    <2>3. CASE Stays(w)
      BY <1>2, <2>2, <2>3 DEF Stays
    <2>4. CASE MarkProcessing(w)
      <3> DEFINE a == access[SourceOf[task[w]]]
      <3>1. task'[w] = task[w] /\ seen'[w] = seen[w] /\ tag'[w] = ResolveTag(task[w])
        BY <2>4 DEF MarkProcessing, pastVars
      <3>2. a \in Access /\ a \in seen[w]
        BY <2>1, <3>1 DEF TagInv
      <3>3. ResolveTag(task[w]) = [a EXCEPT !.dept = IF RequestDept[task[w]] = None
                                                     THEN @ ELSE RequestDept[task[w]]]
        BY <2>1, <3>1, <3>2 DEF ResolveTag, Access
      <3> HIDE DEF a
      <3> QED
        BY <3>1, <3>2, <3>3 DEF TagFrom
    <2>5. CASE /\ UNCHANGED <<task, attempt, pastVars, access>>
               /\ \/ MakeStagingDir(w) \/ OpenStagedFile(w) \/ WriteStagedFile(w)
                  \/ WriteFails(w) \/ ParseAndEmbed(w) \/ CleanupStaging(w)
                  \/ PruneStagingDir(w) \/ RemoveStagingDir(w)
      <3>1. pc[w] \in TaggedLabels /\ tag' = tag
        BY <2>5 DEF TaggedLabels, MakeStagingDir, OpenStagedFile, WriteStagedFile, WriteFails,
                    ParseAndEmbed, CleanupStaging, PruneStagingDir, RemoveStagingDir, localVars
      <3> QED
        BY <2>2, <2>5, <3>1 DEF pastVars
    <2>6. CASE \/ CheckIdempotency(w) \/ Persist(w) \/ CountChunks(w) \/ DeleteSource(w)
               \/ PersistUnacknowledged(w) \/ DatabaseError(w)
      BY <1>2, <2>6 DEF TaggedLabels, CheckIdempotency, Persist, CountChunks, DeleteSource,
                        PersistUnacknowledged, DatabaseError, GoTo
    <2>7. CASE Ends(w)
      BY <1>2, <2>7 DEF Ends, TaggedLabels
    <2>8. ASSUME NEW t \in Tasks, Dispatch(t, w)
          PROVE  pc'[w] \notin TaggedLabels
      BY <2>8 DEF Dispatch, Begin, TaggedLabels
    <2> QED
      BY <1>2, <2>3, <2>4, <2>5, <2>6, <2>7, <2>8, SlotSteps DEF Acts
  <1> QED
    BY <1>1, <1>2

\* Whatever the request says and however often the source is moved meanwhile, a chunk
\* is stored with the level, and unless the request names one the department, that one
\* version of its source's row had during the attempt.
THEOREM ChunksAreTagged == Spec => TagsAreOfSource
  <1> DEFINE Inv == CtlInv /\ FreshIds /\ IndexInv /\ AnswerInv
             Tagged == \A w \in Workers : \A c \in chunks' \ chunks :
                          c.document = AttemptId(w) =>
                              \E a \in seen[w] :
                                  c.tag = [a EXCEPT !.dept = IF RequestDept[task[w]] = None
                                                             THEN @ ELSE RequestDept[task[w]]]
  <1>1. Init => TagInv
    BY DEF Init, TagInv, Tasks
  <1>2. Inv /\ TagInv /\ [Next]_vars => TagInv'
    BY TagStep
  <1>3. ASSUME Inv, TagInv, [Next]_vars
        PROVE  Tagged
    <2> SUFFICES ASSUME NEW w \in Workers, NEW c \in chunks' \ chunks,
                        c.document = AttemptId(w)
                 PROVE  \E a \in seen[w] :
                            c.tag = [a EXCEPT !.dept = IF RequestDept[task[w]] = None
                                                       THEN @ ELSE RequestDept[task[w]]]
      OBVIOUS
    <2>1. Persisting(w) /\ c \in NewChunks(w)
      BY <1>3, NewRows
    <2>2. c.tag = tag[w]
      BY <2>1 DEF NewChunks
    <2>3. TagFrom(w)
      BY <1>3, <2>1, RunningFacts DEF Persisting, TagInv, TaggedLabels
    <2> QED
      BY ONLY <2>2, <2>3 DEF TagFrom
  <1>4. Inv /\ TagInv /\ [Next]_vars => [Tagged]_vars
    BY <1>3
  <1> QED
    BY <1>1, <1>2, <1>4, LayersInvariant, PTL DEF Spec, TagsAreOfSource

-----------------------------------------------------------------------------
(* What an attempt knows of its source as it was at its beginning.  A document *)
(* goes only with its source, so while that is there so are the documents it   *)
(* had then, with the chunks they had then.                                    *)

LEMMA KeptRows ==
    ASSUME CtlInv, FreshIds, IndexInv, [Next]_vars, NEW s \in Sources, Exists(s)'
    PROVE  /\ \A d \in documents : d.source = s =>
                d \in documents' /\ ChunksOf(d.id)' = ChunksOf(d.id)
           /\ ChunksIn(s) \subseteq ChunksIn(s)'
           /\ \A c \in ChunksIn(s)' : c \in ChunksIn(s) \/ \A d \in documents : c.document # d.id
  <1>1. CASE Quiet
    BY <1>1 DEF Quiet, ChunksOf, ChunksIn
  <1>2. ASSUME NEW w \in Workers, Persisting(w)
        PROVE  /\ documents \subseteq documents' /\ chunks' = chunks \cup NewChunks(w)
               /\ \A d \in documents : ChunksOf(d.id)' = ChunksOf(d.id)
               /\ \A c \in NewChunks(w) : \A d \in documents : c.document # d.id
    <2>1. \A d \in documents : d.id # AttemptId(w)
      BY <1>2 DEF Persisting, FreshIds, InsertLabels, IngestLabels
    <2>2. \A c \in NewChunks(w) : c.document = AttemptId(w)
      BY DEF NewChunks
    <2> QED
      BY <1>2, <2>1, <2>2, PersistedChunks DEF IndexInv, Persisting, StoreDocument
  <1>3. ASSUME NEW w \in Workers, DeleteSource(w)
        PROVE  /\ \A d \in documents : d.source = s =>
                    d \in documents' /\ ChunksOf(d.id)' = ChunksOf(d.id)
               /\ ChunksIn(s)' = ChunksIn(s)
    <2>1. s # SourceOf[task[w]]
      BY <1>3, DeletedChunks DEF IndexInv
    <2>2. \A d \in documents : d.source = s =>
              d \in documents' /\ ChunksOf(d.id)' = ChunksOf(d.id)
      BY <1>3, <2>1, DeletedChunks DEF IndexInv
    <2>3. ASSUME NEW c \in chunks, c.source = s
          PROVE  c \in chunks'
      <3>1. PICK d \in documents : d.id = c.document /\ d.source = s
        BY <2>3 DEF IndexInv, NoOrphans
      <3>2. c \in ChunksOf(d.id)'
        BY <2>2, <3>1 DEF ChunksOf
      <3> QED
        BY <3>2 DEF ChunksOf
    <2>4. chunks' \subseteq chunks
      BY <1>3, DeletedChunks DEF IndexInv
    <2> QED
      BY <2>2, <2>3, <2>4 DEF ChunksIn
  <1> QED
    BY <1>1, <1>2, <1>3, StepKinds DEF ChunksIn

PastInv ==
    \A w \in Workers : task[w] \in Tasks =>
        /\ \A d \in before[w].documents : d.source = SourceOf[task[w]]
        /\ Exists(SourceOf[task[w]]) => before[w].documents \subseteq documents
        /\ Exists(SourceOf[task[w]]) => before[w].live

LEMMA PastStep ==
    ASSUME CtlInv, FreshIds, IndexInv, PastInv, [Next]_vars
    PROVE  PastInv'
  <1> SUFFICES ASSUME NEW w \in Workers, task'[w] \in Tasks
               PROVE  /\ \A d \in before'[w].documents : d.source = SourceOf[task'[w]]
                      /\ Exists(SourceOf[task[w]])' =>
                            before'[w].documents \subseteq documents' /\ before'[w].live
    BY DEF PastInv
  <1>1. SourceOf[task'[w]] \in Sources
    BY DEF Tasks
  <1>2. ASSUME NEW t \in Tasks, Dispatch(t, w)
        PROVE  /\ \A d \in before'[w].documents : d.source = SourceOf[task'[w]]
               /\ Exists(SourceOf[task[w]])' =>
                     before'[w].documents \subseteq documents' /\ before'[w].live
    <2>1. /\ before'[w] = SourceNow(SourceOf[t]) /\ task'[w] = t
          /\ documents' = documents /\ status' = status
      BY <1>2 DEF Dispatch, Begin, dbVars, CtlInv, Typed, TypeOK, LocalTypeOK
    <2>2. /\ SourceNow(SourceOf[t]).live = Exists(SourceOf[t])
          /\ SourceNow(SourceOf[t]).documents = {d \in documents : d.source = SourceOf[t]}
      BY DEF SourceNow
    <2>3. Exists(SourceOf[task[w]])' => Exists(SourceOf[t])
      BY <2>1 DEF Exists
    <2> QED
      BY ONLY <2>1, <2>2, <2>3
  <1>3. ASSUME task'[w] = task[w], before'[w] = before[w]
        PROVE  /\ \A d \in before'[w].documents : d.source = SourceOf[task'[w]]
               /\ Exists(SourceOf[task[w]])' =>
                     before'[w].documents \subseteq documents' /\ before'[w].live
    <2>1. ASSUME Exists(SourceOf[task[w]])'
          PROVE  before'[w].documents \subseteq documents' /\ before'[w].live
      <3>1. Exists(SourceOf[task[w]])
        BY <1>1, <1>3, <2>1, NothingReturns DEF Exists
      <3>2. \A d \in documents : d.source = SourceOf[task[w]] => d \in documents'
        BY <1>1, <1>3, <2>1, KeptRows DEF Exists
      <3> QED
        BY <1>3, <3>1, <3>2 DEF PastInv
    <2> QED
      BY <1>3, <2>1 DEF PastInv
  <1>4. CASE Ends(w)
    BY <1>4 DEF Ends, Tasks
  <1> QED
    BY <1>2, <1>3, <1>4, SlotSteps DEF Stays, Acts, pastVars

CheckedLabels == TaggedLabels \cup {"mark"}

\* The check let the attempt pass: the upload was not there when it began, or some
\* document of it has no chunks.
RepeatInv ==
    \A w \in Workers : pc[w] \in CheckedLabels /\ Exists(SourceOf[task[w]]) =>
        \/ \E f \in SameDocuments(task[w]) : ChunksOf(f.id) = {}
        \/ \A e \in SameDocuments(task[w]) : e \notin before[w].documents

LEMMA RepeatStep ==
    ASSUME CtlInv, FreshIds, IndexInv, PastInv, RepeatInv, [Next]_vars
    PROVE  RepeatInv'
  <1> SUFFICES ASSUME NEW w \in Workers, pc'[w] \in CheckedLabels,
                      Exists(SourceOf[task[w]])'
               PROVE  \/ \E f \in SameDocuments(task[w])' : ChunksOf(f.id)' = {}
                      \/ \A e \in SameDocuments(task[w])' : e \notin before'[w].documents
    BY DEF RepeatInv, ChunksOf
  <1> USE DEF CheckedLabels, TaggedLabels
  <1>1. CASE CheckIdempotency(w)
    <2>1. /\ UNCHANGED <<documents, chunks, task>>
          /\ \/ \E f \in SameDocuments(task[w]) : ChunksOf(f.id) = {}
             \/ SameDocuments(task[w]) = {}
      BY <1>1 DEF CheckIdempotency, GoTo, dbVars, localVars, CtlInv, Typed, TypeOK, LocalTypeOK
    <2> QED
      BY <2>1 DEF SameDocuments, ChunksOf
  <1>2. ASSUME pc[w] \in CheckedLabels, task'[w] = task[w], before'[w] = before[w]
        PROVE  \/ \E f \in SameDocuments(task[w])' : ChunksOf(f.id)' = {}
               \/ \A e \in SameDocuments(task[w])' : e \notin before'[w].documents
    <2> DEFINE s == SourceOf[task[w]]
    <2>1. task[w] \in IngestTasks /\ task[w] \in Tasks /\ s \in Sources
      BY <1>2, RunningFacts DEF IngestLabels, Tasks
    <2>2. Exists(s)
      BY <1>2, <2>1, NothingReturns DEF Exists
    <2>3. \A d \in documents : d.source = s =>
              d \in documents' /\ ChunksOf(d.id)' = ChunksOf(d.id)
      BY <1>2, <2>1, KeptRows DEF Exists
    <2>4. before[w].documents \subseteq documents
      BY <2>1, <2>2 DEF PastInv
    <2>5. ASSUME NEW f \in SameDocuments(task[w]), ChunksOf(f.id) = {}
          PROVE  f \in SameDocuments(task[w])' /\ ChunksOf(f.id)' = {}
      BY <1>2, <2>3, <2>5 DEF SameDocuments
    <2>6. ASSUME \A e \in SameDocuments(task[w]) : e \notin before[w].documents,
                 NEW e \in SameDocuments(task[w])'
          PROVE  e \notin before'[w].documents
      BY <1>2, <2>4, <2>6 DEF SameDocuments
    <2> QED
      BY <1>2, <2>2, <2>5, <2>6 DEF RepeatInv
  <1>3. CASE Stays(w)
    BY <1>2, <1>3 DEF Stays
  <1>4. CASE /\ UNCHANGED <<task, attempt, pastVars, access>>
             /\ \/ MarkProcessing(w) \/ MakeStagingDir(w) \/ OpenStagedFile(w)
                \/ WriteStagedFile(w) \/ WriteFails(w) \/ ParseAndEmbed(w)
                \/ CleanupStaging(w) \/ PruneStagingDir(w) \/ RemoveStagingDir(w)
    <2>1. pc[w] \in CheckedLabels
      BY <1>4 DEF MarkProcessing, MakeStagingDir, OpenStagedFile, WriteStagedFile, WriteFails,
                  ParseAndEmbed, CleanupStaging, PruneStagingDir, RemoveStagingDir
    <2> QED
      BY <1>2, <1>4, <2>1 DEF pastVars
  <1>5. CASE \/ Persist(w) \/ CountChunks(w) \/ DeleteSource(w)
             \/ PersistUnacknowledged(w) \/ DatabaseError(w)
    BY <1>5 DEF Persist, CountChunks, DeleteSource, PersistUnacknowledged, DatabaseError, GoTo,
                CtlInv, Typed, TypeOK, LocalTypeOK
  <1>6. CASE Ends(w)
    BY <1>6 DEF Ends
  <1>7. ASSUME NEW t \in Tasks, Dispatch(t, w)
        PROVE  pc'[w] \notin CheckedLabels
    BY <1>7 DEF Dispatch, Begin, CtlInv, Typed, TypeOK, LocalTypeOK
  <1> QED
    BY <1>1, <1>3, <1>4, <1>5, <1>6, <1>7, SlotSteps DEF Acts

\* However often the queue dispatches an upload and wherever its attempts overlap, fail
\* or die, one that was stored before an attempt began is not stored again by it, unless
\* a document of it has no chunks.
THEOREM RepeatsOnlyOverlap == Spec => RepeatsOverlap
  <1> DEFINE Inv == CtlInv /\ FreshIds /\ IndexInv /\ AnswerInv
             Repeats ==
                \A w \in Workers : \A d \in documents' \ documents, e \in documents :
                    d.id = AttemptId(w) /\ e.source = d.source /\ e.hash = d.hash =>
                        \/ e \notin before[w].documents
                        \/ \E f \in documents :
                              /\ f.source = d.source /\ f.hash = d.hash
                              /\ ChunksOf(f.id) = {}
  <1>1. Init => PastInv /\ RepeatInv
    BY DEF Init, PastInv, RepeatInv, Tasks, CheckedLabels, TaggedLabels
  <1>2. Inv /\ (PastInv /\ RepeatInv) /\ [Next]_vars => (PastInv /\ RepeatInv)'
    BY PastStep, RepeatStep
  <1>3. ASSUME Inv, PastInv /\ RepeatInv, [Next]_vars
        PROVE  Repeats
    <2> SUFFICES ASSUME NEW w \in Workers, NEW d \in documents' \ documents,
                        NEW e \in documents,
                        d.id = AttemptId(w), e.source = d.source, e.hash = d.hash
                 PROVE  \/ e \notin before[w].documents
                        \/ \E f \in documents :
                              /\ f.source = d.source /\ f.hash = d.hash
                              /\ ChunksOf(f.id) = {}
      OBVIOUS
    <2>1. Persisting(w) /\ d.source = SourceOf[task[w]] /\ d.hash = ContentOf[task[w]]
      BY <1>3, NewRows
    <2>2. pc[w] \in CheckedLabels /\ Exists(SourceOf[task[w]])
      BY <2>1 DEF Persisting, CheckedLabels, TaggedLabels
    <2>3. e \in SameDocuments(task[w])
      BY <2>1 DEF SameDocuments
    <2> QED
      BY <1>3, <2>1, <2>2, <2>3 DEF RepeatInv, SameDocuments
  <1>4. Inv /\ (PastInv /\ RepeatInv) /\ [Next]_vars => [Repeats]_vars
    BY <1>3
  <1> QED
    BY <1>1, <1>2, <1>4, LayersInvariant, PTL DEF Spec, RepeatsOverlap

-----------------------------------------------------------------------------
(* The count of a deletion. *)

\* The chunks of the documents that the source of w had when its attempt began.
PastChunks(w) ==
    {c \in ChunksIn(SourceOf[task[w]]) :
        \E d \in before[w].documents : d.id = c.document}

CountInv ==
    \A w \in Workers : pc[w] = "delete" =>
        /\ Exists(SourceOf[task[w]]) =>
              /\ counted[w] <= Cardinality(ChunksIn(SourceOf[task[w]]))
              /\ counted[w] >= Cardinality(PastChunks(w))
        /\ ~ before[w].live => counted[w] = 0

\* The chunks of a source are finitely many, and none once it is gone.
LEMMA ChunksInFacts ==
    ASSUME CtlInv, IndexInv, NEW s \in Sources
    PROVE  /\ IsFiniteSet(ChunksIn(s)) /\ Cardinality(ChunksIn(s)) \in Nat
           /\ ~ Exists(s) => ChunksIn(s) = {}
           /\ \A A \in SUBSET ChunksIn(s) :
                IsFiniteSet(A) /\ Cardinality(A) \in Nat
                               /\ Cardinality(A) <= Cardinality(ChunksIn(s))
  <1>1. IsFiniteSet(chunks) /\ ChunksIn(s) \subseteq chunks
    BY DEF CtlInv, Typed, ChunksIn
  <1>2. IsFiniteSet(ChunksIn(s))
    BY ONLY <1>1, FS_Subset
  <1>3. Cardinality(ChunksIn(s)) \in Nat
    BY ONLY <1>2, FS_CardinalityType
  <1>4. ~ Exists(s) => ChunksIn(s) = {}
    BY DEF IndexInv, NoOrphans, ChunksIn
  <1>5. ASSUME NEW A \in SUBSET ChunksIn(s)
        PROVE  IsFiniteSet(A) /\ Cardinality(A) \in Nat
                              /\ Cardinality(A) <= Cardinality(ChunksIn(s))
    <2>1. IsFiniteSet(A) /\ Cardinality(A) <= Cardinality(ChunksIn(s))
      BY ONLY <1>2, <1>5, FS_Subset
    <2>2. Cardinality(A) \in Nat
      BY ONLY <2>1, FS_CardinalityType
    <2> QED
      BY <2>1, <2>2
  <1> QED
    BY <1>2, <1>3, <1>4, <1>5

LEMMA CountStep ==
    ASSUME CtlInv, CtlInv', FreshIds, IndexInv, IndexInv', PastInv, CountInv, [Next]_vars
    PROVE  CountInv'
  <1> SUFFICES ASSUME NEW w \in Workers, pc'[w] = "delete"
               PROVE  /\ Exists(SourceOf[task[w]])' =>
                            /\ counted'[w] <= Cardinality(ChunksIn(SourceOf[task[w]])')
                            /\ counted'[w] >= Cardinality(PastChunks(w)')
                      /\ ~ before'[w].live => counted'[w] = 0
    BY DEF CountInv
  <1> DEFINE s == SourceOf[task[w]]
             Goal == /\ Exists(s)' => /\ counted'[w] <= Cardinality(ChunksIn(s)')
                                      /\ counted'[w] >= Cardinality(PastChunks(w)')
                     /\ ~ before'[w].live => counted'[w] = 0
  <1>1. CASE CountChunks(w)
    <2>1. /\ task[w] \in Tasks /\ s \in Sources
      BY <1>1, RunningFacts DEF CountChunks
    <2>2. /\ task' = task /\ before' = before /\ UNCHANGED <<status, documents, chunks>>
          /\ counted'[w] = Cardinality(ChunksIn(s))
      BY <1>1 DEF CountChunks, dbVars, pastVars, CtlInv, Typed, TypeOK, LocalTypeOK
    <2>3. PastChunks(w)' = PastChunks(w) /\ ChunksIn(s)' = ChunksIn(s)
      BY <2>2 DEF PastChunks, ChunksIn
    <2>4. PastChunks(w) \in SUBSET ChunksIn(s)
      BY DEF PastChunks
    <2>5. /\ Cardinality(ChunksIn(s)) \in Nat
          /\ Cardinality(PastChunks(w)) \in Nat
          /\ Cardinality(PastChunks(w)) <= Cardinality(ChunksIn(s))
      BY <2>1, <2>4, ChunksInFacts
    <2>6. ~ before[w].live => Cardinality(ChunksIn(s)) = 0
      <3>1. ~ before[w].live => ChunksIn(s) = {}
        BY <2>1, ChunksInFacts DEF PastInv
      <3> QED
        BY ONLY <3>1, FS_EmptySet
    <2>7. counted'[w] = Cardinality(ChunksIn(s)')
      BY ONLY <2>2, <2>3
    <2>8. counted'[w] >= Cardinality(PastChunks(w)')
      BY ONLY <2>2, <2>3, <2>5
    <2>9. ~ before'[w].live => counted'[w] = 0
      BY ONLY <2>2, <2>6
    <2> HIDE DEF s
    <2> QED
      BY ONLY <2>2, <2>3, <2>5, <2>7, <2>8, <2>9 DEF s, ChunksIn
  <1>2. ASSUME pc[w] = "delete", task'[w] = task[w], counted'[w] = counted[w],
               before'[w] = before[w]
        PROVE  Goal
    <2>1. task[w] \in Tasks /\ s \in Sources /\ counted[w] \in Nat
      BY <1>2, RunningFacts DEF CtlInv, Typed, TypeOK, LocalTypeOK
    <2>2. ASSUME Exists(s)'
          PROVE  /\ counted'[w] <= Cardinality(ChunksIn(s)')
                 /\ counted'[w] >= Cardinality(PastChunks(w)')
      <3>1. Exists(s) /\ before[w].documents \subseteq documents
        BY <1>2, <2>1, <2>2, NothingReturns DEF PastInv, Exists
      <3>2. /\ ChunksIn(s) \subseteq ChunksIn(s)'
            /\ \A c \in ChunksIn(s)' :
                  c \in ChunksIn(s) \/ \A d \in documents : c.document # d.id
        BY <1>2, <2>1, <2>2, KeptRows DEF Exists, ChunksIn
      <3>3. PastChunks(w)' = PastChunks(w)
        BY <1>2, <3>1, <3>2 DEF PastChunks, ChunksIn
      <3>4. /\ Cardinality(ChunksIn(s)) \in Nat /\ Cardinality(ChunksIn(s)') \in Nat
            /\ Cardinality(ChunksIn(s)) <= Cardinality(ChunksIn(s)')
        <4>1. IsFiniteSet(ChunksIn(s)')
          <5>1. IsFiniteSet(chunks') /\ ChunksIn(s)' \subseteq chunks'
            BY DEF CtlInv, Typed, ChunksIn
          <5> QED
            BY ONLY <5>1, FS_Subset
        <4> QED
          BY ONLY <3>2, <4>1, FS_Subset, FS_CardinalityType
      <3>5. counted[w] <= Cardinality(ChunksIn(s)) /\ counted[w] >= Cardinality(PastChunks(w))
        BY <1>2, <3>1 DEF CountInv
      <3> HIDE DEF s
      <3> QED
        BY <1>2, <2>1, <3>3, <3>4, <3>5
    <2>3. ~ before'[w].live => counted'[w] = 0
      BY <1>2 DEF CountInv
    <2> QED
      BY <2>2, <2>3
  <1>3. CASE Stays(w)
    BY <1>2, <1>3 DEF Stays
  <1>4. CASE Ends(w)
    BY <1>4 DEF Ends
  <1>5. ASSUME NEW t \in Tasks, Dispatch(t, w)
        PROVE  pc'[w] # "delete"
    BY <1>5 DEF Dispatch, Begin, CtlInv, Typed, TypeOK, LocalTypeOK
  <1>6. CASE \/ CheckIdempotency(w) \/ MarkProcessing(w) \/ MakeStagingDir(w)
             \/ OpenStagedFile(w) \/ WriteStagedFile(w) \/ WriteFails(w)
             \/ ParseAndEmbed(w) \/ CleanupStaging(w) \/ PruneStagingDir(w)
             \/ RemoveStagingDir(w) \/ Persist(w) \/ DeleteSource(w)
             \/ PersistUnacknowledged(w) \/ DatabaseError(w)
    BY <1>6 DEF CheckIdempotency, MarkProcessing, MakeStagingDir, OpenStagedFile,
           WriteStagedFile, WriteFails, ParseAndEmbed, CleanupStaging, PruneStagingDir,
           RemoveStagingDir, AfterStaging, Persist, DeleteSource,
           PersistUnacknowledged, DatabaseError, GoTo, CtlInv, Typed, TypeOK, LocalTypeOK
  <1>7. \/ CountChunks(w) \/ Stays(w) \/ Ends(w)
        \/ \E t \in Tasks : Dispatch(t, w)
        \/ \/ CheckIdempotency(w) \/ MarkProcessing(w) \/ MakeStagingDir(w)
           \/ OpenStagedFile(w) \/ WriteStagedFile(w) \/ WriteFails(w)
           \/ ParseAndEmbed(w) \/ CleanupStaging(w) \/ PruneStagingDir(w)
           \/ RemoveStagingDir(w) \/ Persist(w) \/ DeleteSource(w)
           \/ PersistUnacknowledged(w) \/ DatabaseError(w)
    BY SlotSteps DEF Acts
  <1> QED
    BY ONLY <1>1, <1>3, <1>4, <1>5, <1>6, <1>7, pc'[w] = "delete"

\* However ingests and deletions of a source overlap, a deletion event records at most
\* what went, and at least what was there of it when the attempt began; it can be wrong
\* otherwise only when another deletion of the source was committed meanwhile.
THEOREM DeletionCountsAreSound == Spec => DeletedCountIsSound
  <1> DEFINE Inv == CtlInv /\ FreshIds /\ IndexInv /\ AnswerInv
             Sound ==
                \A w \in Workers : \A e \in audit' \ audit :
                    e.event = "deletion_verified" /\ e.id = AttemptId(w) =>
                        LET purged == chunks \ chunks' IN
                        \/ /\ e.chunks <= Cardinality(purged)
                           /\ e.chunks >= Cardinality({c \in purged :
                                    \E d \in before[w].documents : d.id = c.document})
                        \/ before[w].live /\ ~ Exists(e.source)
  <1>1. Init => PastInv /\ CountInv
    BY DEF Init, PastInv, CountInv, Tasks
  <1>2. Inv /\ Inv' /\ (PastInv /\ CountInv) /\ [Next]_vars => (PastInv /\ CountInv)'
    BY PastStep, CountStep
  <1>3. ASSUME Inv, PastInv /\ CountInv, [Next]_vars
        PROVE  Sound
    <2> SUFFICES ASSUME NEW w \in Workers, NEW e \in audit' \ audit,
                        e.event = "deletion_verified", e.id = AttemptId(w)
                 PROVE  \/ /\ e.chunks <= Cardinality(chunks \ chunks')
                           /\ e.chunks >= Cardinality({c \in chunks \ chunks' :
                                    \E d \in before[w].documents : d.id = c.document})
                        \/ before[w].live /\ ~ Exists(e.source)
      OBVIOUS
    <2> DEFINE s == SourceOf[task[w]]
    <2>1. DeleteSource(w) /\ e.source = s /\ e.chunks = counted[w]
      BY <1>3, NewRows
    <2>2. pc[w] = "delete" /\ s \in Sources
      BY <1>3, <2>1, RunningFacts DEF DeleteSource
    <2>3. chunks \ chunks' = ChunksIn(s)
      <3>1. \A c \in chunks' : c.source # s
        BY <1>3, <2>1, DeletedChunks DEF IndexInv
      <3>2. ASSUME NEW c \in chunks, c.source # s
            PROVE  c \in chunks'
        BY <1>3, <2>1, <3>2 DEF DeleteSource, AfterCascade, IndexInv, NoOrphans, FreshIds
      <3> QED
        BY <3>1, <3>2 DEF ChunksIn
    <2>4. {c \in ChunksIn(s) : \E d \in before[w].documents : d.id = c.document} = PastChunks(w)
      BY DEF PastChunks
    <2>5. CASE Exists(s)
      BY <1>3, <2>1, <2>2, <2>3, <2>4, <2>5 DEF CountInv
    <2>6. CASE ~ Exists(s) /\ ~ before[w].live
      <3>1. counted[w] = 0
        BY <1>3, <2>2, <2>6 DEF CountInv
      <3>2. ChunksIn(s) = {} /\ PastChunks(w) = {}
        BY <1>3, <2>2, <2>6, ChunksInFacts DEF PastChunks
      <3>3. Cardinality(ChunksIn(s)) = 0 /\ Cardinality(PastChunks(w)) = 0
        BY ONLY <3>2, FS_EmptySet
      <3>4. e.chunks = 0 /\ Cardinality(chunks \ chunks') = 0
        BY ONLY <2>1, <2>3, <3>1, <3>3
      <3>5. Cardinality({c \in chunks \ chunks' :
                            \E d \in before[w].documents : d.id = c.document}) = 0
        BY ONLY <2>3, <2>4, <3>3
      <3> QED
        BY <3>4, <3>5
    <2> QED
      BY <2>1, <2>5, <2>6
  <1>4. Inv /\ (PastInv /\ CountInv) /\ [Next]_vars => [Sound]_vars
    BY <1>3
  <1> QED
    BY <1>1, <1>2, <1>4, LayersInvariant, PTL DEF Spec, DeletedCountIsSound

-----------------------------------------------------------------------------
(* The staging directory.  A file is there for an attempt that has still to *)
(* unlink it; a directory for one that has still to write into it, to       *)
(* unlink a file of it, or to look whether it is empty.                     *)

StagingLabels == {"open", "write", "parse", "cleanup", "prune", "rmtree"}

\* The attempt of w has still to unlink the file at p.
Holds(w, p) == pc[w] \in {"write", "parse", "cleanup"} /\ StagingPath(w) = p

\* The attempt of w will not end before the directory d was seen to.
Tends(w, d) ==
    /\ StagingDir(w) = d
    /\ \/ pc[w] \in {"open", "prune", "rmtree"}
       \/ pc[w] \in {"write", "parse", "cleanup"} /\ files[StagingPath(w)] # None

StagingInv ==
    /\ \A p \in Paths : files[p] # None => \E w \in Workers : Holds(w, p)
    /\ \A d \in dirs : \E w \in Workers : Tends(w, d)

\* The attempts that are staging go on as they are, and the disk too.
StagingQuiet ==
    /\ UNCHANGED diskVars
    /\ \A w \in Workers : pc[w] \in StagingLabels => pc'[w] = pc[w] /\ task'[w] = task[w]

\* Without a crash and a full disk, seven actions are about staging.
LEMMA StagingKinds ==
    ASSUME CtlInv, [Next]_vars, "crash" \notin Faults, "disk" \notin Faults
    PROVE  \/ StagingQuiet
           \/ \E w \in Workers :
                \/ MakeStagingDir(w) \/ OpenStagedFile(w) \/ WriteStagedFile(w)
                \/ ParseAndEmbed(w) \/ CleanupStaging(w) \/ PruneStagingDir(w)
                \/ RemoveStagingDir(w)
  <1> USE DEF CtlInv, Typed, TypeOK, LocalTypeOK, GoTo, StagingLabels, StagingQuiet, diskVars, localVars
  <1>1. ASSUME NEW w \in Workers,
               \/ CheckIdempotency(w) \/ MarkProcessing(w) \/ Persist(w)
               \/ CountChunks(w) \/ DeleteSource(w)
               \/ PersistUnacknowledged(w) \/ DatabaseError(w)
        PROVE  StagingQuiet
    BY <1>1 DEF CheckIdempotency, MarkProcessing, Persist, CountChunks, DeleteSource,
                PersistUnacknowledged, DatabaseError
  <1>2. ASSUME NEW w \in Workers,
               RecordFailure(w) \/ Reply(w) \/ ReplyLost(w) \/ DeleteError(w)
        PROVE  StagingQuiet
    BY <1>2 DEF RecordFailure, Reply, ReplyLost, DeleteError, Finish
  <1>3. ASSUME NEW t \in Tasks, NEW w \in Workers, Dispatch(t, w)
        PROVE  StagingQuiet
    BY <1>3 DEF Dispatch, Begin
  <1>4. ASSUME NEW s \in Sources, Reclassify(s)
        PROVE  StagingQuiet
    BY <1>4 DEF Reclassify
  <1>5. CASE UNCHANGED vars
    BY <1>5 DEF vars
  <1> QED
    BY <1>1, <1>2, <1>3, <1>4, <1>5
       DEF Next, Work, IngestStep, DeleteStep, Fault, WriteFails, Crash

\* What a step of one attempt leaves to the others.
LEMMA OthersStage ==
    ASSUME CtlInv, NEW w \in Workers,
           \/ MakeStagingDir(w) \/ OpenStagedFile(w) \/ WriteStagedFile(w)
           \/ ParseAndEmbed(w) \/ CleanupStaging(w) \/ PruneStagingDir(w) \/ RemoveStagingDir(w)
    PROVE  /\ task' = task
           /\ \A v \in Workers : v # w => pc'[v] = pc[v]
           /\ \A v \in Workers : UNCHANGED <<StagingDir(v), StagingPath(v)>>
           /\ StagingDir(w) \in Instances \X Sources /\ StagingPath(w) \in Paths
           /\ <<StagingPath(w)[1], StagingPath(w)[2]>> = StagingDir(w)
  <1>1. task[w] \in IngestTasks
    BY DEF CtlInv, Typed, Control, IngestLabels, MakeStagingDir, OpenStagedFile, WriteStagedFile, ParseAndEmbed,
           CleanupStaging, PruneStagingDir, RemoveStagingDir
  <1>2. task' = task /\ \A v \in Workers : v # w => pc'[v] = pc[v]
    BY DEF MakeStagingDir, OpenStagedFile, WriteStagedFile, ParseAndEmbed, CleanupStaging,
           PruneStagingDir, RemoveStagingDir, localVars, GoTo, CtlInv, Typed, TypeOK, LocalTypeOK
  <1>3. \A v \in Workers : UNCHANGED <<StagingDir(v), StagingPath(v)>>
    BY <1>2 DEF StagingDir, StagingPath
  <1>4. StagingDir(w) \in Instances \X Sources /\ StagingPath(w) \in Paths
    BY <1>1, PathFacts
  <1> QED
    BY <1>2, <1>3, <1>4 DEF StagingDir, StagingPath

LEMMA TendsOn ==
    ASSUME NEW v \in Workers, NEW d, Tends(v, d), pc'[v] = pc[v],
           UNCHANGED <<StagingDir(v), StagingPath(v)>>,
           files'[StagingPath(v)] = files[StagingPath(v)]
    PROVE  Tends(v, d)'
  BY DEF Tends

LEMMA StagingStep ==
    ASSUME CtlInv, StagingInv, [Next]_vars, "crash" \notin Faults, "disk" \notin Faults
    PROVE  StagingInv'
  <1> USE DEF CtlInv, Typed, TypeOK, LocalTypeOK, StagingTypeOK, GoTo
  <1>1. CASE StagingQuiet
    <2>1. \A w \in Workers, p \in Paths : Holds(w, p) => Holds(w, p)'
      BY <1>1 DEF StagingQuiet, StagingLabels, Holds, StagingPath
    <2>2. \A w \in Workers, d \in dirs : Tends(w, d) => Tends(w, d)'
      BY <1>1 DEF StagingQuiet, StagingLabels, Tends, StagingDir, StagingPath, diskVars
    <2> QED
      BY <1>1, <2>1, <2>2 DEF StagingInv, StagingQuiet, diskVars
  <1>2. ASSUME NEW w \in Workers, MakeStagingDir(w)
        PROVE  StagingInv'
    <2>1. /\ pc[w] = "mkdir" /\ pc'[w] = "open"
          /\ dirs' = dirs \cup {StagingDir(w)} /\ files' = files
      BY <1>2 DEF MakeStagingDir
    <2>2. \A v \in Workers, p \in Paths : Holds(v, p) => Holds(v, p)'
      BY <1>2, <2>1, OthersStage DEF Holds
    <2>3. \A v \in Workers, d \in dirs : Tends(v, d) => Tends(v, d)'
      BY <1>2, <2>1, OthersStage DEF Tends
    <2>4. Tends(w, StagingDir(w))'
      BY <1>2, <2>1, OthersStage DEF Tends
    <2>5. UNCHANGED StagingDir(w)
      BY <1>2, OthersStage
    <2> QED
      BY <2>1, <2>2, <2>3, <2>4, <2>5 DEF StagingInv
  <1>3. ASSUME NEW w \in Workers, OpenStagedFile(w)
        PROVE  StagingInv'
    <2>1. CASE /\ StagingDir(w) \in dirs /\ pc'[w] = "write" /\ dirs' = dirs
               /\ files' = [files EXCEPT ![StagingPath(w)] = EmptyFile]
      <3>1. /\ files'[StagingPath(w)] # None
            /\ \A p \in Paths : p # StagingPath(w) => files'[p] = files[p]
            /\ \A p \in Paths : files[p] # None => files'[p] # None
        <4>1. EmptyFile # None
          OBVIOUS
        <4> QED
          BY <1>3, <2>1, <4>1, OthersStage
      <3>2. pc[w] = "open"
        BY <1>3 DEF OpenStagedFile
      <3>3. \A v \in Workers, p \in Paths : Holds(v, p) => Holds(v, p)'
        BY <1>3, <3>2, OthersStage DEF Holds
      <3>4. Holds(w, StagingPath(w))' /\ Tends(w, StagingDir(w))'
        BY <1>3, <2>1, <3>1, OthersStage DEF Holds, Tends
      <3>5. \A v \in Workers, d \in dirs : v # w /\ Tends(v, d) => Tends(v, d)'
        <4> SUFFICES ASSUME NEW v \in Workers, NEW d \in dirs, v # w, Tends(v, d)
                     PROVE  Tends(v, d)'
          OBVIOUS
        <4>1. pc[v] \in StagingLabels => StagingPath(v) \in Paths
          BY PathFacts DEF Control, IngestLabels, StagingLabels
        <4> QED
          BY <1>3, <3>1, <4>1, OthersStage DEF Tends, StagingLabels
      <3>6. \A d : Tends(w, d) => d = StagingDir(w)
        BY DEF Tends
      <3>7. UNCHANGED <<StagingDir(w), StagingPath(w)>>
        BY <1>3, OthersStage
      <3> QED
        BY <2>1, <3>1, <3>3, <3>4, <3>5, <3>6, <3>7 DEF StagingInv
    <2>2. CASE StagingDir(w) \notin dirs /\ UNCHANGED diskVars
      <3>1. pc[w] = "open"
        BY <1>3 DEF OpenStagedFile
      <3>2. \A v \in Workers, p \in Paths : Holds(v, p) => Holds(v, p)'
        BY <1>3, <3>1, OthersStage DEF Holds
      <3>3. \A v \in Workers, d \in dirs : Tends(v, d) => Tends(v, d)'
        BY <1>3, <2>2, OthersStage DEF Tends, diskVars
      <3> QED
        BY <2>2, <3>2, <3>3 DEF StagingInv, diskVars
    <2> QED
      BY <1>3, <2>1, <2>2 DEF OpenStagedFile, diskVars
  <1>4. ASSUME NEW w \in Workers, ParseAndEmbed(w)
        PROVE  StagingInv'
    <2>1. pc[w] = "parse" /\ pc'[w] = "cleanup" /\ UNCHANGED diskVars
      BY <1>4 DEF ParseAndEmbed
    <2>2. \A v \in Workers, p \in Paths : Holds(v, p) => Holds(v, p)'
      BY <1>4, <2>1, OthersStage DEF Holds
    <2>3. \A v \in Workers, d \in dirs : Tends(v, d) => Tends(v, d)'
      BY <1>4, <2>1, OthersStage DEF Tends, diskVars
    <2> QED
      BY <2>1, <2>2, <2>3 DEF StagingInv, diskVars
  <1>5. ASSUME NEW w \in Workers, CleanupStaging(w)
        PROVE  StagingInv'
    <2>1. /\ pc[w] = "cleanup" /\ dirs' = dirs
          /\ files' = [p \in Paths |-> IF p = StagingPath(w) THEN None ELSE files[p]]
          /\ pc'[w] = "prune" \/ files[StagingPath(w)] = None
      BY <1>5 DEF CleanupStaging, Unlink
    <2>2. /\ files'[StagingPath(w)] = None
          /\ \A p \in Paths : p # StagingPath(w) => files'[p] = files[p]
      BY <1>5, <2>1, OthersStage
    <2>3. ASSUME NEW p \in Paths, files'[p] # None
          PROVE  \E v \in Workers : Holds(v, p)'
      <3>1. p # StagingPath(w) /\ files[p] # None
        BY <2>2, <2>3
      <3>2. PICK v \in Workers : Holds(v, p)
        BY <3>1 DEF StagingInv
      <3> QED
        BY <1>5, <3>1, <3>2, OthersStage, SMTT(30) DEF Holds
    <2>4. ASSUME NEW d \in dirs
          PROVE  \E v \in Workers : Tends(v, d)'
      <3>1. PICK v \in Workers : Tends(v, d)
        BY DEF StagingInv
      <3>2. CASE files[StagingPath(w)] = None
        <4>1. v # w /\ files' = files
          BY <1>5, <2>1, <3>1, <3>2, OthersStage DEF Tends
        <4>2. pc'[v] = pc[v] /\ UNCHANGED <<StagingDir(v), StagingPath(v)>>
          BY <1>5, <4>1, OthersStage
        <4> QED
          BY ONLY <3>1, <4>1, <4>2, TendsOn, v \in Workers
      <3>3. CASE files[StagingPath(w)] # None /\ d = StagingDir(w)
        <4>1. Tends(w, StagingDir(w))'
          BY <1>5, <2>1, <3>3, OthersStage DEF Tends
        <4> QED
          BY <1>5, <3>3, <4>1, OthersStage
      <3>4. CASE d # StagingDir(w)
        <4>1. v # w /\ pc[v] \in StagingLabels /\ StagingDir(v) = d
          BY <3>1, <3>4 DEF Tends, StagingLabels
        <4>2. StagingPath(v) \in Paths /\ <<StagingPath(v)[1], StagingPath(v)[2]>> = d
          BY <4>1, PathFacts DEF Control, IngestLabels, StagingLabels, StagingPath, StagingDir
        <4>3. files'[StagingPath(v)] = files[StagingPath(v)]
          BY <1>5, <2>2, <3>4, <4>2, OthersStage
        <4> QED
          BY <1>5, <3>1, <4>1, <4>3, OthersStage DEF Tends
      <3> QED
        BY <3>2, <3>3, <3>4
    <2> QED
      BY <2>1, <2>3, <2>4 DEF StagingInv
  <1>6. ASSUME NEW w \in Workers, pc[w] = "prune" \/ pc[w] = "rmtree",
               PruneStagingDir(w) \/ RemoveStagingDir(w), UNCHANGED diskVars,
               \/ pc'[w] = "rmtree"
               \/ StagingDir(w) \notin dirs
               \/ ~ StagingDirIsEmpty(w)
        PROVE  StagingInv'
    <2>1. \A v \in Workers, p \in Paths : Holds(v, p) => Holds(v, p)'
      BY <1>6, OthersStage DEF Holds
    <2>2. ASSUME NEW d \in dirs
          PROVE  \E v \in Workers : Tends(v, d)'
      <3>1. PICK u \in Workers : Tends(u, d)
        BY DEF StagingInv
      <3>2. CASE u # w
        <4>1. pc'[u] = pc[u] /\ UNCHANGED <<StagingDir(u), StagingPath(u)>>
          BY <1>6, <3>2, OthersStage
        <4>2. files' = files
          BY <1>6 DEF diskVars
        <4> QED
          BY ONLY <3>1, <4>1, <4>2, TendsOn, u \in Workers
      <3>3. CASE u = w /\ pc'[w] = "rmtree"
        BY <1>6, <3>1, <3>3, OthersStage DEF Tends, diskVars
      <3>4. CASE u = w /\ ~ StagingDirIsEmpty(w)
        <4>1. PICK p \in InStagingDir(w) : files[p] # None
          BY <3>4 DEF StagingDirIsEmpty
        <4>2. p \in Paths /\ <<p[1], p[2]>> = d
          BY <3>1, <3>4 DEF InStagingDir, Tends
        <4>3. PICK v \in Workers : Holds(v, p)
          BY <4>1, <4>2 DEF StagingInv
        <4>4. v # w /\ Tends(v, d)
          BY <1>6, <4>1, <4>2, <4>3 DEF Holds, Tends, StagingPath, StagingDir
        <4>5. pc'[v] = pc[v] /\ UNCHANGED <<StagingDir(v), StagingPath(v)>>
          BY <1>6, <4>4, OthersStage
        <4>6. files' = files
          BY <1>6 DEF diskVars
        <4> QED
          BY ONLY <4>4, <4>5, <4>6, TendsOn, v \in Workers
      <3> QED
        BY <1>6, <3>1, <3>2, <3>3, <3>4 DEF Tends
    <2> QED
      BY <1>6, <2>1, <2>2 DEF StagingInv, diskVars
  <1>7. ASSUME NEW w \in Workers, PruneStagingDir(w)
        PROVE  StagingInv'
    BY <1>6, <1>7 DEF PruneStagingDir, diskVars
  <1>8. ASSUME NEW w \in Workers, RemoveStagingDir(w)
        PROVE  StagingInv'
    <2>1. CASE /\ dirs' = dirs \ {StagingDir(w)}
               /\ files' = [p \in Paths |-> IF p \in InStagingDir(w) THEN None ELSE files[p]]
      <3>1. ASSUME NEW p \in Paths, files'[p] # None
            PROVE  \E v \in Workers : Holds(v, p)'
        <4>1. files[p] # None
          BY <2>1, <3>1
        <4>2. PICK v \in Workers : Holds(v, p)
          BY <4>1 DEF StagingInv
        <4>3. v # w
          BY <1>8, <4>2 DEF Holds, RemoveStagingDir
        <4>4. pc'[v] = pc[v] /\ UNCHANGED <<StagingDir(v), StagingPath(v)>>
          BY <1>8, <4>3, OthersStage
        <4> QED
          BY ONLY <4>2, <4>4, v \in Workers DEF Holds
      <3>2. ASSUME NEW d \in dirs, d # StagingDir(w)
            PROVE  \E v \in Workers : Tends(v, d)'
        <4>1. PICK v \in Workers : Tends(v, d)
          BY DEF StagingInv
        <4>2. v # w /\ pc[v] \in StagingLabels /\ StagingDir(v) = d
          BY <3>2, <4>1 DEF Tends, StagingLabels
        <4>3. StagingPath(v) \in Paths /\ <<StagingPath(v)[1], StagingPath(v)[2]>> = d
          BY <4>2, PathFacts DEF Control, IngestLabels, StagingLabels, StagingPath, StagingDir
        <4>4. files'[StagingPath(v)] = files[StagingPath(v)]
          BY <2>1, <3>2, <4>3 DEF InStagingDir
        <4>5. pc'[v] = pc[v] /\ UNCHANGED <<StagingDir(v), StagingPath(v)>>
          BY <1>8, <4>2, OthersStage
        <4> QED
          BY ONLY <4>1, <4>4, <4>5, TendsOn, v \in Workers
      <3> QED
        BY <2>1, <3>1, <3>2 DEF StagingInv
    <2>2. CASE ~ StagingDirIsEmpty(w) /\ UNCHANGED diskVars
      BY <1>6, <1>8, <2>2 DEF RemoveStagingDir
    <2> QED
      BY <1>8, <2>1, <2>2 DEF RemoveStagingDir, Unlink
  <1>9. ASSUME NEW w \in Workers, WriteStagedFile(w)
        PROVE  StagingInv'
    <2>1. /\ pc[w] = "write" /\ pc'[w] = "parse" /\ dirs' = dirs
          /\ UNCHANGED <<StagingDir(w), StagingPath(w)>> /\ StagingPath(w) \in Paths
      BY <1>9, OthersStage DEF WriteStagedFile
    <2>2. \A p \in Paths : (files[p] # None <=> files'[p] # None)
      BY <1>9, FilledPath DEF WriteStagedFile
    <2>3. \A v \in Workers, p \in Paths : Holds(v, p) => Holds(v, p)'
      BY <1>9, <2>1, OthersStage DEF Holds
    <2>4. ASSUME NEW v \in Workers, NEW d \in dirs, Tends(v, d)
          PROVE  Tends(v, d)'
      <3>1. CASE v = w
        BY <2>1, <2>2, <2>4, <3>1 DEF Tends
      <3>2. CASE v # w
        <4>1. pc[v] \in StagingLabels => StagingPath(v) \in Paths
          BY PathFacts DEF Control, IngestLabels, StagingLabels
        <4> QED
          BY <1>9, <2>2, <2>4, <3>2, <4>1, OthersStage DEF Tends, StagingLabels
      <3> QED
        BY <3>1, <3>2
    <2> QED
      BY <2>1, <2>2, <2>3, <2>4 DEF StagingInv
  <1> QED
    BY <1>1, <1>2, <1>3, <1>4, <1>5, <1>7, <1>8, <1>9, StagingKinds

\* While no instance dies and no disk is full, nothing stays on disk behind the last
\* attempt of its source, however attempts overlap in one directory and take each
\* other's files.
THEOREM StagedFilesAreOwned ==
    ASSUME "crash" \notin Faults, "disk" \notin Faults
    PROVE  Spec => []StagingIsOwned
  <1> DEFINE Inv == CtlInv /\ FreshIds /\ IndexInv /\ AnswerInv
  <1>1. Init => StagingInv
    BY DEF Init, StagingInv
  <1>2. Inv /\ StagingInv /\ [Next]_vars => StagingInv'
    BY StagingStep
  <1>3. Inv /\ StagingInv => StagingIsOwned
    <2> SUFFICES ASSUME CtlInv, StagingInv
                 PROVE  StagingIsOwned
      OBVIOUS
    <2>1. \A w \in Workers, p \in Paths : Holds(w, p) => w \in Staging(p[1], p[2])
      BY DEF Holds, StagingPath, Staging
    <2>2. \A w \in Workers, d \in dirs : Tends(w, d) => w \in Staging(d[1], d[2])
      BY DEF Tends, StagingDir, Staging
    <2> QED
      BY <2>1, <2>2 DEF StagingInv, StagingIsOwned
  <1> QED
    BY <1>1, <1>2, <1>3, LayersInvariant, PTL DEF Spec

-----------------------------------------------------------------------------
(* The owner of "processing". *)

\* Where s shows "processing" after a step it did before; it stays unrecorded if it
\* was, and an attempt that leaves those in flight leaves it so.
OwnersKept ==
    \A s \in Sources : status'[s] = "processing" =>
        /\ status[s] = "processing"
        /\ s \in lost => s \in lost'
        /\ \A v \in InFlight(s) : v \in InFlight(s)' \/ s \in lost'

LEMMA OwnersGoOn ==
    ASSUME CtlInv, [Next]_vars
    PROVE  OwnersKept \/ \E w \in Workers : MarkProcessing(w)
  <1> USE DEF CtlInv, Typed, TypeOK, DatabaseTypeOK, LocalTypeOK, GoTo, dbVars, localVars,
              OwnersKept
  <1>1. ASSUME NEW w \in Workers,
               \/ CheckIdempotency(w) \/ MakeStagingDir(w) \/ OpenStagedFile(w)
               \/ WriteStagedFile(w) \/ ParseAndEmbed(w) \/ CleanupStaging(w)
               \/ PruneStagingDir(w) \/ RemoveStagingDir(w) \/ CountChunks(w)
               \/ WriteFails(w) \/ DatabaseError(w)
        PROVE  OwnersKept
    BY <1>1 DEF InFlight, IngestLabels, CheckIdempotency, MakeStagingDir, OpenStagedFile,
                WriteStagedFile, ParseAndEmbed, CleanupStaging, PruneStagingDir,
                RemoveStagingDir, AfterStaging, CountChunks, WriteFails, DatabaseError
  <1>2. ASSUME NEW w \in Workers, Reply(w) \/ ReplyLost(w) \/ DeleteError(w)
        PROVE  OwnersKept
    BY <1>2 DEF InFlight, IngestLabels, Reply, ReplyLost, DeleteError, Finish
  <1>3. ASSUME NEW t \in Tasks, NEW w \in Workers, Dispatch(t, w)
        PROVE  OwnersKept
    BY <1>3 DEF InFlight, IngestLabels, Dispatch, Begin
  <1>4. ASSUME NEW w \in Workers, RecordFailure(w)
        PROVE  OwnersKept
    <2> DEFINE s == SourceOf[task[w]]
    <2>1. s \in Sources
      BY <1>4, RunningFacts DEF RecordFailure, IngestLabels, Tasks
    <2>2. \A v \in Workers : v # w => pc'[v] = pc[v] /\ task'[v] = task[v]
      BY <1>4 DEF RecordFailure, Finish
    <2>3. CASE SetStatus(s, "failed")
      <3>1. status'[s] # "processing" /\ lost' = lost \ {s}
        BY <2>1, <2>3 DEF SetStatus
      <3>2. \A r \in Sources : r # s => status'[r] = status[r]
        BY <2>1, <2>3 DEF SetStatus
      <3> HIDE DEF s
      <3>3. \A r \in Sources : \A v \in InFlight(r) : r # s => v # w
        BY DEF InFlight, s
      <3> QED
        BY <2>2, <3>1, <3>2, <3>3 DEF InFlight
    <2>4. CASE status' = status /\ lost' = lost \cup {s}
      BY <2>2, <2>4 DEF InFlight
    <2> QED
      BY <1>4, <2>3, <2>4 DEF RecordFailure
  <1>5. ASSUME NEW w \in Workers, Persist(w) \/ PersistUnacknowledged(w)
        PROVE  OwnersKept
    <2> DEFINE s == SourceOf[task[w]]
    <2>1. s \in Sources
      BY <1>5, RunningFacts DEF Persist, PersistUnacknowledged, IngestLabels, Tasks
    <2>2. task' = task /\ \A v \in Workers : v # w => pc'[v] = pc[v]
      BY <1>5 DEF Persist, PersistUnacknowledged
    <2>3. CASE SetStatus(s, "ready")
      <3>1. status'[s] # "processing" /\ lost' = lost \ {s}
        BY <2>1, <2>3 DEF SetStatus
      <3>2. \A r \in Sources : r # s => status'[r] = status[r]
        BY <2>1, <2>3 DEF SetStatus
      <3> HIDE DEF s
      <3>3. \A r \in Sources : \A v \in InFlight(r) : r # s => v # w
        BY DEF InFlight, s
      <3> QED
        BY <2>2, <3>1, <3>2, <3>3 DEF InFlight
    <2>4. CASE UNCHANGED dbVars /\ pc' = [pc EXCEPT ![w] = "failed"]
      BY <1>5, <2>2, <2>4 DEF InFlight, IngestLabels
    <2> QED
      BY <1>5, <2>3, <2>4 DEF Persist, PersistUnacknowledged, StoreDocument
  <1>6. ASSUME NEW w \in Workers, DeleteSource(w)
        PROVE  OwnersKept
    <2>1. SourceOf[task[w]] \in Sources
      BY <1>6, RunningFacts DEF DeleteSource, DeleteLabels, Tasks, Control
    <2> QED
      BY <1>6, <2>1 DEF InFlight, IngestLabels, DeleteSource
  <1>7. ASSUME NEW i \in Instances, Crash(i)
        PROVE  OwnersKept
    BY <1>7 DEF Crash, Finish, InFlight
  <1>8. ASSUME NEW s \in Sources, Reclassify(s)
        PROVE  OwnersKept
    BY <1>8 DEF Reclassify, InFlight
  <1>9. CASE UNCHANGED vars
    BY <1>9 DEF vars, InFlight
  <1> QED
    BY <1>1, <1>2, <1>3, <1>4, <1>5, <1>6, <1>7, <1>8, <1>9
       DEF Next, Work, IngestStep, DeleteStep, Fault

LEMMA OwnerStep ==
    ASSUME CtlInv, ProcessingHasOwner, [Next]_vars
    PROVE  ProcessingHasOwner'
  <1>1. ASSUME NEW w \in Workers, MarkProcessing(w)
        PROVE  ProcessingHasOwner'
    <2> USE DEF CtlInv, Typed, TypeOK, DatabaseTypeOK, LocalTypeOK
    <2>1. /\ pc[w] = "mark" /\ pc'[w] \in {"failed", "mkdir"} /\ task' = task
          /\ \A v \in Workers : v # w => pc'[v] = pc[v]
          /\ SetStatus(SourceOf[task[w]], "processing")
      BY <1>1 DEF MarkProcessing, GoTo
    <2>2. \A s \in Sources : s = SourceOf[task[w]] => w \in InFlight(s)'
      BY <2>1 DEF InFlight, IngestLabels
    <2>3. \A s \in Sources : InFlight(s) \subseteq InFlight(s)'
      BY <2>1 DEF InFlight
    <2>4. \A s \in Sources : s # SourceOf[task[w]] =>
              /\ status'[s] = status[s]
              /\ s \in lost => s \in lost'
      BY <2>1 DEF SetStatus
    <2> QED
      <3> SUFFICES ASSUME NEW s \in Sources, status'[s] = "processing"
                   PROVE  InFlight(s)' # {} \/ s \in lost'
        BY DEF ProcessingHasOwner
      <3>1. CASE s = SourceOf[task[w]]
        BY <2>2, <3>1
      <3>2. CASE s # SourceOf[task[w]]
        <4>1. InFlight(s) # {} \/ s \in lost
          BY <2>4, <3>2 DEF ProcessingHasOwner
        <4> QED
          BY ONLY <2>3, <2>4, <3>2, <4>1, s \in Sources
      <3> QED
        BY <3>1, <3>2
  <1>2. CASE OwnersKept
    BY <1>2 DEF ProcessingHasOwner, OwnersKept
  <1> QED
    BY <1>1, <1>2, OwnersGoOn

\* Whatever fails on the way, overlaps or writes to the same status column, a source
\* that shows "processing" has an attempt in flight that will replace it, or the last
\* attempt that should have done so was cut short by a crash or by the database.
THEOREM ProcessingIsOwned == Spec => []ProcessingHasOwner
  <1> DEFINE Inv == CtlInv /\ FreshIds /\ IndexInv /\ AnswerInv
  <1>1. Init => ProcessingHasOwner
    BY DEF Init, ProcessingHasOwner
  <1>2. Inv /\ ProcessingHasOwner /\ [Next]_vars => ProcessingHasOwner'
    BY OwnerStep
  <1> QED
    BY <1>1, <1>2, LayersInvariant, PTL DEF Spec

-----------------------------------------------------------------------------
(* The hash of a document.  The path an attempt parses holds its own bytes for *)
(* as long as no other attempt stages there.                                   *)

\* Two attempts with one path know of each other.
SharedInv ==
    \A v, w \in Workers :
        /\ v # w /\ StagingPath(v) = StagingPath(w)
        /\ {task[v], task[w]} \subseteq IngestTasks
        => v \in shared

\* Alone at its path, an attempt finds there what it put there or nothing at all.
OwnFile(w) ==
    LET f == files[StagingPath(w)] IN
    /\ pc[w] = "write" => f = IF w \in opened THEN EmptyFile ELSE None
    /\ pc[w] = "parse" => f \in {None, ContentOf[task[w]]}
    /\ text[w] \in {None, ContentOf[task[w]]}

OwnInv ==
    \A w \in Workers :
        /\ text[w] # None => task[w] \in IngestTasks
        /\ task[w] \in IngestTasks /\ w \notin shared => OwnFile(w)

LEMMA SharedStep ==
    ASSUME CtlInv, SharedInv, [Next]_vars
    PROVE  SharedInv'
  <1> SUFFICES ASSUME NEW v \in Workers, NEW w \in Workers, v # w,
                      StagingPath(v)' = StagingPath(w)',
                      {task'[v], task'[w]} \subseteq IngestTasks
               PROVE  v \in shared'
    BY DEF SharedInv
  <1> USE DEF CtlInv, Typed, TypeOK, LocalTypeOK
  <1>1. ASSUME NEW u \in Workers
        PROVE  Ends(u) => task'[u] \notin IngestTasks
    BY DEF Ends, Tasks
  <1>2. ASSUME NEW u \in Workers, Stays(u) \/ Acts(u)
        PROVE  task'[u] = task[u] /\ (u \in shared => u \in shared')
    BY <1>2 DEF Stays, Acts, pastVars
  <1>3. ASSUME NEW t \in Tasks, Dispatch(t, v)
        PROVE  v \in shared'
    <2>1. task'[v] = t /\ task'[w] = task[w]
      BY <1>3 DEF Dispatch, Begin
    <2>2. w \in Sharing(t, v)
      BY <2>1 DEF Sharing, StagingPath
    <2> QED
      BY <1>3, <2>2 DEF Dispatch, Begin
  <1>4. ASSUME NEW t \in Tasks, Dispatch(t, w)
        PROVE  v \in shared'
    <2>1. task'[w] = t /\ task'[v] = task[v]
      BY <1>4 DEF Dispatch, Begin
    <2>2. v \in Sharing(t, w)
      BY <2>1 DEF Sharing, StagingPath
    <2> QED
      BY <1>4, <2>2 DEF Dispatch, Begin
  <1>5. CASE (Stays(v) \/ Acts(v)) /\ (Stays(w) \/ Acts(w))
    BY <1>2, <1>5 DEF SharedInv, StagingPath
  <1> QED
    BY <1>1, <1>3, <1>4, <1>5, SlotSteps

\* The file at the path of an attempt changes only when an attempt writes there, or it
\* is taken away, together with what the attempt holds open.
LEMMA StepFiles ==
    ASSUME CtlInv, [Next]_vars, NEW w \in Workers, task'[w] = task[w],
           task[w] \in IngestTasks
    PROVE  LET p == StagingPath(w) IN
           \/ files'[p] = files[p] /\ (w \in opened' <=> w \in opened)
           \/ files'[p] = None /\ w \notin opened'
           \/ \E u \in Workers :
                /\ OpenStagedFile(u) \/ WriteStagedFile(u) \/ WriteFails(u)
                /\ StagingPath(u) = p
  <1> USE DEF CtlInv, Typed, TypeOK, StagingTypeOK, diskVars
  <1> DEFINE p == StagingPath(w)
             Goal == \/ files'[p] = files[p] /\ (w \in opened' <=> w \in opened)
                     \/ files'[p] = None /\ w \notin opened'
                     \/ \E u \in Workers :
                          /\ OpenStagedFile(u) \/ WriteStagedFile(u) \/ WriteFails(u)
                          /\ StagingPath(u) = p
  <1>0. p \in Paths
    BY PathFacts
  <1>1. ASSUME NEW u \in Workers,
               \/ CheckIdempotency(u) \/ MarkProcessing(u) \/ MakeStagingDir(u)
               \/ ParseAndEmbed(u) \/ PruneStagingDir(u) \/ Persist(u) \/ RecordFailure(u)
               \/ CountChunks(u) \/ DeleteSource(u) \/ Reply(u) \/ ReplyLost(u)
               \/ PersistUnacknowledged(u) \/ DatabaseError(u) \/ DeleteError(u)
        PROVE  Goal
    BY <1>1 DEF CheckIdempotency, MarkProcessing, MakeStagingDir, ParseAndEmbed,
                PruneStagingDir, Persist, RecordFailure, CountChunks, DeleteSource, Reply,
                ReplyLost, PersistUnacknowledged, DatabaseError, DeleteError
  <1>2. ASSUME NEW u \in Workers,
               OpenStagedFile(u) \/ WriteStagedFile(u) \/ WriteFails(u)
        PROVE  Goal
    <2>1. CASE StagingPath(u) = p
      BY <1>2, <2>1
    <2>2. CASE StagingPath(u) # p
      <3>1. files'[p] = files[p]
        BY <1>0, <1>2, <2>2 DEF OpenStagedFile, WriteStagedFile, WriteFails
      <3>2. w # u
        BY <2>2
      <3>3. w \in opened' <=> w \in opened
        BY <1>2, <3>2 DEF OpenStagedFile, WriteStagedFile, WriteFails
      <3> QED
        BY <3>1, <3>3
    <2> QED
      BY <2>1, <2>2
  <1>3. ASSUME NEW P, Unlink(P)
        PROVE  Goal
    BY <1>0, <1>3 DEF Unlink
  <1>4. ASSUME NEW u \in Workers, CleanupStaging(u) \/ RemoveStagingDir(u)
        PROVE  Goal
    <2>1. UNCHANGED diskVars \/ \E P : Unlink(P)
      BY <1>4 DEF CleanupStaging, RemoveStagingDir
    <2> QED
      BY <1>3, <2>1
  <1>5. ASSUME NEW i \in Instances, Crash(i)
        PROVE  Goal
    <2>1. Host[w] # i
      BY <1>5 DEF Crash, Finish, Tasks
    <2>2. p[1] # i
      BY <2>1 DEF StagingPath
    <2> QED
      BY <1>0, <1>5, <2>1, <2>2 DEF Crash
  <1>6. ASSUME NEW t \in Tasks, NEW u \in Workers, Dispatch(t, u)
        PROVE  Goal
    BY <1>6 DEF Dispatch
  <1>7. ASSUME NEW s \in Sources, Reclassify(s)
        PROVE  Goal
    BY <1>7 DEF Reclassify
  <1>8. CASE UNCHANGED vars
    BY <1>8 DEF vars
  <1> QED
    BY <1>1, <1>2, <1>4, <1>5, <1>6, <1>7, <1>8 DEF Next, Work, IngestStep, DeleteStep, Fault

\* The steps of the others leave what an attempt that is alone at its path finds there.
LEMMA OwnFileStays ==
    ASSUME CtlInv, SharedInv, [Next]_vars, NEW w \in Workers, Stays(w),
           task[w] \in IngestTasks, w \notin shared', OwnFile(w)
    PROVE  OwnFile(w)'
  <1> DEFINE p == StagingPath(w)
  <1>1. w \notin shared /\ UNCHANGED <<p, task[w], pc[w], text[w]>>
    BY DEF Stays, StagingPath
  <1> HIDE DEF p
  <1>2. ASSUME NEW u \in Workers, OpenStagedFile(u) \/ WriteStagedFile(u) \/ WriteFails(u),
               StagingPath(u) = p
        PROVE  FALSE
    <2>1. task[u] \in IngestTasks
      BY <1>2, RunningFacts
         DEF OpenStagedFile, WriteStagedFile, WriteFails, IngestLabels
    <2>2. pc'[u] # pc[u]
      BY <1>2 DEF OpenStagedFile, WriteStagedFile, WriteFails, GoTo, CtlInv, Typed, TypeOK,
                  LocalTypeOK
    <2> QED
      BY <1>1, <1>2, <2>1, <2>2 DEF SharedInv, p
  <1>3. \/ files'[p] = files[p] /\ (w \in opened' <=> w \in opened)
        \/ files'[p] = None /\ w \notin opened'
    <2>1. task'[w] = task[w]
      BY <1>1
    <2>2. LET q == StagingPath(w) IN
          \/ files'[q] = files[q] /\ (w \in opened' <=> w \in opened)
          \/ files'[q] = None /\ w \notin opened'
          \/ \E u \in Workers :
                /\ OpenStagedFile(u) \/ WriteStagedFile(u) \/ WriteFails(u)
                /\ StagingPath(u) = q
      BY ONLY <2>1, StepFiles, CtlInv, [Next]_vars, w \in Workers, task[w] \in IngestTasks
    <2> QED
      BY ONLY <1>2, <2>2 DEF p
  <1> QED
    BY <1>1, <1>3 DEF OwnFile, p

\* What an attempt that is alone at its path does there itself.
LEMMA OwnFileActs ==
    ASSUME CtlInv, SharedInv, NEW w \in Workers, Acts(w),
           task[w] \in IngestTasks, w \notin shared, OwnFile(w)
    PROVE  OwnFile(w)'
  <1> DEFINE p == StagingPath(w)
  <1> USE DEF CtlInv, Typed, TypeOK, StagingTypeOK, LocalTypeOK, GoTo
  <1>0. UNCHANGED <<task, StagingPath(w)>> /\ p \in Paths
    BY PathFacts DEF Acts, StagingPath
  <1>1. CASE OpenStagedFile(w)
    BY <1>0, <1>1 DEF OpenStagedFile, OwnFile, localVars
  <1>2. CASE WriteStagedFile(w)
    <2>1. ContentOf[task[w]] \in Contents
      OBVIOUS
    <2>2. files'[p] = IF w \in opened THEN ContentOf[task[w]] ELSE None
      BY <1>0, <1>2, <2>1 DEF WriteStagedFile, OwnFile
    <2> QED
      BY <1>0, <1>2, <2>2 DEF WriteStagedFile, OwnFile, localVars
  <1>3. CASE ParseAndEmbed(w)
    <2>1. \A u \in opened : StagingPath(u) # p
      BY <1>3, RunningFacts DEF ParseAndEmbed, OpenFiles, SharedInv, IngestLabels
    <2>2. {u \in opened : StagingPath(u) = p} = {}
      BY <2>1
    <2>3. Readable(w) = {files[p]}
      BY ONLY <2>2, Zenon DEF Readable
    <2> QED
      BY <1>0, <1>3, <2>3 DEF ParseAndEmbed, OwnFile
  <1>4. CASE \/ CheckIdempotency(w) \/ MarkProcessing(w) \/ MakeStagingDir(w)
             \/ WriteFails(w) \/ CleanupStaging(w) \/ PruneStagingDir(w)
             \/ RemoveStagingDir(w) \/ Persist(w) \/ CountChunks(w) \/ DeleteSource(w)
             \/ PersistUnacknowledged(w) \/ DatabaseError(w)
    <2>1. text' = text /\ pc'[w] \notin {"write", "parse"}
      BY <1>4 DEF CheckIdempotency, MarkProcessing, MakeStagingDir, WriteFails,
                  CleanupStaging, PruneStagingDir, RemoveStagingDir, AfterStaging, Persist,
                  CountChunks, DeleteSource, PersistUnacknowledged, DatabaseError, localVars
    <2> QED
      BY <1>0, <2>1 DEF OwnFile
  <1> QED
    BY <1>1, <1>2, <1>3, <1>4 DEF Acts

LEMMA OwnStep ==
    ASSUME CtlInv, SharedInv, OwnInv, [Next]_vars
    PROVE  OwnInv'
  <1> SUFFICES ASSUME NEW w \in Workers
               PROVE  /\ text'[w] # None => task'[w] \in IngestTasks
                      /\ task'[w] \in IngestTasks /\ w \notin shared' => OwnFile(w)'
    BY DEF OwnInv
  <1> USE DEF CtlInv, Typed, TypeOK, LocalTypeOK
  <1>1. CASE Stays(w)
    <2>1. task'[w] = task[w] /\ text'[w] = text[w]
      BY <1>1 DEF Stays
    <2>2. w \notin shared' => w \notin shared
      BY <1>1 DEF Stays
    <2> QED
      BY <1>1, <2>1, <2>2, OwnFileStays DEF OwnInv
  <1>2. CASE Acts(w)
    <2>1. task'[w] = task[w] /\ shared' = shared
      BY <1>2 DEF Acts, pastVars
    <2>2. text'[w] # None => text[w] # None \/ task[w] \in IngestTasks
      BY <1>2, RunningFacts
         DEF Acts, IngestLabels, CheckIdempotency, MarkProcessing, MakeStagingDir,
             OpenStagedFile, WriteStagedFile, WriteFails, ParseAndEmbed, CleanupStaging,
             PruneStagingDir, RemoveStagingDir, Persist, CountChunks, DeleteSource,
             PersistUnacknowledged, DatabaseError, localVars
    <2> QED
      BY <1>2, <2>1, <2>2, OwnFileActs DEF OwnInv
  <1>3. CASE Ends(w)
    BY <1>3 DEF Ends, Tasks
  <1>4. ASSUME NEW t \in Tasks, Dispatch(t, w)
        PROVE  text'[w] = None /\ pc'[w] \notin {"write", "parse"}
    <2>1. task[w] = None /\ text' = text
      BY <1>4 DEF Dispatch, Control
    <2>2. text[w] = None
      BY <2>1 DEF OwnInv, Tasks
    <2> QED
      BY <1>4, <2>1, <2>2 DEF Dispatch, Begin
  <1>5. (\E t \in Tasks : Dispatch(t, w)) => OwnFile(w)'
    BY <1>4 DEF OwnFile
  <1> QED
    BY <1>1, <1>2, <1>3, <1>4, <1>5, SlotSteps

\* The chunks of a document are cut from the bytes whose hash it carries, unless two
\* attempts staged under one path side by side: whatever else overlaps, fails, fills
\* the disk or dies, no attempt reads another's bytes, or half of its own.
THEOREM HashesAreOfChunks == Spec => HashIsOfChunks
  <1> DEFINE Inv == CtlInv /\ FreshIds /\ IndexInv /\ AnswerInv
             Own == SharedInv /\ OwnInv
             Hashed == \A w \in Workers : \A c \in chunks' \ chunks, d \in documents' :
                          c.document = AttemptId(w) /\ d.id = AttemptId(w) =>
                              c.text = d.hash \/ w \in shared
  <1>1. Init => Own
    BY DEF Init, SharedInv, OwnInv, OwnFile, Tasks
  <1>2. Inv /\ Own /\ [Next]_vars => Own'
    BY SharedStep, OwnStep
  <1>3. ASSUME Inv, Own, [Next]_vars
        PROVE  Hashed
    <2> SUFFICES ASSUME NEW w \in Workers, NEW c \in chunks' \ chunks, NEW d \in documents',
                        c.document = AttemptId(w), d.id = AttemptId(w)
                 PROVE  c.text = d.hash \/ w \in shared
      OBVIOUS
    <2>1. Persisting(w) /\ c \in NewChunks(w)
      BY <1>3, NewRows
    <2>2. c.text = text[w]
      BY <2>1 DEF NewChunks
    <2>3. d \notin documents
      BY <1>3, <2>1 DEF FreshIds, Persisting, InsertLabels, IngestLabels
    <2>4. d.hash = ContentOf[task[w]]
      BY <1>3, <2>3, NewRows
    <2>5. task[w] \in IngestTasks /\ text[w] # None
      BY <1>3, <2>1, RunningFacts DEF Persisting, IngestLabels, CtlInv, Typed, Control
    <2> QED
      BY <1>3, <2>2, <2>4, <2>5 DEF OwnInv, OwnFile
  <1>4. Inv /\ Own /\ [Next]_vars => [Hashed]_vars
    BY <1>3
  <1> QED
    BY <1>1, <1>2, <1>4, LayersInvariant, PTL DEF Spec, HashIsOfChunks
==============================================================================
