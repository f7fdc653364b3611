------------------------------ MODULE Ingestion ------------------------------
(***************************************************************************)
(* The ingestion worker of VEYDUS: Cloud Tasks pushes ingest and delete    *)
(* tasks to the worker service, whose request handlers run concurrently on *)
(* one or more container instances.  A handler attempt works on            *)
(*                                                                         *)
(*   - the database (sources, documents, chunks, audit_log), through       *)
(*     transactions that are atomic at READ COMMITTED;                     *)
(*   - the staging directory of its own instance, which it shares with     *)
(*     every other attempt on that instance.                               *)
(*                                                                         *)
(* One organisation is modelled: every statement carries the same org_id.  *)
(* A file's bytes are a member of Contents, and two files have the same    *)
(* SHA-256 hash exactly when they are the same member.                     *)
(***************************************************************************)
EXTENDS Integers, FiniteSets

CONSTANTS
    Sources,        \* rows of the sources table that exist at the start
    Contents,       \* what the bytes of an uploaded file can be
    EmptyFile,      \* the file of length zero
    Filenames,
    Departments,
    Levels,
    Instances,      \* container instances of the worker service
    Workers,        \* request slots, each on one instance
    IngestTasks,
    DeleteTasks,
    SourceOf,       \* task -> source
    ContentOf,      \* ingest task -> content
    FileOf,         \* ingest task -> filename
    RequestDept,    \* ingest task -> department, or None when left out
    RequestLevel,   \* ingest task -> level
    FirstAccess,    \* source -> department and level of its row at the start
    LaterAccess,    \* source -> those an administrator may give it later
    ChunkCount,     \* content -> number of chunks it is cut into
    Overwritten,    \* old and new content -> the new bytes written over the old
    Blends,         \* old and new content -> what can be read during that write
    Host,           \* request slot -> instance
    MaxAttempts,    \* max_attempts of the queue
    MaxCrashes,     \* bound: crashes of instances in a behaviour
    Faults,         \* what may go wrong in a run: subset of FaultKinds
    None

Tasks == IngestTasks \cup DeleteTasks

FaultKinds == {"provider", "database", "disk", "network", "crash"}

\* The columns department_id and hierarchy_level of a source.
Access == [dept : Departments, level : Levels]

ASSUME ConstantsAssumption ==
    /\ EmptyFile \in Contents
    /\ SourceOf \in [Tasks -> Sources]
    /\ ContentOf \in [IngestTasks -> Contents]
    /\ FileOf \in [IngestTasks -> Filenames]
    /\ RequestDept \in [IngestTasks -> Departments \cup {None}]
    /\ RequestLevel \in [IngestTasks -> Levels]
    /\ FirstAccess \in [Sources -> Access]
    /\ LaterAccess \in [Sources -> SUBSET Access]
    /\ ChunkCount \in [Contents -> Nat]
    /\ Overwritten \in [Contents \X Contents -> Contents]
    /\ Blends \in [Contents \X Contents -> SUBSET Contents]
    /\ Host \in [Workers -> Instances]
    /\ MaxAttempts \in Nat \ {0}
    /\ MaxCrashes \in Nat
    /\ Faults \subseteq FaultKinds

ASSUME DistinctValues ==
    /\ IngestTasks \cap DeleteTasks = {}
    /\ None \notin Tasks \cup Contents \cup Departments \cup Levels
    /\ ChunkCount[EmptyFile] = 0
    /\ \A c \in Contents : Overwritten[<<EmptyFile, c>>] = c

VARIABLES
    status,      \* source -> status column, or "gone" when the row is deleted
    access,      \* source -> its columns department_id and hierarchy_level
    documents,   \* rows of documents
    chunks,      \* rows of chunks
    audit,       \* rows of audit_log, append-only
    dirs,        \* staging directories that exist, as <<instance, source>>
    files,       \* staging path -> content of the file there, or None
    opened,      \* request slots whose open file is the one at their path
    dispatched,  \* task -> number of dispatches so far
    acked,       \* tasks the queue saw answered with HTTP 200
    pc,          \* request slot -> next step of the attempt it runs
    task,        \* request slot -> task it runs, or None
    attempt,     \* request slot -> which dispatch of the task this is
    tag,         \* request slot -> access tags read in the first transaction
    text,        \* request slot -> content the parser read, or None
    counted,     \* request slot -> chunks counted before a deletion
    crashes,
    \* History variables: no guard reads them.
    before,      \* request slot -> its source as it was when the attempt began
    shared,      \* request slots at whose path another attempt ran beside theirs
    seen,        \* request slot -> access its source had during the attempt
    lost         \* sources whose last status update was the end of an attempt
                 \* that a crash, or the database, left unrecorded

dbVars      == <<status, lost, documents, chunks, audit>>
diskVars    == <<dirs, files, opened>>
queueVars   == <<dispatched, acked>>
pastVars    == <<before, shared, seen>>
localVars   == <<task, attempt, tag, text, counted, pastVars>>
outsideVars == <<access, crashes>>
vars == <<dbVars, diskVars, queueVars, pc, localVars, outsideVars>>

Paths == Instances \X Sources \X Filenames
Tags == [dept : Departments \cup {None}, level : Levels \cup {None}]
NoTag == [dept |-> None, level |-> None]

\* uuid4() keys are modelled by the attempt that drew them: an attempt inserts
\* at most one document and writes at most one audit event.
AttemptIds == Tasks \X (1 .. MaxAttempts)
AttemptId(w) == <<task[w], attempt[w]>>

\* The steps an attempt of an ingest or a delete task can be at.
IngestLabels == {"check", "mark", "mkdir", "open", "write", "parse", "cleanup",
                 "prune", "rmtree", "persist", "failed"}
DeleteLabels == {"count", "delete"}

Statuses == {"pending", "processing", "ready", "failed", "gone"}

Document == [id : AttemptIds, source : Sources, hash : Contents]
Chunk == [document : AttemptIds, source : Sources, tag : Tags,
          text : Contents, ordinal : Nat]
AuditEvent == [event : {"document_ingested", "deletion_verified"},
               id : AttemptIds, source : Sources, chunks : Nat]

Exists(s) == status[s] # "gone"
ChunksOf(id) == {c \in chunks : c.document = id}

\* Mutated form: documents are counted in place of chunks.
DocumentsIn(s) == {d \in documents : d.source = s}

ChunksIn(s) == {c \in chunks : c.source = s}

\* Whether a source is there, and its documents.
SourceNow(s) == [live |-> Exists(s), documents |-> {d \in documents : d.source = s}]
Nothing == [live |-> FALSE, documents |-> {}]

\* Mutated form: no upload matches an earlier one.
NoDocuments(t) == {}

\* The documents the idempotency query of an ingest task selects from.
SameDocuments(t) ==
    {d \in documents : d.source = SourceOf[t] /\ d.hash = ContentOf[t]}

\* Mutated form: one staging path per source, whatever the file is called.
SharedStagingPath(w) ==
    <<Host[w], SourceOf[task[w]], CHOOSE f \in Filenames : TRUE>>

\* {staging_dir}/{source_id} and {staging_dir}/{source_id}/{filename}
StagingDir(w) == <<Host[w], SourceOf[task[w]]>>
StagingPath(w) == <<Host[w], SourceOf[task[w]], FileOf[task[w]]>>

Init ==
    /\ status = [s \in Sources |-> "pending"]
    /\ access = FirstAccess
    /\ documents = {}
    /\ chunks = {}
    /\ audit = {}
    /\ dirs = {}
    /\ files = [p \in Paths |-> None]
    /\ opened = {}
    /\ dispatched = [t \in Tasks |-> 0]
    /\ acked = {}
    /\ pc = [w \in Workers |-> "idle"]
    /\ task = [w \in Workers |-> None]
    /\ attempt = [w \in Workers |-> 0]
    /\ tag = [w \in Workers |-> NoTag]
    /\ text = [w \in Workers |-> None]
    /\ counted = [w \in Workers |-> 0]
    /\ crashes = 0
    /\ before = [w \in Workers |-> Nothing]
    /\ shared = {}
    /\ seen = [w \in Workers |-> {}]
    /\ lost = {}

-----------------------------------------------------------------------------
(* The queue.  Cloud Tasks delivers at least once: it dispatches a task    *)
(* again after an HTTP 500 or a missing answer, and may do so while an     *)
(* earlier dispatch is still running, up to max_attempts dispatches.       *)

\* The ingest attempts running now that stage where task t does in slot w.
Sharing(t, w) ==
    {v \in Workers :
        /\ {t, task[v]} \subseteq IngestTasks
        /\ Host[v] = Host[w]
        /\ SourceOf[task[v]] = SourceOf[t] /\ FileOf[task[v]] = FileOf[t]}

\* Attempt a of task t begins in slot w.
Begin(t, a, w) ==
    /\ pc' = [pc EXCEPT ![w] = IF t \in IngestTasks THEN "check" ELSE "count"]
    /\ task' = [task EXCEPT ![w] = t]
    /\ attempt' = [attempt EXCEPT ![w] = a]
    /\ before' = [before EXCEPT ![w] = SourceNow(SourceOf[t])]
    /\ shared' = IF Sharing(t, w) = {} THEN shared
                 ELSE shared \cup Sharing(t, w) \cup {w}
    /\ seen' = [seen EXCEPT ![w] = {access[SourceOf[t]]}]

\* Mutated form: the queue ignores max_attempts.
DispatchForEver(t, w) ==
    /\ pc[w] = "idle"
    /\ t \notin acked
    /\ dispatched' = [dispatched EXCEPT ![t] = @ + 1]
    /\ Begin(t, dispatched[t] + 1, w)
    /\ UNCHANGED <<dbVars, diskVars, acked, tag, text, counted, outsideVars>>

Dispatch(t, w) ==
    /\ pc[w] = "idle"
    /\ t \notin acked
    /\ dispatched[t] < MaxAttempts
    /\ dispatched' = [dispatched EXCEPT ![t] = @ + 1]
    /\ Begin(t, dispatched[t] + 1, w)
    /\ UNCHANGED <<dbVars, diskVars, acked, tag, text, counted, outsideVars>>

GoTo(w, label) == pc' = [pc EXCEPT ![w] = label]

\* The attempts of the slots in W end: their local state is gone.
Finish(W) ==
    /\ pc' = [w \in Workers |-> IF w \in W THEN "idle" ELSE pc[w]]
    /\ task' = [w \in Workers |-> IF w \in W THEN None ELSE task[w]]
    /\ attempt' = [w \in Workers |-> IF w \in W THEN 0 ELSE attempt[w]]
    /\ tag' = [w \in Workers |-> IF w \in W THEN NoTag ELSE tag[w]]
    /\ text' = [w \in Workers |-> IF w \in W THEN None ELSE text[w]]
    /\ counted' = [w \in Workers |-> IF w \in W THEN 0 ELSE counted[w]]
    /\ before' = [w \in Workers |-> IF w \in W THEN Nothing ELSE before[w]]
    /\ shared' = shared \ W
    /\ seen' = [w \in Workers |-> IF w \in W THEN {} ELSE seen[w]]

\* HTTP 200 reaches the queue, which deletes the task ...
Reply(w) ==
    /\ pc[w] = "reply"
    /\ acked' = acked \cup {task[w]}
    /\ Finish({w})
    /\ UNCHANGED <<dbVars, diskVars, dispatched, outsideVars>>

\* ... or the answer is lost, and the queue will dispatch the task again.
ReplyLost(w) ==
    /\ "network" \in Faults
    /\ pc[w] = "reply"
    /\ Finish({w})
    /\ UNCHANGED <<dbVars, diskVars, queueVars, outsideVars>>

-----------------------------------------------------------------------------
\* An administrator changes the department or the level of a source.  Nothing
\* under src/ does, nor creates sources: their rows come from outside.
Reclassify(s) ==
    /\ \E a \in LaterAccess[s] \ {access[s]} :
            /\ access' = [access EXCEPT ![s] = a]
            /\ seen' = [w \in Workers |->
                          IF task[w] \in Tasks /\ SourceOf[task[w]] = s
                          THEN seen[w] \cup {a} ELSE seen[w]]
    /\ UNCHANGED <<dbVars, diskVars, queueVars, pc, task, attempt, tag, text,
                   counted, before, shared, crashes>>

-----------------------------------------------------------------------------
(* ingest_document, first transaction: idempotency check, access tags of   *)
(* the source, status "processing".  Between the check and the UPDATE the  *)
(* transaction may wait for the row lock of another attempt, so the two    *)
(* are separate steps.                                                     *)

CheckIdempotency(w) ==
    /\ pc[w] = "check"
    /\ \/ \E d \in SameDocuments(task[w]) :
            GoTo(w, IF ChunksOf(d.id) # {} THEN "reply" ELSE "mark")
       \/ SameDocuments(task[w]) = {} /\ GoTo(w, "mark")
    /\ UNCHANGED <<dbVars, diskVars, queueVars, localVars, outsideVars>>

\* Mutated form: the level of the request wins, like its department.
ResolveTagFromRequest(t) ==
    [dept |-> IF RequestDept[t] = None /\ Exists(SourceOf[t])
              THEN access[SourceOf[t]].dept ELSE RequestDept[t],
     level |-> RequestLevel[t]]

\* The tags an attempt goes on with: the department of the request wins over
\* the source's, the level of the source wins over the request's.
ResolveTag(t) ==
    LET s == SourceOf[t] IN
    IF Exists(s)
    THEN [dept |-> IF RequestDept[t] = None THEN access[s].dept ELSE RequestDept[t],
          level |-> access[s].level]
    ELSE [dept |-> RequestDept[t], level |-> RequestLevel[t]]

SetStatus(s, value) ==
    /\ status' = [status EXCEPT ![s] = IF @ = "gone" THEN @ ELSE value]
    /\ lost' = lost \ {s}

MarkProcessing(w) ==
    /\ pc[w] = "mark"
    /\ tag' = [tag EXCEPT ![w] = ResolveTag(task[w])]
    /\ SetStatus(SourceOf[task[w]], "processing")
    /\ GoTo(w, IF ResolveTag(task[w]).dept = None THEN "failed" ELSE "mkdir")
    /\ UNCHANGED <<documents, chunks, audit, diskVars, queueVars,
                   task, attempt, text, counted, pastVars, outsideVars>>

-----------------------------------------------------------------------------
(* Staging, parsing, chunking, embedding.  The directory is made on the    *)
(* event loop; a thread opens the file, which creates or truncates it, and *)
(* then writes the bytes; another reads them.  Other attempts may run in   *)
(* between each two of these.  All but the reading precede the try block   *)
(* of stage_context: an error in them skips the cleanup.                   *)

MakeStagingDir(w) ==
    /\ pc[w] = "mkdir"
    /\ dirs' = dirs \cup {StagingDir(w)}
    /\ GoTo(w, "open")
    /\ UNCHANGED <<dbVars, files, opened, queueVars, localVars, outsideVars>>

OpenStagedFile(w) ==
    /\ pc[w] = "open"
    /\ \/ /\ StagingDir(w) \in dirs
          /\ files' = [files EXCEPT ![StagingPath(w)] = EmptyFile]
          /\ opened' = opened \cup {w}
          /\ GoTo(w, "write")
       \/ /\ StagingDir(w) \notin dirs
          /\ GoTo(w, "failed")
          /\ UNCHANGED <<files, opened>>
    /\ UNCHANGED <<dbVars, dirs, queueVars, localVars, outsideVars>>

\* Once the file was removed behind its back, a slot writes to one that no path
\* leads to.
WriteStagedFile(w) ==
    /\ pc[w] = "write"
    /\ files' = IF w \in opened
                THEN [files EXCEPT ![StagingPath(w)] =
                         Overwritten[<<@, ContentOf[task[w]]>>]]
                ELSE files
    /\ opened' = opened \ {w}
    /\ GoTo(w, "parse")
    /\ UNCHANGED <<dbVars, dirs, queueVars, localVars, outsideVars>>

\* The disk is full: the file was created, and not all of it could be written.
WriteFails(w) ==
    /\ "disk" \in Faults
    /\ pc[w] = "write"
    /\ \/ UNCHANGED files
       \/ /\ w \in opened
          /\ \E c \in Blends[<<files[StagingPath(w)], ContentOf[task[w]]>>] :
                files' = [files EXCEPT ![StagingPath(w)] = c]
    /\ opened' = opened \ {w}
    /\ GoTo(w, "failed")
    /\ UNCHANGED <<dbVars, dirs, queueVars, localVars, outsideVars>>

\* What a reader can find at the path of w: the file that is there, or what
\* another attempt in the middle of writing makes of it.
Readable(w) ==
    LET p == StagingPath(w) IN
    {files[p]} \cup UNION {Blends[<<files[p], ContentOf[task[v]]>>] :
                             v \in {u \in opened : StagingPath(u) = p}}

\* Mutated form: the parser waits for a file that is missing.
ParseWhenThere(w) ==
    /\ pc[w] = "parse"
    /\ files[StagingPath(w)] # None
    /\ text' = [text EXCEPT ![w] = files[StagingPath(w)]]
    /\ GoTo(w, "cleanup")
    /\ UNCHANGED <<dbVars, diskVars, queueVars, task, attempt, tag, counted,
                   pastVars, outsideVars>>

\* The parser reads whatever file is at the path now; chunking and embedding
\* what it read touch no shared state.  A missing file, a parser error and an
\* embedding call that exhausts its retries all leave text at None.
ParseAndEmbed(w) ==
    /\ pc[w] = "parse"
    /\ \/ \E c \in Readable(w) : text' = [text EXCEPT ![w] = c]
       \/ "provider" \in Faults /\ UNCHANGED text
    /\ GoTo(w, "cleanup")
    /\ UNCHANGED <<dbVars, diskVars, queueVars, task, attempt, tag, counted,
                   pastVars, outsideVars>>

\* Where an attempt goes on once stage_context is left.
AfterStaging(w) == IF text[w] = None THEN "failed" ELSE "persist"

\* The files at the paths of P are removed, open ones too.
Unlink(P) ==
    /\ files' = [p \in Paths |-> IF p \in P THEN None ELSE files[p]]
    /\ opened' = {v \in opened : StagingPath(v) \notin P}

\* Mutated form: the cleanup follows the yield outside of a finally block.
CleanupOnSuccess(w) ==
    /\ pc[w] = "cleanup"
    /\ \/ /\ text[w] = None
          /\ GoTo(w, "failed")
          /\ UNCHANGED <<files, opened>>
       \/ /\ text[w] # None
          /\ Unlink({StagingPath(w)})
          /\ GoTo(w, "prune")
    /\ UNCHANGED <<dbVars, dirs, queueVars, localVars, outsideVars>>

\* The finally block of stage_context, on success and on error alike, runs on a
\* thread: unlink the file, look into its directory, remove the directory.  An
\* unlink that another attempt got ahead of raises, and ends the cleanup.
CleanupStaging(w) ==
    /\ pc[w] = "cleanup"
    /\ Unlink({StagingPath(w)})
    /\ \/ GoTo(w, "prune")
       \/ files[StagingPath(w)] = None /\ GoTo(w, AfterStaging(w))
    /\ UNCHANGED <<dbVars, dirs, queueVars, localVars, outsideVars>>

InStagingDir(w) == {p \in Paths : <<p[1], p[2]>> = StagingDir(w)}
StagingDirIsEmpty(w) == \A p \in InStagingDir(w) : files[p] = None

PruneStagingDir(w) ==
    /\ pc[w] = "prune"
    /\ GoTo(w, IF StagingDir(w) \in dirs /\ StagingDirIsEmpty(w)
               THEN "rmtree" ELSE AfterStaging(w))
    /\ UNCHANGED <<dbVars, diskVars, queueVars, localVars, outsideVars>>

\* rmtree(ignore_errors=True) takes what other attempts have put there since,
\* or gives up on the directory when a file appears behind its back.
RemoveStagingDir(w) ==
    /\ pc[w] = "rmtree"
    /\ \/ /\ dirs' = dirs \ {StagingDir(w)}
          /\ Unlink(InStagingDir(w))
       \/ ~ StagingDirIsEmpty(w) /\ UNCHANGED diskVars
    /\ GoTo(w, AfterStaging(w))
    /\ UNCHANGED <<dbVars, queueVars, localVars, outsideVars>>

-----------------------------------------------------------------------------
(* ingest_document, second transaction: the document, its chunks, status   *)
(* "ready" and the audit event, or nothing at all.  The foreign key to     *)
(* sources makes the insert fail once the source is deleted.               *)

NewChunks(w) ==
    {[document |-> AttemptId(w), source |-> SourceOf[task[w]], tag |-> tag[w],
      text |-> text[w], ordinal |-> n] : n \in 1 .. ChunkCount[text[w]]}

\* Mutated form: the audit event counts the chunks of the uploaded bytes.
IngestedUploadEvent(w) ==
    [event |-> "document_ingested", id |-> AttemptId(w),
     source |-> SourceOf[task[w]], chunks |-> ChunkCount[ContentOf[task[w]]]]

IngestedEvent(w) ==
    [event |-> "document_ingested", id |-> AttemptId(w),
     source |-> SourceOf[task[w]], chunks |-> ChunkCount[text[w]]]

StoreDocument(w) ==
    /\ documents' = documents \cup
            {[id |-> AttemptId(w), source |-> SourceOf[task[w]],
              hash |-> ContentOf[task[w]]]}
    /\ chunks' = chunks \cup NewChunks(w)
    /\ SetStatus(SourceOf[task[w]], "ready")
    /\ audit' = audit \cup {IngestedEvent(w)}

\* Mutated form: no foreign key keeps the insert from a deleted source.
PersistUnchecked(w) ==
    /\ pc[w] = "persist"
    /\ StoreDocument(w)
    /\ GoTo(w, "reply")
    /\ UNCHANGED <<diskVars, queueVars, localVars, outsideVars>>

Persist(w) ==
    /\ pc[w] = "persist"
    /\ \/ /\ Exists(SourceOf[task[w]])
          /\ StoreDocument(w)
          /\ GoTo(w, "reply")
       \/ /\ ~ Exists(SourceOf[task[w]])
          /\ GoTo(w, "failed")
          /\ UNCHANGED dbVars
    /\ UNCHANGED <<diskVars, queueVars, localVars, outsideVars>>

\* The commit takes effect, but the connection is lost before the worker
\* learns of it: the attempt goes down the error path.
PersistUnacknowledged(w) ==
    /\ "database" \in Faults
    /\ pc[w] = "persist"
    /\ Exists(SourceOf[task[w]])
    /\ StoreDocument(w)
    /\ GoTo(w, "failed")
    /\ UNCHANGED <<diskVars, queueVars, localVars, outsideVars>>

\* A statement or a commit of either transaction fails and rolls back.
DatabaseError(w) ==
    /\ "database" \in Faults
    /\ pc[w] \in {"check", "mark", "persist"}
    /\ GoTo(w, "failed")
    /\ UNCHANGED <<dbVars, diskVars, queueVars, localVars, outsideVars>>

\* Mutated form: the router answers 200 for a result with status "failed".
RecordFailureAsDone(w) ==
    /\ pc[w] = "failed"
    /\ SetStatus(SourceOf[task[w]], "failed")
    /\ acked' = acked \cup {task[w]}
    /\ Finish({w})
    /\ UNCHANGED <<documents, chunks, audit, diskVars, dispatched, outsideVars>>

\* Mutated form: the except block does not touch the source.
RecordNoFailure(w) ==
    /\ pc[w] = "failed"
    /\ Finish({w})
    /\ UNCHANGED <<dbVars, diskVars, queueVars, outsideVars>>

\* The except block: status "failed" in a transaction of its own, whose own
\* failure is only logged; the router answers HTTP 500.
RecordFailure(w) ==
    /\ pc[w] = "failed"
    /\ \/ SetStatus(SourceOf[task[w]], "failed")
       \/ /\ "database" \in Faults
          /\ lost' = lost \cup {SourceOf[task[w]]}
          /\ UNCHANGED status
    /\ Finish({w})
    /\ UNCHANGED <<documents, chunks, audit, diskVars, queueVars, outsideVars>>

-----------------------------------------------------------------------------
(* delete_source: one transaction, but its statements see what others      *)
(* commit in between, and the DELETE waits for inserts that hold the key   *)
(* share lock of the source row.                                           *)

CountChunks(w) ==
    /\ pc[w] = "count"
    /\ counted' = [counted EXCEPT
                     ![w] = Cardinality(ChunksIn(SourceOf[task[w]]))]
    /\ GoTo(w, "delete")
    /\ UNCHANGED <<dbVars, diskVars, queueVars, task, attempt, tag, text,
                   pastVars, outsideVars>>

\* The chunks a DELETE of s leaves: ON DELETE CASCADE removes those that name
\* the source, and those of the documents that do.
AfterCascade(s) ==
    {c \in chunks : /\ c.source # s
                    /\ \A d \in documents : d.id = c.document => d.source # s}

\* Mutated form: the deletion is not audited.
NoDeletionEvents(w) == {}

DeletionEvents(w) ==
    {[event |-> "deletion_verified", id |-> AttemptId(w),
      source |-> SourceOf[task[w]], chunks |-> counted[w]]}

\* Mutated form: the documents go, the row of the source stays.
DeleteDocuments(w) ==
    LET s == SourceOf[task[w]] IN
    /\ pc[w] = "delete"
    /\ documents' = {d \in documents : d.source # s}
    /\ chunks' = AfterCascade(s)
    /\ audit' = audit \cup DeletionEvents(w)
    /\ GoTo(w, "reply")
    /\ UNCHANGED <<status, lost, diskVars, queueVars, localVars, outsideVars>>

\* The count after the cascade is the assertion of the code: it is zero because
\* AfterCascade leaves no chunk that names s, so its RuntimeError is never raised.
DeleteSource(w) ==
    LET s == SourceOf[task[w]] IN
    /\ pc[w] = "delete"
    /\ status' = [status EXCEPT ![s] = "gone"]
    /\ lost' = lost \ {s}
    /\ documents' = {d \in documents : d.source # s}
    /\ chunks' = AfterCascade(s)
    /\ audit' = audit \cup DeletionEvents(w)
    /\ GoTo(w, "reply")
    /\ UNCHANGED <<diskVars, queueVars, localVars, outsideVars>>

\* Mutated form: an error of the deletion is answered with 200.
DeleteErrorAsDone(w) ==
    /\ "database" \in Faults
    /\ pc[w] \in {"count", "delete"}
    /\ GoTo(w, "reply")
    /\ UNCHANGED <<dbVars, diskVars, queueVars, localVars, outsideVars>>

\* The transaction fails and rolls back; the router answers HTTP 500.
DeleteError(w) ==
    /\ "database" \in Faults
    /\ pc[w] \in {"count", "delete"}
    /\ Finish({w})
    /\ UNCHANGED <<dbVars, diskVars, queueVars, outsideVars>>

-----------------------------------------------------------------------------
\* Attempts of an ingest task of s that have marked s and not yet concluded.
InFlight(s) ==
    {w \in Workers :
        /\ pc[w] \in IngestLabels \ {"check", "mark"}
        /\ SourceOf[task[w]] = s}

(* An instance dies: the attempts on it vanish, open transactions roll     *)
(* back.  Its staging directory survives a restart of the process and is   *)
(* fresh in a new container.                                               *)

Crash(i) ==
    /\ "crash" \in Faults
    /\ crashes < MaxCrashes
    /\ crashes' = crashes + 1
    /\ \E w \in Workers : Host[w] = i /\ pc[w] # "idle"
    /\ Finish({w \in Workers : Host[w] = i})
    /\ lost' = lost \cup {s \in Sources : \E w \in InFlight(s) : Host[w] = i}
    /\ opened' = {w \in opened : Host[w] # i}
    /\ \/ UNCHANGED <<dirs, files>>
       \/ /\ dirs' = {d \in dirs : d[1] # i}
          /\ files' = [p \in Paths |-> IF p[1] = i THEN None ELSE files[p]]
    /\ UNCHANGED <<status, documents, chunks, audit, queueVars, access>>

-----------------------------------------------------------------------------
IngestStep(w) ==
    \/ CheckIdempotency(w)
    \/ MarkProcessing(w)
    \/ MakeStagingDir(w)
    \/ OpenStagedFile(w)
    \/ WriteStagedFile(w)
    \/ ParseAndEmbed(w)
    \/ CleanupStaging(w)
    \/ PruneStagingDir(w)
    \/ RemoveStagingDir(w)
    \/ Persist(w)
    \/ RecordFailure(w)

DeleteStep(w) == CountChunks(w) \/ DeleteSource(w)

Fault(w) ==
    \/ ReplyLost(w)
    \/ WriteFails(w)
    \/ PersistUnacknowledged(w)
    \/ DatabaseError(w)
    \/ DeleteError(w)

Work(w) == IngestStep(w) \/ DeleteStep(w) \/ Reply(w)

Next ==
    \/ \E t \in Tasks, w \in Workers : Dispatch(t, w)
    \/ \E w \in Workers : Work(w) \/ Fault(w)
    \/ \E i \in Instances : Crash(i)
    \/ \E s \in Sources : Reclassify(s)

Spec == Init /\ [][Next]_vars

\* The event loop resumes every handler whose call has returned, every call
\* out of a handler has a timeout, and the queue keeps dispatching a task.
Fairness ==
    /\ \A w \in Workers : WF_vars(Work(w))
    /\ \A t \in Tasks : WF_vars(\E w \in Workers : Dispatch(t, w))

FairSpec == Spec /\ Fairness
-----------------------------------------------------------------------------
(* Type invariant and properties. *)

DatabaseTypeOK ==
    /\ status \in [Sources -> Statuses]
    /\ access \in [Sources -> Access]
    /\ documents \subseteq Document
    /\ chunks \subseteq Chunk
    /\ audit \subseteq AuditEvent

StagingTypeOK ==
    /\ dirs \subseteq Instances \X Sources
    /\ files \in [Paths -> Contents \cup {None}]
    /\ opened \subseteq Workers

LocalTypeOK ==
    /\ pc \in [Workers -> {"idle", "reply"} \cup IngestLabels \cup DeleteLabels]
    /\ task \in [Workers -> Tasks \cup {None}]
    /\ attempt \in [Workers -> 0 .. MaxAttempts]
    /\ tag \in [Workers -> Tags]
    /\ text \in [Workers -> Contents \cup {None}]
    /\ counted \in [Workers -> Nat]
    /\ before \in [Workers -> [live : BOOLEAN, documents : SUBSET Document]]
    /\ shared \subseteq Workers
    /\ seen \in [Workers -> SUBSET Access]

\* Every variable has its type.
TypeOK ==
    /\ DatabaseTypeOK
    /\ StagingTypeOK
    /\ LocalTypeOK
    /\ dispatched \in [Tasks -> 0 .. MaxAttempts]
    /\ acked \subseteq Tasks
    /\ crashes \in 0 .. MaxCrashes
    /\ lost \subseteq Sources

\* Whatever deletes and ingests overlap, a chunk always has its document, of
\* the same source, and the source still exists: an ingest that was in flight
\* when its source was purged brings nothing back (pipeline.py, HLD 7.5).
NoOrphans ==
    /\ \A c \in chunks :
            \E d \in documents : d.id = c.document /\ d.source = c.source
    /\ \A d \in documents : Exists(d.source)

\* An ingest task the queue dropped because it was answered 200 has its
\* document in the database, unless the source was deleted since: no crash,
\* lost answer or failed attempt can make the queue forget an upload that was
\* not stored.
AckedIngestIsStored ==
    \A t \in IngestTasks \cap acked :
        Exists(SourceOf[t]) => SameDocuments(t) # {}

\* A delete task answered 200 has purged its source for good.
AckedDeleteIsPurged ==
    \A t \in DeleteTasks \cap acked :
        /\ ~ Exists(SourceOf[t])
        /\ ChunksIn(SourceOf[t]) = {}

\* The audit trail explains the index: each document was recorded once, with
\* the number of chunks it really has, and all of them are chunks of one file
\* under one pair of access tags.
DocumentsAreAudited ==
    \A d \in documents :
        \E e \in audit :
            /\ e.event = "document_ingested"
            /\ e.id = d.id /\ e.source = d.source
            /\ e.chunks = Cardinality(ChunksOf(d.id))
            /\ \A c1, c2 \in ChunksOf(d.id) :
                    c1.tag = c2.tag /\ c1.text = c2.text

\* The access a chunk is stored with is one its source had during the attempt,
\* the department and the level from one version of the row; a request replaces
\* the department alone.  The level of the request, and a level from before the
\* attempt, are never written (pipeline.py, HLD 7.2).
TagsAreOfSource ==
    [][\A w \in Workers : \A c \in chunks' \ chunks :
            c.document = AttemptId(w) =>
                \E a \in seen[w] :
                    c.tag = [a EXCEPT !.dept = IF RequestDept[task[w]] = None
                                               THEN @ ELSE RequestDept[task[w]]]]_vars

\* "ready" is the truth: a source shows it only while it has a document.
ReadyHasDocument ==
    \A s \in Sources : status[s] = "ready" => \E d \in documents : d.source = s

\* "processing" has an owner: some attempt in flight will replace it, unless
\* the end of an attempt went unrecorded since the status was last written,
\* because its instance crashed or the update in its except block failed.  No
\* other way out of ingest_document leaves the source at "processing".
ProcessingHasOwner ==
    \A s \in Sources : status[s] = "processing" => InFlight(s) # {} \/ s \in lost

\* Attempts on instance i that have staged, or are about to stage, below the
\* directory of s and have yet to leave stage_context.
Staging(i, s) ==
    {w \in Workers :
        /\ pc[w] \in {"open", "write", "parse", "cleanup", "prune", "rmtree"}
        /\ Host[w] = i /\ SourceOf[task[w]] = s}

\* Nothing stays on disk: to each staged file and each staging directory there
\* is an attempt, on its instance and at its source, that is not done staging.
StagingIsOwned ==
    /\ \A d \in dirs : Staging(d[1], d[2]) # {}
    /\ \A p \in Paths : files[p] # None => Staging(p[1], p[2]) # {}

\* The chunks of a document are cut from the bytes whose hash it carries, unless
\* another attempt with the same file name, at the same source and on the same
\* instance, ran beside the one that stored it: nothing else can put other bytes,
\* or half of these, under the path it parses.
HashIsOfChunks ==
    [][\A w \in Workers : \A c \in chunks' \ chunks, d \in documents' :
            c.document = AttemptId(w) /\ d.id = AttemptId(w) =>
                c.text = d.hash \/ w \in shared]_vars

\* An upload is stored a second time only if the first was stored while the
\* attempt ran, or some document of it has no chunks: retries, lost answers,
\* crashes and later uploads repeat nothing that was there when they began.
RepeatsOverlap ==
    [][\A w \in Workers : \A d \in documents' \ documents, e \in documents :
            d.id = AttemptId(w) /\ e.source = d.source /\ e.hash = d.hash =>
                \/ e \notin before[w].documents
                \/ \E f \in documents :
                        /\ f.source = d.source /\ f.hash = d.hash
                        /\ ChunksOf(f.id) = {}]_vars

\* One document per source and hash.
NoDuplicateDocuments ==
    \A d1, d2 \in documents :
        d1.source = d2.source /\ d1.hash = d2.hash => d1 = d2

\* A document leaves the index only with its whole source, in the step that
\* records a deletion of it: no retry, failure or other upload removes one.
OnlyAuditedDeletion ==
    [][\A d \in documents \ documents' :
            /\ status'[d.source] = "gone"
            /\ \E e \in audit' \ audit :
                  e.event = "deletion_verified" /\ e.source = d.source]_vars

\* The count of a deletion event is off by no more than what was committed while
\* the deletion ran: it is at most what the DELETE removes, and at least those
\* chunks of it whose documents were there when the attempt began.  When the
\* source was gone by then it is zero; it tells nothing only when another
\* deletion of the source was committed in between.
DeletedCountIsSound ==
    [][\A w \in Workers : \A e \in audit' \ audit :
            e.event = "deletion_verified" /\ e.id = AttemptId(w) =>
                LET purged == chunks \ chunks' IN
                \/ /\ e.chunks <= Cardinality(purged)
                   /\ e.chunks >= Cardinality({c \in purged :
                            \E d \in before[w].documents : d.id = c.document})
                \/ before[w].live /\ ~ Exists(e.source)]_vars

\* What retrieval can find: the sources there are, and the documents of each,
\* seen with their chunks.
LiveSources == {s \in Sources : Exists(s)}
DocumentView(d) == [id |-> d.id, chunks |-> ChunksOf(d.id)]
SourceView(s) == {DocumentView(d) : d \in {e \in documents : e.source = s}}

Index == INSTANCE SourceIndex WITH
            live <- LiveSources,
            index <- [s \in Sources |-> SourceView(s)]

\* The worker implements the abstract index: no reader ever finds part of a
\* document, a document that changed, or anything of a purged source.
ImplementsIndex == Index!Spec

\* The queue is done with a task: answered 200, or out of attempts with none
\* of them still running.
Settled(t) ==
    \/ t \in acked
    \/ dispatched[t] = MaxAttempts /\ \A w \in Workers : task[w] # t

\* Every task is settled in the end, whatever fails on the way.
TasksSettle == \A t \in Tasks : <>[]Settled(t)

\* A source never shows "processing" for ever.
StatusSettles == \A s \in Sources : []<>(status[s] # "processing")
-----------------------------------------------------------------------------
(* The inductive invariant of the proofs: what the local state of an attempt *)
(* says about its task and about the database.                               *)

\* An attempt runs a task of its own kind, under a dispatch that happened, and
\* persists only text that was read.
Control ==
    \A w \in Workers :
        /\ pc[w] = "idle" <=> task[w] = None
        /\ pc[w] \in IngestLabels => task[w] \in IngestTasks
        /\ pc[w] \in DeleteLabels => task[w] \in DeleteTasks
        /\ pc[w] # "idle" => attempt[w] \in 1 .. dispatched[task[w]]
        /\ pc[w] = "persist" => text[w] # None

\* A file that is open is at its path, until its slot has written it.
OpenFiles == \A w \in opened : pc[w] = "write" /\ files[StagingPath(w)] # None

InsertLabels == (IngestLabels \ {"failed"}) \cup DeleteLabels

\* No two attempts and no two documents share an id, and no attempt that may
\* still insert a document or an audit event has inserted one: what uuid4() and
\* the sequence of audit_log give the code.
FreshIds ==
    /\ \A v, w \in Workers :
            pc[v] # "idle" /\ pc[w] # "idle" /\ AttemptId(v) = AttemptId(w) => v = w
    /\ \A r \in documents \cup audit : r.id[2] <= dispatched[r.id[1]]
    /\ \A d1, d2 \in documents : d1.id = d2.id => d1 = d2
    /\ \A w \in Workers :
            pc[w] \in InsertLabels =>
                \A r \in documents \cup audit : r.id # AttemptId(w)

\* An attempt about to answer 200 has its outcome in the database already.
ReplyIsEarned ==
    \A w \in Workers : pc[w] = "reply" =>
        \/ task[w] \in IngestTasks /\ SameDocuments(task[w]) # {}
        \/ ~ Exists(SourceOf[task[w]])

IInv ==
    /\ TypeOK
    /\ IsFiniteSet(chunks)
    /\ Control
    /\ OpenFiles
    /\ FreshIds
    /\ NoOrphans
    /\ ReplyIsEarned
    /\ AckedIngestIsStored
    /\ AckedDeleteIsPurged
    /\ DocumentsAreAudited
==============================================================================
