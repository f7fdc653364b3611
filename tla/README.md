# VEYDUS: specifications, model checking and proofs

VEYDUS answers questions from an organisation's documents. Documents are
ingested by a worker that a task queue calls; users ask in conversations, whose
answers are retrieved under the user's access scope, generated, streamed and
stored. This directory holds TLA+ modules for the parts in which order, failure
and concurrency matter, the TLC configurations that check them and proofs that
hold for every value of the constants. Paths below are relative to
`src/backend/src/veydus/` unless they start with `src/`.

## Inventory

| Component | State | Operations | Talks to |
|---|---|---|---|
| Ingestion pipeline (`ingestion/pipeline.py`, `api/routers/internal_jobs.py`, `src/infra/terraform/tasks.tf`) | rows of `sources`, `documents`, `chunks`, `audit_log`; the queue's tasks and attempts | `ingest_document`, `delete_source`, HTTP 200 or 500 to the queue | database, staging, parsers, inference provider |
| Transient staging (`ingestion/staging.py`) | directories and files of one container instance | `stage`, `cleanup`, `stage_context` | shared by all attempts on the instance |
| Chunk repository (`db/repositories/chunks.py`) | none of its own | tags of a source, batch insert, vector search under the scope | pipeline, orchestrator |
| Chunker and parsers (`ingestion/chunking/`, `ingestion/parsers/`) | none | bytes to sections, sections to chunks | pipeline |
| Conversations API (`api/routers/conversations.py`) | `conversations` | create, list, get, send a message and stream the answer | orchestrator, in a transaction that stays open for the stream |
| RAG orchestrator (`rag/orchestrator.py`) | `messages`, summary columns, `audit_log`; local state of a request | `execute_query_stream`, `_persist_messages_and_audit` | session memory, rewriting, redaction, provider, repository, reranker |
| Session memory (`rag/conversation.py`) | none; its result is stored by the orchestrator | `assemble_conversation_history`, `generate_rolling_summary` | provider |
| PII redaction, prompt and citations (`rag/redaction.py`, `rag/prompt.py`) | placeholder mapping of a request | redact, rehydrate, build the prompt, strip citations | orchestrator |
| Query rewriting and reranking (`rag/rewrite.py`, `rag/rerank.py`) | none | make a follow-up standalone; sort and cut the candidates | orchestrator, provider |
| Scope resolution (`auth/scope.py`, `auth/dependencies.py`) | an in-process cache with a 30 s lifetime; `users.scope_version`, `access_grants` | resolve, invalidate | every route |
| Authorization policy (`authz/`) | none | retrieval filter, gate on single chunks | repository, orchestrator |
| Transactions and pool (`db/session.py`, `db/engine.py`) | pool of 5 + 10 connections, the tenant setting of a transaction | `tenant_transaction` | everything |
| Inference provider (`providers/`) | none | embed, generate, generate_stream; up to 5 attempts on retryable errors, none for streams | pipeline, orchestrator |
| Token checks, observability, provisioning scripts, frontend, infrastructure | | | not modelled |

What is hard, and where it bites (the full list with lines is under `hazards`
in `PROJECT.json`):

* *At-least-once tasks.* A task is dispatched again after a lost answer, and
  may overlap its own earlier attempt. The idempotency check, the two
  transactions of an ingest and the error path are exposed to every order.
* *A shared staging directory.* Its path is made of source and filename only;
  creation, write, parse, unlink, look and removal of concurrent attempts
  interleave.
* *Delete against ingest.* Minutes pass between an ingest's two transactions.
* *READ COMMITTED with unlocked reads.* `MAX(ordinal)`, the chunk count before
  a delete and the history window are read without locks and used later.
* *Long transactions that commit after the last event*, which a client that
  hangs up cancels.
* *Rolling state over a long conversation*: budget, window, summary, ordinals.
* *Sizes at a boundary*: the chunker keeps account of lengths that separators,
  overlaps and merging change, and recognises tables in text it has split.
* *Caches*: a scope that is put back after its invalidation, an entry that
  expires between the test for it and the read.
* *A pool of connections* that carry a tenant's setting, are held for the whole
  of a stream, and are left by errors, cancellations and failed commits.
* *Texts that are taken apart and put together again*: placeholders numbered
  anew for each text and merged, tokens that split them, markers that name
  nothing.

What makes each component correct:

* ingestion: nothing of a purged source is ever found again, documents appear
  whole and are audited, the access tags are ones the source had, an answered
  task was done, nothing is stored again that was there before, a deletion
  event counts what it deleted, every task ends, `processing` does not stay;
* staging: an attempt chunks the bytes it was given; nothing stays on disk;
* conversations: messages are whole turns, audited, stored only when answered
  in full; requests end;
* memory: a prompt forgets nothing the request read and keeps to its budget; a
  stored summary survives and its ordinal means what it says;
* chunker: no word of a body line is lost (the words of a heading become the
  title of its section, and reach no chunk), packing advances with a bounded
  overlap and under the ceiling, a table stays whole and is stored once;
* access: a scope is no older than the lifetime of its cache entry and an
  eviction outlasts the lookups after it; a connection goes back clean and no
  request waits for ever for one; an answer rests on no chunk that its scope
  does not permit, and a refusal on a search that ran;
* answer: nothing that is recognized as personal in the query or in a chunk
  reaches the prompt whole; what was sent and what is stored agree; citations
  name what the prompt showed; retries are bounded.

## Plan

1. `Ingestion` with the abstract `SourceIndex` and `IngestionProofs`: present.
2. `SessionMemory`, `Conversation`, `SessionMemoryProofs` and
   `ConversationProofs`: present.
3. `Chunker`, with the text and markdown parser, `ChunkerProofs` and
   `ChunkerTextProofs`: present.
4. `Access` and `AccessProofs`: scope cache, pool, tenant transactions, routes,
   filter and gate, composed in one module since a request holds a connection
   while it fills the cache, and the policies act on what it set: present.
5. `Redaction`, `Answer` and `AnswerProofs`: the texts of a question, its prompt
   and its answer, with the provider's retries: present.

Every invariant and every action property that a run checks is now also a
theorem, some under hypotheses that are named below; what is left to TLC alone
is liveness. Left for later: a model of the status and permissions the ADRs
describe once the code has them.

## Modules

| Module | Models |
|---|---|
| `Ingestion` | the worker, its queue, its staging directory and the tables it writes |
| `SourceIndex` | what ingestion promises to retrieval, abstractly |
| `MCIngestion` | small instances: tables for tasks, contents, hosts |
| `IngestionProofs` | proofs about `Ingestion` |
| `SessionMemory` | `assemble_conversation_history` as operators |
| `Conversation` | creation of conversations and the answering of messages; extends `SessionMemory` |
| `MCConversation` | small instances: owner, sender, token counts |
| `SessionMemoryProofs` | lemmas about the operators of `SessionMemory` |
| `ConversationProofs` | proofs about `Conversation` |
| `Access` | scope resolution and its cache, the pool, tenant transactions, the conversation routes, retrieval under a scope |
| `MCAccess` | small instances: organizations, grants, chunks, routes |
| `AccessProofs` | proofs about `Access` |
| `Redaction` | both redaction engines and rehydration as operators |
| `Answer` | one question from its rewrite to the stored answer; extends `Redaction` |
| `MCAnswer` | small texts, recognizers and streams |
| `FoldLemmas` | lemmas about folds, flattened sequences, ranks and least numbers |
| `AnswerProofs` | proofs about `Redaction` and `Answer` |
| `Chunker` | the text and markdown parser and the structure-aware chunker |
| `MCChunker` | small files |
| `ChunkerProofs` | proofs about `Chunker`: which words are where, and sizes |
| `ChunkerTextProofs` | proofs about `Chunker` that need the order of the words |

Definitions marked `Mutated form` in the modules are the bugs that the
properties are tested against (`mutants` in `PROJECT.json`); no specification
uses them.

### Ingestion

A *request slot* (`Workers`) runs one attempt of a task at a time and lives on
an instance. `Dispatch` is the queue's push; `Reply`, `ReplyLost`,
`RecordFailure` and `DeleteError` end an attempt with 200, with 200 that is
lost, and with 500. An attempt of an ingest goes through

| Label | Action | Code |
|---|---|---|
| check | `CheckIdempotency` | `pipeline.py` 99-143 |
| mark | `MarkProcessing` | `pipeline.py` 145-166, commit of the first transaction |
| mkdir | `MakeStagingDir` | `staging.py` 65 |
| open, write | `OpenStagedFile`, `WriteStagedFile`, `WriteFails` | `staging.py` 68-71, on a thread |
| parse | `ParseAndEmbed` | `pipeline.py` 175-209; the read is on a thread |
| cleanup, prune, rmtree | `CleanupStaging`, `PruneStagingDir`, `RemoveStagingDir` | `staging.py` 75-101 |
| persist | `Persist`, `PersistUnacknowledged` | `pipeline.py` 211-301, the second transaction |
| failed | `RecordFailure` | `pipeline.py` 303-327 |

and one of a delete through `CountChunks` and `DeleteSource`. Steps are cut
where the event loop, a thread or another transaction can come in between;
within the second transaction nothing another actor does is visible before the
commit, and the foreign key to `sources` makes the insert wait for, and fail
after, a concurrent delete, so it is one step. `uuid4()` is the pair of task
and attempt. Bytes are model values and a hash is the value itself. Parser
errors and embedding failures are one choice in `ParseAndEmbed`.

`write_bytes` opens the file, which makes or truncates it, and writes. Attempts
under one path do both in any order, each from its own beginning of the file:
`Overwritten` says which bytes result when one upload is written over another
that is there (a shorter one leaves the other's end), and `Blends` what a reader
gets of a write that is under way (a beginning of it, or a mixture).
`opened` has the slots whose open file is still the one at their path: after an
`unlink` a slot writes to a file that no path leads to. One call of `write` is
taken to be one step as far as other writes and truncations go, which POSIX asks
of file systems and which `write_bytes` makes one call of; readers see it torn.

`Reclassify` is external: nothing under `src/` creates rows of `sources` or moves
them, so their department and level are whatever an administrator gives them, at
any time. The variables `before`, `shared`, `seen` and `lost` are history, and no
guard reads them: what the source was when an attempt began, whether another
attempt staged under its path meanwhile, which departments and levels the source
had during it, and which sources were left by an attempt whose end is not
recorded.

`SourceIndex` keeps a set of live sources and for each the documents with their
chunks. Its steps are: publish one whole, well-labelled document with a new id,
and purge a source for good. `Ingestion` implements it under
`live = sources whose row exists`, `index = documents joined with their chunks`.

### Conversation

A request stands for one `POST /conversations/{id}/messages`.
`ReadHistory`, `NotFound` and `HistoryError` are its first transaction. The
second one spans `AssemblePrompt`, `Retrieve`, `Stream`, `ReadOrdinal`,
`InsertUserMessage`, `InsertAssistantMessage`, `UpdateConversation`,
`SendDone` and `Commit`, in the order of `execute_query_stream` and
`_persist_messages_and_audit`. `written` holds rows inserted and not committed.
An `INSERT` waits for an open transaction that holds its key and fails if a
committed row does; the row lock of the `UPDATE` is the set `Updating`. Any
failure, and any client that hangs up, ends in `Rollback`. `Retrieve` covers
rewriting, embedding, search, reranking and the grounding gate with their
outcomes: an answer to be generated, a refusal, an error.

A summary is the set of messages it was made from: `{}` is the empty text,
`None` is SQL NULL. The orchestrator's turn numbers (1, 2, ... in the window)
are kept apart from the messages' ordinals, as in the code.

### Chunker

The file is the input: a sequence of lines, each blank, text, table row or
heading, whose words have a length and may end a sentence. `SectionsOf` and
`TablesOf` are what `parsers/text.py` makes of it. `UnitsOf` divides a section
into paragraphs, sentences and groups of words; the packing loops of
`_chunk_section` and `_chunk_table` are actions, one turn each (`AddUnit`,
`CloseChunk`, `AddRow`, `CloseTableChunk`), so that their state is there to be
seen, and `EndSection`, `EndTable`, `SkipTable`, `FallBack` are what surrounds
them. Words of a unit are occurrences (line, position), hence a word in two
chunks is a copy. `verbatim` says that the line feeds of a unit survived,
which is what recognising a table in it depends on. Runs of spaces, and lines
of spaces only, are taken for one space and for blank lines. Two tables with
the very same text are different here; the code would store the second one not
again.

### Access

A request is a call of one of the four conversation routes. One with headers
names its organization and its user independently (`HeaderOrg`, `Caller`), as
`auth/dependencies.py` 71-76 takes them; the instance has such a caller. `clock` counts in
fractions of the cache's lifetime, `Ttl` of them; each entry of `cache` keeps
the row it was made of.

| Label | Action | Code |
|---|---|---|
| idle | `Arrive` | `auth/dependencies.py` 30-90: a token, headers, or neither |
| auth | `Lookup`, `LookupExpires` | `dependencies.py` 59, `auth/scope.py` 56-59 |
| query, fill | `Query`, `Fill` | `scope.py` 61-103: the row is read, and later put into the cache |
| leave | `Leave` | the connection of the lookup goes back; 403 without a scope |
| begin, stream | `Begin` | `db/session.py` 69-79: `set_config` on a connection |
| work | `CreateConversation`, `ListConversations`, `GetConversation`, `CheckConversation`, `NotFound` | `api/routers/conversations.py` |
| commit | `Commit` | the end of the transaction |
| retrieve, search | `Configure`, `Search`, `SearchFails` | `db/repositories/chunks.py` 155-215, then the gate and the grounding test of `rag/orchestrator.py` |
| answer | `Finish` | the commit after the stream |

`ChangeGrant`, `Invalidate` and `Tick` come from outside; a change of a grant
counts its version up, as the schema and ADR-0005 have it. `policed` says
whether the row policies bind the role of `app_db_url`: the one the migrations
make for it is bound, a superuser of a development database is not, and every
property is asked of both. `Found` is the search: approximate, hence any subset
of the candidates, of at most `K` rows; `Reranked` keeps at most `TopN` of these.
What comes back carries the organization of the filter (`MetaFound`,
`chunks.py` 211), which the gate then compares with itself, so that the
property goes by the rows. `past`, `evicted`, `overtaken` and `served` are
history: they say which rows a user had until when, and when an entry was
served, and no guard reads them. An error, a hang-up and a failed commit all
give the connection back (`Fail`), which is what the context managers do on
every way out.

### Answer

A text is a sequence of words, breaks (white space of more than one character),
placeholders and citation markers; the pieces a stream has split are `HeadOf` and
`TailOf` of the whole. A word is any stretch of text that no recognizer begins
or ends inside of, so what is written without a space may be several. What is
personal is for the recognizers to say: the constant `Matches` tells of each
of them, *of a whole text*, and of two places in it, whether it takes what is
from one to the other. So a match may depend on what surrounds it, as a `\b` or
a model of names does, and one that appears or disappears when something beside it
is replaced is in the model. `RedactWithPresidio` filters the overlaps of
all recognizers and numbers placeholders from the start, `RedactWithRegex`
goes through the patterns in their order and numbers from the end, as the two
loops of `rag/redaction.py` do; `engine` says which one a process has.

| Label | Action | Code |
|---|---|---|
| rewrite | `KeepQuery`, `RewriteQuery`, `RewriteRetried`, `RewriteFails` | `rag/rewrite.py` |
| redact | `RedactQuery` | `orchestrator.py`, `redaction.py` |
| embed | `EmbedQuery`, `EmbedRetried`, `EmbedFails` | `providers/nim.py` 51-126 |
| retrieve | `RetrieveAndRerank` | `chunks.py`, `rag/rerank.py` |
| ground | `Refuse`, `BuildPrompt` | `orchestrator.py`, `rag/prompt.py`; titles go into the prompt with the contents |
| stream | `StreamToken`, `StreamEnds` | `orchestrator.py`, `nim.py` 148-185 |
| finish | `Finish` | rehydration of the whole, citations, white space, what is stored |

`Interrupt` is whatever ends the handler from outside: the database, a stream
that breaks, a client that leaves.

## Runs

Every run uses TLC on the MC module with the cfg of the same name. Deadlock
checking is off everywhere: a system whose tasks are all settled, or whose
requests have all ended, rightly stops.

| Run | Instance | Shows |
|---|---|---|
| `ingestion_race` | one source, which an administrator moves once; `up1`, `up2` with different bytes under one filename, one of them naming a department; two slots on one instance; two attempts per task; provider and disk failures | types, audited documents under torn and mixed files, access tags of the source |
| `ingestion_crash` | the same bytes as two tasks, one delete, two slots on two instances, two attempts per task, one crash, lost answers, database failures | refinement of `SourceIndex`, no orphans, earned answers, truthful `ready`, `processing` with an owner, deletions only with an audit event, repetitions and wrong counts only by overlap |
| `ingestion_liveness` | fair scheduling; two uploads with different filenames to one source, two slots on one instance, two attempts per task; provider failures, lost answers | bytes are those of the hash unless an attempt overlapped its own retry, nothing stays on disk, `processing` ends, tasks settle |
| `conversation_race` | three requests at a time in one conversation, window of 2 messages, database failures and clients that hang up, fair scheduling | the inductive invariant, whole turns, audit, answered before stored, history of whole turns, requests end |
| `conversation_memory` | four requests, one after the other; budget 8, reserve 1, floor 2, minimum 2 turns, window 6; messages of 1, 2 and 8 tokens and an empty answer; provider failures | nothing forgotten, budget kept |
| `chunker_pack` | all files of up to four lines out of nine and all tables of six rows out of three, as text and as markdown; target 8, overlap 2, minimum 5, maximum 14 | nothing lost, packing advances, sizes, tables whole |
| `access` | two users of two organizations; a stream and a fetch with tokens of one user, whose grant changes once, and a fetch or a stream, and a creation or a list, with headers, the latter in the other organization; at most two rows of a search and one after reranking; one connection; a lifetime of two ticks; database, pool and clients fail; fair scheduling | the inductive invariant, clean connections, recent scopes, evictions, permitted retrieval, requests end |
| `answer` | three engines; a standalone and a follow-up query with a person, a card and numbers that run into each other; a PAN and a telephone number written as one; three chunks, of which two are shown; one of them with a placeholder of its own; streams of three tokens with split and unknown placeholders, breaks and false markers; five attempts; fair scheduling | redacted prompts, lossless mappings, sent and stored agree, citations, an end |

Runs that are expected to find a violation, each of a sentence in the
repository (quoted under `findings`):

| Run | What the code does |
|---|---|
| `ingestion_duplicate` | overlapping attempts both pass the idempotency check and store the document twice |
| `access_bearer` | the scope of a token is looked up on a connection without the tenant setting, where the policies hide the rows of users and grants: 403 for a user with a grant |
| `answer_placeholder` | query and chunks number their placeholders from 1 each and the merged mapping keeps the last: a placeholder of the query comes back as the person of a chunk |
| `answer_title` | the title of a document goes into the prompt beside its redacted content, unredacted |

More divergences that the models show and no run of their own checks. Three are
definitions in the modules, which TLC finds violated in the instance named:

* `SummaryReachesOrdinal`, in that of `conversation_memory` with a window of
  four messages: `summary_upto_ordinal` counts from the start of the window
  (`rag/orchestrator.py:139`); `rag/conversation.py:61` calls it the highest
  ordinal included in the summary.
* `SummarySurvives`, in that of `conversation_memory`: a failed summarizing
  call replaces the stored summary by an empty one, because its only caller
  passes no summary to preserve (`rag/conversation.py:98`).
* `TableIsStoredOnce`, in that of `chunker_pack`: a table longer than the target
  size is chunked with its section and then again as a table, which the
  comment at `ingestion/chunking/recursive.py:58` means to avoid.

A department in the request goes onto the chunks in place of the source's
(`ingestion/pipeline.py:151`), where `src/docs/ingestion-baseline.md:84` has them
copied from `sources`; `TagsAreOfSource` says so of that department.

ADR-0005 (line 29) has the scope version of a conversation compared with the
user's, and answers 409 when they differ: the code stores the literal 1
(`api/routers/conversations.py:92`) and reads it nowhere. `invalidate_scope_cache`
has no caller outside the tests, so that an entry lasts its 30 seconds; the
model lets it be called at any time. `rag/redaction.py:15` guarantees that the
model never sees plain personal data: the query and the contents of chunks are
redacted, the titles of documents (`rag/prompt.py:75`, `answer_title`), the history
in the prompt and the prompts that rewrite and summarize, with the query as it was
asked, are not. Lines 144-145 pick the better of two overlapping entities; the one
that starts first is kept, and the part of the other that sticks out stays in
clear, unless something else recognizes it. Nor does the redacted text have to be
free of what the engine recognizes: the telephone pattern has no `\b` at its
beginning, so in `ABCDE1234F4155550199` the fallback replaces the number, and the
PAN, which no pattern took before, now ends at a word's end and stays
(lines 189-196). `PromptIsRedacted` therefore speaks of what is recognized in the
text *before* redaction, and promises that none of it goes out whole; the
instance has that very text. A stream that ends without `[DONE]` is taken for
complete.

Tokens are rehydrated one by one: a placeholder that the stream splits over two
of them is shown to the client in its halves, as it was made up by the redactor,
though `src/backend/tests/unit/test_pii_redaction.py:8` wants it reversible on the
client's stream path. The stored answer has the value. `ShownIsStored` says that
shown and stored agree when no placeholder was split, and nothing else is lost but
false markers and breaks: `rag/prompt.py:123` makes one space of each run of white
space, the empty lines between paragraphs included.

A staging write that fails leaves its directory and partial file behind,
because `stage` precedes the `try` of `stage_context` (`StagingIsOwned` fails as
soon as `"disk"` is among the faults). Attempts that stage under one *filename*
at one source and overlap, a retry of the same upload among them, can store the
chunks of one under the hash of the other, or those of half a file under the
hash of all of it (in the instance of `ingestion_race`, `c.text = d.hash` fails
without the exception that `HashIsOfChunks` makes for `shared` slots). A delete
that overlaps an ingest records a `deleted_chunks` smaller than what it removed,
and one that overlaps another delete may record chunks that the other removed:
`DeletedCountIsSound` states these bounds. An ingest that overlaps another of the
same bytes stores them twice (`ingestion_duplicate`), and so does one after an
upload that was cut into no chunks at all; `RepeatsOverlap` states that there is no
other way. `done` is sent inside the transaction that stores the turn: a
client that leaves on it cancels the handler, and the turn it saw completed is
rolled back. `docs/ingestion-baseline.md:71` calls the maximum a hard ceiling for
chunks and rows; a word or a row longer than it becomes one chunk, and so does a
word within it that exceeds it together with the overlap before it, and a row
within it that exceeds it together with its header (`OnlyIndivisibleExceeds` states
what does hold). Line 70 says that chunks below
the minimum are merged; only the last one of a section is, and a short
paragraph before a long one stays a chunk of its own.

### Bounds

* `MaxAttempts` is 2 for the queue's 5: with two, every pair of an attempt
  and its retry occurs, and a third attempt meets nothing new, because attempts
  of one task leave behind only rows, files and the status, which two can
  already leave in every combination.
* Two slots, where the queue dispatches five tasks at a time: the races of the
  code are between two attempts, and each slot runs any number of attempts one
  after the other. The proofs cover any number of slots.
* One move of the source, before, between or after the two transactions of each
  attempt.
* One source: statements and staging directories are keyed by source, and no
  code path reads two. The proofs cover any number.
* One crash. `MaxCrashes` bounds the only counter besides the attempts.
* Contents: two uploads, the truncated file, half of the longer upload and one
  mixture. Chunk counts are 0 to 3: none, one, and more than one, so that
  documents of different files have different counts.
* Three or four requests: three are needed for one writer with two waiting; four
  are needed for a history (8 messages) that outgrows window and budget.
* The token budget is scaled down with the sizes of the messages so that each
  branch of the assembly occurs: fits, tail over budget, older turns that fit.

* Words of 1, 4, 5 and 15 characters around a target of 8 and a maximum of 14:
  text that just fits, just does not, and never can; overlaps of none, one and
  two pieces; ends that merge and that do not. Every case of packing needs at
  most four lines, since a line may hold several sentences; six rows fill two
  chunks of a split table.
* Access: one connection is the worst case of waiting, and lets a connection
  go from tenant to tenant; one change of a grant and two ticks suffice for
  each order of read, change, eviction, fill, expiry and service; chunks are
  one per combination of tenant, department and level that the predicate tells
  apart. `K` is 2 and `TopN` 1 for the code's 30 and 6, so that both cut something
  off. The proofs cover any number.
* Answer: `MaxAttempts` is the code's 5. Two texts of the prompt suffice for
  two meanings of one placeholder, three chunks for a cut and for a source
  under the threshold, three tokens for a piece split over two and another.
  Similarities differ, so that the order of the sources is determined.

### Fairness

`Ingestion!Fairness` asks for weak fairness of each slot's own step, including
the reply, and of the dispatch of each task. The code justifies it: the event
loop resumes a coroutine whose await has returned, every HTTP call to the
provider has a timeout and a bounded number of attempts (`providers/nim.py`
69, 87-93), and the queue dispatches a task until it is answered 200 or
out of attempts. Faults are not fair: they may or may not happen. Crashes are not
among the faults of the liveness run: `processing` does stay for ever if the
last attempt dies after the first transaction, since nothing else resets it.

`Conversation!FairSpec` asks for weak fairness of each request's next step, on
the same grounds; a request that waits for a lock has no enabled step until the
holder ends, so its progress is a result and not an assumption. Nothing obliges
a client to send, or to hang up.

`Access!FairSpec` asks for weak fairness of each request's own step. That takes a
client that reads its stream, or hangs up, for granted: one that stalls may hold a
connection for as long as the server lets it. A request that waits for a connection has no enabled step while all are held; that one
comes free, and that none starves with three requests, is a result. The
timeout of the pool is a fault that may or may not happen.

`Answer!FairSpec` is weak fairness of the handler, with ENABLED written out
(until it has ended, some step is enabled): calls of the provider time out
(`providers/nim.py` 69, 87-93), and a reply has at most `max_tokens`, here
`MaxTokens`.

## Proofs

All theorems are about `Spec` with arbitrary constants that satisfy the named
assumptions of the modules (`ConstantsAssumption`, `DistinctValues`,
`ConversationAssumption`, `HistoryLimitIsEven`, `MemoryAssumption`,
`AccessAssumption`, `ChunkerAssumption`, `RedactionAssumption`,
`AnswerAssumption`), which TLC evaluates in each run.

`IngestionProofs`:

| Theorem | Statement |
|---|---|
| `TypeCorrect` | `Spec => []TypeOK` |
| `InductiveInvariant` | `Spec => []IInv` |
| `IndexHasNoOrphans` | `Spec => []NoOrphans` |
| `AnswersAreEarned` | `Spec => [](AckedIngestIsStored /\ AckedDeleteIsPurged)` |
| `DeletesArePurged` | `Spec => []AckedDeleteIsPurged` |
| `ReadySourcesHaveDocuments` | `Spec => []ReadyHasDocument` |
| `AuditExplainsIndex` | `Spec => []DocumentsAreAudited` |
| `ChunksAreTagged` | `Spec => TagsAreOfSource` |
| `DeletionIsAudited` | `Spec => OnlyAuditedDeletion` |
| `IndexIsImplemented` | `Spec => ImplementsIndex` |
| `StagedFilesAreOwned` | no crash, no full disk: `Spec => []StagingIsOwned` |
| `ProcessingIsOwned` | `Spec => []ProcessingHasOwner` |
| `HashesAreOfChunks` | `Spec => HashIsOfChunks` |
| `RepeatsOnlyOverlap` | `Spec => RepeatsOverlap` |
| `DeletionCountsAreSound` | `Spec => DeletedCountIsSound` |

Most of these properties are not inductive. `NoOrphans` and `DocumentsAreAudited`
need that an attempt which may still insert has a fresh id (`FreshIds`), which
in turn needs that ids of rows and attempts do not exceed the dispatches
counted by the queue. `AckedIngestIsStored` needs that an attempt about to
answer 200 has its outcome in the database already (`ReplyIsEarned`), through
deletions by others. The invariant is proved in layers: `CtlInv` (types, control,
open files), `FreshIds`, `IndexInv` (orphans, audit) and `AnswerInv`, each with a
lemma per kind of step; `IInv` is their conjunction. `ReadyHasDocument` is
inductive given `CtlInv`. The refinement proof shows that `Persist` and `PersistUnacknowledged`
publish, that `DeleteSource` purges, and that all else stutters.

Two theorems have a hypothesis. `StagedFilesAreOwned` excludes the faults that
leave files behind, a crash and a full disk: the property fails under them, see
above. Its invariant `StagingInv` says of each file that an attempt is about to
parse it or to remove it, and of each directory that one is at a step that ends in
its removal: from `write` to `cleanup` that holds only while the attempt's own file
is still there, since the look into an empty directory follows the unlink. The
other is `PromptsAreRedacted`, below.

The theorems about steps rest on invariants of the local state, under every
fault and any number of overlapping attempts. `SlotSteps` says once what a step
does to a slot: it stays, ends, begins or acts. `ChunksAreTagged`: an attempt has
seen the access its source has (`SeenStep`), and its tag is of one that it has seen
(`TagInv`). `RepeatsOnlyOverlap`: documents go only with their source, so what was
there at the beginning of an attempt is there at its check (`PastInv`), and what the
check let pass stays true up to the insertion (`RepeatInv`). `DeletionCountsAreSound`:
up to the DELETE chunks of the source are only added (`CountInv`), unless another
deletion took them all. `ProcessingIsOwned` is inductive with `lost`, which has the
sources whose status a crash or the database left as it was. `HashesAreOfChunks`:
two attempts with one path know of each other (`SharedInv`), and one that knows of
no other finds at its path what it put there, or nothing (`OwnInv`).

`ConversationProofs`:

| Theorem | Statement |
|---|---|
| `ConversationInvariant` | `Spec => []IInv` |
| `MessagesAreWholeTurns` | `Spec => []TurnsAreWhole` |
| `StoredTurnsAreAudited` | `Spec => []TurnsAreAudited` |
| `AnswersComeFirst` | `Spec => []StoredWasAnswered` |
| `HistoriesAreWholeTurns` | `Spec => []HistoryIsWholeTurns` |
| `PromptsCoverHistories` | `Spec => []PromptCoversHistory` |
| `PromptsFitBudgets` | `Spec => []PromptFitsBudget` |

The argument for `TurnsAreWhole`: ordinals are read without a lock, and what
saves them is the unique key. Of the requests of one conversation at most one
is past the insert of its query (`OneWriter`); it holds the key after the highest
committed ordinal, and nobody else can commit before it ends, so the ordinal it
read is still the highest when it commits. Its two rows therefore extend the
interval of ordinals by exactly the next odd and even one.

`HistoryIsWholeTurns` needs that messages belong to requests that have ended, so
that one which is yet to read has none (`HistoryInv`), and that the window is
even (`HistoryLimitIsEven`; it is 10): with an odd one a history would begin in
the middle of a turn.

The two theorems about prompts rest on `SessionMemoryProofs`. The loop over the
older turns ends at some turn or after the last of them (`FirstVerbatimIsThere`,
by the least number from which all turns fit, `LeastElement`); the turns to
summarize go up to that one and the verbatim ones start with it, so together
they are all (`AssembledCovers`), and the loop has seen that the older ones fit
(`AssembledFits`). No argument looks into `TokenSum`. `PromptInv` says that a
request answers with what was assembled from the history it has.

`AccessProofs`:

| Theorem | Statement |
|---|---|
| `AccessInvariant` | `Spec => []IInv` |
| `AccessTypes` | `Spec => []TypeOK` |
| `PooledConnectionsAreClean` | `Spec => []PoolIsClean` |
| `ScopesAreRecent` | `Spec => []ScopeIsRecent` |
| `EvictionsHold` | `Spec => []EvictionHolds` |
| `RetrievalsArePermitted` | `Spec => []RetrievalIsPermitted` |

Two arguments. A connection is held exactly at the steps that need one, by one
request (`ConnectionsAreOwned`), and its setting goes when it is given back; so
a tenant step finds its own caller's tenant. What a search returns is permitted
since the predicate of the query says so of the rows themselves, with or without
policies; the gate is not needed for it, and a search in a failed transaction
returns nothing that could pass for an answer. And every row that was read, cached or served was its
user's row, or was given up at a time that `past` knows (`FoundWasGranted`,
`CachedWasGranted`, `ServedWasGranted`); since an entry is served for `Ttl`
after it was filled, what was given up before the fill cannot be served that
long after. The exception is a row given up between its reading and the fill
(`overtaken`), for which only the time of the fill counts; `ScopeIsRecent`
states both cases, and an eviction in that gap is without effect for the same
reason (`late`, which `EvictionHolds` allows and nothing else).

`ChunkerProofs`:

| Theorem | Statement |
|---|---|
| `ChunkerTypes` | `Spec => []TypeOK` |
| `OnlyLongWordsAndRowsExceed` | `Spec => []OnlyIndivisibleExceeds` |
| `EveryWordIsChunked` | `Spec => []TextIsCovered` |

The modules compute with folds. `FoldLemmas` shows once that a fold over a
sequence is a run: a function on `0 .. n` that begins with the initial value
and makes each value from the one before. Whatever a run preserves then follows
by induction over its positions (`IntervalInduction`, from the library's theorem
about the least element of a set of numbers), and what holds of a sequence built
by `Append` by `AppendInduction`.

For the sizes, `SizeInv` says that the pieces packed so far are tolerable: they
exceed the maximum only by a last one that is a single long word. A unit is no
longer than the target unless it is one word (`UnitsFacts`), an overlap has at
most `Overlap` characters and at most that many pieces, hence a chunk that begins
with one and goes on with a unit within the target has at most
`TargetSize + 3 * Overlap` characters with its separators (`AfterOverlap`). That this is within `MaxSize` is an assumption, which the
defaults satisfy (512 + 192 <= 1024); without it a chunk of short units may
exceed the maximum. `CoverInv` accounts for each body line: its words are in a
section to come, in units or pieces, or in chunks, and no step loses one, a
merge and a fall-back included. It rests on lemmas that parsing, paragraphs,
sentences and groups of words keep every word (`SectionsFacts`,
`SentencesFacts`, `GroupsFacts`, `UnitsFacts`).

`ChunkerTextProofs`:

| Theorem | Statement |
|---|---|
| `UnitsText` | the units of a section, one after the other, are its words |
| `PackingAdvances` | `Spec => []ChunksAdvance` |
| `TablesStandWhole` | `Spec => []TablesAreWhole` |

For these it matters in which order the words stand, and not just which
words there are. `Tiling` does the work once for paragraphs and sentences: disjoint intervals
of numbers which leave out only places that add nothing (empty lines), taken in
order, flatten to the whole (`SentencesText`, `ParagraphsText`); groups of words
follow from the run of the packing loop (`GroupsText`). Hence `UnitsText`.

`PackingAdvances`: `AdvanceInv` says that, while a section is packed, the pieces
at hand and the units to come follow each other in the section (`Chained`), and
that the pieces at hand continue the last chunk if that is of the same section
(`ContinuesIn`). A section that has ended never comes back, since sections are in
order, so a chunk of the next one continues nothing. When a chunk is closed the
pieces kept are an end of it, so the unit after them is the next word
(`ContinuesFull`); when a small end is merged, the chunk keeps its beginning
(`AdvancesMerge`).

`TablesStandWhole`: the danger is the check that skips a table which is in the
chunks already, since it looks only for the text. No word occurs twice in the
text of a file (`TextUnrepeated`; an occurrence knows its place), so a verbatim
piece which is a stretch of the text and has all words of a table has them as a
stretch (`StretchWithin`); and such a piece of a section is within the target, so
the table is within `MaxSize` (`FoundTable`). `TableInv` has four parts:
`ContentInv` says what pieces consist of, `OrderInv` that no chunk is made of a
table whose turn has not come (else a row of it in a chunk could pass for the
table), `RowInv` that each row of the table that is being split is at hand or in
a chunk under its header, `AccountInv` that a table is to come or done. The
fall-back replaces nothing: it needs an empty list of chunks.

`AnswerProofs`:

| Theorem | Statement |
|---|---|
| `AnswerInvariant` | `Spec => []AnswerInv` |
| `PromptsAreRedacted` | `MatchesStay` implies `Spec => []PromptIsRedacted` |
| `UnsharedTextsAreRestored` | `Spec => []UnsharedIsRestored` |
| `ShownAnswerIsStored` | `Spec => []ShownIsStored` |
| `CitationsNameTheirSources` | `Spec => []CitationsAreSources` |

`PromptsAreRedacted`: of the spans that were found each one is kept, or begins
within a kept one (`FilteredFacts`), and of a kept one nothing remains
(`NamedFacts`): so of every span its first piece is gone. That is all for Presidio,
whatever its recognizers are. The fallback looks for a pattern in what the ones
before it have left. There the theorem assumes `MatchesStay`: a match of which they
have taken nothing is still one from there on. The four patterns of
`redaction.py` 189-196 satisfy it on texts without a `|`: each match begins and ends
with a character that has its `\b` beside a placeholder too, and contains none.
(The class `[A-Z|a-z]` lets an e-mail address end in `|`, which has a `\b` only before
a letter or digit: were the PAN that follows it replaced, such an address would stay.)
By induction over the patterns no match of the ones done is left whole
(`RegexFacts`). What the redaction *creates*, a new match in the redacted text, is
outside of the statement, as said above.

`UnsharedTextsAreRestored`: kept spans are apart, so their numbers are names of
their own (`NamesAreOneToOne`), and what has been replaced up to a position
rehydrates to the text up to there, or to the end of the span that covers it
(`ReplacedComesBack`). The patterns of the fallback have different tags, hence
none overwrites what another has put into the mapping (`RegexComesBack`). The
merged mapping says of each name what one of the texts says (`MergedFacts`), and
that no text clashes with this one is the hypothesis in the property; without it
a placeholder may come back as someone else, which `answer_placeholder` shows.
A text that had a placeholder in it before is a clash too.

`ShownAnswerIsStored`: the client joins tokens that were rehydrated one by one,
the handler rehydrates the joined tokens. Two texts are `Alike` if they
rehydrate to the same and end in the same half of a piece; joining the next
piece keeps them alike, since values are words and never complete a split piece
(`AlikeJoins`). So what the client has joined rehydrates to the stored answer; and
if no placeholder of the mapping was split, there is nothing of the mapping in
what the client has (`RehydratedIsLeft`), nor does joining bring any up
(`JoinIsLeft`): it is the answer, with no rehydration on the client's side.
`CitationsNameTheirSources` counts ranks: the n-th citation is of
the number that has n - 1 smaller ones (`RankOrder`, `RankIsTaken`).

The assumptions say of the constants what the code makes sure of: patterns have
tags of their own, texts of users and chunks are not halves of a piece, there are
finitely many chunks. Of what matches a pattern they say nothing: `Matches` is free,
and spans are runs of at least one word by `FoundBy`. One assumption says more than
the code does: similarities differ (`AnswerAssumption`), as the order of equal
ones is the database's and no property is about it. `MatchesStay` is the one
hypothesis about recognizers, and only `PromptsAreRedacted` has it.

Checked by TLC only:

* liveness, for which the prover has no support (ENABLED, fairness);
* what `TokenSum`, a fold, computes: no property is about more than its bounds;
* all violations.

## Not modelled

Text and layout of prompts (the title of a document is in, as it is not redacted),
how the vector search ranks (its result is any subset of the candidates of at most
`K`), parser libraries, token signatures, telemetry, scripts, frontend and
deployment.

* Access: the size limit of the cache, which evicts entries early and so can
  only make scopes more recent; `bypass_cache`, which no caller sets; an empty
  `idp_subject`; the KeyError of an eviction whose entry expires under it; the
  disposal of the engine at shutdown. Headers are always
  well-formed, and a client reads the stream it asked for.
* Answer: the cross-encoder, which nothing selects and which sorts by a score
  likewise; the mock provider; lines of a stream that do not parse; white space
  left behind by a marker that is removed. Why a process runs on one engine or the
  other (Presidio could not be set up, redaction is switched off) is left open.
* Scores of the vector search are constants of the chunks.

Conversations are never deleted or invalidated by the code, and so not in the
model. A source is deleted by tasks only; the `deleting` status of the schema
is never set by the code.
