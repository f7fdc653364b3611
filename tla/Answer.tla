-------------------------------- MODULE Answer --------------------------------
(***************************************************************************)
(* What one question becomes on its way to the model, and what the model's *)
(* reply becomes on its way back: the rewrite of a follow-up, the          *)
(* redaction of the query and of each chunk, the prompt, the stream whose  *)
(* tokens are rehydrated one by one, and the answer that is rehydrated     *)
(* again as a whole, freed of false citations, and stored.                 *)
(*                                                                         *)
(* Who may see what is Access's, and the rows and events of a turn are     *)
(* Conversation's: here are the texts.                                     *)
(***************************************************************************)
EXTENDS Redaction

CONSTANTS
    Queries,            \* what a user may ask
    SelfContained,      \* the queries the heuristic takes for standalone
    Histories,          \* the assembled history: <<>>, or the text of its turns
    Rewrites,           \* what the model may make of a follow-up
    Chunks,             \* chunks in the caller's scope: [id, similarity, title, text]
    Threshold,          \* grounding_threshold
    TopN,               \* rerank_n
    Tokens,             \* what the model may send at a time: each a text
    Refusal,            \* refusal_message
    MaxAttempts,        \* of a call that may be retried: 5
    MaxTokens,          \* bound: tokens of a stream
    None

ASSUME AnswerAssumption ==
    /\ SelfContained \subseteq Queries
    /\ {TopN, MaxAttempts} \subseteq Nat \ {0}
    /\ MaxTokens \in Nat
    /\ Queries \cup Rewrites \subseteq Seq(Atoms)
    /\ Tokens \subseteq Seq(Pieces)
    /\ IsFiniteSet(Chunks)
    /\ \A c \in Chunks : c.similarity \in Int /\ {c.title, c.text} \subseteq Seq(Atoms)
    /\ \A c \in Chunks, d \in Chunks :
           c.id = d.id \/ c.similarity = d.similarity => c = d

VARIABLES
    engine,         \* what the redactor runs on in this process
    query,
    history,
    pc,             \* the handler's next step
    attempts,       \* calls of the provider in this step that came to nothing
    effective,      \* effective_query
    asked,          \* sanitized_query
    mapping,        \* request_reverse_mapping
    sources,        \* top_chunks
    prompt,         \* what the prompt says, or None
    raw,            \* accumulated_raw_tokens
    shown,          \* tokens sent to the client
    stored,         \* the assistant's message, or None
    outcome

inputVars == <<engine, query, history>>
promptVars == <<attempts, effective, asked, mapping, sources, prompt>>
vars == <<inputVars, pc, promptVars, raw, shown, stored, outcome>>

Init ==
    /\ engine \in Engines
    /\ query \in Queries
    /\ history \in Histories
    /\ pc = "rewrite"
    /\ attempts = 0
    /\ effective = <<>>
    /\ asked = <<>>
    /\ mapping = <<>>
    /\ sources = <<>>
    /\ prompt = None
    /\ raw = <<>>
    /\ shown = <<>>
    /\ stored = None
    /\ outcome = "none"

-------------------------------------------------------------------------------
GoOn(label) == pc' = label /\ attempts' = 0

\* Mutated form: the attempts never run out.
RetryForever(step) ==
    /\ pc = step
    /\ attempts' = (attempts + 1) % MaxAttempts
    /\ UNCHANGED <<inputVars, pc, effective, asked, mapping, sources, prompt, raw, shown,
                   stored, outcome>>

\* A rate limit, a gateway's error, a timeout or a broken connection: tried again.
Retry(step) ==
    /\ pc = step
    /\ attempts + 1 < MaxAttempts
    /\ attempts' = attempts + 1
    /\ UNCHANGED <<inputVars, pc, effective, asked, mapping, sources, prompt, raw, shown,
                   stored, outcome>>

\* Another error at any attempt, or any at the last.
GivesUp(step) == pc = step

Rewritten(text) ==
    /\ effective' = text
    /\ GoOn("redact")
    /\ UNCHANGED <<inputVars, asked, mapping, sources, prompt, raw, shown, stored, outcome>>

NeedsRewrite == history # <<>> /\ query \notin SelfContained

KeepQuery == pc = "rewrite" /\ ~ NeedsRewrite /\ Rewritten(query)

\* An empty reply leaves the query as it is.
RewriteQuery ==
    /\ pc = "rewrite" /\ NeedsRewrite
    /\ \E text \in Rewrites : Rewritten(IF text = <<>> THEN query ELSE text)

RewriteRetried == NeedsRewrite /\ Retry("rewrite")
RewriteFails == NeedsRewrite /\ GivesUp("rewrite") /\ Rewritten(query)

RedactQuery ==
    /\ pc = "redact"
    /\ LET redaction == Redact(engine, effective)
       IN  asked' = redaction.text /\ mapping' = redaction.mapping
    /\ GoOn("embed")
    /\ UNCHANGED <<inputVars, effective, sources, prompt, raw, shown, stored, outcome>>

End(how) == GoOn("ended") /\ outcome' = how

\* The generator raises, and the transaction of the turn is rolled back.
Fail ==
    /\ End("failed")
    /\ UNCHANGED <<inputVars, effective, asked, mapping, sources, prompt, raw, shown, stored>>

EmbedQuery ==
    /\ pc = "embed"
    /\ GoOn("retrieve")
    /\ UNCHANGED <<inputVars, effective, asked, mapping, sources, prompt, raw, shown, stored,
                   outcome>>

EmbedRetried == Retry("embed")
EmbedFails == GivesUp("embed") /\ Fail

TopChunks(found) ==
    LET Better(c) == {d \in found : d.similarity > c.similarity}
    IN  [i \in 1 .. Min({TopN, Cardinality(found)}) |->
            CHOOSE c \in found : Cardinality(Better(c)) = i - 1]

\* The vector search and the reranker, which goes by the similarity that was found.
RetrieveAndRerank ==
    /\ pc = "retrieve"
    /\ \E found \in SUBSET Chunks : sources' = TopChunks(found)
    /\ GoOn("ground")
    /\ UNCHANGED <<inputVars, effective, asked, mapping, prompt, raw, shown, stored, outcome>>

IsGrounded == \E i \in DOMAIN sources : sources[i].similarity >= Threshold

Refuse ==
    /\ pc = "ground" /\ ~ IsGrounded
    /\ shown' = <<Refusal>>
    /\ stored' = [text |-> Refusal, citations |-> <<>>]
    /\ End("refused")
    /\ UNCHANGED <<inputVars, effective, asked, mapping, sources, prompt, raw>>

\* build_rag_prompt numbers the chunks from 1; the title of a chunk's document goes with
\* its content, as it is.
Numbered(redactions) ==
    [i \in DOMAIN sources |-> [title |-> sources[i].title, content |-> redactions[i].text]]

\* The mapping of the request takes up those of the chunks, one after the other.
Merged(old, redactions) == FoldLeft(LAMBDA m, r : Updated(m, r.mapping), old, redactions)

BuildPrompt ==
    /\ pc = "ground" /\ IsGrounded
    /\ LET redactions == [i \in DOMAIN sources |-> Redact(engine, sources[i].text)]
       IN  /\ mapping' = Merged(mapping, redactions)
           /\ prompt' = [query |-> asked, context |-> Numbered(redactions), history |-> history]
    /\ GoOn("stream")
    /\ UNCHANGED <<inputVars, effective, asked, sources, raw, shown, stored, outcome>>

\* Mutated form: a token is sent as it was received.
AsReceived(token) == token

\* hydrated_token
Hydrated(token) == Rehydrate(token, mapping)

StreamToken ==
    /\ pc = "stream"
    /\ Len(raw) < MaxTokens
    /\ \E token \in Tokens :
           /\ raw' = Append(raw, token)
           /\ shown' = Append(shown, Hydrated(token))
    /\ UNCHANGED <<inputVars, promptVars, pc, stored, outcome>>

\* [DONE], or the end of the response without it.
StreamEnds ==
    /\ pc = "stream"
    /\ GoOn("finish")
    /\ UNCHANGED <<inputVars, effective, asked, mapping, sources, prompt, raw, shown, stored,
                   outcome>>

\* full_hydrated_response
FullResponse == Rehydrate(Joined(raw), mapping)

IsCitation(p) == p.is = "marker" /\ p.n \in DOMAIN prompt.context

\* Mutated form: markers that cite nothing stay.
AllPieces(text) == text

\* sanitize_citations takes out the markers that cite nothing and makes one space of every
\* run of white space, the breaks of the answer included.
IsDropped(p) == p.is = "break" \/ (p.is = "marker" /\ ~ IsCitation(p))

Sanitized(text) ==
    FlattenSeq([i \in DOMAIN text |-> IF IsDropped(text[i]) THEN <<>> ELSE <<text[i]>>])

\* The n-th citation is of the n-th smallest number.
CitationsIn(text) ==
    LET cited == {p.n : p \in {q \in Range(text) : IsCitation(q)}}
    IN  [i \in 1 .. Cardinality(cited) |->
            LET n == CHOOSE n \in cited : Cardinality({m \in cited : m < n}) = i - 1
            IN  [index |-> n, chunk |-> sources[n].id]]

Finish ==
    /\ pc = "finish"
    /\ stored' = [text |-> Sanitized(FullResponse),
                  citations |-> CitationsIn(FullResponse)]
    /\ End("answered")
    /\ UNCHANGED <<inputVars, effective, asked, mapping, sources, prompt, raw, shown>>

\* The database fails, the stream breaks, or the client has gone.
Interrupt == pc # "ended" /\ Fail

Serve ==
    \/ KeepQuery
    \/ RewriteQuery
    \/ RewriteRetried
    \/ RewriteFails
    \/ RedactQuery
    \/ EmbedQuery
    \/ EmbedRetried
    \/ EmbedFails
    \/ RetrieveAndRerank
    \/ Refuse
    \/ BuildPrompt
    \/ StreamToken
    \/ StreamEnds
    \/ Finish

Next == Serve \/ Interrupt

Spec == Init /\ [][Next]_vars

\* Calls of the provider and of the database have timeouts, and a reply has at most
\* max_tokens: the handler always goes on.  This is WF_vars(Serve), with what its
\* ENABLED comes to written out: a redaction is too much work for TLC to do inside it.
FairSpec == Spec /\ ([]<>(pc = "ended") \/ []<><<Serve>>_vars)

-------------------------------------------------------------------------------
\* Text 0 is the query, text i the content of the i-th chunk: as it was, and as the prompt
\* has it.
Original(i) == IF i = 0 THEN effective ELSE sources[i].text
InPrompt(i) == IF i = 0 THEN prompt.query ELSE prompt.context[i].content
Texts == 0 .. Len(sources)
MappingOf(i) == Redact(engine, Original(i)).mapping

\* Nothing that the engine recognizes in a query or in a chunk's content goes to the model
\* whole, whatever it overlaps or touches there: the prompt has what the redaction makes of
\* each text, pieces of the text and placeholders, and of every span that was recognized
\* in it one piece at least is gone.
PromptIsRedacted ==
    prompt # None =>
        \A i \in Texts :
            LET done == Redact(engine, Original(i))
            IN  /\ InPrompt(i) = done.text
                /\ \A k \in DOMAIN done.text :
                       IF done.places[k] = 0
                       THEN done.text[k].is = "placeholder"
                       ELSE done.text[k] = Original(i)[done.places[k]]
                /\ \A s \in Recognized(engine, Original(i)) :
                       ~ (s.from .. s.to \subseteq Remaining(done))

\* A placeholder of text j is in text i as it was, or stands there for another value.
Clash(i, j) ==
    LET mine == MappingOf(i)
        theirs == MappingOf(j)
    IN  \E p \in DOMAIN theirs :
            p \in Range(Original(i)) \/ (p \in DOMAIN mine /\ mine[p] # theirs[p])

\* The mapping of the request gives back every text of the prompt none of whose
\* placeholders stands for something else in another text, and which had none of its own:
\* those it merges lose nothing.
UnsharedIsRestored ==
    prompt # None =>
        \A i \in Texts :
            (\A j \in Texts : ~ Clash(i, j)) => Rehydrate(InPrompt(i), mapping) = Original(i)

\* What the client was sent is the answer that is stored, false markers and breaks aside,
\* unless the stream has split a placeholder of the mapping: then the client was sent its
\* halves, and the stored text has what it stands for.
NoneIsSplit ==
    \A p \in Range(FlattenSeq(raw)) : p.is \in {"head", "tail"} => p.of \notin DOMAIN mapping

ShownIsStored ==
    outcome = "answered" /\ NoneIsSplit => stored.text = Sanitized(Joined(shown))

\* A stored answer cites what its text marks, each source once and in order, and the
\* chunk it cites is the one the prompt showed to the model under that number.
CitationsAreSources ==
    outcome = "answered" =>
        LET marked == {p.n : p \in {q \in Range(stored.text) : q.is = "marker"}}
            citations == stored.citations
        IN  /\ {c.index : c \in Range(citations)} = marked
            /\ \A i, j \in DOMAIN citations : i < j => citations[i].index < citations[j].index
            /\ \A c \in Range(citations) :
                   \E s \in Chunks :
                       /\ s.id = c.chunk /\ s.title = prompt.context[c.index].title
                       /\ Redact(engine, s.text).text = prompt.context[c.index].content

\* A question is answered, refused or failed in the end: retries run out.
AnswerEnds == <>(pc = "ended")

\* A test says that "token replacement must be fully reversible on the client stream
\* path": each text of the prompt comes back as it was.
PlaceholdersAreReversible ==
    prompt # None => \A i \in Texts : Rehydrate(InPrompt(i), mapping) = Original(i)

\* The redactor's header guarantees that "the LLM never sees plain PII": a prompt has
\* nothing in a document's title that the engine recognizes.
TitlesAreRedacted ==
    prompt # None =>
        \A i \in DOMAIN prompt.context : Recognized(engine, prompt.context[i].title) = {}
================================================================================
