----------------------------- MODULE Conversation -----------------------------
(***************************************************************************)
(* Conversations of the query API: a user sends messages, the orchestrator *)
(* answers each over a stream of events, and the turn is stored.  Requests *)
(* run concurrently, also in one conversation.  A request reads the recent *)
(* messages in a transaction of its own; a second transaction spans        *)
(* retrieval, generation, streaming and storing, and commits after the     *)
(* last event.  Transactions are READ COMMITTED: an INSERT waits for an    *)
(* uncommitted row with its key, an UPDATE for a locked row.               *)
(*                                                                         *)
(* A request stands for its query, and a message for the request it        *)
(* belongs to; conversations are never deleted or invalidated by the code. *)
(***************************************************************************)
EXTENDS SessionMemory, FiniteSets

CONSTANTS
    Conversations,
    Users,
    Owner,          \* conversation -> the user that creates it
    Requests,       \* messages sent to conversations
    Sender,         \* request -> user
    Target,         \* request -> conversation
    Tokens,         \* role -> request -> tokens of its message
    HistoryLimit,   \* LIMIT of the history query, 10
    MaxOpen,        \* bound: requests being answered at a time
    Faults          \* what may go wrong in a run: subset of FaultKinds

FaultKinds == {"provider", "database", "client"}
Roles == {"user", "assistant"}
EventNames == {"metadata", "token", "citations", "done", "error"}

ASSUME ConversationAssumption ==
    /\ Owner \in [Conversations -> Users]
    /\ Sender \in [Requests -> Users]
    /\ Target \in [Requests -> Conversations]
    /\ Tokens \in [Roles -> [Requests -> Nat]]
    /\ HistoryLimit \in Nat
    /\ MaxOpen \in Nat
    /\ Faults \subseteq FaultKinds

\* The window of the history query is whole turns.
ASSUME HistoryLimitIsEven == HistoryLimit % 2 = 0

VARIABLES
    created,    \* rows of conversations
    messages,   \* committed rows of messages
    summary,    \* conversation -> rolling_summary and summary_upto_ordinal
    audit,      \* committed rag_query_completed events
    pc,         \* request -> its next step
    history,    \* request -> recent messages it read, oldest first
    prompt,     \* request -> what its prompt carries of them
    refused,    \* request -> answered with the refusal message
    base,       \* request -> highest ordinal it read
    written,    \* request -> rows it inserted and has not committed
    events      \* request -> events sent to the client

storeVars == <<created, messages, summary, audit>>
localVars == <<history, prompt, refused, base, written>>
vars == <<created, messages, summary, audit, pc, history, prompt, refused, base,
          written, events>>

Message == [conversation : Conversations, ordinal : Nat, role : Roles,
            request : Requests, refused : BOOLEAN]

\* Steps of a request after its first transaction.
Storing == {"user", "assistant", "update", "done", "commit"}
Answering == {"assemble", "retrieve", "stream", "ordinal"} \cup Storing

NoPrompt == [verbatim |-> <<>>, summary |-> None, upto |-> 0]

MessagesIn(c) == {m \in messages : m.conversation = c}
OrdinalsIn(c) == {m.ordinal : m \in MessagesIn(c)}

\* COALESCE(MAX(ordinal), 0)
MaxOrdinal(c) ==
    CHOOSE n \in OrdinalsIn(c) \cup {0} : \A k \in OrdinalsIn(c) : k <= n

\* Mutated form: the window starts in the middle of a turn.
RecentOddMessages(c) ==
    LET n == MaxOrdinal(c)
        first == Larger(1, n - HistoryLimit)
    IN  [i \in 1 .. n - first + 1 |->
            CHOOSE m \in MessagesIn(c) : m.ordinal = first + i - 1]

\* ORDER BY ordinal DESC LIMIT, reversed.  The ordinals of a conversation are
\* 1 .. MaxOrdinal(c), each once (TurnsAreWhole).
RecentMessages(c) ==
    LET n == MaxOrdinal(c)
        first == Larger(1, n - HistoryLimit + 1)
    IN  [i \in 1 .. n - first + 1 |->
            CHOOSE m \in MessagesIn(c) : m.ordinal = first + i - 1]

Init ==
    /\ created = {}
    /\ messages = {}
    /\ summary = [c \in Conversations |-> [text |-> None, upto |-> 0]]
    /\ audit = {}
    /\ pc = [r \in Requests |-> "idle"]
    /\ history = [r \in Requests |-> <<>>]
    /\ prompt = [r \in Requests |-> NoPrompt]
    /\ refused = [r \in Requests |-> FALSE]
    /\ base = [r \in Requests |-> 0]
    /\ written = [r \in Requests |-> {}]
    /\ events = [r \in Requests |-> <<>>]

GoTo(r, label) == pc' = [pc EXCEPT ![r] = label]
Send(r, sent) == events' = [events EXCEPT ![r] = @ \o sent]
-----------------------------------------------------------------------------
Create(c) ==
    /\ c \notin created
    /\ created' = created \cup {c}
    /\ UNCHANGED <<messages, summary, audit, pc, localVars, events>>

\* First transaction of send_message_stream: the conversation must be there and
\* belong to the sender.
ReadHistory(r) ==
    /\ pc[r] = "idle"
    /\ Cardinality({q \in Requests : pc[q] \in Answering}) < MaxOpen
    /\ Target[r] \in created /\ Owner[Target[r]] = Sender[r]
    /\ history' = [history EXCEPT ![r] = RecentMessages(Target[r])]
    /\ GoTo(r, "assemble")
    /\ UNCHANGED <<storeVars, prompt, refused, base, written, events>>

\* HTTP 404.
NotFound(r) ==
    /\ pc[r] = "idle"
    /\ Target[r] \notin created \/ Owner[Target[r]] # Sender[r]
    /\ GoTo(r, "ended")
    /\ UNCHANGED <<storeVars, localVars, events>>

\* The first transaction fails: HTTP 500.
HistoryError(r) ==
    /\ "database" \in Faults
    /\ pc[r] = "idle"
    /\ GoTo(r, "ended")
    /\ UNCHANGED <<storeVars, localVars, events>>

-----------------------------------------------------------------------------
(* The second transaction: retrieval, generation and streaming. *)

\* The orchestrator numbers the turns it is given from 1.
TurnsOf(messageSeq) ==
    [i \in DOMAIN messageSeq |->
        [ordinal |-> i,
         tokens |-> Tokens[messageSeq[i].role][messageSeq[i].request],
         message |-> messageSeq[i]]]

AssemblePrompt(r) ==
    /\ pc[r] = "assemble"
    /\ \E works \in {TRUE} \cup (IF "provider" \in Faults THEN {FALSE} ELSE {}) :
            prompt' = [prompt EXCEPT ![r] = AssembleHistory(TurnsOf(history[r]), works)]
    /\ GoTo(r, "retrieve")
    /\ UNCHANGED <<storeVars, history, refused, base, written, events>>

\* Embedding, retrieval, reranking and the grounding gate: an answer is
\* generated, or the refusal message goes out as the whole answer.
Retrieve(r) ==
    /\ pc[r] = "retrieve"
    /\ \/ /\ Send(r, <<"metadata">>)
          /\ GoTo(r, "stream")
          /\ UNCHANGED refused
       \/ /\ Send(r, <<"metadata", "token", "citations">>)
          /\ refused' = [refused EXCEPT ![r] = TRUE]
          /\ GoTo(r, "ordinal")
    /\ UNCHANGED <<storeVars, history, prompt, base, written>>

\* Tokens, if the model yields any, stand for one event here.
TokenEvents == {<<>>, <<"token">>}

Stream(r) ==
    /\ pc[r] = "stream"
    /\ \E tokens \in TokenEvents : Send(r, tokens \o <<"citations">>)
    /\ GoTo(r, "ordinal")
    /\ UNCHANGED <<storeVars, localVars>>

\* Mutated form: the rows of a failed request stay uncommitted, and locked.
LeaveOpen(r) ==
    /\ GoTo(r, "ended")
    /\ UNCHANGED <<storeVars, localVars>>

\* The transaction rolls back and the request is over.
Rollback(r) ==
    /\ written' = [written EXCEPT ![r] = {}]
    /\ GoTo(r, "ended")
    /\ UNCHANGED <<storeVars, history, prompt, refused, base>>

\* An exception leaves the transaction and becomes the error event.
Fail(r, sent) == Rollback(r) /\ Send(r, sent \o <<"error">>)

\* Embedding, reranking or the model fails, or the stream breaks off.
ProviderError(r) ==
    /\ "provider" \in Faults
    /\ \/ pc[r] = "retrieve" /\ Fail(r, <<>>)
       \/ pc[r] = "stream" /\ \E tokens \in TokenEvents : Fail(r, tokens)

-----------------------------------------------------------------------------
(* _persist_messages_and_audit, statement by statement, and the commit. *)

\* Mutated form: MAX is NULL while there is no message.
ReadNullOrdinal(r) ==
    /\ pc[r] = "ordinal"
    /\ base' = [base EXCEPT ![r] =
                    IF OrdinalsIn(Target[r]) = {} THEN None ELSE MaxOrdinal(Target[r])]
    /\ GoTo(r, "user")
    /\ UNCHANGED <<storeVars, history, prompt, refused, written, events>>

ReadOrdinal(r) ==
    /\ pc[r] = "ordinal"
    /\ base' = [base EXCEPT ![r] = MaxOrdinal(Target[r])]
    /\ GoTo(r, "user")
    /\ UNCHANGED <<storeVars, history, prompt, refused, written, events>>

Row(r, role) ==
    [conversation |-> Target[r],
     ordinal |-> base[r] + (IF role = "user" THEN 1 ELSE 2),
     role |-> role, request |-> r, refused |-> role = "assistant" /\ refused[r]]

SameKey(m, n) == m.conversation = n.conversation /\ m.ordinal = n.ordinal

\* Mutated form: UNIQUE (conversation_id, ordinal) is missing.
InsertAnyway(r, role, next) ==
    /\ pc[r] = role
    /\ written' = [written EXCEPT ![r] = @ \cup {Row(r, role)}]
    /\ GoTo(r, next)
    /\ UNCHANGED <<storeVars, history, prompt, refused, base, events>>

\* Under UNIQUE (conversation_id, ordinal) the INSERT waits for an open
\* transaction that has the key, and fails when a committed row has it.
Insert(r, role, next) ==
    /\ pc[r] = role
    /\ \A q \in Requests \ {r} : \A m \in written[q] : ~ SameKey(m, Row(r, role))
    /\ \/ /\ \A m \in messages : ~ SameKey(m, Row(r, role))
          /\ written' = [written EXCEPT ![r] = @ \cup {Row(r, role)}]
          /\ GoTo(r, next)
          /\ UNCHANGED <<storeVars, history, prompt, refused, base, events>>
       \/ /\ \E m \in messages : SameKey(m, Row(r, role))
          /\ Fail(r, <<>>)

InsertUserMessage(r) == Insert(r, "user", "assistant")
InsertAssistantMessage(r) == Insert(r, "assistant", "update")

\* Open transactions that have updated the row of c, and lock it.
Updating(c) == {r \in Requests : Target[r] = c /\ pc[r] \in {"done", "commit"}}

\* UPDATE conversations and the audit event.
UpdateConversation(r) ==
    /\ pc[r] = "update"
    /\ Updating(Target[r]) = {}
    /\ GoTo(r, "done")
    /\ UNCHANGED <<storeVars, localVars, events>>

SendDone(r) ==
    /\ pc[r] = "done"
    /\ Send(r, <<"done">>)
    /\ GoTo(r, "commit")
    /\ UNCHANGED <<storeVars, localVars>>

AuditEvent(r) == [request |-> r, refused |-> refused[r]]

\* The refusal path passes no summary on.  COALESCE keeps the old text for None
\* only, and GREATEST the larger ordinal.
NewSummary(r) ==
    LET old == summary[Target[r]]
        new == IF refused[r] THEN NoPrompt ELSE prompt[r]
    IN  [text |-> IF new.summary = None THEN old.text ELSE new.summary,
         upto |-> Larger(old.upto, new.upto)]

Store(r) ==
    /\ messages' = messages \cup written[r]
    /\ summary' = [summary EXCEPT ![Target[r]] = NewSummary(r)]
    /\ audit' = audit \cup {AuditEvent(r)}
    /\ written' = [written EXCEPT ![r] = {}]
    /\ GoTo(r, "ended")
    /\ UNCHANGED <<created, history, prompt, refused, base>>

Commit(r) ==
    /\ pc[r] = "commit"
    /\ Store(r)
    /\ UNCHANGED events

\* The connection is lost during the commit, after it took effect.
CommitUnacknowledged(r) ==
    /\ "database" \in Faults
    /\ pc[r] = "commit"
    /\ Store(r)
    /\ Send(r, <<"error">>)

\* Mutated form: the rows written so far are committed on the error path.
CommitOnError(r) ==
    /\ "database" \in Faults
    /\ pc[r] \in Answering \ {"stream", "done"}
    /\ Store(r)
    /\ Send(r, <<"error">>)

\* A statement or the commit fails.
DatabaseError(r) ==
    /\ "database" \in Faults
    /\ pc[r] \in Answering \ {"stream", "done"}
    /\ Fail(r, <<>>)

\* The client hangs up, or the instance dies: the handler is cancelled.
Disconnect(r) ==
    /\ "client" \in Faults
    /\ pc[r] \in Answering
    /\ Rollback(r)
    /\ UNCHANGED events

-----------------------------------------------------------------------------
Answer(r) ==
    \/ AssemblePrompt(r)
    \/ Retrieve(r)
    \/ Stream(r)
    \/ ReadOrdinal(r)
    \/ InsertUserMessage(r)
    \/ InsertAssistantMessage(r)
    \/ UpdateConversation(r)
    \/ SendDone(r)
    \/ Commit(r)

Fault(r) ==
    \/ HistoryError(r)
    \/ ProviderError(r)
    \/ CommitUnacknowledged(r)
    \/ DatabaseError(r)
    \/ Disconnect(r)

Next ==
    \/ \E c \in Conversations : Create(c)
    \/ \E r \in Requests : ReadHistory(r) \/ NotFound(r) \/ Answer(r) \/ Fault(r)

Spec == Init /\ [][Next]_vars

\* The event loop resumes a handler whose await has returned, the provider's
\* calls time out, and the database grants a lock that is free.
FairSpec == Spec /\ \A r \in Requests : WF_vars(Answer(r))
-----------------------------------------------------------------------------
(* Type invariant and properties. *)


\* Every variable has its type.
TypeOK ==
    /\ created \subseteq Conversations
    /\ messages \subseteq Message
    /\ summary \in [Conversations -> [text : {None} \cup SUBSET Message, upto : Nat]]
    /\ audit \subseteq [request : Requests, refused : BOOLEAN]
    /\ pc \in [Requests -> {"idle", "ended"} \cup Answering]
    /\ history \in [Requests -> Seq(Message)]
    /\ DOMAIN prompt = Requests
    /\ refused \in [Requests -> BOOLEAN]
    /\ base \in [Requests -> Nat]
    /\ written \in [Requests -> SUBSET Message]
    /\ events \in [Requests -> Seq(EventNames)]

\* The rows of conversation c are whole turns: ordinals without gap, each once, and
\* every query followed by the answer to it.
WholeTurns(c) ==
    /\ OrdinalsIn(c) = 1 .. MaxOrdinal(c)
    /\ \A m1, m2 \in MessagesIn(c) : m1.ordinal = m2.ordinal => m1 = m2
    /\ \A m \in MessagesIn(c) :
            /\ m.role = IF m.ordinal % 2 = 1 THEN "user" ELSE "assistant"
            /\ m.role = "user" => \E a \in MessagesIn(c) :
                    a.ordinal = m.ordinal + 1 /\ a.request = m.request

\* However requests to one conversation overlap, fail or are cancelled, its
\* messages are whole turns without gap, repetition or interleaving, although
\* ordinals are taken from a MAX read without a lock.
TurnsAreWhole == \A c \in Conversations : WholeTurns(c)

\* A turn and its audit event exist together, and agree on the refusal.
TurnsAreAudited ==
    /\ \A m \in messages : \E e \in audit :
            e.request = m.request /\ (m.role = "assistant" => e.refused = m.refused)
    /\ \A e \in audit : \A role \in Roles :
            \E m \in messages : m.request = e.request /\ m.role = role

Sent(r, event) == \E i \in DOMAIN events[r] : events[r][i] = event

\* What is stored was answered in full: a stored turn's client was sent "done",
\* and citations before it.
StoredWasAnswered ==
    \A m \in messages : Sent(m.request, "citations") /\ Sent(m.request, "done")

\* What a request reads for history is whole turns, and for good: no row it read
\* is of an answer that is rolled back later, and its own turn comes after them.
HistoryIsWholeTurns ==
    \A r \in Requests :
        /\ \A i \in DOMAIN history[r] :
                /\ history[r][i] \in messages
                /\ history[r][i].role = IF i % 2 = 1 THEN "user" ELSE "assistant"
        /\ \A m \in messages : \A i \in DOMAIN history[r] :
                m.request = r => history[r][i].ordinal < m.ordinal

\* Requests that have a prompt, and what is in it; upto is 0 without a summary.
Prompted == {r \in Requests : pc[r] \in Answering \ {"assemble"}}
Verbatims(r) == MessagesOf(prompt[r].verbatim)
Summarized(r) == IF prompt[r].upto = 0 THEN {} ELSE prompt[r].summary

\* Nothing the request read is forgotten: a message that is not in the prompt
\* itself is in its summary, unless the summarizing call failed.
PromptCoversHistory ==
    \A r \in Prompted : prompt[r].summary # {} =>
        \A i \in DOMAIN history[r] :
            history[r][i] \in Verbatims(r) \cup Summarized(r)

\* A history that goes into a prompt whole fits the budget; with a summary in place of
\* its beginning, the turns before the last MinVerbatimTurns cost no more than these
\* leave of the budget less the reserve.  (An empty answer costs nothing.)
PromptFitsBudget ==
    \A r \in Prompted :
        LET turns == prompt[r].verbatim
            older == Len(turns) - MinVerbatimTurns
        IN  IF prompt[r].upto = 0
            THEN TokenSum(turns) <= HistoryBudget
            ELSE older > 0 =>
                    TokenSum(SubSeq(turns, 1, older)) <=
                        Larger(0, EffectiveBudget -
                                    TokenSum(SubSeq(turns, older + 1, Len(turns))))

\* A request that begins to be answered is answered or fails in the end: no lock
\* that requests hold on each other's rows keeps one waiting for ever.
RequestsEnd == \A r \in Requests : pc[r] \in Answering ~> pc[r] = "ended"

\* summary_upto_ordinal is the highest ordinal included in the rolling summary.
SummaryReachesOrdinal ==
    \A c \in Conversations :
        summary[c].text \notin {None, {}} =>
            /\ \E m \in summary[c].text : m.ordinal = summary[c].upto
            /\ \A m \in summary[c].text : m.ordinal <= summary[c].upto

\* A rolling summary is never replaced by an empty one.
SummarySurvives ==
    [][\A c \in Conversations :
            summary[c].text \notin {None, {}} => summary'[c].text # {}]_vars
-----------------------------------------------------------------------------
(* The inductive invariant of the proofs. *)

\* Requests whose query is inserted and not committed.
Holding(c) == {r \in Requests : Target[r] = c /\ pc[r] \in Storing \ {"user"}}

\* The rows r has inserted, and what it knows by the ordinal it read.
RowsInOrder(r) ==
    /\ written[r] =
         IF pc[r] \notin Storing \ {"user"} THEN {}
         ELSE IF pc[r] = "assistant" THEN {Row(r, "user")}
         ELSE {Row(r, "user"), Row(r, "assistant")}
    /\ pc[r] \in Storing => base[r] % 2 = 0
    /\ pc[r] = "user" => base[r] <= MaxOrdinal(Target[r])
    /\ pc[r] \in Storing \ {"user"} => base[r] = MaxOrdinal(Target[r])

\* The key of an inserted query makes its request the only one of the conversation
\* past that point, and no other commits until it is over: so the ordinal it read
\* is still the highest.
OneWriter ==
    /\ \A c \in Conversations : \A q, r \in Holding(c) : q = r
    /\ \A r \in Requests : RowsInOrder(r)

ControlTypeOK ==
    /\ messages \subseteq Message
    /\ pc \in [Requests -> {"idle", "ended"} \cup Answering]
    /\ refused \in [Requests -> BOOLEAN]
    /\ base \in [Requests -> Nat]
    /\ written \in [Requests -> SUBSET Message]
    /\ events \in [Requests -> Seq(EventNames)]

\* A request on its way to store its turn was sent the citations, and "done"
\* when it is to commit; what is stored was sent both.
AnswersPrecedeStorage ==
    /\ \A r \in Requests : pc[r] \in {"ordinal"} \cup Storing => Sent(r, "citations")
    /\ \A r \in Requests : pc[r] = "commit" => Sent(r, "done")
    /\ StoredWasAnswered

IInv ==
    /\ ControlTypeOK
    /\ \A c \in Conversations : MaxOrdinal(c) \in Nat
    /\ TurnsAreWhole
    /\ OneWriter
    /\ AnswersPrecedeStorage
    /\ TurnsAreAudited
==============================================================================
