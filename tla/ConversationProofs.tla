-------------------------- MODULE ConversationProofs --------------------------
(***************************************************************************)
(* Proofs about Conversation, for any number of requests, conversations    *)
(* and users, any history window and any bound on open requests.           *)
(*                                                                         *)
(* The argument: an open transaction that has inserted a query holds the   *)
(* key after the highest committed ordinal, so it is the only one of its   *)
(* conversation that got so far, and nobody else can commit before it is   *)
(* over.  A commit therefore appends exactly the next two ordinals.        *)
(***************************************************************************)
EXTENDS Conversation, SessionMemoryProofs, TLAPS

-----------------------------------------------------------------------------
(* Facts about numbers, ordinals and events. *)

\* Even steps keep the parity.
LEMMA ParityStays ==
    ASSUME NEW n \in Nat, NEW l \in Nat, NEW i \in Nat, n % 2 = 0, l % 2 = 0, l <= n
    PROVE  (n - l + i) % 2 = i % 2
  <1> DEFINE a == n \div 2
             b == l \div 2
             d == i \div 2
             e == a - b + d
  <1>1. a \in Int /\ b \in Int /\ d \in Int
    OBVIOUS
  <1>2. n = 2 * a /\ l = 2 * b
    OBVIOUS
  <1>3. i = 2 * d + (i % 2) /\ i % 2 \in {0, 1}
    OBVIOUS
  <1> HIDE DEF a, b, d
  <1>4. n - l + i = 2 * e + (i % 2)
    BY <1>1, <1>2, <1>3
  <1>5. e \in Int
    BY <1>1
  <1> HIDE DEF e
  <1>6. ASSUME NEW r \in {0, 1}
        PROVE  (2 * e + r) % 2 = r
    BY <1>5
  <1> QED
    BY <1>3, <1>4, <1>6

USE ConversationAssumption

\* The ordinals of a turn: odd, then even.
LEMMA Parity ==
    ASSUME NEW n \in Nat
    PROVE  /\ n % 2 # 1 => n % 2 = 0
           /\ n % 2 = 0 => (n + 1) % 2 = 1 /\ (n + 2) % 2 = 0
  OBVIOUS

\* The greatest element of an interval from 1, or 0.
LEMMA TopOfInterval ==
    ASSUME NEW n \in Nat, NEW k \in (1 .. n) \cup {0}, \A j \in 1 .. n : j <= k
    PROVE  k = n
  <1>1. CASE n = 0
    BY <1>1
  <1>2. CASE n # 0
    <2>1. n \in 1 .. n
      BY <1>2
    <2>2. n <= k
      BY <2>1
    <2>3. k \in Nat /\ k <= n
      OBVIOUS
    <2> QED
      BY <2>2, <2>3
  <1> QED
    BY <1>1, <1>2

\* The highest ordinal of a conversation without gaps is their number.
LEMMA MaxOrdinalOfInterval ==
    ASSUME NEW c \in Conversations, NEW n \in Nat, OrdinalsIn(c) = 1 .. n
    PROVE  MaxOrdinal(c) = n
  <1>1. n \in OrdinalsIn(c) \cup {0} /\ \A j \in OrdinalsIn(c) : j <= n
    OBVIOUS
  <1>2. ASSUME NEW k \in OrdinalsIn(c) \cup {0}, \A j \in OrdinalsIn(c) : j <= k
        PROVE  k = n
    BY <1>2, TopOfInterval
  <1> QED
    BY <1>1, <1>2 DEF MaxOrdinal

\* A step that leaves the messages alone leaves what is read off them alone.
LEMMA SameMessages ==
    ASSUME UNCHANGED <<messages, audit>>
    PROVE  /\ \A c \in Conversations :
                /\ MaxOrdinal(c)' = MaxOrdinal(c)
                /\ OrdinalsIn(c)' = OrdinalsIn(c)
           /\ TurnsAreWhole => TurnsAreWhole'
           /\ TurnsAreAudited => TurnsAreAudited'
  <1>1. \A c : MessagesIn(c)' = MessagesIn(c)
    BY DEF MessagesIn
  <1>2. \A c : OrdinalsIn(c)' = OrdinalsIn(c)
    BY <1>1 DEF OrdinalsIn
  <1>3. \A c : MaxOrdinal(c)' = MaxOrdinal(c)
    BY <1>2 DEF MaxOrdinal
  <1>4. TurnsAreWhole => TurnsAreWhole'
    BY <1>1, <1>2, <1>3 DEF TurnsAreWhole, WholeTurns
  <1>5. TurnsAreAudited => TurnsAreAudited'
    BY DEF TurnsAreAudited
  <1> QED
    BY <1>2, <1>3, <1>4, <1>5

\* Sending adds the events sent, and keeps those there are.
LEMMA SendFacts ==
    ASSUME ControlTypeOK, NEW r \in Requests, NEW sent \in Seq(EventNames), Send(r, sent)
    PROVE  /\ events' \in [Requests -> Seq(EventNames)]
           /\ \A q \in Requests, e \in EventNames : Sent(q, e) => Sent(q, e)'
           /\ \A i \in DOMAIN sent : Sent(r, sent[i])'
  <1> USE DEF ControlTypeOK, Send
  <1>1. events' \in [Requests -> Seq(EventNames)]
    OBVIOUS
  <1>2. ASSUME NEW q \in Requests, NEW e \in EventNames, Sent(q, e)
        PROVE  Sent(q, e)'
    <2>1. PICK i \in DOMAIN events[q] : events[q][i] = e
      BY <1>2 DEF Sent
    <2>2. i \in DOMAIN events'[q] /\ events'[q][i] = e
      BY <2>1
    <2> QED
      BY <2>2 DEF Sent
  <1>3. ASSUME NEW i \in DOMAIN sent
        PROVE  Sent(r, sent[i])'
    <2>1. /\ Len(events[r]) + i \in DOMAIN events'[r]
          /\ events'[r][Len(events[r]) + i] = sent[i]
      BY <1>3
    <2> QED
      BY <2>1 DEF Sent
  <1> QED
    BY <1>1, <1>2, <1>3

\* A step that sends nothing keeps what was sent.
LEMMA NothingSent ==
    ASSUME UNCHANGED events
    PROVE  \A q \in Requests, e \in EventNames : Sent(q, e) => Sent(q, e)'
  BY DEF Sent

\* A request that a step does not touch keeps its part of the invariant, while the
\* highest ordinal of its conversation stays.
LEMMA UntouchedRequest ==
    ASSUME NEW q \in Requests, RowsInOrder(q),
           pc'[q] = pc[q], written'[q] = written[q], base'[q] = base[q],
           refused'[q] = refused[q],
           MaxOrdinal(Target[q])' = MaxOrdinal(Target[q])
    PROVE  RowsInOrder(q)'
  <1>1. \A role : Row(q, role)' = Row(q, role)
    BY DEF Row
  <1> QED
    BY <1>1 DEF RowsInOrder

\* The rows of requests are messages.
LEMMA RowIsMessage ==
    ASSUME ControlTypeOK, NEW q \in Requests, NEW role \in Roles
    PROVE  Row(q, role) \in Message
  <1>1. /\ base[q] \in Nat /\ refused[q] \in BOOLEAN /\ Target[q] \in Conversations
        /\ base[q] + 1 \in Nat /\ base[q] + 2 \in Nat
    BY DEF ControlTypeOK
  <1>2. (role = "assistant" /\ refused[q]) \in BOOLEAN
    OBVIOUS
  <1> QED
    BY <1>1, <1>2 DEF Row, Message

-----------------------------------------------------------------------------
(* The initial states. *)

LEMMA ConversationInit == Init => IInv
  <1> SUFFICES ASSUME Init PROVE IInv
    OBVIOUS
  <1>1. \A c \in Conversations : MessagesIn(c) = {} /\ OrdinalsIn(c) = 1 .. 0
    BY DEF Init, MessagesIn, OrdinalsIn
  <1>2. \A c \in Conversations : MaxOrdinal(c) = 0
    BY <1>1, MaxOrdinalOfInterval
  <1>3. TurnsAreWhole
    BY <1>1, <1>2 DEF TurnsAreWhole, WholeTurns
  <1>4. ControlTypeOK
    BY DEF Init, ControlTypeOK
  <1>5. OneWriter
    BY DEF Init, OneWriter, RowsInOrder, Storing, Holding
  <1>6. AnswersPrecedeStorage /\ TurnsAreAudited
    BY DEF Init, AnswersPrecedeStorage, StoredWasAnswered, TurnsAreAudited, Storing
  <1> QED
    BY <1>2, <1>3, <1>4, <1>5, <1>6 DEF IInv

-----------------------------------------------------------------------------
(* Steps that store nothing. *)

\* The parts of the invariant about the committed rows survive a step that leaves
\* them alone.
LEMMA QuietStep ==
    ASSUME IInv, UNCHANGED <<messages, audit>>, ControlTypeOK', OneWriter',
           AnswersPrecedeStorage'
    PROVE  IInv'
  BY SameMessages DEF IInv

\* A request that is rolled back holds nothing any more.
LEMMA RollbackStep ==
    ASSUME IInv, NEW r \in Requests, Rollback(r),
           events' \in [Requests -> Seq(EventNames)],
           \A q \in Requests, e \in EventNames : Sent(q, e) => Sent(q, e)'
    PROVE  IInv'
  <1> USE DEF Rollback, GoTo, storeVars
  <1>1. UNCHANGED <<messages, audit>>
    OBVIOUS
  <1>2. ControlTypeOK'
    BY DEF IInv, ControlTypeOK
  <1>3. OneWriter'
    <2>1. ASSUME NEW q \in Requests, q # r
          PROVE  pc'[q] = pc[q] /\ written'[q] = written[q] /\ base'[q] = base[q]
      BY <2>1 DEF IInv, ControlTypeOK
    <2>2. pc'[r] = "ended" /\ written'[r] = {}
      BY DEF IInv, ControlTypeOK
    <2>3. \A c \in Conversations : \A p, q \in Holding(c)' : p = q
      BY <2>1, <2>2 DEF IInv, OneWriter, Holding, Storing
    <2>4. RowsInOrder(r)'
      BY <2>2 DEF RowsInOrder, Storing
    <2>5. \A c \in Conversations : MaxOrdinal(c)' = MaxOrdinal(c)
      BY <1>1, SameMessages
    <2> QED
      BY <2>1, <2>3, <2>4, <2>5, UntouchedRequest DEF IInv, OneWriter
  <1>4. AnswersPrecedeStorage'
    BY <1>1 DEF IInv, ControlTypeOK, AnswersPrecedeStorage, StoredWasAnswered, Storing,
                Message, EventNames
  <1> QED
    BY <1>1, <1>2, <1>3, <1>4, QuietStep

LEMMA FailStep ==
    ASSUME IInv, NEW r \in Requests, NEW sent \in Seq(EventNames), Fail(r, sent)
    PROVE  IInv'
  <1>1. sent \o <<"error">> \in Seq(EventNames)
    BY DEF EventNames
  <1> QED
    BY <1>1, SendFacts, RollbackStep DEF Fail, IInv

\* A request moves on before it inserts anything, and what it sent stays sent.
LEMMA EarlyStep ==
    ASSUME IInv, NEW r \in Requests, NEW label \in {"assemble", "retrieve", "stream", "ordinal", "ended"},
           pc[r] \notin Storing, GoTo(r, label),
           UNCHANGED <<messages, audit, base, written>>,
           refused' \in [Requests -> BOOLEAN],
           \A q \in Requests : q # r => refused'[q] = refused[q],
           events' \in [Requests -> Seq(EventNames)],
           \A q \in Requests, e \in EventNames : Sent(q, e) => Sent(q, e)',
           label = "ordinal" => Sent(r, "citations")'
    PROVE  IInv'
  <1> USE DEF GoTo
  <1>1. ControlTypeOK'
    BY DEF IInv, ControlTypeOK, Answering
  <1>2. OneWriter'
    <2>2. \A q \in Requests : pc'[q] \in Storing => q # r /\ pc'[q] = pc[q]
      BY DEF IInv, ControlTypeOK, Storing
    <2>3. \A c : Holding(c)' = Holding(c)
      BY <2>2 DEF Holding, Storing, IInv, ControlTypeOK
    <2>4. ASSUME NEW q \in Requests, q # r
          PROVE  pc'[q] = pc[q] /\ written'[q] = written[q] /\ base'[q] = base[q]
      BY <2>4 DEF IInv, ControlTypeOK
    <2>5. written'[r] = {} /\ pc'[r] \notin Storing
      BY DEF IInv, ControlTypeOK, OneWriter, RowsInOrder, Storing
    <2>6. /\ \A c \in Conversations : \A p, q \in Holding(c)' : p = q
          /\ \A c \in Conversations : MaxOrdinal(c)' = MaxOrdinal(c)
      BY <2>3, SameMessages DEF IInv, OneWriter
    <2>7. RowsInOrder(r)'
      BY <2>5 DEF RowsInOrder, Storing
    <2> QED
      BY <2>4, <2>6, <2>7, UntouchedRequest DEF IInv, OneWriter
  <1>3. AnswersPrecedeStorage'
    BY DEF IInv, ControlTypeOK, AnswersPrecedeStorage, StoredWasAnswered, Storing,
           Message, EventNames
  <1> QED
    BY <1>1, <1>2, <1>3, QuietStep

\* A request that stores its turn moves on, but for the commit.
LEMMA LateStep ==
    ASSUME IInv, NEW r \in Requests, NEW label \in {"update", "done", "commit"},
           pc[r] \in {"assistant", "update", "done"}, GoTo(r, label),
           UNCHANGED <<messages, audit, base, refused>>,
           written' = [written EXCEPT ![r] = {Row(r, "user"), Row(r, "assistant")}],
           events' \in [Requests -> Seq(EventNames)],
           \A q \in Requests, e \in EventNames : Sent(q, e) => Sent(q, e)',
           label = "commit" => Sent(r, "done")'
    PROVE  IInv'
  <1> USE DEF GoTo
  <1>1. ControlTypeOK'
    <2>1. {Row(r, "user"), Row(r, "assistant")} \subseteq Message
      BY RowIsMessage DEF IInv, Roles
    <2> QED
      BY <2>1 DEF IInv, ControlTypeOK, Answering, Storing
  <1>2. OneWriter'
    <2>1. \A q \in Requests, role \in Roles : Row(q, role)' = Row(q, role)
      BY DEF Row
    <2>2. \A c : Holding(c)' = Holding(c)
      BY DEF Holding, Storing, IInv, ControlTypeOK
    <2>3. ASSUME NEW q \in Requests, q # r
          PROVE  pc'[q] = pc[q] /\ written'[q] = written[q] /\ base'[q] = base[q]
      BY <2>3 DEF IInv, ControlTypeOK
    <2>4. /\ pc'[r] \in Storing \ {"user", "assistant"} /\ base'[r] = base[r]
          /\ written'[r] = {Row(r, "user"), Row(r, "assistant")}
          /\ pc[r] \in Storing \ {"user"}
      BY DEF IInv, ControlTypeOK, Storing
    <2>5. /\ \A c \in Conversations : \A p, q \in Holding(c)' : p = q
          /\ \A c \in Conversations : MaxOrdinal(c)' = MaxOrdinal(c)
      BY <2>2, SameMessages DEF IInv, OneWriter
    <2>6. RowsInOrder(r)'
      <3>1. base[r] % 2 = 0 /\ base[r] = MaxOrdinal(Target[r])
        BY <2>4 DEF IInv, OneWriter, RowsInOrder
      <3>2. pc'[r] # "assistant" /\ pc'[r] # "user"
        BY <2>4
      <3> QED
        BY <2>1, <2>4, <2>5, <3>1, <3>2 DEF RowsInOrder, Roles
    <2> QED
      BY <2>3, <2>5, <2>6, UntouchedRequest DEF IInv, OneWriter
  <1>3. AnswersPrecedeStorage'
    BY DEF IInv, ControlTypeOK, AnswersPrecedeStorage, StoredWasAnswered, Storing,
           Message, EventNames
  <1> QED
    BY <1>1, <1>2, <1>3, QuietStep

-----------------------------------------------------------------------------
(* The insert of the query, and the commit. *)

\* A conversation ends with an answer, under an even ordinal.
LEMMA OrdinalsArePaired ==
    ASSUME IInv, NEW c \in Conversations
    PROVE  MaxOrdinal(c) % 2 = 0
  <1>0. MaxOrdinal(c) \in Nat
    BY DEF IInv
  <1>1. CASE MaxOrdinal(c) = 0
    BY <1>1
  <1>2. CASE MaxOrdinal(c) # 0
    <2> DEFINE n == MaxOrdinal(c)
    <2>1. OrdinalsIn(c) = 1 .. n /\ n \in 1 .. n /\ n + 1 \notin 1 .. n
      BY <1>0, <1>2 DEF IInv, TurnsAreWhole, WholeTurns
    <2>2. PICK m \in MessagesIn(c) : m.ordinal = n
      BY <2>1 DEF OrdinalsIn
    <2>3. m.role # "user"
      BY <1>0, <2>1, <2>2 DEF IInv, TurnsAreWhole, WholeTurns, OrdinalsIn
    <2>4. n % 2 # 1
      BY <1>0, <2>2, <2>3 DEF IInv, TurnsAreWhole, WholeTurns
    <2> QED
      BY <1>0, <2>4, Parity
  <1> QED
    BY <1>1, <1>2

LEMMA ReadOrdinalStep ==
    ASSUME IInv, NEW r \in Requests, ReadOrdinal(r)
    PROVE  IInv'
  <1> DEFINE c == Target[r]
  <1>1. /\ UNCHANGED <<messages, audit, refused, written, events>>
        /\ base' = [base EXCEPT ![r] = MaxOrdinal(c)]
        /\ pc[r] = "ordinal" /\ pc' = [pc EXCEPT ![r] = "user"]
    BY DEF ReadOrdinal, GoTo, storeVars
  <1>2. c \in Conversations /\ MaxOrdinal(c) \in Nat
    BY DEF IInv
  <1>3. ControlTypeOK'
    BY <1>1, <1>2 DEF IInv, ControlTypeOK, Answering, Storing
  <1>4. MaxOrdinal(c) % 2 = 0
    BY <1>2, OrdinalsArePaired
  <1>5. OneWriter'
    <2>2. \A d : Holding(d)' = Holding(d)
      BY <1>1 DEF Holding, Storing, IInv, ControlTypeOK
    <2>3. ASSUME NEW q \in Requests, q # r
          PROVE  pc'[q] = pc[q] /\ written'[q] = written[q] /\ base'[q] = base[q]
      BY <1>1, <2>3 DEF IInv, ControlTypeOK
    <2>4. /\ pc'[r] = "user" /\ base'[r] = MaxOrdinal(c) /\ written'[r] = {}
      BY <1>1 DEF IInv, ControlTypeOK, OneWriter, RowsInOrder, Storing
    <2>5. /\ \A d \in Conversations : \A p, q \in Holding(d)' : p = q
          /\ \A d \in Conversations : MaxOrdinal(d)' = MaxOrdinal(d)
      BY <1>1, <2>2, SameMessages DEF IInv, OneWriter
    <2> HIDE DEF c
    <2>6. MaxOrdinal(Target[r])' = MaxOrdinal(c) /\ MaxOrdinal(c) <= MaxOrdinal(c)
      BY <1>2, <2>5 DEF c
    <2>7. RowsInOrder(r)'
      BY <1>4, <2>4, <2>6 DEF RowsInOrder, Storing
    <2>8. refused' = refused
      BY <1>1
    <2> QED
      BY <2>3, <2>5, <2>7, <2>8, UntouchedRequest DEF IInv, OneWriter
  <1>6. AnswersPrecedeStorage'
    BY <1>1, NothingSent DEF IInv, ControlTypeOK, AnswersPrecedeStorage,
           StoredWasAnswered, Storing, Message, EventNames
  <1> QED
    BY <1>1, <1>3, <1>5, <1>6, QuietStep

LEMMA InsertUserStep ==
    ASSUME IInv, NEW r \in Requests, InsertUserMessage(r)
    PROVE  IInv'
  <1> DEFINE c == Target[r]
             n == MaxOrdinal(c)
             row == Row(r, "user")
  <1>0. /\ pc[r] = "user"
        /\ \A q \in Requests \ {r} : \A m \in written[q] : ~ SameKey(m, row)
    BY DEF InsertUserMessage, Insert
  <1>1. CASE Fail(r, <<>>)
    <2>1. <<>> \in Seq(EventNames)
      OBVIOUS
    <2> QED
      BY <1>1, <2>1, FailStep
  <1>2. ASSUME \A m \in messages : ~ SameKey(m, row),
               written' = [written EXCEPT ![r] = @ \cup {row}],
               GoTo(r, "assistant"),
               UNCHANGED <<storeVars, history, prompt, refused, base, events>>
        PROVE  IInv'
    <2>1. /\ c \in Conversations /\ n \in Nat /\ base[r] \in Nat
          /\ base[r] % 2 = 0 /\ base[r] <= n
          /\ row.conversation = c /\ row.ordinal = base[r] + 1
          /\ OrdinalsIn(c) = 1 .. n
      BY <1>0 DEF IInv, ControlTypeOK, OneWriter, RowsInOrder, Storing, Row,
                  TurnsAreWhole, WholeTurns
    <2>2. base[r] = n
      <3>1. base[r] + 1 \notin OrdinalsIn(c)
        BY <1>2, <2>1 DEF SameKey, OrdinalsIn, MessagesIn
      <3> HIDE DEF n
      <3> QED
        BY <2>1, <3>1
    <2>3. Holding(c) = {}
      <3> SUFFICES ASSUME NEW q \in Holding(c) PROVE FALSE
        OBVIOUS
      <3>1. /\ q \in Requests \ {r} /\ Target[q] = c
            /\ pc[q] \in Storing \ {"user"} /\ base[q] = n
        BY <1>0 DEF Holding, IInv, OneWriter, RowsInOrder
      <3>2. Row(q, "user") \in written[q]
        <4>1. RowsInOrder(q)
          BY <3>1 DEF IInv, OneWriter
        <4> QED
          BY <3>1, <4>1 DEF RowsInOrder
      <3>3. SameKey(Row(q, "user"), row)
        BY <2>2, <3>1 DEF SameKey, Row
      <3> QED
        BY <1>0, <3>1, <3>2, <3>3
    <2>4. ControlTypeOK' /\ UNCHANGED <<messages, audit>>
      <3>1. row \in Message
        BY RowIsMessage DEF IInv, Roles
      <3> QED
        BY <1>2, <3>1 DEF IInv, ControlTypeOK, Answering, Storing, GoTo, storeVars
    <2>5. OneWriter'
      <3>1. \A q \in Requests, role \in Roles : Row(q, role)' = Row(q, role)
        BY <1>2 DEF Row
      <3>2. ASSUME NEW q \in Requests, q # r
            PROVE  pc'[q] = pc[q] /\ written'[q] = written[q] /\ base'[q] = base[q]
        BY <1>2, <3>2 DEF IInv, ControlTypeOK, GoTo
      <3>3. /\ pc'[r] = "assistant" /\ base'[r] = base[r] /\ written'[r] = {row}
        BY <1>0, <1>2 DEF IInv, ControlTypeOK, OneWriter, RowsInOrder, Storing, GoTo
      <3>4. \A d \in Conversations :
                Holding(d)' = IF d = c THEN {r} ELSE Holding(d)
        BY <2>3, <3>2, <3>3, <1>0 DEF Holding, Storing, IInv, ControlTypeOK
      <3>5. \A d \in Conversations : \A p, q \in Holding(d)' : p = q
        BY <3>4 DEF IInv, OneWriter
      <3>6. \A d \in Conversations : MaxOrdinal(d)' = MaxOrdinal(d)
        BY <2>4, SameMessages
      <3>7. base[r] = MaxOrdinal(Target[r]) /\ base[r] % 2 = 0
        BY <2>1, <2>2
      <3>8. RowsInOrder(r)'
        BY <3>1, <3>3, <3>6, <3>7 DEF RowsInOrder, Storing, Roles
      <3>9. refused' = refused
        BY <1>2
      <3> HIDE DEF c, n
      <3> QED
        BY <3>2, <3>5, <3>6, <3>8, <3>9, UntouchedRequest DEF IInv, OneWriter
    <2>6. AnswersPrecedeStorage'
      BY <1>0, <1>2, NothingSent DEF IInv, ControlTypeOK, AnswersPrecedeStorage,
             StoredWasAnswered, Storing, Message, EventNames, GoTo, storeVars
    <2> QED
      BY <2>4, <2>5, <2>6, QuietStep
  <1> QED
    BY <1>1, <1>2 DEF InsertUserMessage, Insert

LEMMA StoreStep ==
    ASSUME IInv, NEW r \in Requests, pc[r] = "commit", Store(r),
           events' \in [Requests -> Seq(EventNames)],
           \A q \in Requests, e \in EventNames : Sent(q, e) => Sent(q, e)'
    PROVE  IInv'
  <1> DEFINE c == Target[r]
             n == MaxOrdinal(c)
             query == Row(r, "user")
             answer == Row(r, "assistant")
  <1>1. /\ c \in Conversations /\ n \in Nat /\ n % 2 = 0 /\ base[r] = n
        /\ written[r] = {query, answer} /\ r \in Holding(c)
        /\ OrdinalsIn(c) = 1 .. n
    BY DEF IInv, OneWriter, RowsInOrder, Storing, Holding, TurnsAreWhole, WholeTurns
  <1>2. /\ messages' = messages \cup {query, answer}
        /\ audit' = audit \cup {AuditEvent(r)}
        /\ written' = [written EXCEPT ![r] = {}]
        /\ pc' = [pc EXCEPT ![r] = "ended"]
        /\ UNCHANGED <<refused, base>>
    BY <1>1 DEF Store, GoTo
  <1>3. /\ query \in Message /\ answer \in Message
        /\ query.conversation = c /\ query.ordinal = n + 1 /\ query.role = "user"
        /\ answer.conversation = c /\ answer.ordinal = n + 2 /\ answer.role = "assistant"
        /\ query.request = r /\ answer.request = r /\ answer.refused = refused[r]
    BY <1>1 DEF Row, Message, Roles, IInv, ControlTypeOK
  <1>4. ControlTypeOK'
    BY <1>2, <1>3 DEF IInv, ControlTypeOK
  <1> HIDE DEF n, query, answer
  <1>5. /\ MessagesIn(c)' = MessagesIn(c) \cup {query, answer}
        /\ \A d \in Conversations : d # c => MessagesIn(d)' = MessagesIn(d)
    BY <1>2, <1>3 DEF MessagesIn
  <1>6. OrdinalsIn(c)' = 1 .. n + 2
    <2>1. OrdinalsIn(c)' = OrdinalsIn(c) \cup {n + 1, n + 2}
      BY <1>3, <1>5 DEF OrdinalsIn
    <2>2. (1 .. n) \cup {n + 1, n + 2} = 1 .. n + 2
      BY <1>1
    <2> QED
      BY <1>1, <2>1, <2>2
  <1>7. \A d \in Conversations : d # c =>
            OrdinalsIn(d)' = OrdinalsIn(d) /\ MaxOrdinal(d)' = MaxOrdinal(d)
    <2>1. \A d \in Conversations : d # c => OrdinalsIn(d)' = OrdinalsIn(d)
      BY <1>5 DEF OrdinalsIn
    <2> QED
      BY <2>1 DEF MaxOrdinal
  <1>8. MaxOrdinal(c)' = n + 2
    <2>1. n + 2 \in OrdinalsIn(c)' \cup {0}
      BY <1>1, <1>6
    <2>2. ASSUME NEW k \in OrdinalsIn(c)' \cup {0}, \A j \in OrdinalsIn(c)' : j <= k
          PROVE  k = n + 2
      <3>1. n + 2 \in Nat
        BY <1>1
      <3>2. k \in (1 .. n + 2) \cup {0} /\ \A j \in 1 .. n + 2 : j <= k
        BY <1>6, <2>2
      <3> QED
        BY <3>1, <3>2, TopOfInterval
    <2>3. \A j \in OrdinalsIn(c)' : j <= n + 2
      BY <1>1, <1>6
    <2> QED
      BY <2>1, <2>2, <2>3 DEF MaxOrdinal
  <1>9. TurnsAreWhole'
    <2>1. WholeTurns(c)'
      <3>1. ASSUME NEW m1 \in MessagesIn(c)', NEW m2 \in MessagesIn(c)',
                   m1.ordinal = m2.ordinal
            PROVE  m1 = m2
        <4>1. \A m \in MessagesIn(c) : m.ordinal \in 1 .. n
          BY <1>1 DEF OrdinalsIn
        <4>2. n + 1 \notin 1 .. n /\ n + 2 \notin 1 .. n /\ n + 1 # n + 2
          BY <1>1
        <4>3. \A p, q \in MessagesIn(c) : p.ordinal = q.ordinal => p = q
          BY <1>1 DEF IInv, TurnsAreWhole, WholeTurns
        <4> QED
          BY <1>3, <1>5, <3>1, <4>1, <4>2, <4>3
      <3>2. ASSUME NEW m \in MessagesIn(c)'
            PROVE  /\ m.role = IF m.ordinal % 2 = 1 THEN "user" ELSE "assistant"
                   /\ m.role = "user" => \E a \in MessagesIn(c)' :
                            a.ordinal = m.ordinal + 1 /\ a.request = m.request
        <4>1. CASE m \in MessagesIn(c)
          BY <1>1, <1>5, <4>1 DEF IInv, TurnsAreWhole, WholeTurns
        <4>2. CASE m = query
          <5>1. (n + 1) % 2 = 1
            BY <1>1, Parity
          <5>2. answer.ordinal = m.ordinal + 1 /\ answer.request = m.request
            BY <1>1, <1>3, <4>2
          <5> QED
            BY <1>3, <1>5, <4>2, <5>1, <5>2
        <4>3. CASE m = answer
          <5>1. (n + 2) % 2 # 1
            BY <1>1, Parity
          <5> QED
            BY <1>3, <4>3, <5>1
        <4> QED
          BY <1>5, <4>1, <4>2, <4>3
      <3> QED
        BY <1>6, <1>8, <3>1, <3>2 DEF WholeTurns
    <2>2. ASSUME NEW d \in Conversations, d # c
          PROVE  WholeTurns(d)'
      BY <1>5, <1>7, <2>2 DEF IInv, TurnsAreWhole, WholeTurns
    <2> QED
      BY <2>1, <2>2 DEF TurnsAreWhole
  <1>10. \A d \in Conversations : MaxOrdinal(d)' \in Nat
    <2>1. n + 2 \in Nat /\ \A d \in Conversations : MaxOrdinal(d) \in Nat
      BY <1>1 DEF IInv
    <2> HIDE DEF c
    <2> QED
      BY <1>7, <1>8, <2>1
  <1>11. OneWriter'
    <2>1. \A q \in Requests, role \in Roles : Row(q, role)' = Row(q, role)
      BY <1>2 DEF Row
    <2>2. ASSUME NEW q \in Requests, q # r
          PROVE  pc'[q] = pc[q] /\ written'[q] = written[q] /\ base'[q] = base[q]
      BY <1>2, <2>2 DEF IInv, ControlTypeOK
    <2>3. pc'[r] = "ended" /\ written'[r] = {}
      BY <1>2 DEF IInv, ControlTypeOK
    <2>4. ASSUME NEW d \in Conversations, NEW p \in Holding(d)', NEW q \in Holding(d)'
          PROVE  p = q
      <3>1. p # r /\ q # r /\ p \in Requests /\ q \in Requests
        BY <2>3 DEF Holding, Storing
      <3>2. p \in Holding(d) /\ q \in Holding(d)
        BY <2>2, <3>1 DEF Holding
      <3> QED
        BY <3>2 DEF IInv, OneWriter
    <2>5. RowsInOrder(r)'
      BY <2>3 DEF RowsInOrder, Storing
    <2>6. ASSUME NEW q \in Requests, q # r
          PROVE  RowsInOrder(q)'
      <3>1. RowsInOrder(q)
        BY DEF IInv, OneWriter
      <3>2. CASE Target[q] # c
        <4>1. MaxOrdinal(Target[q])' = MaxOrdinal(Target[q])
          BY <1>7, <3>2
        <4>2. refused'[q] = refused[q]
          BY <1>2
        <4> QED
          BY <2>2, <2>6, <3>1, <4>1, <4>2, UntouchedRequest
      <3>3. CASE Target[q] = c
        <4>1. pc[q] \notin Storing \ {"user"}
          BY <1>1, <2>6, <3>3 DEF IInv, OneWriter, Holding
        <4>2. written'[q] = {} /\ pc'[q] = pc[q] /\ base'[q] = base[q]
          BY <2>2, <2>6, <3>1, <4>1 DEF RowsInOrder
        <4>3. pc[q] \in Storing => base[q] % 2 = 0 /\ base[q] <= n
          BY <3>1, <3>3, <4>1 DEF RowsInOrder, Storing, n
        <4>4. base[q] \in Nat /\ MaxOrdinal(Target[q])' = n + 2
          BY <1>8, <3>3 DEF IInv, ControlTypeOK
        <4>5. pc[q] = "user" => base[q] <= n + 2
          BY <1>1, <4>3, <4>4 DEF Storing
        <4> QED
          BY <4>1, <4>2, <4>3, <4>4, <4>5 DEF RowsInOrder
      <3> QED
        BY <3>2, <3>3
    <2> QED
      BY <2>4, <2>5, <2>6 DEF OneWriter
  <1>12. AnswersPrecedeStorage'
    <2>1. ASSUME NEW q \in Requests
          PROVE  /\ pc'[q] \in {"ordinal"} \cup Storing => Sent(q, "citations")'
                 /\ pc'[q] = "commit" => Sent(q, "done")'
      BY <1>2 DEF IInv, ControlTypeOK, AnswersPrecedeStorage, EventNames, Storing
    <2>2. ASSUME NEW m \in messages'
          PROVE  Sent(m.request, "citations")' /\ Sent(m.request, "done")'
      <3>1. m.request \in Requests
        BY <1>4, <2>2 DEF ControlTypeOK, Message
      <3>2. Sent(m.request, "citations") /\ Sent(m.request, "done")
        BY <1>2, <1>3, <2>2 DEF IInv, AnswersPrecedeStorage, StoredWasAnswered, Storing
      <3> QED
        BY <3>1, <3>2 DEF EventNames
    <2> QED
      BY <2>1, <2>2 DEF AnswersPrecedeStorage, StoredWasAnswered
  <1>13. TurnsAreAudited'
    <2>1. AuditEvent(r).request = r /\ AuditEvent(r).refused = refused[r]
      BY DEF AuditEvent
    <2>2. ASSUME NEW m \in messages'
          PROVE  \E e \in audit' : /\ e.request = m.request
                                   /\ m.role = "assistant" => e.refused = m.refused
      BY <1>2, <1>3, <2>1, <2>2 DEF IInv, TurnsAreAudited
    <2>3. ASSUME NEW e \in audit', NEW role \in Roles
          PROVE  \E m \in messages' : m.request = e.request /\ m.role = role
      BY <1>2, <1>3, <2>1, <2>3 DEF IInv, TurnsAreAudited, Roles
    <2> QED
      BY <2>2, <2>3 DEF TurnsAreAudited
  <1> QED
    BY <1>4, <1>9, <1>10, <1>11, <1>12, <1>13 DEF IInv

-----------------------------------------------------------------------------
(* All steps. *)

LEMMA ConversationNext == IInv /\ [Next]_vars => IInv'
  <1> SUFFICES ASSUME IInv, [Next]_vars
               PROVE  IInv'
    OBVIOUS
  <1> USE DEF storeVars, localVars
  <1>0. ControlTypeOK
    BY DEF IInv
  <1>1. ASSUME NEW c \in Conversations, Create(c)
        PROVE  IInv'
    <2>1. UNCHANGED <<messages, audit, pc, refused, base, written, events>>
      BY <1>1 DEF Create
    <2>3. \A d : Holding(d)' = Holding(d)
      BY <2>1 DEF Holding
    <2>4. ControlTypeOK'
      BY <2>1 DEF IInv, ControlTypeOK
    <2>5. OneWriter'
      BY <2>1, <2>3, SameMessages, UntouchedRequest DEF IInv, OneWriter
    <2>6. AnswersPrecedeStorage'
      BY <2>1 DEF IInv, AnswersPrecedeStorage, StoredWasAnswered, Sent
    <2> QED
      BY <2>1, <2>4, <2>5, <2>6, QuietStep
  <1>2. ASSUME NEW r \in Requests, \/ ReadHistory(r) \/ NotFound(r)
                               \/ HistoryError(r) \/ AssemblePrompt(r)
        PROVE  IInv'
    BY <1>0, <1>2, EarlyStep, NothingSent
       DEF ReadHistory, NotFound, HistoryError, AssemblePrompt, ControlTypeOK, Storing
  <1>3. ASSUME NEW r \in Requests, Retrieve(r)
        PROVE  IInv'
    <2>1. CASE Send(r, <<"metadata">>) /\ GoTo(r, "stream") /\ UNCHANGED refused
      <3>1. <<"metadata">> \in Seq(EventNames)
        BY DEF EventNames
      <3> QED
        BY <1>0, <1>3, <2>1, <3>1, SendFacts, EarlyStep DEF Retrieve, ControlTypeOK, Storing
    <2>2. CASE /\ Send(r, <<"metadata", "token", "citations">>)
               /\ refused' = [refused EXCEPT ![r] = TRUE]
               /\ GoTo(r, "ordinal")
      <3> DEFINE sent == <<"metadata", "token", "citations">>
      <3>1. sent \in Seq(EventNames) /\ 3 \in DOMAIN sent /\ sent[3] = "citations"
        BY DEF EventNames
      <3>2. /\ events' \in [Requests -> Seq(EventNames)]
            /\ \A q \in Requests, e \in EventNames : Sent(q, e) => Sent(q, e)'
            /\ Sent(r, "citations")'
        <4> HIDE DEF sent
        <4>1. \A i \in DOMAIN sent : Sent(r, sent[i])'
          BY <1>0, <2>2, <3>1, SendFacts DEF sent
        <4>2. Sent(r, sent[3])'
          BY <3>1, <4>1
        <4> QED
          BY <1>0, <2>2, <3>1, <4>2, SendFacts DEF sent
      <3>3. pc[r] \notin Storing /\ UNCHANGED <<messages, audit, base, written>>
        BY <1>3 DEF Retrieve, Storing
      <3>4. /\ refused' \in [Requests -> BOOLEAN]
            /\ \A q \in Requests : q # r => refused'[q] = refused[q]
        BY <1>0, <2>2 DEF ControlTypeOK
      <3> HIDE DEF sent
      <3> QED
        BY <2>2, <3>2, <3>3, <3>4, EarlyStep
    <2> QED
      BY <1>3, <2>1, <2>2 DEF Retrieve
  <1>4. ASSUME NEW r \in Requests, Stream(r)
        PROVE  IInv'
    <2>1. PICK tokens \in TokenEvents : Send(r, tokens \o <<"citations">>)
      BY <1>4 DEF Stream
    <2> DEFINE sent == tokens \o <<"citations">>
    <2>2. /\ sent \in Seq(EventNames)
          /\ Len(sent) \in DOMAIN sent /\ sent[Len(sent)] = "citations"
      <3>1. CASE tokens = <<>>
        BY <3>1 DEF EventNames
      <3>2. CASE tokens = <<"token">>
        BY <3>2 DEF EventNames
      <3> QED
        BY <3>1, <3>2 DEF TokenEvents
    <2>3. /\ events' \in [Requests -> Seq(EventNames)]
          /\ \A q \in Requests, e \in EventNames : Sent(q, e) => Sent(q, e)'
          /\ Sent(r, "citations")'
      <3> HIDE DEF sent
      <3>1. \A i \in DOMAIN sent : Sent(r, sent[i])'
        BY <1>0, <2>1, <2>2, SendFacts DEF sent
      <3>2. Sent(r, sent[Len(sent)])'
        BY <2>2, <3>1
      <3> QED
        BY <1>0, <2>1, <2>2, <3>2, SendFacts DEF sent
    <2> HIDE DEF sent
    <2>4. /\ pc[r] \notin Storing /\ GoTo(r, "ordinal")
          /\ UNCHANGED <<messages, audit, base, written, refused>>
      BY <1>4 DEF Stream, Storing
    <2> QED
      BY <1>0, <2>3, <2>4, EarlyStep DEF ControlTypeOK
  <1>5. ASSUME NEW r \in Requests, InsertAssistantMessage(r)
        PROVE  IInv'
    <2>1. CASE Fail(r, <<>>)
      <3>1. <<>> \in Seq(EventNames)
        OBVIOUS
      <3> QED
        BY <2>1, <3>1, FailStep
    <2>2. CASE /\ pc[r] = "assistant"
               /\ written' = [written EXCEPT ![r] = @ \cup {Row(r, "assistant")}]
               /\ GoTo(r, "update")
               /\ UNCHANGED <<storeVars, history, prompt, refused, base, events>>
      <3>1. written[r] = {Row(r, "user")}
        BY <2>2 DEF IInv, OneWriter, RowsInOrder, Storing
      <3>2. written' = [written EXCEPT ![r] = {Row(r, "user"), Row(r, "assistant")}]
        <4>1. {Row(r, "user")} \cup {Row(r, "assistant")} = {Row(r, "user"), Row(r, "assistant")}
          OBVIOUS
        <4> QED
          BY <2>2, <3>1, <4>1
      <3> QED
        BY <1>0, <2>2, <3>2, LateStep, NothingSent DEF ControlTypeOK
    <2> QED
      BY <1>5, <2>1, <2>2 DEF InsertAssistantMessage, Insert
  <1>6. ASSUME NEW r \in Requests, UpdateConversation(r) \/ SendDone(r)
        PROVE  IInv'
    <2>1. pc[r] \in {"update", "done"}
      BY <1>6 DEF UpdateConversation, SendDone
    <2>2. written[r] = {Row(r, "user"), Row(r, "assistant")}
      BY <2>1 DEF IInv, OneWriter, RowsInOrder, Storing
    <2>3. written' = [written EXCEPT ![r] = {Row(r, "user"), Row(r, "assistant")}]
      BY <1>0, <1>6, <2>2 DEF UpdateConversation, SendDone, ControlTypeOK
    <2>4. CASE UpdateConversation(r)
      BY <1>0, <2>1, <2>3, <2>4, LateStep, NothingSent DEF UpdateConversation, ControlTypeOK
    <2>5. CASE SendDone(r)
      <3> DEFINE sent == <<"done">>
      <3>1. sent \in Seq(EventNames) /\ 1 \in DOMAIN sent /\ sent[1] = "done"
        BY DEF EventNames
      <3>2. /\ events' \in [Requests -> Seq(EventNames)]
            /\ \A q \in Requests, e \in EventNames : Sent(q, e) => Sent(q, e)'
            /\ \A i \in DOMAIN sent : Sent(r, sent[i])'
        <4> HIDE DEF sent
        <4> QED
          BY <1>0, <2>5, <3>1, SendFacts DEF SendDone, sent
      <3>3. Sent(r, "done")'
        <4> HIDE DEF sent
        <4>1. Sent(r, sent[1])'
          BY <3>1, <3>2
        <4> QED
          BY <3>1, <4>1
      <3> HIDE DEF sent
      <3> QED
        BY <2>1, <2>3, <2>5, <3>2, <3>3, LateStep DEF SendDone
    <2> QED
      BY <1>6, <2>4, <2>5
  <1>7. ASSUME NEW r \in Requests, Commit(r)
        PROVE  IInv'
    BY <1>0, <1>7, StoreStep, NothingSent DEF Commit, ControlTypeOK
  <1>8. ASSUME NEW r \in Requests, CommitUnacknowledged(r)
        PROVE  IInv'
    <2>1. <<"error">> \in Seq(EventNames)
      BY DEF EventNames
    <2> QED
      BY <1>0, <1>8, <2>1, SendFacts, StoreStep DEF CommitUnacknowledged
  <1>9. ASSUME NEW r \in Requests, ProviderError(r) \/ DatabaseError(r)
        PROVE  IInv'
    <2>1. <<>> \in Seq(EventNames) /\ TokenEvents \subseteq Seq(EventNames)
      BY DEF TokenEvents, EventNames
    <2> QED
      BY <1>9, <2>1, FailStep DEF ProviderError, DatabaseError
  <1>10. ASSUME NEW r \in Requests, Disconnect(r)
         PROVE  IInv'
    BY <1>0, <1>10, RollbackStep, NothingSent DEF Disconnect, ControlTypeOK
  <1>11. CASE UNCHANGED vars
    <2>1. UNCHANGED <<messages, audit, pc, refused, base, written, events>>
      BY <1>11 DEF vars
    <2>3. \A d : Holding(d)' = Holding(d)
      BY <2>1 DEF Holding
    <2>4. ControlTypeOK'
      BY <2>1 DEF IInv, ControlTypeOK
    <2>5. OneWriter'
      BY <2>1, <2>3, SameMessages, UntouchedRequest DEF IInv, OneWriter
    <2>6. AnswersPrecedeStorage'
      BY <2>1 DEF IInv, AnswersPrecedeStorage, StoredWasAnswered, Sent
    <2> QED
      BY <2>1, <2>4, <2>5, <2>6, QuietStep
  <1> QED
    BY <1>1, <1>2, <1>3, <1>4, <1>5, <1>6, <1>7, <1>8, <1>9, <1>10, <1>11,
       ReadOrdinalStep, InsertUserStep
       DEF Next, Answer, Fault

\* The inductive invariant holds throughout.
THEOREM ConversationInvariant == Spec => []IInv
  <1> QED
    BY ConversationInit, ConversationNext, PTL DEF Spec

\* Whatever requests overlap in a conversation, its messages are whole turns under
\* ordinals without gap or repetition (_persist_messages_and_audit).
THEOREM MessagesAreWholeTurns == Spec => []TurnsAreWhole
  <1>1. IInv => TurnsAreWhole
    BY DEF IInv
  <1> QED
    BY <1>1, ConversationInvariant, PTL

\* No turn without its audit event, no audit event without its turn.
THEOREM StoredTurnsAreAudited == Spec => []TurnsAreAudited
  <1>1. IInv => TurnsAreAudited
    BY DEF IInv
  <1> QED
    BY <1>1, ConversationInvariant, PTL

\* A turn is stored only after its client was sent all of the answer.
THEOREM AnswersComeFirst == Spec => []StoredWasAnswered
  <1>1. IInv => StoredWasAnswered
    BY DEF IInv, AnswersPrecedeStorage
  <1> QED
    BY <1>1, ConversationInvariant, PTL

-----------------------------------------------------------------------------
(* Histories.  What a request has read stays stored, and its own turn, for *)
(* which it was still to run, comes after it.                              *)

HistoryInv ==
    /\ DOMAIN history = Requests
    /\ HistoryIsWholeTurns
    /\ \A m \in messages : pc[m.request] = "ended"
    /\ \A r \in Requests : \A i \in DOMAIN history[r] :
            history[r][i].conversation = Target[r]

\* The window of a conversation: rows of it, in whole turns.
LEMMA RecentAreWholeTurns ==
    ASSUME IInv, NEW c \in Conversations, NEW i \in DOMAIN RecentMessages(c)
    PROVE  /\ RecentMessages(c)[i] \in MessagesIn(c)
           /\ RecentMessages(c)[i].role = IF i % 2 = 1 THEN "user" ELSE "assistant"
  <1> DEFINE n == MaxOrdinal(c)
             first == Larger(1, n - HistoryLimit + 1)
             k == first + i - 1
  <1>1. n \in Nat /\ n % 2 = 0 /\ WholeTurns(c) /\ OrdinalsIn(c) = 1 .. n
    BY OrdinalsArePaired DEF IInv, TurnsAreWhole, WholeTurns
  <1>2. /\ i \in 1 .. n - first + 1
        /\ RecentMessages(c)[i] = CHOOSE m \in MessagesIn(c) : m.ordinal = k
    BY DEF RecentMessages
  <1> HIDE DEF n
  <1>3. k \in 1 .. n /\ (k % 2 = 1 <=> i % 2 = 1)
    <2>1. CASE HistoryLimit >= n
      <3>1. first = 1
        BY <1>1, <2>1 DEF Larger
      <3> QED
        BY <1>1, <1>2, <3>1
    <2>2. CASE HistoryLimit < n
      <3>1. first = n - HistoryLimit + 1
        BY <1>1, <2>2 DEF Larger
      <3>2. i \in 1 .. HistoryLimit /\ k = n - HistoryLimit + i
        BY <1>1, <1>2, <3>1
      <3> HIDE DEF k, first
      <3>3. k \in 1 .. n
        BY <1>1, <2>2, <3>2
      <3>4. k % 2 = 1 <=> i % 2 = 1
        <4>1. i \in Nat /\ n \in Nat /\ HistoryLimit \in Nat /\ HistoryLimit <= n
          BY <1>1, <2>2, <3>2
        <4>2. (n - HistoryLimit + i) % 2 = i % 2
          BY <1>1, <4>1, HistoryLimitIsEven, ParityStays
        <4> QED
          BY <3>2, <4>2
      <3> QED
        BY <3>3, <3>4
    <2> QED
      BY <1>1, <2>1, <2>2
  <1> HIDE DEF k
  <1>4. \E m \in MessagesIn(c) : m.ordinal = k
    BY <1>1, <1>3 DEF OrdinalsIn
  <1>5. RecentMessages(c)[i] \in MessagesIn(c) /\ RecentMessages(c)[i].ordinal = k
    BY <1>2, <1>4
  <1>6. RecentMessages(c)[i].role = IF k % 2 = 1 THEN "user" ELSE "assistant"
    BY <1>1, <1>5 DEF WholeTurns
  <1> QED
    BY <1>3, <1>5, <1>6

\* A step reads a history, stores a turn, or does neither; what has ended stays so.
LEMMA HistoryKinds ==
    ASSUME IInv, [Next]_vars
    PROVE  \/ /\ UNCHANGED <<messages, history>>
              /\ \A q \in Requests : pc[q] = "ended" => pc'[q] = "ended"
           \/ \E r \in Requests : ReadHistory(r)
           \/ \E r \in Requests : pc[r] = "commit" /\ Store(r)
  <1> DEFINE Neither == /\ UNCHANGED <<messages, history>>
                        /\ \A q \in Requests : pc[q] = "ended" => pc'[q] = "ended"
  <1> USE DEF storeVars, localVars, GoTo
  <1>0. pc \in [Requests -> {"idle", "ended"} \cup Answering]
    BY DEF IInv, ControlTypeOK
  <1>1. CASE UNCHANGED vars \/ \E c \in Conversations : Create(c)
    BY <1>1 DEF vars, Create
  <1>2. ASSUME NEW r \in Requests,
               \/ NotFound(r) \/ HistoryError(r) \/ AssemblePrompt(r) \/ Retrieve(r)
               \/ Stream(r) \/ ReadOrdinal(r) \/ UpdateConversation(r) \/ SendDone(r)
        PROVE  Neither
    BY <1>0, <1>2 DEF NotFound, HistoryError, AssemblePrompt, Retrieve, Stream, ReadOrdinal,
                      UpdateConversation, SendDone
  <1>3. ASSUME NEW r \in Requests, Rollback(r)
        PROVE  Neither
    BY <1>0, <1>3 DEF Rollback
  <1>4. ASSUME NEW r \in Requests, ProviderError(r) \/ DatabaseError(r) \/ Disconnect(r)
        PROVE  Neither
    BY <1>3, <1>4 DEF ProviderError, DatabaseError, Disconnect, Fail
  <1>5. ASSUME NEW r \in Requests, InsertUserMessage(r) \/ InsertAssistantMessage(r)
        PROVE  Neither
    BY <1>0, <1>3, <1>5 DEF InsertUserMessage, InsertAssistantMessage, Insert, Fail
  <1>6. ASSUME NEW r \in Requests, Commit(r) \/ CommitUnacknowledged(r)
        PROVE  pc[r] = "commit" /\ Store(r)
    BY <1>6 DEF Commit, CommitUnacknowledged
  <1> HIDE DEF Neither
  <1>7. Neither \/ (\E r \in Requests : ReadHistory(r))
                \/ (\E r \in Requests : pc[r] = "commit" /\ Store(r))
    BY <1>1, <1>2, <1>4, <1>5, <1>6 DEF Next, Answer, Fault, Neither
  <1> QED
    BY <1>7 DEF Neither

\* Histories keep to it in each of the three kinds of step.
LEMMA HistoryStep ==
    ASSUME IInv, HistoryInv, [Next]_vars
    PROVE  HistoryInv'
  <1>0. /\ pc \in [Requests -> {"idle", "ended"} \cup Answering]
        /\ messages \subseteq Message
        /\ \A m \in messages : m.request \in Requests
    BY DEF IInv, ControlTypeOK, Message
  <1>1. CASE /\ UNCHANGED <<messages, history>>
             /\ \A q \in Requests : pc[q] = "ended" => pc'[q] = "ended"
    BY <1>0, <1>1 DEF HistoryInv, HistoryIsWholeTurns
  <1>2. ASSUME NEW r \in Requests, ReadHistory(r)
        PROVE  HistoryInv'
    <2>1. /\ messages' = messages /\ pc[r] = "idle"
          /\ \A q \in Requests : q # r => pc'[q] = pc[q] /\ history'[q] = history[q]
      BY <1>0, <1>2 DEF ReadHistory, GoTo, storeVars
    <2>2. \A m \in messages : m.request # r
      BY <2>1 DEF HistoryInv
    <2>3. ASSUME NEW q \in Requests, NEW i \in DOMAIN history'[q]
          PROVE  /\ history'[q][i] \in messages
                 /\ history'[q][i].role = IF i % 2 = 1 THEN "user" ELSE "assistant"
                 /\ history'[q][i].conversation = Target[q]
      <3>1. CASE q # r
        BY <2>1, <3>1 DEF HistoryInv, HistoryIsWholeTurns
      <3>2. CASE q = r /\ history'[r] = RecentMessages(Target[r])
        <4>1. Target[r] \in Conversations /\ i \in DOMAIN RecentMessages(Target[r])
          BY <3>2
        <4> QED
          BY <3>2, <4>1, RecentAreWholeTurns DEF MessagesIn
      <3> QED
        BY <1>2, <3>1, <3>2 DEF ReadHistory, HistoryInv
    <2> QED
      BY <1>0, <1>2, <2>1, <2>2, <2>3 DEF ReadHistory, HistoryInv, HistoryIsWholeTurns
  <1>3. ASSUME NEW r \in Requests, pc[r] = "commit", Store(r)
        PROVE  HistoryInv'
    <2> DEFINE c == Target[r]
               n == MaxOrdinal(c)
    <2>1. /\ c \in Conversations /\ n \in Nat /\ base[r] = n /\ OrdinalsIn(c) = 1 .. n
          /\ written[r] = {Row(r, "user"), Row(r, "assistant")}
      BY <1>3 DEF IInv, OneWriter, RowsInOrder, Storing, TurnsAreWhole, WholeTurns
    <2>2. /\ messages' = messages \cup {Row(r, "user"), Row(r, "assistant")}
          /\ history' = history /\ pc'[r] = "ended"
          /\ \A q \in Requests : pc[q] = "ended" => pc'[q] = "ended"
      BY <1>0, <1>3, <2>1 DEF Store, GoTo
    <2>3. \A m \in messages' \ messages : m.request = r /\ m.ordinal > n
      BY <2>1, <2>2 DEF Row
    <2>4. \A i \in DOMAIN history[r] : history[r][i].ordinal \in 1 .. n
      BY <2>1 DEF HistoryInv, HistoryIsWholeTurns, OrdinalsIn, MessagesIn
    <2> HIDE DEF n
    <2>5. ASSUME NEW m \in messages' \ messages, NEW i \in DOMAIN history[r]
          PROVE  history[r][i].ordinal < m.ordinal
      <3>1. m.ordinal = n + 1 \/ m.ordinal = n + 2
        BY <2>1, <2>2 DEF Row
      <3> QED
        BY <2>1, <2>4, <3>1
    <2> QED
      BY <1>0, <2>2, <2>3, <2>5 DEF HistoryInv, HistoryIsWholeTurns
  <1> QED
    BY <1>1, <1>2, <1>3, HistoryKinds

\* What a request reads for history is whole turns that stay stored, and its own turn
\* comes after all of them, however many requests are answered at a time.
THEOREM HistoriesAreWholeTurns == Spec => []HistoryIsWholeTurns
  <1>1. Init => HistoryInv
    BY DEF Init, HistoryInv, HistoryIsWholeTurns
  <1>2. IInv /\ HistoryInv /\ [Next]_vars => HistoryInv'
    BY HistoryStep
  <1>3. HistoryInv => HistoryIsWholeTurns
    BY DEF HistoryInv
  <1> QED
    BY <1>1, <1>2, <1>3, ConversationInvariant, PTL DEF Spec

-----------------------------------------------------------------------------
(* Prompts.  What a request answers with was assembled from its history.   *)

PromptInv ==
    /\ DOMAIN prompt = Requests
    /\ \A r \in Requests : history[r] \in Seq(Message)
    /\ \A r \in Prompted : \E works \in BOOLEAN :
            prompt[r] = AssembleHistory(TurnsOf(history[r]), works)

\* A function on 1 .. n is a sequence.
LEMMA FunctionIsSequence ==
    ASSUME NEW T, NEW n \in Nat, NEW f, f = [i \in 1 .. n |-> f[i]],
           \A i \in 1 .. n : f[i] \in T
    PROVE  f \in Seq(T)
  <1>1. f \in [1 .. n -> T]
    OBVIOUS
  <1> QED
    BY <1>1

\* A window is a sequence of messages.
LEMMA RecentIsSequence ==
    ASSUME IInv, NEW c \in Conversations
    PROVE  RecentMessages(c) \in Seq(Message)
  <1> DEFINE n == MaxOrdinal(c)
             first == Larger(1, n - HistoryLimit + 1)
             size == n - first + 1
  <1>1. n \in Nat /\ HistoryLimit \in Nat
    BY ConversationAssumption DEF IInv
  <1>2. /\ DOMAIN RecentMessages(c) = 1 .. size
        /\ RecentMessages(c) = [i \in 1 .. size |-> RecentMessages(c)[i]]
    BY DEF RecentMessages
  <1>3. \A i \in 1 .. size : RecentMessages(c)[i] \in Message
    BY <1>2, RecentAreWholeTurns DEF IInv, ControlTypeOK, MessagesIn
  <1> HIDE DEF n
  <1>4. size \in Nat
    BY <1>1 DEF Larger
  <1> HIDE DEF size
  <1> QED
    BY <1>2, <1>3, <1>4, FunctionIsSequence

\* Messages become turns one by one.
LEMMA TurnsOfMessages ==
    ASSUME NEW h \in Seq(Message)
    PROVE  /\ TurnsOf(h) \in Seq([ordinal : Nat, tokens : Nat, message : Message])
           /\ DOMAIN TurnsOf(h) = DOMAIN h
           /\ \A i \in DOMAIN h : TurnsOf(h)[i].message = h[i]
  <1>1. \A i \in DOMAIN h : /\ i \in Nat /\ h[i] \in Message
                            /\ Tokens[h[i].role][h[i].request] \in Nat
    <2> SUFFICES ASSUME NEW i \in DOMAIN h
                 PROVE  i \in Nat /\ h[i] \in Message /\ Tokens[h[i].role][h[i].request] \in Nat
      OBVIOUS
    <2>1. i \in Nat /\ h[i] \in Message
      OBVIOUS
    <2>2. h[i].role \in Roles /\ h[i].request \in Requests
      BY <2>1 DEF Message
    <2>3. Tokens[h[i].role] \in [Requests -> Nat]
      BY <2>2, ConversationAssumption
    <2> QED
      BY <2>1, <2>2, <2>3
  <1>2. DOMAIN TurnsOf(h) = 1 .. Len(h) /\ Len(h) \in Nat
    BY DEF TurnsOf
  <1>3. \A i \in 1 .. Len(h) :
            /\ TurnsOf(h)[i] \in [ordinal : Nat, tokens : Nat, message : Message]
            /\ TurnsOf(h)[i].message = h[i]
    BY <1>1 DEF TurnsOf
  <1>4. TurnsOf(h) = [i \in 1 .. Len(h) |-> TurnsOf(h)[i]]
    BY DEF TurnsOf
  <1> QED
    BY <1>2, <1>3, <1>4

\* A step reads a history, assembles a prompt, or leaves both and prompts nobody.
LEMMA PromptKinds ==
    ASSUME IInv, [Next]_vars
    PROVE  \/ \E r \in Requests : ReadHistory(r) \/ AssemblePrompt(r)
           \/ UNCHANGED <<history, prompt>> /\ Prompted' \subseteq Prompted
  <1> DEFINE Neither == UNCHANGED <<history, prompt>> /\ Prompted' \subseteq Prompted
  <1> USE DEF storeVars, localVars, GoTo, Prompted, Answering, Storing
  <1>0. pc \in [Requests -> {"idle", "ended"} \cup Answering]
    BY DEF IInv, ControlTypeOK
  <1>1. CASE UNCHANGED vars \/ \E c \in Conversations : Create(c)
    BY <1>1 DEF vars, Create
  <1>2. ASSUME NEW r \in Requests,
               \/ NotFound(r) \/ HistoryError(r) \/ Retrieve(r)
               \/ Stream(r) \/ ReadOrdinal(r) \/ UpdateConversation(r) \/ SendDone(r)
        PROVE  Neither
    BY <1>0, <1>2 DEF NotFound, HistoryError, Retrieve, Stream, ReadOrdinal,
                      UpdateConversation, SendDone
  <1>3. ASSUME NEW r \in Requests, Rollback(r)
        PROVE  Neither
    BY <1>0, <1>3 DEF Rollback
  <1>4. ASSUME NEW r \in Requests, ProviderError(r) \/ DatabaseError(r) \/ Disconnect(r)
        PROVE  Neither
    BY <1>3, <1>4 DEF ProviderError, DatabaseError, Disconnect, Fail
  <1>5. ASSUME NEW r \in Requests, InsertUserMessage(r) \/ InsertAssistantMessage(r)
        PROVE  Neither
    BY <1>0, <1>3, <1>5 DEF InsertUserMessage, InsertAssistantMessage, Insert, Fail
  <1>6. ASSUME NEW r \in Requests, Commit(r) \/ CommitUnacknowledged(r)
        PROVE  Neither
    BY <1>0, <1>6 DEF Commit, CommitUnacknowledged, Store
  <1> HIDE DEF Neither
  <1>7. Neither \/ \E r \in Requests : ReadHistory(r) \/ AssemblePrompt(r)
    BY <1>1, <1>2, <1>4, <1>5, <1>6 DEF Next, Answer, Fault, Neither
  <1> QED
    BY <1>7 DEF Neither

\* Prompts keep to it in each of the three kinds of step.
LEMMA PromptStep ==
    ASSUME IInv, HistoryInv, PromptInv, [Next]_vars
    PROVE  PromptInv'
  <1> USE DEF GoTo, Prompted, Answering, Storing
  <1>0. pc \in [Requests -> {"idle", "ended"} \cup Answering] /\ DOMAIN history = Requests
    BY DEF IInv, ControlTypeOK, HistoryInv
  <1>1. ASSUME NEW r \in Requests, ReadHistory(r)
        PROVE  PromptInv'
    <2>1. /\ prompt' = prompt
          /\ r \notin Prompted' /\ history'[r] = RecentMessages(Target[r])
          /\ \A q \in Requests \ {r} : pc'[q] = pc[q] /\ history'[q] = history[q]
      BY <1>0, <1>1 DEF ReadHistory
    <2>2. history'[r] \in Seq(Message)
      BY <2>1, RecentIsSequence, ConversationAssumption
    <2> QED
      BY <2>1, <2>2 DEF PromptInv
  <1>2. ASSUME NEW r \in Requests, AssemblePrompt(r)
        PROVE  PromptInv'
    <2>1. /\ history' = history /\ DOMAIN prompt' = Requests
          /\ \E works \in BOOLEAN : prompt'[r] = AssembleHistory(TurnsOf(history[r]), works)
          /\ \A q \in Requests \ {r} : pc'[q] = pc[q] /\ prompt'[q] = prompt[q]
      BY <1>0, <1>2 DEF AssemblePrompt, PromptInv
    <2> QED
      BY <2>1 DEF PromptInv
  <1>3. CASE UNCHANGED <<history, prompt>> /\ Prompted' \subseteq Prompted
    BY <1>3 DEF PromptInv
  <1> QED
    BY <1>1, <1>2, <1>3, PromptKinds

\* What every prompt keeps to, at any time.
LEMMA PromptInvariant == Spec => []PromptInv
  <1>1. Init => PromptInv
    BY DEF Init, PromptInv, Prompted, Answering, Storing
  <1>2. Init => HistoryInv
    BY DEF Init, HistoryInv, HistoryIsWholeTurns
  <1>3. IInv /\ HistoryInv /\ PromptInv /\ [Next]_vars => HistoryInv' /\ PromptInv'
    BY HistoryStep, PromptStep
  <1> QED
    BY <1>1, <1>2, <1>3, ConversationInvariant, PTL DEF Spec

\* A message that a request read is in its prompt or in the summary there, unless the
\* summarizing call failed: for any costs of messages and any budget.
THEOREM PromptsCoverHistories == Spec => []PromptCoversHistory
  <1>1. PromptInv => PromptCoversHistory
    <2> SUFFICES ASSUME PromptInv, NEW r \in Prompted, prompt[r].summary # {},
                        NEW i \in DOMAIN history[r]
                 PROVE  history[r][i] \in Verbatims(r) \cup Summarized(r)
      BY DEF PromptCoversHistory
    <2>1. PICK works \in BOOLEAN : prompt[r] = AssembleHistory(TurnsOf(history[r]), works)
      BY DEF PromptInv
    <2>2. /\ TurnsOf(history[r]) \in Seq([ordinal : Nat, tokens : Nat, message : Message])
          /\ i \in DOMAIN TurnsOf(history[r])
          /\ TurnsOf(history[r])[i].message = history[r][i]
      BY TurnsOfMessages DEF PromptInv, Prompted
    <2> QED
      BY <2>1, <2>2, AssembledCovers DEF Verbatims, Summarized
  <1> QED
    BY <1>1, PromptInvariant, PTL

\* The history in a prompt keeps to the budget: for any costs of messages, any budget,
\* any reserve and any number of turns that are kept whatever they cost.
THEOREM PromptsFitBudgets == Spec => []PromptFitsBudget
  <1>1. PromptInv => PromptFitsBudget
    <2> SUFFICES ASSUME PromptInv
                 PROVE  PromptFitsBudget
      OBVIOUS
    <2>1. ASSUME NEW r \in Prompted
          PROVE  \E works \in BOOLEAN :
                     /\ TurnsOf(history[r]) \in Seq([ordinal : Nat, tokens : Nat, message : Message])
                     /\ prompt[r] = AssembleHistory(TurnsOf(history[r]), works)
      BY TurnsOfMessages DEF PromptInv, Prompted
    <2> QED
      BY <2>1, AssembledFits DEF PromptFitsBudget
  <1> QED
    BY <1>1, PromptInvariant, PTL
==============================================================================
