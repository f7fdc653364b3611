---------------------------- MODULE AccessProofs ----------------------------
(***************************************************************************)
(* Proofs about Access, for any number of users, requests, connections and *)
(* chunks, any tags and any lifetime of the cache.                         *)
(*                                                                         *)
(* Two arguments.  A connection is held exactly at the steps that need it, *)
(* by one request, and what a transaction sets goes when it is given back; *)
(* so a tenant step always finds the tenant of its own caller.  And every  *)
(* row that is read, cached or served is, from its reading on, the row of  *)
(* its user or one the user gave up later: the time it was given up at     *)
(* bounds the age of what a request goes by.                               *)
(***************************************************************************)
EXTENDS Access, TLAPS

USE AccessAssumption

-----------------------------------------------------------------------------
(* The steps, one invariant at a time. *)

\* A search that the gate lets through finds some of the candidates.
Retrieve(r) ==
    /\ pc[r] = "search" /\ ~ broken[held[r]]
    /\ \E top \in SUBSET Candidates(r) :
        /\ retrieved' = [retrieved EXCEPT ![r] = top]
        /\ \/ Answered(r, "refused")
           \/ top # {} /\ Answered(r, "answered")
    /\ GoTo(r, "answer")
    /\ UNCHANGED <<tenantVars, clock, cache, setting, broken, held, route, found, scope,
                   created>>

LEMMA SearchCases ==
    ASSUME NEW r \in Requests, Search(r)
    PROVE  Fail(r, "error") \/ Retrieve(r)
  BY DEF Search, Retrieve, Found, Reranked

\* Records of the right shape.
LEMMA ServedType ==
    ASSUME TypeOK, NEW entry \in FilledRow
    PROVE  Served(entry) \in ServedRow
  BY DEF TypeOK, Served, FilledRow, ServedRow

LEMMA EntryType ==
    ASSUME TypeOK, NEW r \in Requests, found[r] # None
    PROVE  Entry(r) \in FilledRow
  BY DEF TypeOK, Entry, Row, FilledRow

\* A request that ends keeps the types.
LEMMA EndType ==
    ASSUME TypeOK, NEW r \in Requests, End(r)
    PROVE  /\ pc' \in [Requests -> {"idle", "ended"} \cup Waiting \cup Holding]
           /\ route' \in [Requests -> RouteNames \cup {None}]
           /\ found' \in [Requests -> Row \cup {None}]
           /\ scope' \in [Requests -> ServedRow \cup {None}]
           /\ created' \in [Requests -> Conversations \cup {None}]
           /\ retrieved' \in [Requests -> SUBSET Chunks]
  BY DEF TypeOK, End, GoTo

\* A request that gives its connection back leaves the pool clean.
LEMMA ReturnKeepsPoolClean ==
    ASSUME TypeOK, PoolIsClean, NEW r \in Requests, ReturnConnection(r),
           NEW label \in {"begin", "stream", "ended"}, GoTo(r, label)
    PROVE  PoolIsClean'
  <1> USE DEF TypeOK, GoTo, ReturnConnection, Holding, LookupSteps, TenantSteps
  <1>1. /\ \A q \in Requests : q # r => held'[q] = held[q] /\ pc'[q] = pc[q]
        /\ held'[r] = None /\ pc'[r] = label
    OBVIOUS
  <1>2. \A q \in Requests : q # r /\ held[q] # None =>
            /\ held[q] \in Connections
            /\ setting'[held[q]] = setting[held[q]] /\ broken'[held[q]] = broken[held[q]]
    <2> SUFFICES ASSUME NEW q \in Requests, q # r, held[q] # None
                 PROVE  /\ held[q] \in Connections
                        /\ setting'[held[q]] = setting[held[q]]
                        /\ broken'[held[q]] = broken[held[q]]
      OBVIOUS
    <2>1. held[q] \in Connections /\ held[q] # held[r]
      BY DEF PoolIsClean, ConnectionsAreOwned
    <2> QED
      BY <2>1
  <1>3. ConnectionsAreOwned'
    BY <1>1 DEF PoolIsClean, ConnectionsAreOwned
  <1>4. ASSUME NEW c \in Connections, Free(c)'
        PROVE  setting'[c] = None /\ ~ broken'[c]
    <2>1. CASE c = held[r]
      BY <2>1
    <2>2. CASE c # held[r]
      <3>1. Free(c)
        BY <1>1, <1>4, <2>2 DEF Free
      <3> QED
        BY <2>2, <3>1 DEF PoolIsClean
    <2> QED
      BY <2>1, <2>2
  <1>5. ASSUME NEW q \in Requests, pc'[q] \in Holding
        PROVE  /\ q # r /\ held[q] # None
               /\ pc'[q] \in TenantSteps => setting'[held'[q]] = Org(q)
               /\ pc'[q] \in LookupSteps => setting'[held'[q]] = None /\ ~ broken'[held'[q]]
    <2>1. q # r /\ held[q] # None
      BY <1>1, <1>5 DEF PoolIsClean, ConnectionsAreOwned
    <2> QED
      BY <1>1, <1>2, <2>1 DEF PoolIsClean
  <1> QED
    BY <1>3, <1>4, <1>5 DEF PoolIsClean, Org

\* The values stay within their ranges.
LEMMA TypeStep ==
    ASSUME TypeOK, PoolIsClean, Next
    PROVE  TypeOK'
  <1>1. ASSUME NEW r \in Requests, NEW c \in Connections, Lookup(r, c)
        PROVE  TypeOK'
    <2>1. cache[Caller[r]] # None => Served(cache[Caller[r]]) \in ServedRow
      BY ServedType DEF TypeOK
    <2>2. scope' \in [Requests -> ServedRow \cup {None}]
      BY <1>1, <2>1 DEF Lookup, Cached, TypeOK
    <2>3. pc' \in [Requests -> {"idle", "ended"} \cup Waiting \cup Holding]
      BY <1>1 DEF Lookup, GoTo, TypeOK, Holding, LookupSteps
    <2> QED
      BY <1>1, <2>2, <2>3 DEF Lookup, TakeConnection, tenantVars, TypeOK
  <1>2. ASSUME NEW r \in Requests, NEW c \in Connections, LookupExpires(r, c)
        PROVE  TypeOK'
    BY <1>2 DEF LookupExpires, TakeConnection, Cached, Answered, TypeOK, Outcomes,
       Waiting, Holding, LookupSteps, TenantSteps, GoTo, tenantVars, requestVars
  <1>3. ASSUME NEW r \in Requests, NEW c \in Connections, Begin(r, c)
        PROVE  TypeOK'
    BY <1>3 DEF Begin, TakeConnection, Orgs, Org, TypeOK, Outcomes, Waiting, Holding,
       LookupSteps, TenantSteps, GoTo, tenantVars, requestVars
  <1>4. ASSUME NEW r \in Requests, Arrive(r)
        PROVE  TypeOK'
    <2>1. HeaderScope(r) \in ServedRow
      BY DEF HeaderScope, ServedRow
    <2>2. CASE Answered(r, "unauthenticated") /\ End(r)
      BY <1>4, <2>2, EndType DEF Arrive, Answered, TypeOK, tenantVars, Outcomes
    <2>3. CASE ~ (Answered(r, "unauthenticated") /\ End(r))
      <3>1. route' \in [Requests -> RouteNames \cup {None}]
        <4>1. PICK name \in Routes[r] : route' = [route EXCEPT ![r] = name]
          BY <1>4, <2>3 DEF Arrive
        <4>2. name \in RouteNames
          BY AccessAssumption
        <4> QED
          BY <4>1, <4>2 DEF TypeOK
      <3>2. CASE Credential[r] = "bearer"
        BY <1>4, <2>3, <3>1, <3>2 DEF Arrive, GoTo, TypeOK, tenantVars, Waiting
      <3>3. CASE Credential[r] # "bearer"
        <4>1. scope' \in [Requests -> ServedRow \cup {None}]
          BY <1>4, <2>1, <2>3, <3>3 DEF Arrive, TypeOK
        <4> QED
          BY <1>4, <2>3, <3>1, <3>3, <4>1 DEF Arrive, GoTo, TypeOK, tenantVars, Waiting
      <3> QED
        BY <3>2, <3>3
    <2> QED
      BY <2>2, <2>3
  <1>5. ASSUME NEW r \in Requests, Query(r)
        PROVE  TypeOK'
    BY <1>5 DEF Query, Row, TypeOK, Outcomes, Waiting, Holding, LookupSteps,
       TenantSteps, GoTo, tenantVars
  <1>6. ASSUME NEW r \in Requests, Fill(r)
        PROVE  TypeOK'
    <2>1. CASE found[r] = None
      BY <1>6, <2>1 DEF Fill, Answered, GoTo, TypeOK, tenantVars, Outcomes, Holding, LookupSteps
    <2>2. CASE found[r] # None
      <3>1. Entry(r) \in FilledRow /\ Served(Entry(r)) \in ServedRow
        BY <2>2, EntryType, ServedType
      <3>2. /\ cache' \in [Users -> FilledRow \cup {None}]
            /\ scope' \in [Requests -> ServedRow \cup {None}]
        <4>1. /\ cache' = [cache EXCEPT ![Caller[r]] = Entry(r)]
              /\ scope' = [scope EXCEPT ![r] = Served(Entry(r))]
          BY <1>6, <2>2 DEF Fill
        <4> QED
          BY <3>1, <4>1 DEF TypeOK
      <3> QED
        BY <1>6, <2>2, <3>2 DEF Fill, GoTo, TypeOK, tenantVars, Holding, LookupSteps
    <2> QED
      BY <2>1, <2>2
  <1>7. ASSUME NEW r \in Requests, Leave(r)
        PROVE  TypeOK'
    <2>1. CASE scope[r] = None
      BY <1>7, <2>1, EndType DEF Leave, ReturnConnection, TypeOK, tenantVars
    <2>2. CASE scope[r] # None
      BY <1>7, <2>2 DEF Leave, ReturnConnection, GoTo, TypeOK, tenantVars, requestVars, Waiting
    <2> QED
      BY <2>1, <2>2
  <1>8. ASSUME NEW r \in Requests, CreateConversation(r)
        PROVE  TypeOK'
    BY <1>8 DEF CreateConversation, Work, TypeOK, Outcomes, Waiting, Holding,
       LookupSteps, TenantSteps, GoTo, tenantVars
  <1>9. ASSUME NEW r \in Requests, ListConversations(r)
        PROVE  TypeOK'
    BY <1>9 DEF ListConversations, Work, TypeOK, Outcomes, Waiting, Holding,
       LookupSteps, TenantSteps, GoTo, tenantVars
  <1>10. ASSUME NEW r \in Requests, GetConversation(r)
        PROVE  TypeOK'
    BY <1>10 DEF GetConversation, OpenConversation, Work, TypeOK, Outcomes, Waiting,
       Holding, LookupSteps, TenantSteps, GoTo, tenantVars
  <1>11. ASSUME NEW r \in Requests, CheckConversation(r)
        PROVE  TypeOK'
    BY <1>11 DEF CheckConversation, OpenConversation, Work, TypeOK, Outcomes, Waiting,
       Holding, LookupSteps, TenantSteps, GoTo, tenantVars
  <1>12. ASSUME NEW r \in Requests, NotFound(r)
        PROVE  TypeOK'
    BY <1>12 DEF NotFound, Fail, ReturnConnection, End, Answered, TypeOK, Outcomes,
       Waiting, Holding, LookupSteps, TenantSteps, GoTo, tenantVars
  <1>13. ASSUME NEW r \in Requests, Commit(r)
        PROVE  TypeOK'
    <2>1. owner' \in [Conversations -> Ownership \cup {None}]
      BY <1>13 DEF Commit, Org, Orgs, Ownership, TypeOK
    <2>2. CASE route[r] = "send"
      BY <1>13, <2>1, <2>2, ZenonT(30)
         DEF Commit, ReturnConnection, GoTo, TypeOK, requestVars, Waiting
    <2>3. CASE route[r] # "send"
      BY <1>13, <2>1, <2>3, EndType, ZenonT(30)
         DEF Commit, ReturnConnection, Answered, TypeOK, Outcomes
    <2> QED
      BY <2>2, <2>3
  <1>14. ASSUME NEW r \in Requests, Configure(r)
        PROVE  TypeOK'
    <2>1. broken' \in [Connections -> BOOLEAN]
      BY <1>14 DEF Configure, TypeOK
    <2> QED
      BY <1>14, <2>1 DEF Configure, GoTo, tenantVars, requestVars, TypeOK, Holding, TenantSteps
  <1>15. ASSUME NEW r \in Requests, Search(r)
        PROVE  TypeOK'
    <2>1. CASE Fail(r, "error")
      BY <2>1 DEF Fail, ReturnConnection, End, Answered, TypeOK, Outcomes, Waiting,
         Holding, LookupSteps, TenantSteps, GoTo, tenantVars
    <2>2. CASE Retrieve(r)
      <3>1. retrieved' \in [Requests -> SUBSET Chunks]
        BY <2>2 DEF Retrieve, Candidates, TypeOK
      <3>2. status' \in [Requests -> Outcomes \cup {None}]
        BY <2>2 DEF Retrieve, Answered, Outcomes, TypeOK
      <3> QED
        BY <2>2, <3>1, <3>2 DEF Retrieve, GoTo, tenantVars, Holding, TenantSteps, TypeOK
    <2> QED
      BY <1>15, <2>1, <2>2, SearchCases
  <1>16. ASSUME NEW r \in Requests, SearchFails(r)
        PROVE  TypeOK'
    BY <1>16 DEF SearchFails, Fail, ReturnConnection, End, Answered, TypeOK, Outcomes,
       Waiting, Holding, LookupSteps, TenantSteps, GoTo, tenantVars
  <1>17. ASSUME NEW r \in Requests, Finish(r)
        PROVE  TypeOK'
    BY <1>17 DEF Finish, ReturnConnection, End, TypeOK, Outcomes, Waiting, Holding,
       LookupSteps, TenantSteps, GoTo, tenantVars
  <1>18. ASSUME NEW r \in Requests, DatabaseError(r)
        PROVE  TypeOK'
    BY <1>18 DEF DatabaseError, Fail, ReturnConnection, End, Answered, TypeOK, Outcomes,
       Waiting, Holding, LookupSteps, TenantSteps, GoTo, tenantVars
  <1>19. ASSUME NEW r \in Requests, PoolTimeout(r)
        PROVE  TypeOK'
    BY <1>19 DEF PoolTimeout, Fail, ReturnConnection, End, Answered, TypeOK, Outcomes,
       Waiting, Holding, LookupSteps, TenantSteps, GoTo, tenantVars
  <1>20. ASSUME NEW r \in Requests, Disconnect(r)
        PROVE  TypeOK'
    BY <1>20 DEF Disconnect, Fail, ReturnConnection, End, Answered, TypeOK, Outcomes,
       Waiting, Holding, LookupSteps, TenantSteps, GoTo, tenantVars
  <1>21. ASSUME NEW u \in Users, NEW by \in {"subject", "user", "all"}, Invalidate(u, by)
        PROVE  TypeOK'
    <2>1. cache' \in [Users -> FilledRow \cup {None}]
      BY <1>21, ZenonT(30) DEF Invalidate, Evict, TypeOK
    <2>2. evicted' \in [Users -> Nat]
      BY <1>21 DEF Invalidate, TypeOK
    <2> QED
      BY <1>21, <2>1, <2>2 DEF Invalidate, TypeOK
  <1>22. ASSUME NEW u \in Users, ChangeGrant(u)
        PROVE  TypeOK'
    BY <1>22 DEF ChangeGrant, PastRow, TypeOK, Outcomes, Waiting, Holding, LookupSteps,
       TenantSteps, requestVars
  <1>23. ASSUME Tick
        PROVE  TypeOK'
    BY <1>23 DEF Tick, TypeOK, Outcomes, Waiting, Holding, LookupSteps, TenantSteps,
       tenantVars, requestVars
  <1> QED
    BY <1>1, <1>2, <1>3, <1>4, <1>5, <1>6, <1>7, <1>8, <1>9, <1>10, <1>11, <1>12, <1>13,
       <1>14, <1>15, <1>16, <1>17, <1>18, <1>19, <1>20, <1>21, <1>22, <1>23
       DEF Next, Serve, Fault

\* Nor does one that takes a connection for a lookup.
LEMMA TakeKeepsPoolClean ==
    ASSUME TypeOK, PoolIsClean, NEW r \in Requests, NEW c \in Connections,
           pc[r] = "auth", TakeConnection(r, c), UNCHANGED <<setting, broken>>,
           NEW label \in {"query", "leave"}, GoTo(r, label)
    PROVE  PoolIsClean'
  <1> USE DEF TypeOK, GoTo, Holding, LookupSteps, TenantSteps
  <1>1. /\ \A q \in Requests : q # r => held'[q] = held[q] /\ pc'[q] = pc[q]
        /\ held'[r] = c /\ pc'[r] = label
        /\ \A q \in Requests : held[q] # c
        /\ setting[c] = None /\ ~ broken[c]
        /\ c # None /\ held[r] = None
        /\ label \in Holding /\ label \notin TenantSteps
    BY ZenonT(30) DEF TakeConnection, PoolIsClean, ConnectionsAreOwned, Free
  <1> HIDE DEF TypeOK, GoTo, Holding, LookupSteps, TenantSteps
  <1>2. ConnectionsAreOwned'
    <2>1. \A q \in Requests : held'[q] # None <=> pc'[q] \in Holding
      <3> SUFFICES ASSUME NEW q \in Requests
                   PROVE  held'[q] # None <=> pc'[q] \in Holding
        OBVIOUS
      <3>1. CASE q = r
        BY <1>1, <3>1
      <3>2. CASE q # r
        BY <1>1, <3>2 DEF PoolIsClean, ConnectionsAreOwned
      <3> QED
        BY <3>1, <3>2
    <2>2. \A q, p \in Requests : held'[q] = held'[p] /\ held'[q] # None => q = p
      BY <1>1 DEF PoolIsClean, ConnectionsAreOwned
    <2> QED
      BY <2>1, <2>2 DEF ConnectionsAreOwned
  <1>3. ASSUME NEW d \in Connections, Free(d)'
        PROVE  setting'[d] = None /\ ~ broken'[d]
    <2>2. Free(d)
      <3>1. d # None
        OBVIOUS
      <3> QED
        BY <1>1, <1>3, <3>1 DEF Free
    <2> QED
      BY <2>2 DEF PoolIsClean
  <1>4. ASSUME NEW q \in Requests
        PROVE  /\ pc'[q] \in TenantSteps => setting'[held'[q]] = Org(q)
               /\ pc'[q] \in LookupSteps => setting'[held'[q]] = None /\ ~ broken'[held'[q]]
    <2>1. CASE q = r
      BY <1>1, <2>1
    <2>2. CASE q # r
      BY <1>1, <2>2 DEF PoolIsClean
    <2> QED
      BY <2>1, <2>2
  <1> QED
    BY <1>2, <1>3, <1>4 DEF PoolIsClean, Org

\* Nor does any other step.
LEMMA PoolStep ==
    ASSUME TypeOK, PoolIsClean, Next
    PROVE  PoolIsClean'
  <1>1. ASSUME NEW r \in Requests, NEW c \in Connections, Lookup(r, c)
        PROVE  PoolIsClean'
    <2>1. GoTo(r, "leave") \/ GoTo(r, "query")
      BY <1>1 DEF Lookup
    <2> QED
      BY <1>1, <2>1, TakeKeepsPoolClean DEF Lookup
  <1>2. ASSUME NEW r \in Requests, NEW c \in Connections, LookupExpires(r, c)
        PROVE  PoolIsClean'
    BY <1>2, TakeKeepsPoolClean DEF LookupExpires
  <1>3. ASSUME NEW r \in Requests, NEW c \in Connections, Begin(r, c)
        PROVE  PoolIsClean'
    <2>1. PICK label \in {"work", "retrieve"} : GoTo(r, label)
      BY <1>3 DEF Begin
    <2>2. /\ \A q \in Requests : q # r => held'[q] = held[q] /\ pc'[q] = pc[q]
          /\ held'[r] = c /\ pc'[r] \in TenantSteps /\ pc'[r] \notin LookupSteps
          /\ setting' = [setting EXCEPT ![c] = Org(r)] /\ broken' = broken
          /\ Free(c) /\ c # None
      BY <1>3, <2>1 DEF Begin, TakeConnection, GoTo, TypeOK, TenantSteps, LookupSteps
    <2>3. held[r] = None
      BY <1>3 DEF Begin, PoolIsClean, ConnectionsAreOwned, Holding, LookupSteps, TenantSteps
    <2>4. ConnectionsAreOwned'
      BY <2>2 DEF PoolIsClean, ConnectionsAreOwned, Free, Holding
    <2>5. ASSUME NEW d \in Connections, Free(d)'
          PROVE  setting'[d] = None /\ ~ broken'[d]
      <3>1. d # None /\ d # c
        BY <2>2, <2>5 DEF Free
      <3>2. Free(d)
        BY <2>2, <2>3, <2>5, <3>1 DEF Free
      <3> QED
        BY <2>2, <3>1, <3>2 DEF PoolIsClean, TypeOK
    <2>6. ASSUME NEW q \in Requests
          PROVE  /\ pc'[q] \in TenantSteps => setting'[held'[q]] = Org(q)
                 /\ pc'[q] \in LookupSteps =>
                        setting'[held'[q]] = None /\ ~ broken'[held'[q]]
      <3>1. CASE q = r
        BY <2>2, <3>1 DEF TypeOK
      <3>2. CASE q # r
        <4>1. pc[q] \in Holding => held[q] # c /\ held[q] \in Connections
          BY <2>2 DEF PoolIsClean, ConnectionsAreOwned, Free, TypeOK
        <4> QED
          BY <2>2, <3>2, <4>1 DEF PoolIsClean, Holding, TypeOK
      <3> QED
        BY <3>1, <3>2
    <2> QED
      BY <2>4, <2>5, <2>6 DEF PoolIsClean, Org
  <1>4. ASSUME NEW r \in Requests, Arrive(r)
        PROVE  PoolIsClean'
    <2>1. \E label \in {"auth", "begin", "ended"} : GoTo(r, label)
      BY <1>4 DEF Arrive, End
    <2>2. pc[r] = "idle" /\ UNCHANGED <<setting, broken, held>>
      BY <1>4 DEF Arrive
    <2> QED
      BY <2>1, <2>2 DEF TypeOK, PoolIsClean, ConnectionsAreOwned, GoTo, Holding, LookupSteps,
         TenantSteps, Org, Free
  <1>5. ASSUME NEW r \in Requests, Query(r)
        PROVE  PoolIsClean'
    BY <1>5 DEF Query, TypeOK, PoolIsClean, ConnectionsAreOwned, Holding, LookupSteps,
       TenantSteps, Org, Free, GoTo, tenantVars
  <1>6. ASSUME NEW r \in Requests, Fill(r)
        PROVE  PoolIsClean'
    BY <1>6 DEF Fill, Entry, Served, Answered, TypeOK, PoolIsClean, ConnectionsAreOwned,
       Holding, LookupSteps, TenantSteps, Org, Free, GoTo, tenantVars
  <1>7. ASSUME NEW r \in Requests, Leave(r)
        PROVE  PoolIsClean'
    <2>1. GoTo(r, "ended") \/ GoTo(r, "begin")
      BY <1>7 DEF Leave, End
    <2> QED
      BY <1>7, <2>1, ReturnKeepsPoolClean DEF Leave
  <1>8. ASSUME NEW r \in Requests, CreateConversation(r)
        PROVE  PoolIsClean'
    BY <1>8 DEF CreateConversation, Work, TypeOK, PoolIsClean, ConnectionsAreOwned,
       Holding, LookupSteps, TenantSteps, Org, Free, GoTo, tenantVars
  <1>9. ASSUME NEW r \in Requests, ListConversations(r)
        PROVE  PoolIsClean'
    BY <1>9 DEF ListConversations, Work, TypeOK, PoolIsClean, ConnectionsAreOwned,
       Holding, LookupSteps, TenantSteps, Org, Free, GoTo, tenantVars
  <1>10. ASSUME NEW r \in Requests, GetConversation(r)
        PROVE  PoolIsClean'
    BY <1>10 DEF GetConversation, OpenConversation, Work, TypeOK, PoolIsClean,
       ConnectionsAreOwned, Holding, LookupSteps, TenantSteps, Org, Free, GoTo,
       tenantVars
  <1>11. ASSUME NEW r \in Requests, CheckConversation(r)
        PROVE  PoolIsClean'
    BY <1>11 DEF CheckConversation, OpenConversation, Work, TypeOK, PoolIsClean,
       ConnectionsAreOwned, Holding, LookupSteps, TenantSteps, Org, Free, GoTo,
       tenantVars
  <1>12. ASSUME NEW r \in Requests, NotFound(r)
        PROVE  PoolIsClean'
    BY <1>12, ReturnKeepsPoolClean DEF NotFound, Fail, End
  <1>13. ASSUME NEW r \in Requests, Commit(r)
        PROVE  PoolIsClean'
    <2>1. GoTo(r, "ended") \/ GoTo(r, "stream")
      BY <1>13 DEF Commit, End
    <2> QED
      BY <1>13, <2>1, ReturnKeepsPoolClean DEF Commit
  <1>14. ASSUME NEW r \in Requests, Configure(r)
        PROVE  PoolIsClean'
    BY <1>14 DEF Configure, TypeOK, PoolIsClean, ConnectionsAreOwned, Holding,
       LookupSteps, TenantSteps, Org, Free, GoTo, tenantVars, requestVars
  <1>15. ASSUME NEW r \in Requests, Search(r)
        PROVE  PoolIsClean'
    <2>1. CASE Fail(r, "error")
      BY <2>1, ReturnKeepsPoolClean DEF Fail, End
    <2>2. CASE Retrieve(r)
      BY <2>2 DEF Retrieve, Answered, TypeOK, PoolIsClean, ConnectionsAreOwned,
         Holding, LookupSteps, TenantSteps, Org, Free, GoTo, tenantVars
    <2> QED
      BY <1>15, <2>1, <2>2, SearchCases
  <1>16. ASSUME NEW r \in Requests, SearchFails(r)
        PROVE  PoolIsClean'
    BY <1>16, ReturnKeepsPoolClean DEF SearchFails, Fail, End
  <1>17. ASSUME NEW r \in Requests, Finish(r)
        PROVE  PoolIsClean'
    BY <1>17, ReturnKeepsPoolClean DEF Finish, Fail, End
  <1>18. ASSUME NEW r \in Requests, DatabaseError(r)
        PROVE  PoolIsClean'
    BY <1>18, ReturnKeepsPoolClean DEF DatabaseError, Fail, End
  <1>19. ASSUME NEW r \in Requests, PoolTimeout(r)
        PROVE  PoolIsClean'
    BY <1>19, ReturnKeepsPoolClean DEF PoolTimeout, Fail, End
  <1>20. ASSUME NEW r \in Requests, Disconnect(r)
        PROVE  PoolIsClean'
    BY <1>20, ReturnKeepsPoolClean DEF Disconnect, Fail, End
  <1>21. ASSUME NEW u \in Users, NEW by \in {"subject", "user", "all"}, Invalidate(u, by)
        PROVE  PoolIsClean'
    BY <1>21 DEF Invalidate, Evict, TypeOK, PoolIsClean, ConnectionsAreOwned, Holding,
       LookupSteps, TenantSteps, Org, Free
  <1>22. ASSUME NEW u \in Users, ChangeGrant(u)
        PROVE  PoolIsClean'
    BY <1>22 DEF ChangeGrant, TypeOK, PoolIsClean, ConnectionsAreOwned, Holding,
       LookupSteps, TenantSteps, Org, Free, requestVars
  <1>23. ASSUME Tick
        PROVE  PoolIsClean'
    BY <1>23 DEF Tick, TypeOK, PoolIsClean, ConnectionsAreOwned, Holding, LookupSteps,
       TenantSteps, Org, Free, tenantVars, requestVars
  <1> QED
    BY <1>1, <1>2, <1>3, <1>4, <1>5, <1>6, <1>7, <1>8, <1>9, <1>10, <1>11, <1>12, <1>13,
       <1>14, <1>15, <1>16, <1>17, <1>18, <1>19, <1>20, <1>21, <1>22, <1>23
       DEF Next, Serve, Fault

\* A request goes on to its route with a scope only.
LEMMA ScopeKnownStep ==
    ASSUME TypeOK, ScopeIsKnown, Next
    PROVE  ScopeIsKnown'
  <1>1. ASSUME NEW r \in Requests, NEW c \in Connections, Lookup(r, c)
        PROVE  ScopeIsKnown'
    <2>1. \A q \in Requests : q # r => pc'[q] = pc[q] /\ scope'[q] = scope[q]
      BY <1>1 DEF Lookup, GoTo, TypeOK
    <2>2. pc'[r] \in LookupSteps
      BY <1>1 DEF Lookup, GoTo, TypeOK, LookupSteps
    <2> QED
      BY <2>1, <2>2 DEF ScopeIsKnown, TenantSteps, LookupSteps
  <1>2. ASSUME NEW r \in Requests, NEW c \in Connections, LookupExpires(r, c)
        PROVE  ScopeIsKnown'
    BY <1>2 DEF LookupExpires, TakeConnection, Cached, Answered, TypeOK, ScopeIsKnown,
       Holding, LookupSteps, TenantSteps, Waiting, GoTo, tenantVars, requestVars
  <1>3. ASSUME NEW r \in Requests, NEW c \in Connections, Begin(r, c)
        PROVE  ScopeIsKnown'
    BY <1>3 DEF Begin, TakeConnection, TypeOK, ScopeIsKnown, Holding, LookupSteps,
       TenantSteps, Waiting, GoTo, tenantVars, requestVars
  <1>4. ASSUME NEW r \in Requests, Arrive(r)
        PROVE  ScopeIsKnown'
    <2>1. \A q \in Requests : q # r => pc'[q] = pc[q] /\ scope'[q] = scope[q]
      BY <1>4 DEF Arrive, End, GoTo, TypeOK
    <2>2. pc'[r] \in {"auth", "ended"} \/ scope'[r] = HeaderScope(r)
      BY <1>4 DEF Arrive, End, GoTo, TypeOK
    <2>3. HeaderScope(r) # None
      <3>1. HeaderScope(r) \in ServedRow
        BY DEF HeaderScope, ServedRow
      <3> QED
        BY <3>1
    <2> QED
      BY <2>1, <2>2, <2>3 DEF ScopeIsKnown, TenantSteps
  <1>5. ASSUME NEW r \in Requests, Query(r)
        PROVE  ScopeIsKnown'
    BY <1>5 DEF Query, TypeOK, ScopeIsKnown, Holding, LookupSteps, TenantSteps, Waiting,
       GoTo, tenantVars
  <1>6. ASSUME NEW r \in Requests, Fill(r)
        PROVE  ScopeIsKnown'
    BY <1>6 DEF Fill, Entry, Served, Answered, TypeOK, ScopeIsKnown, Holding,
       LookupSteps, TenantSteps, Waiting, GoTo, tenantVars
  <1>7. ASSUME NEW r \in Requests, Leave(r)
        PROVE  ScopeIsKnown'
    BY <1>7 DEF Leave, ReturnConnection, End, TypeOK, ScopeIsKnown, Holding,
       LookupSteps, TenantSteps, Waiting, GoTo, tenantVars, requestVars
  <1>8. ASSUME NEW r \in Requests, CreateConversation(r)
        PROVE  ScopeIsKnown'
    BY <1>8 DEF CreateConversation, Work, TypeOK, ScopeIsKnown, Holding, LookupSteps,
       TenantSteps, Waiting, GoTo, tenantVars
  <1>9. ASSUME NEW r \in Requests, ListConversations(r)
        PROVE  ScopeIsKnown'
    BY <1>9 DEF ListConversations, Work, TypeOK, ScopeIsKnown, Holding, LookupSteps,
       TenantSteps, Waiting, GoTo, tenantVars
  <1>10. ASSUME NEW r \in Requests, GetConversation(r)
        PROVE  ScopeIsKnown'
    BY <1>10 DEF GetConversation, OpenConversation, Work, TypeOK, ScopeIsKnown, Holding,
       LookupSteps, TenantSteps, Waiting, GoTo, tenantVars
  <1>11. ASSUME NEW r \in Requests, CheckConversation(r)
        PROVE  ScopeIsKnown'
    BY <1>11 DEF CheckConversation, OpenConversation, Work, TypeOK, ScopeIsKnown,
       Holding, LookupSteps, TenantSteps, Waiting, GoTo, tenantVars
  <1>12. ASSUME NEW r \in Requests, NotFound(r)
        PROVE  ScopeIsKnown'
    BY <1>12 DEF NotFound, Fail, ReturnConnection, End, Answered, TypeOK, ScopeIsKnown,
       Holding, LookupSteps, TenantSteps, Waiting, GoTo, tenantVars
  <1>13. ASSUME NEW r \in Requests, Commit(r)
        PROVE  ScopeIsKnown'
    BY <1>13 DEF Commit, ReturnConnection, End, Answered, TypeOK, ScopeIsKnown, Holding,
       LookupSteps, TenantSteps, Waiting, GoTo, requestVars
  <1>14. ASSUME NEW r \in Requests, Configure(r)
        PROVE  ScopeIsKnown'
    BY <1>14 DEF Configure, TypeOK, ScopeIsKnown, Holding, LookupSteps, TenantSteps,
       Waiting, GoTo, tenantVars, requestVars
  <1>15. ASSUME NEW r \in Requests, Search(r)
        PROVE  ScopeIsKnown'
    <2>1. CASE Fail(r, "error")
      BY <2>1 DEF Fail, ReturnConnection, End, Answered, TypeOK, ScopeIsKnown,
         Holding, LookupSteps, TenantSteps, Waiting, GoTo, tenantVars
    <2>2. CASE Retrieve(r)
      BY <2>2 DEF Retrieve, Answered, TypeOK, ScopeIsKnown, Holding, LookupSteps,
         TenantSteps, Waiting, GoTo, tenantVars
    <2> QED
      BY <1>15, <2>1, <2>2, SearchCases
  <1>16. ASSUME NEW r \in Requests, SearchFails(r)
        PROVE  ScopeIsKnown'
    BY <1>16 DEF SearchFails, Fail, ReturnConnection, End, Answered, TypeOK,
       ScopeIsKnown, Holding, LookupSteps, TenantSteps, Waiting, GoTo, tenantVars
  <1>17. ASSUME NEW r \in Requests, Finish(r)
        PROVE  ScopeIsKnown'
    BY <1>17 DEF Finish, ReturnConnection, End, TypeOK, ScopeIsKnown, Holding,
       LookupSteps, TenantSteps, Waiting, GoTo, tenantVars
  <1>18. ASSUME NEW r \in Requests, DatabaseError(r)
        PROVE  ScopeIsKnown'
    BY <1>18 DEF DatabaseError, Fail, ReturnConnection, End, Answered, TypeOK,
       ScopeIsKnown, Holding, LookupSteps, TenantSteps, Waiting, GoTo, tenantVars
  <1>19. ASSUME NEW r \in Requests, PoolTimeout(r)
        PROVE  ScopeIsKnown'
    BY <1>19 DEF PoolTimeout, Fail, ReturnConnection, End, Answered, TypeOK,
       ScopeIsKnown, Holding, LookupSteps, TenantSteps, Waiting, GoTo, tenantVars
  <1>20. ASSUME NEW r \in Requests, Disconnect(r)
        PROVE  ScopeIsKnown'
    BY <1>20 DEF Disconnect, Fail, ReturnConnection, End, Answered, TypeOK,
       ScopeIsKnown, Holding, LookupSteps, TenantSteps, Waiting, GoTo, tenantVars
  <1>21. ASSUME NEW u \in Users, NEW by \in {"subject", "user", "all"}, Invalidate(u, by)
        PROVE  ScopeIsKnown'
    BY <1>21 DEF Invalidate, Evict, TypeOK, ScopeIsKnown, Holding, LookupSteps,
       TenantSteps, Waiting
  <1>22. ASSUME NEW u \in Users, ChangeGrant(u)
        PROVE  ScopeIsKnown'
    BY <1>22 DEF ChangeGrant, TypeOK, ScopeIsKnown, Holding, LookupSteps, TenantSteps,
       Waiting, requestVars
  <1>23. ASSUME Tick
        PROVE  ScopeIsKnown'
    BY <1>23 DEF Tick, TypeOK, ScopeIsKnown, Holding, LookupSteps, TenantSteps, Waiting,
       tenantVars, requestVars
  <1> QED
    BY <1>1, <1>2, <1>3, <1>4, <1>5, <1>6, <1>7, <1>8, <1>9, <1>10, <1>11, <1>12, <1>13,
       <1>14, <1>15, <1>16, <1>17, <1>18, <1>19, <1>20, <1>21, <1>22, <1>23
       DEF Next, Serve, Fault

\* A row that was granted stays so when a grant changes: it is given up now, at the
\* earliest.
LEMMA GrantedStays ==
    ASSUME TypeOK, NEW u \in Users, ChangeGrant(u), NEW v \in Users,
           NEW row, row.version \in Nat, NEW from \in Nat, from <= clock,
           Granted(v, row, from)
    PROVE  Granted(v, row, from)'
  <1>1. PICK tags \in Tags \cup {None} :
            grant' = [grant EXCEPT ![u] = [tags |-> tags, version |-> grant[u].version + 1]]
    BY DEF ChangeGrant
  <1>2. past' = [past EXCEPT ![u] = @ \cup
                    {[tags |-> grant[u].tags, version |-> grant[u].version, until |-> clock]}]
    BY DEF ChangeGrant
  <1>3. CASE v # u
    BY <1>1, <1>2, <1>3 DEF Granted, TypeOK
  <1>4. CASE v = u
    <2>1. grant'[v].version = grant[v].version + 1 /\ grant[v].version \in Nat
      BY <1>1, <1>4 DEF TypeOK
    <2>2. past[v] \subseteq past'[v]
      BY <1>2, <1>4 DEF TypeOK
    <2>3. row.version <= grant'[v].version /\ row.version # grant'[v].version
      BY <2>1 DEF Granted
    <2>4. CASE row.version # grant[v].version
      BY <2>2, <2>3, <2>4 DEF Granted
    <2>5. CASE row.version = grant[v].version
      <3>1. DEFINE p == [tags |-> grant[v].tags, version |-> grant[v].version, until |-> clock]
      <3>2. p \in past'[v]
        BY <1>2, <1>4 DEF TypeOK
      <3>3. p.version = row.version /\ p.tags = row.tags /\ from <= p.until
        BY <2>5 DEF Granted
      <3> HIDE DEF p
      <3> QED
        BY <2>3, <3>2, <3>3 DEF Granted
    <2> QED
      BY <2>4, <2>5
  <1> QED
    BY <1>3, <1>4

\* Nothing is to be shown when entries, or scopes, only go.
LEMMA CachedFrame ==
    ASSUME TypeOK, CachedWasGranted, UNCHANGED <<grant, past>>, clock' \in Nat, clock <= clock',
           \A u \in Users : cache'[u] = cache[u] \/ cache'[u] = None
    PROVE  CachedWasGranted'
  <1> SUFFICES ASSUME NEW u \in Users, cache'[u] # None
               PROVE  /\ cache'[u].filled <= clock'
                      /\ Granted(u, cache[u], Since(cache[u]))'
    BY DEF CachedWasGranted
  <1>1. cache'[u] = cache[u] /\ cache[u] \in FilledRow
    BY DEF TypeOK
  <1>2. cache[u].filled <= clock /\ Granted(u, cache[u], Since(cache[u]))
    BY <1>1 DEF CachedWasGranted
  <1> QED
    BY <1>1, <1>2 DEF Granted, TypeOK, FilledRow

\* Likewise for what the requests go by.
LEMMA ServedFrame ==
    ASSUME TypeOK, ServedWasGranted, UNCHANGED <<grant, past>>, clock' \in Nat, clock <= clock',
           \A r \in Requests : scope'[r] = scope[r] \/ scope'[r] = None
    PROVE  ServedWasGranted'
  <1> SUFFICES ASSUME NEW r \in Requests, Credential[r] = "bearer", scope'[r] # None
               PROVE  /\ scope'[r].filled <= clock'
                      /\ scope'[r].served < scope'[r].filled + Ttl
                      /\ Granted(Caller[r], scope[r], Since(scope[r]))'
    BY DEF ServedWasGranted
  <1>1. scope'[r] = scope[r] /\ scope[r] \in ServedRow
    BY DEF TypeOK
  <1>2. /\ scope[r].filled <= clock /\ scope[r].served < scope[r].filled + Ttl
        /\ Granted(Caller[r], scope[r], Since(scope[r]))
    BY <1>1 DEF ServedWasGranted
  <1> QED
    BY <1>1, <1>2 DEF Granted, TypeOK, ServedRow

\* A request that goes by an entry of the cache within its time, goes by a row that
\* was granted.
LEMMA ServedFromEntry ==
    ASSUME TypeOK, TypeOK', ServedWasGranted, UNCHANGED <<grant, past, clock>>, NEW r \in Requests,
           NEW entry \in FilledRow, clock < entry.filled + Ttl, entry.filled <= clock,
           Granted(Caller[r], entry, Since(entry)),
           scope' = [scope EXCEPT ![r] = Served(entry)]
    PROVE  ServedWasGranted'
  <1> SUFFICES ASSUME NEW q \in Requests, Credential[q] = "bearer", scope'[q] # None
               PROVE  /\ scope'[q].filled <= clock
                      /\ scope'[q].served < scope'[q].filled + Ttl
                      /\ Granted(Caller[q], scope[q], Since(scope[q]))'
    BY DEF ServedWasGranted
  <1>1. CASE q = r
    <2>1. scope'[q] = Served(entry)
      BY <1>1 DEF TypeOK
    <2>2. /\ Since(scope'[q]) = Since(entry)
          /\ scope'[q].tags = entry.tags /\ scope'[q].version = entry.version
          /\ scope'[q].overtaken = entry.overtaken /\ scope'[q].filled = entry.filled
          /\ scope'[q].served = clock
      BY <2>1 DEF Served, Since
    <2> QED
      BY <1>1, <2>2 DEF Granted
  <1>2. CASE q # r
    <2>1. scope'[q] = scope[q]
      BY <1>2 DEF TypeOK
    <2>2. /\ scope[q].filled <= clock /\ scope[q].served < scope[q].filled + Ttl
          /\ Granted(Caller[q], scope[q], Since(scope[q]))
      BY <2>1 DEF ServedWasGranted
    <2> QED
      BY <2>1, <2>2 DEF Granted
  <1> QED
    BY <1>1, <1>2

\* What a lookup puts into the cache was granted when it was read.
LEMMA EntryWasGranted ==
    ASSUME TypeOK, FoundWasGranted, NEW r \in Requests, found[r] # None
    PROVE  /\ Entry(r) \in FilledRow /\ Entry(r).filled = clock
           /\ Granted(Caller[r], Entry(r), Since(Entry(r)))
  <1>1. Entry(r) \in FilledRow
    BY EntryType
  <1>2. Granted(Caller[r], found[r], 0)
    BY DEF FoundWasGranted
  <1>3. grant[Caller[r]].version \in Nat /\ found[r].version \in Nat
    BY DEF TypeOK, Row
  <1>4. /\ Entry(r).tags = found[r].tags /\ Entry(r).version = found[r].version
        /\ Entry(r).filled = clock
    BY DEF Entry
  <1>5. Entry(r).overtaken <=> found[r].version # grant[Caller[r]].version
    BY DEF Entry
  <1>6. Granted(Caller[r], Entry(r), Since(Entry(r)))
    <2>1. CASE found[r].version = grant[Caller[r]].version
      BY <1>2, <1>3, <1>4, <2>1 DEF Granted
    <2>2. CASE found[r].version # grant[Caller[r]].version
      <3>1. Since(Entry(r)) = 0
        BY <1>5, <2>2 DEF Since
      <3> QED
        BY <1>2, <1>4, <3>1 DEF Granted
    <2> QED
      BY <2>1, <2>2
  <1> QED
    BY <1>1, <1>4, <1>6

\* What a lookup has read was a row.
LEMMA FoundStep ==
    ASSUME TypeOK, FoundWasGranted, Next
    PROVE  FoundWasGranted'
  <1>1. ASSUME NEW r \in Requests, NEW c \in Connections, Lookup(r, c)
        PROVE  FoundWasGranted'
    BY <1>1 DEF Lookup, TakeConnection, Cached, Served, TypeOK, FoundWasGranted,
       Granted, GoTo, tenantVars
  <1>2. ASSUME NEW r \in Requests, NEW c \in Connections, LookupExpires(r, c)
        PROVE  FoundWasGranted'
    BY <1>2 DEF LookupExpires, TakeConnection, Cached, Answered, TypeOK,
       FoundWasGranted, Granted, GoTo, tenantVars, requestVars
  <1>3. ASSUME NEW r \in Requests, NEW c \in Connections, Begin(r, c)
        PROVE  FoundWasGranted'
    BY <1>3 DEF Begin, TakeConnection, TypeOK, FoundWasGranted, Granted, GoTo,
       tenantVars, requestVars
  <1>4. ASSUME NEW r \in Requests, Arrive(r)
        PROVE  FoundWasGranted'
    BY <1>4 DEF Arrive, HeaderScope, End, Answered, TypeOK, FoundWasGranted, Granted,
       GoTo, tenantVars
  <1>5. ASSUME NEW r \in Requests, Query(r)
        PROVE  FoundWasGranted'
    BY <1>5 DEF Query, TypeOK, FoundWasGranted, Granted, GoTo, tenantVars
  <1>6. ASSUME NEW r \in Requests, Fill(r)
        PROVE  FoundWasGranted'
    BY <1>6 DEF Fill, Entry, Served, Answered, TypeOK, FoundWasGranted, Granted, GoTo,
       tenantVars
  <1>7. ASSUME NEW r \in Requests, Leave(r)
        PROVE  FoundWasGranted'
    <2>1. UNCHANGED <<grant, past>>
      BY <1>7 DEF Leave, tenantVars
    <2>2. found' = found \/ found' = [found EXCEPT ![r] = None]
      BY <1>7 DEF Leave, End, requestVars
    <2> QED
      BY <2>1, <2>2 DEF TypeOK, FoundWasGranted, Granted
  <1>8. ASSUME NEW r \in Requests, CreateConversation(r)
        PROVE  FoundWasGranted'
    BY <1>8 DEF CreateConversation, Work, TypeOK, FoundWasGranted, Granted, GoTo,
       tenantVars
  <1>9. ASSUME NEW r \in Requests, ListConversations(r)
        PROVE  FoundWasGranted'
    BY <1>9 DEF ListConversations, Work, TypeOK, FoundWasGranted, Granted, GoTo,
       tenantVars
  <1>10. ASSUME NEW r \in Requests, GetConversation(r)
        PROVE  FoundWasGranted'
    BY <1>10 DEF GetConversation, OpenConversation, Work, TypeOK, FoundWasGranted,
       Granted, GoTo, tenantVars
  <1>11. ASSUME NEW r \in Requests, CheckConversation(r)
        PROVE  FoundWasGranted'
    BY <1>11 DEF CheckConversation, OpenConversation, Work, TypeOK, FoundWasGranted,
       Granted, GoTo, tenantVars
  <1>12. ASSUME NEW r \in Requests, NotFound(r)
        PROVE  FoundWasGranted'
    BY <1>12 DEF NotFound, Fail, ReturnConnection, End, Answered, TypeOK,
       FoundWasGranted, Granted, GoTo, tenantVars
  <1>13. ASSUME NEW r \in Requests, Commit(r)
        PROVE  FoundWasGranted'
    BY <1>13 DEF Commit, ReturnConnection, End, Answered, TypeOK, FoundWasGranted,
       Granted, GoTo, requestVars
  <1>14. ASSUME NEW r \in Requests, Configure(r)
        PROVE  FoundWasGranted'
    BY <1>14 DEF Configure, TypeOK, FoundWasGranted, Granted, GoTo, tenantVars,
       requestVars
  <1>15. ASSUME NEW r \in Requests, Search(r)
        PROVE  FoundWasGranted'
    <2>1. CASE Fail(r, "error")
      BY <2>1 DEF Fail, ReturnConnection, End, Answered, TypeOK, FoundWasGranted,
         Granted, GoTo, tenantVars
    <2>2. CASE Retrieve(r)
      BY <2>2 DEF Retrieve, Answered, TypeOK, FoundWasGranted, Granted, GoTo,
         tenantVars
    <2> QED
      BY <1>15, <2>1, <2>2, SearchCases
  <1>16. ASSUME NEW r \in Requests, SearchFails(r)
        PROVE  FoundWasGranted'
    BY <1>16 DEF SearchFails, Fail, ReturnConnection, End, Answered, TypeOK,
       FoundWasGranted, Granted, GoTo, tenantVars
  <1>17. ASSUME NEW r \in Requests, Finish(r)
        PROVE  FoundWasGranted'
    BY <1>17 DEF Finish, ReturnConnection, End, TypeOK, FoundWasGranted, Granted, GoTo,
       tenantVars
  <1>18. ASSUME NEW r \in Requests, DatabaseError(r)
        PROVE  FoundWasGranted'
    BY <1>18 DEF DatabaseError, Fail, ReturnConnection, End, Answered, TypeOK,
       FoundWasGranted, Granted, GoTo, tenantVars
  <1>19. ASSUME NEW r \in Requests, PoolTimeout(r)
        PROVE  FoundWasGranted'
    BY <1>19 DEF PoolTimeout, Fail, ReturnConnection, End, Answered, TypeOK,
       FoundWasGranted, Granted, GoTo, tenantVars
  <1>20. ASSUME NEW r \in Requests, Disconnect(r)
        PROVE  FoundWasGranted'
    BY <1>20 DEF Disconnect, Fail, ReturnConnection, End, Answered, TypeOK,
       FoundWasGranted, Granted, GoTo, tenantVars
  <1>21. ASSUME NEW u \in Users, NEW by \in {"subject", "user", "all"}, Invalidate(u, by)
        PROVE  FoundWasGranted'
    BY <1>21 DEF Invalidate, Evict, TypeOK, FoundWasGranted, Granted
  <1>22. ASSUME NEW u \in Users, ChangeGrant(u)
        PROVE  FoundWasGranted'
    <2> SUFFICES ASSUME NEW r \in Requests, found'[r] # None
                 PROVE  Granted(Caller[r], found[r], 0)'
      BY DEF FoundWasGranted
    <2>1. found' = found /\ found[r] \in Row
      BY <1>22 DEF ChangeGrant, requestVars, TypeOK
    <2>2. Granted(Caller[r], found[r], 0)
      BY <2>1 DEF FoundWasGranted
    <2>3. found[r].version \in Nat /\ 0 <= clock
      BY <2>1 DEF Row, TypeOK
    <2> QED
      BY <1>22, <2>1, <2>2, <2>3, GrantedStays DEF Granted
  <1>23. ASSUME Tick
        PROVE  FoundWasGranted'
    BY <1>23 DEF Tick, TypeOK, FoundWasGranted, Granted, tenantVars, requestVars
  <1> QED
    BY <1>1, <1>2, <1>3, <1>4, <1>5, <1>6, <1>7, <1>8, <1>9, <1>10, <1>11, <1>12, <1>13,
       <1>14, <1>15, <1>16, <1>17, <1>18, <1>19, <1>20, <1>21, <1>22, <1>23
       DEF Next, Serve, Fault

\* What the cache holds was a row, until it was put there at least or overtaken.
LEMMA CachedStep ==
    ASSUME TypeOK, FoundWasGranted, CachedWasGranted, Next
    PROVE  CachedWasGranted'
  <1>1. ASSUME NEW r \in Requests, NEW c \in Connections, Lookup(r, c)
        PROVE  CachedWasGranted'
    BY <1>1 DEF Lookup, TakeConnection, Cached, Served, TypeOK, CachedWasGranted,
       Granted, GoTo, tenantVars
  <1>2. ASSUME NEW r \in Requests, NEW c \in Connections, LookupExpires(r, c)
        PROVE  CachedWasGranted'
    BY <1>2, CachedFrame DEF LookupExpires, tenantVars, TypeOK
  <1>3. ASSUME NEW r \in Requests, NEW c \in Connections, Begin(r, c)
        PROVE  CachedWasGranted'
    BY <1>3 DEF Begin, TakeConnection, TypeOK, CachedWasGranted, Granted, GoTo,
       tenantVars, requestVars
  <1>4. ASSUME NEW r \in Requests, Arrive(r)
        PROVE  CachedWasGranted'
    BY <1>4 DEF Arrive, HeaderScope, End, Answered, TypeOK, CachedWasGranted, Granted,
       GoTo, tenantVars
  <1>5. ASSUME NEW r \in Requests, Query(r)
        PROVE  CachedWasGranted'
    BY <1>5 DEF Query, TypeOK, CachedWasGranted, Granted, GoTo, tenantVars
  <1>6. ASSUME NEW r \in Requests, Fill(r)
        PROVE  CachedWasGranted'
    <2>1. UNCHANGED <<grant, past, clock>>
      BY <1>6 DEF Fill, tenantVars
    <2>2. CASE found[r] = None
      BY <1>6, <2>1, <2>2, CachedFrame DEF Fill, TypeOK
    <2>3. CASE found[r] # None
      <3>1. cache' = [cache EXCEPT ![Caller[r]] = Entry(r)]
        BY <1>6, <2>3 DEF Fill
      <3> SUFFICES ASSUME NEW u \in Users, cache'[u] # None
                   PROVE  /\ cache'[u].filled <= clock
                          /\ Granted(u, cache[u], Since(cache[u]))'
        BY <2>1 DEF CachedWasGranted
      <3>2. CASE u = Caller[r]
        <4>1. cache'[u] = Entry(r)
          BY <3>1, <3>2 DEF TypeOK
        <4> QED
          BY <2>1, <2>3, <3>2, <4>1, EntryWasGranted DEF Granted, TypeOK
      <3>3. CASE u # Caller[r]
        <4>1. cache'[u] = cache[u]
          BY <3>1, <3>3 DEF TypeOK
        <4>2. cache[u].filled <= clock /\ Granted(u, cache[u], Since(cache[u]))
          BY <4>1 DEF CachedWasGranted
        <4> QED
          BY <2>1, <4>1, <4>2 DEF Granted
      <3> QED
        BY <3>2, <3>3
    <2> QED
      BY <2>2, <2>3
  <1>7. ASSUME NEW r \in Requests, Leave(r)
        PROVE  CachedWasGranted'
    BY <1>7 DEF Leave, ReturnConnection, End, TypeOK, CachedWasGranted, Granted, GoTo,
       tenantVars, requestVars
  <1>8. ASSUME NEW r \in Requests, CreateConversation(r)
        PROVE  CachedWasGranted'
    BY <1>8 DEF CreateConversation, Work, TypeOK, CachedWasGranted, Granted, GoTo,
       tenantVars
  <1>9. ASSUME NEW r \in Requests, ListConversations(r)
        PROVE  CachedWasGranted'
    BY <1>9 DEF ListConversations, Work, TypeOK, CachedWasGranted, Granted, GoTo,
       tenantVars
  <1>10. ASSUME NEW r \in Requests, GetConversation(r)
        PROVE  CachedWasGranted'
    BY <1>10 DEF GetConversation, OpenConversation, Work, TypeOK, CachedWasGranted,
       Granted, GoTo, tenantVars
  <1>11. ASSUME NEW r \in Requests, CheckConversation(r)
        PROVE  CachedWasGranted'
    BY <1>11 DEF CheckConversation, OpenConversation, Work, TypeOK, CachedWasGranted,
       Granted, GoTo, tenantVars
  <1>12. ASSUME NEW r \in Requests, NotFound(r)
        PROVE  CachedWasGranted'
    BY <1>12 DEF NotFound, Fail, ReturnConnection, End, Answered, TypeOK,
       CachedWasGranted, Granted, GoTo, tenantVars
  <1>13. ASSUME NEW r \in Requests, Commit(r)
        PROVE  CachedWasGranted'
    BY <1>13 DEF Commit, ReturnConnection, End, Answered, TypeOK, CachedWasGranted,
       Granted, GoTo, requestVars
  <1>14. ASSUME NEW r \in Requests, Configure(r)
        PROVE  CachedWasGranted'
    BY <1>14 DEF Configure, TypeOK, CachedWasGranted, Granted, GoTo, tenantVars,
       requestVars
  <1>15. ASSUME NEW r \in Requests, Search(r)
        PROVE  CachedWasGranted'
    <2>1. CASE Fail(r, "error")
      BY <2>1 DEF Fail, ReturnConnection, End, Answered, TypeOK, CachedWasGranted,
         Granted, GoTo, tenantVars
    <2>2. CASE Retrieve(r)
      BY <2>2 DEF Retrieve, Answered, TypeOK, CachedWasGranted, Granted, GoTo,
         tenantVars
    <2> QED
      BY <1>15, <2>1, <2>2, SearchCases
  <1>16. ASSUME NEW r \in Requests, SearchFails(r)
        PROVE  CachedWasGranted'
    BY <1>16 DEF SearchFails, Fail, ReturnConnection, End, Answered, TypeOK,
       CachedWasGranted, Granted, GoTo, tenantVars
  <1>17. ASSUME NEW r \in Requests, Finish(r)
        PROVE  CachedWasGranted'
    BY <1>17 DEF Finish, ReturnConnection, End, TypeOK, CachedWasGranted, Granted, GoTo,
       tenantVars
  <1>18. ASSUME NEW r \in Requests, DatabaseError(r)
        PROVE  CachedWasGranted'
    BY <1>18 DEF DatabaseError, Fail, ReturnConnection, End, Answered, TypeOK,
       CachedWasGranted, Granted, GoTo, tenantVars
  <1>19. ASSUME NEW r \in Requests, PoolTimeout(r)
        PROVE  CachedWasGranted'
    BY <1>19 DEF PoolTimeout, Fail, ReturnConnection, End, Answered, TypeOK,
       CachedWasGranted, Granted, GoTo, tenantVars
  <1>20. ASSUME NEW r \in Requests, Disconnect(r)
        PROVE  CachedWasGranted'
    BY <1>20 DEF Disconnect, Fail, ReturnConnection, End, Answered, TypeOK,
       CachedWasGranted, Granted, GoTo, tenantVars
  <1>21. ASSUME NEW u \in Users, NEW by \in {"subject", "user", "all"}, Invalidate(u, by)
        PROVE  CachedWasGranted'
    BY <1>21, CachedFrame DEF Invalidate, Evict, TypeOK
  <1>22. ASSUME NEW u \in Users, ChangeGrant(u)
        PROVE  CachedWasGranted'
    <2> SUFFICES ASSUME NEW v \in Users, cache'[v] # None
                 PROVE  /\ cache'[v].filled <= clock'
                        /\ Granted(v, cache[v], Since(cache[v]))'
      BY DEF CachedWasGranted
    <2>1. UNCHANGED <<cache, clock>> /\ cache[v] \in FilledRow
      BY <1>22 DEF ChangeGrant, TypeOK
    <2>2. cache[v].filled <= clock /\ Granted(v, cache[v], Since(cache[v]))
      BY <2>1 DEF CachedWasGranted
    <2>3. cache[v].version \in Nat /\ Since(cache[v]) \in Nat /\ Since(cache[v]) <= clock
      BY <2>1, <2>2 DEF FilledRow, Since, TypeOK
    <2> QED
      BY <1>22, <2>1, <2>2, <2>3, GrantedStays, ZenonT(30) DEF Granted
  <1>23. ASSUME Tick
        PROVE  CachedWasGranted'
    BY <1>23, CachedFrame DEF Tick, tenantVars, TypeOK
  <1> QED
    BY <1>1, <1>2, <1>3, <1>4, <1>5, <1>6, <1>7, <1>8, <1>9, <1>10, <1>11, <1>12, <1>13,
       <1>14, <1>15, <1>16, <1>17, <1>18, <1>19, <1>20, <1>21, <1>22, <1>23
       DEF Next, Serve, Fault

\* What a request goes by was in the cache within its time.
LEMMA ServedStep ==
    ASSUME TypeOK, TypeOK', FoundWasGranted, CachedWasGranted, ServedWasGranted, Next
    PROVE  ServedWasGranted'
  <1>1. ASSUME NEW r \in Requests, NEW c \in Connections, Lookup(r, c)
        PROVE  ServedWasGranted'
    <2>1. UNCHANGED <<grant, past, clock>>
      BY <1>1 DEF Lookup, tenantVars
    <2>2. CASE ~ Cached(Caller[r])
      BY <1>1, <2>1, <2>2, ServedFrame DEF Lookup, TypeOK
    <2>3. CASE Cached(Caller[r])
      <3>1. scope' = [scope EXCEPT ![r] = Served(cache[Caller[r]])]
        BY <1>1, <2>3 DEF Lookup
      <3>2. cache[Caller[r]] # None /\ clock < cache[Caller[r]].filled + Ttl
        BY <2>3 DEF Cached
      <3>3. /\ cache[Caller[r]] \in FilledRow
            /\ cache[Caller[r]].filled <= clock
            /\ Granted(Caller[r], cache[Caller[r]], Since(cache[Caller[r]]))
        BY <3>2 DEF CachedWasGranted, TypeOK
      <3> QED
        BY <2>1, <3>1, <3>2, <3>3, ServedFromEntry
    <2> QED
      BY <2>2, <2>3
  <1>2. ASSUME NEW r \in Requests, NEW c \in Connections, LookupExpires(r, c)
        PROVE  ServedWasGranted'
    BY <1>2, ServedFrame DEF LookupExpires, tenantVars, requestVars, TypeOK
  <1>3. ASSUME NEW r \in Requests, NEW c \in Connections, Begin(r, c)
        PROVE  ServedWasGranted'
    BY <1>3 DEF Begin, TakeConnection, TypeOK, ServedWasGranted, Granted, GoTo,
       tenantVars, requestVars
  <1>4. ASSUME NEW r \in Requests, Arrive(r)
        PROVE  ServedWasGranted'
    <2>1. UNCHANGED <<grant, past, clock>>
      BY <1>4 DEF Arrive, tenantVars
    <2>2. CASE Credential[r] = "bearer"
      <3>1. scope' = scope \/ scope' = [scope EXCEPT ![r] = None]
        BY <1>4, <2>2 DEF Arrive, End
      <3> QED
        BY <2>1, <3>1, ServedFrame DEF TypeOK
    <2>3. CASE Credential[r] # "bearer"
      <3>1. \A q \in Requests : q # r => scope'[q] = scope[q]
        BY <1>4 DEF Arrive, End, TypeOK
      <3> QED
        BY <2>1, <2>3, <3>1 DEF ServedWasGranted, Granted
    <2> QED
      BY <2>2, <2>3
  <1>5. ASSUME NEW r \in Requests, Query(r)
        PROVE  ServedWasGranted'
    BY <1>5 DEF Query, TypeOK, ServedWasGranted, Granted, GoTo, tenantVars
  <1>6. ASSUME NEW r \in Requests, Fill(r)
        PROVE  ServedWasGranted'
    <2>1. UNCHANGED <<grant, past, clock>>
      BY <1>6 DEF Fill, tenantVars
    <2>2. CASE found[r] = None
      BY <1>6, <2>1, <2>2, ServedFrame DEF Fill, TypeOK
    <2>3. CASE found[r] # None
      <3>1. scope' = [scope EXCEPT ![r] = Served(Entry(r))]
        BY <1>6, <2>3 DEF Fill
      <3>2. /\ Entry(r) \in FilledRow /\ Entry(r).filled = clock
            /\ Granted(Caller[r], Entry(r), Since(Entry(r)))
        BY <2>3, EntryWasGranted
      <3>3. clock < clock + Ttl /\ clock <= clock
        BY DEF TypeOK
      <3> QED
        BY <2>1, <3>1, <3>2, <3>3, ServedFromEntry
    <2> QED
      BY <2>2, <2>3
  <1>7. ASSUME NEW r \in Requests, Leave(r)
        PROVE  ServedWasGranted'
    <2>1. UNCHANGED <<grant, past, clock>>
      BY <1>7 DEF Leave, tenantVars
    <2>2. scope' = scope \/ scope' = [scope EXCEPT ![r] = None]
      BY <1>7 DEF Leave, End, requestVars
    <2> QED
      BY <2>1, <2>2, ServedFrame DEF TypeOK
  <1>8. ASSUME NEW r \in Requests, CreateConversation(r)
        PROVE  ServedWasGranted'
    BY <1>8 DEF CreateConversation, Work, TypeOK, ServedWasGranted, Granted, GoTo,
       tenantVars
  <1>9. ASSUME NEW r \in Requests, ListConversations(r)
        PROVE  ServedWasGranted'
    BY <1>9 DEF ListConversations, Work, TypeOK, ServedWasGranted, Granted, GoTo,
       tenantVars
  <1>10. ASSUME NEW r \in Requests, GetConversation(r)
        PROVE  ServedWasGranted'
    BY <1>10 DEF GetConversation, OpenConversation, Work, TypeOK, ServedWasGranted,
       Granted, GoTo, tenantVars
  <1>11. ASSUME NEW r \in Requests, CheckConversation(r)
        PROVE  ServedWasGranted'
    BY <1>11 DEF CheckConversation, OpenConversation, Work, TypeOK, ServedWasGranted,
       Granted, GoTo, tenantVars
  <1>12. ASSUME NEW r \in Requests, NotFound(r)
        PROVE  ServedWasGranted'
    <2>1. UNCHANGED <<grant, past, clock>> /\ scope' = [scope EXCEPT ![r] = None]
      BY <1>12 DEF NotFound, Fail, End, tenantVars
    <2> QED
      BY <2>1, ServedFrame DEF TypeOK
  <1>13. ASSUME NEW r \in Requests, Commit(r)
        PROVE  ServedWasGranted'
    <2>1. UNCHANGED <<grant, past, clock>>
      BY <1>13 DEF Commit
    <2>2. scope' = scope \/ scope' = [scope EXCEPT ![r] = None]
      BY <1>13 DEF Commit, End, requestVars
    <2> QED
      BY <2>1, <2>2, ServedFrame DEF TypeOK
  <1>14. ASSUME NEW r \in Requests, Configure(r)
        PROVE  ServedWasGranted'
    BY <1>14 DEF Configure, TypeOK, ServedWasGranted, Granted, GoTo, tenantVars,
       requestVars
  <1>15. ASSUME NEW r \in Requests, Search(r)
        PROVE  ServedWasGranted'
    <2>1. CASE Fail(r, "error")
      BY <2>1, ServedFrame DEF Fail, ReturnConnection, End, tenantVars, TypeOK
    <2>2. CASE Retrieve(r)
      BY <2>2 DEF Retrieve, Answered, TypeOK, ServedWasGranted, Granted, GoTo,
         tenantVars
    <2> QED
      BY <1>15, <2>1, <2>2, SearchCases
  <1>16. ASSUME NEW r \in Requests, SearchFails(r)
        PROVE  ServedWasGranted'
    <2>1. UNCHANGED <<grant, past, clock>> /\ scope' = [scope EXCEPT ![r] = None]
      BY <1>16 DEF SearchFails, Fail, End, tenantVars
    <2> QED
      BY <2>1, ServedFrame DEF TypeOK
  <1>17. ASSUME NEW r \in Requests, Finish(r)
        PROVE  ServedWasGranted'
    <2>1. UNCHANGED <<grant, past, clock>> /\ scope' = [scope EXCEPT ![r] = None]
      BY <1>17 DEF Finish, End, tenantVars
    <2> QED
      BY <2>1, ServedFrame DEF TypeOK
  <1>18. ASSUME NEW r \in Requests, DatabaseError(r)
        PROVE  ServedWasGranted'
    <2>1. UNCHANGED <<grant, past, clock>> /\ scope' = [scope EXCEPT ![r] = None]
      BY <1>18 DEF DatabaseError, Fail, End, tenantVars
    <2> QED
      BY <2>1, ServedFrame DEF TypeOK
  <1>19. ASSUME NEW r \in Requests, PoolTimeout(r)
        PROVE  ServedWasGranted'
    <2>1. UNCHANGED <<grant, past, clock>> /\ scope' = [scope EXCEPT ![r] = None]
      BY <1>19 DEF PoolTimeout, Fail, End, tenantVars
    <2> QED
      BY <2>1, ServedFrame DEF TypeOK
  <1>20. ASSUME NEW r \in Requests, Disconnect(r)
        PROVE  ServedWasGranted'
    <2>1. UNCHANGED <<grant, past, clock>> /\ scope' = [scope EXCEPT ![r] = None]
      BY <1>20 DEF Disconnect, Fail, End, tenantVars
    <2> QED
      BY <2>1, ServedFrame DEF TypeOK
  <1>21. ASSUME NEW u \in Users, NEW by \in {"subject", "user", "all"}, Invalidate(u, by)
        PROVE  ServedWasGranted'
    BY <1>21 DEF Invalidate, Evict, TypeOK, ServedWasGranted, Granted
  <1>22. ASSUME NEW u \in Users, ChangeGrant(u)
        PROVE  ServedWasGranted'
    <2> SUFFICES ASSUME NEW r \in Requests, Credential[r] = "bearer", scope'[r] # None
                 PROVE  /\ scope'[r].filled <= clock'
                        /\ scope'[r].served < scope'[r].filled + Ttl
                        /\ Granted(Caller[r], scope[r], Since(scope[r]))'
      BY DEF ServedWasGranted
    <2>1. UNCHANGED <<scope, clock>> /\ scope[r] \in ServedRow
      BY <1>22 DEF ChangeGrant, requestVars, TypeOK
    <2>2. /\ scope[r].filled <= clock /\ scope[r].served < scope[r].filled + Ttl
          /\ Granted(Caller[r], scope[r], Since(scope[r]))
      BY <2>1 DEF ServedWasGranted
    <2>3. scope[r].version \in Nat /\ Since(scope[r]) \in Nat /\ Since(scope[r]) <= clock
      BY <2>1, <2>2 DEF ServedRow, Since, TypeOK
    <2>4. Caller[r] \in Users
      OBVIOUS
    <2>5. Granted(Caller[r], scope[r], Since(scope[r]))'
      <3>1. \A row, from : row.version \in Nat /\ from \in Nat /\ from <= clock
                            /\ Granted(Caller[r], row, from) => Granted(Caller[r], row, from)'
        BY <1>22, <2>4, GrantedStays
      <3> QED
        BY <2>1, <2>2, <2>3, <3>1 DEF Granted
    <2> QED
      BY <2>1, <2>2, <2>5
  <1>23. ASSUME Tick
        PROVE  ServedWasGranted'
    BY <1>23, ServedFrame DEF Tick, tenantVars, requestVars, TypeOK
  <1> QED
    BY <1>1, <1>2, <1>3, <1>4, <1>5, <1>6, <1>7, <1>8, <1>9, <1>10, <1>11, <1>12, <1>13,
       <1>14, <1>15, <1>16, <1>17, <1>18, <1>19, <1>20, <1>21, <1>22, <1>23
       DEF Next, Serve, Fault

\* What is put into the cache later than an eviction is marked so, if it is older.
LEMMA EvictionStep ==
    ASSUME TypeOK, EvictionHolds, Next
    PROVE  EvictionHolds'
  <1>1. ASSUME NEW r \in Requests, NEW c \in Connections, Lookup(r, c)
        PROVE  EvictionHolds'
    BY <1>1 DEF Lookup, TakeConnection, Cached, Served, TypeOK, EvictionHolds, GoTo,
       tenantVars
  <1>2. ASSUME NEW r \in Requests, NEW c \in Connections, LookupExpires(r, c)
        PROVE  EvictionHolds'
    BY <1>2 DEF LookupExpires, TakeConnection, Cached, Answered, TypeOK, EvictionHolds,
       GoTo, tenantVars, requestVars
  <1>3. ASSUME NEW r \in Requests, NEW c \in Connections, Begin(r, c)
        PROVE  EvictionHolds'
    BY <1>3 DEF Begin, TakeConnection, TypeOK, EvictionHolds, GoTo, tenantVars,
       requestVars
  <1>4. ASSUME NEW r \in Requests, Arrive(r)
        PROVE  EvictionHolds'
    BY <1>4 DEF Arrive, HeaderScope, End, Answered, TypeOK, EvictionHolds, GoTo,
       tenantVars
  <1>5. ASSUME NEW r \in Requests, Query(r)
        PROVE  EvictionHolds'
    BY <1>5 DEF Query, TypeOK, EvictionHolds, GoTo, tenantVars
  <1>6. ASSUME NEW r \in Requests, Fill(r)
        PROVE  EvictionHolds'
    <2>1. evicted' = evicted
      BY <1>6 DEF Fill, tenantVars
    <2>2. CASE found[r] = None
      BY <1>6, <2>1, <2>2 DEF Fill, EvictionHolds
    <2>3. CASE found[r] # None
      <3>1. cache' = [cache EXCEPT ![Caller[r]] = Entry(r)]
        BY <1>6, <2>3 DEF Fill
      <3>2. Entry(r).version < evicted[Caller[r]] => Entry(r).late
        BY DEF Entry
      <3> HIDE DEF Entry
      <3> QED
        BY <2>1, <3>1, <3>2 DEF EvictionHolds, TypeOK
    <2> QED
      BY <2>2, <2>3
  <1>7. ASSUME NEW r \in Requests, Leave(r)
        PROVE  EvictionHolds'
    BY <1>7 DEF Leave, ReturnConnection, End, TypeOK, EvictionHolds, GoTo, tenantVars,
       requestVars
  <1>8. ASSUME NEW r \in Requests, CreateConversation(r)
        PROVE  EvictionHolds'
    BY <1>8 DEF CreateConversation, Work, TypeOK, EvictionHolds, GoTo, tenantVars
  <1>9. ASSUME NEW r \in Requests, ListConversations(r)
        PROVE  EvictionHolds'
    BY <1>9 DEF ListConversations, Work, TypeOK, EvictionHolds, GoTo, tenantVars
  <1>10. ASSUME NEW r \in Requests, GetConversation(r)
        PROVE  EvictionHolds'
    BY <1>10 DEF GetConversation, OpenConversation, Work, TypeOK, EvictionHolds, GoTo,
       tenantVars
  <1>11. ASSUME NEW r \in Requests, CheckConversation(r)
        PROVE  EvictionHolds'
    BY <1>11 DEF CheckConversation, OpenConversation, Work, TypeOK, EvictionHolds, GoTo,
       tenantVars
  <1>12. ASSUME NEW r \in Requests, NotFound(r)
        PROVE  EvictionHolds'
    BY <1>12 DEF NotFound, Fail, ReturnConnection, End, Answered, TypeOK, EvictionHolds,
       GoTo, tenantVars
  <1>13. ASSUME NEW r \in Requests, Commit(r)
        PROVE  EvictionHolds'
    BY <1>13 DEF Commit, ReturnConnection, End, Answered, TypeOK, EvictionHolds, GoTo,
       requestVars
  <1>14. ASSUME NEW r \in Requests, Configure(r)
        PROVE  EvictionHolds'
    BY <1>14 DEF Configure, TypeOK, EvictionHolds, GoTo, tenantVars, requestVars
  <1>15. ASSUME NEW r \in Requests, Search(r)
        PROVE  EvictionHolds'
    <2>1. CASE Fail(r, "error")
      BY <2>1 DEF Fail, ReturnConnection, End, Answered, TypeOK, EvictionHolds, GoTo,
         tenantVars
    <2>2. CASE Retrieve(r)
      BY <2>2 DEF Retrieve, Answered, TypeOK, EvictionHolds, GoTo, tenantVars
    <2> QED
      BY <1>15, <2>1, <2>2, SearchCases
  <1>16. ASSUME NEW r \in Requests, SearchFails(r)
        PROVE  EvictionHolds'
    BY <1>16 DEF SearchFails, Fail, ReturnConnection, End, Answered, TypeOK,
       EvictionHolds, GoTo, tenantVars
  <1>17. ASSUME NEW r \in Requests, Finish(r)
        PROVE  EvictionHolds'
    BY <1>17 DEF Finish, ReturnConnection, End, TypeOK, EvictionHolds, GoTo, tenantVars
  <1>18. ASSUME NEW r \in Requests, DatabaseError(r)
        PROVE  EvictionHolds'
    BY <1>18 DEF DatabaseError, Fail, ReturnConnection, End, Answered, TypeOK,
       EvictionHolds, GoTo, tenantVars
  <1>19. ASSUME NEW r \in Requests, PoolTimeout(r)
        PROVE  EvictionHolds'
    BY <1>19 DEF PoolTimeout, Fail, ReturnConnection, End, Answered, TypeOK,
       EvictionHolds, GoTo, tenantVars
  <1>20. ASSUME NEW r \in Requests, Disconnect(r)
        PROVE  EvictionHolds'
    BY <1>20 DEF Disconnect, Fail, ReturnConnection, End, Answered, TypeOK,
       EvictionHolds, GoTo, tenantVars
  <1>21. ASSUME NEW u \in Users, NEW by \in {"subject", "user", "all"}, Invalidate(u, by)
        PROVE  EvictionHolds'
    <2>1. \A v \in Users : v # u => cache'[v] \in {cache[v], None} /\ evicted'[v] = evicted[v]
      BY <1>21 DEF Invalidate, Evict, TypeOK
    <2>2. cache'[u] = None
      BY <1>21 DEF Invalidate, Evict, TypeOK
    <2> QED
      BY <2>1, <2>2 DEF EvictionHolds
  <1>22. ASSUME NEW u \in Users, ChangeGrant(u)
        PROVE  EvictionHolds'
    BY <1>22 DEF ChangeGrant, TypeOK, EvictionHolds, requestVars
  <1>23. ASSUME Tick
        PROVE  EvictionHolds'
    BY <1>23 DEF Tick, TypeOK, EvictionHolds, tenantVars, requestVars
  <1> QED
    BY <1>1, <1>2, <1>3, <1>4, <1>5, <1>6, <1>7, <1>8, <1>9, <1>10, <1>11, <1>12, <1>13,
       <1>14, <1>15, <1>16, <1>17, <1>18, <1>19, <1>20, <1>21, <1>22, <1>23
       DEF Next, Serve, Fault

\* A step of a request that is not at the answer then, leaves the others what they
\* were found, and a transaction that has not failed.
LEMMA RetrievalFrame ==
    ASSUME RetrievalIsPermitted, NEW r \in Requests, pc'[r] # "answer",
           \A q \in Requests : q # r =>
                /\ pc'[q] = pc[q] /\ scope'[q] = scope[q] /\ retrieved'[q] = retrieved[q]
                /\ status'[q] = status[q] /\ held'[q] = held[q],
           \A q \in Requests : q # r /\ pc[q] = "answer" /\ ~ broken[held[q]] =>
                ~ broken'[held[q]]
    PROVE  RetrievalIsPermitted'
  BY DEF RetrievalIsPermitted, Permitted

\* A connection that is given back is no other request's.
LEMMA RetrievalReturns ==
    ASSUME TypeOK, PoolIsClean, RetrievalIsPermitted, NEW r \in Requests,
           ReturnConnection(r), pc'[r] # "answer",
           \A q \in Requests : q # r =>
                /\ pc'[q] = pc[q] /\ scope'[q] = scope[q] /\ retrieved'[q] = retrieved[q]
                /\ status'[q] = status[q]
    PROVE  RetrievalIsPermitted'
  <1>1. \A q \in Requests : q # r => held'[q] = held[q]
    BY DEF ReturnConnection, TypeOK
  <1>2. ASSUME NEW q \in Requests, pc[q] = "answer", ~ broken[held[q]]
        PROVE  ~ broken'[held[q]]
    <2>1. held[q] \in Connections
      BY <1>2 DEF TypeOK, PoolIsClean, ConnectionsAreOwned, Holding, TenantSteps
    <2> QED
      BY <1>2, <2>1 DEF ReturnConnection
  <1> QED
    BY <1>1, <1>2, RetrievalFrame

\* So does a request that fails.
LEMMA RetrievalFails ==
    ASSUME TypeOK, PoolIsClean, RetrievalIsPermitted, NEW r \in Requests,
           NEW outcome, Fail(r, outcome)
    PROVE  RetrievalIsPermitted'
  <1>1. pc'[r] # "answer"
    BY DEF Fail, End, GoTo, TypeOK
  <1>2. \A q \in Requests : q # r =>
            /\ pc'[q] = pc[q] /\ scope'[q] = scope[q] /\ retrieved'[q] = retrieved[q]
            /\ status'[q] = status[q]
    BY DEF Fail, End, GoTo, Answered, TypeOK
  <1> QED
    BY <1>1, <1>2, RetrievalReturns DEF Fail

\* What the filter lets through is its caller's, and it is a search that did not fail.
LEMMA RetrievalStep ==
    ASSUME TypeOK, PoolIsClean, RetrievalIsPermitted, Next
    PROVE  RetrievalIsPermitted'
  <1>1. ASSUME NEW r \in Requests, NEW c \in Connections, Lookup(r, c)
        PROVE  RetrievalIsPermitted'
    <2>1. pc'[r] # "answer"
      BY <1>1 DEF Lookup, GoTo, TypeOK
    <2>2. \A q \in Requests : q # r =>
            /\ pc'[q] = pc[q] /\ scope'[q] = scope[q] /\ retrieved'[q] = retrieved[q]
            /\ status'[q] = status[q] /\ held'[q] = held[q]
      BY <1>1 DEF Lookup, GoTo, TakeConnection, Answered, requestVars, TypeOK
    <2>3. UNCHANGED broken
      BY <1>1 DEF Lookup
    <2> QED
      BY <2>1, <2>2, <2>3, RetrievalFrame
  <1>2. ASSUME NEW r \in Requests, NEW c \in Connections, LookupExpires(r, c)
        PROVE  RetrievalIsPermitted'
    <2>1. pc'[r] # "answer"
      BY <1>2 DEF LookupExpires, GoTo, TypeOK
    <2>2. \A q \in Requests : q # r =>
            /\ pc'[q] = pc[q] /\ scope'[q] = scope[q] /\ retrieved'[q] = retrieved[q]
            /\ status'[q] = status[q] /\ held'[q] = held[q]
      BY <1>2 DEF LookupExpires, GoTo, TakeConnection, Answered, requestVars, TypeOK
    <2>3. UNCHANGED broken
      BY <1>2 DEF LookupExpires
    <2> QED
      BY <2>1, <2>2, <2>3, RetrievalFrame
  <1>3. ASSUME NEW r \in Requests, NEW c \in Connections, Begin(r, c)
        PROVE  RetrievalIsPermitted'
    <2>1. pc'[r] # "answer"
      BY <1>3 DEF Begin, GoTo, TypeOK
    <2>2. \A q \in Requests : q # r =>
            /\ pc'[q] = pc[q] /\ scope'[q] = scope[q] /\ retrieved'[q] = retrieved[q]
            /\ status'[q] = status[q] /\ held'[q] = held[q]
      BY <1>3 DEF Begin, GoTo, TakeConnection, Answered, requestVars, TypeOK
    <2>3. UNCHANGED broken
      BY <1>3 DEF Begin
    <2> QED
      BY <2>1, <2>2, <2>3, RetrievalFrame
  <1>4. ASSUME NEW r \in Requests, Arrive(r)
        PROVE  RetrievalIsPermitted'
    <2>1. pc'[r] # "answer"
      BY <1>4 DEF Arrive, End, GoTo, TypeOK
    <2>2. \A q \in Requests : q # r =>
            /\ pc'[q] = pc[q] /\ scope'[q] = scope[q] /\ retrieved'[q] = retrieved[q]
            /\ status'[q] = status[q] /\ held'[q] = held[q]
      BY <1>4 DEF Arrive, End, GoTo, TakeConnection, Answered, requestVars, TypeOK
    <2>3. UNCHANGED broken
      BY <1>4 DEF Arrive, End
    <2> QED
      BY <2>1, <2>2, <2>3, RetrievalFrame
  <1>5. ASSUME NEW r \in Requests, Query(r)
        PROVE  RetrievalIsPermitted'
    <2>1. pc'[r] # "answer"
      BY <1>5 DEF Query, GoTo, TypeOK
    <2>2. \A q \in Requests : q # r =>
            /\ pc'[q] = pc[q] /\ scope'[q] = scope[q] /\ retrieved'[q] = retrieved[q]
            /\ status'[q] = status[q] /\ held'[q] = held[q]
      BY <1>5 DEF Query, GoTo, TakeConnection, Answered, requestVars, TypeOK
    <2>3. UNCHANGED broken
      BY <1>5 DEF Query
    <2> QED
      BY <2>1, <2>2, <2>3, RetrievalFrame
  <1>6. ASSUME NEW r \in Requests, Fill(r)
        PROVE  RetrievalIsPermitted'
    <2>1. pc'[r] # "answer"
      BY <1>6 DEF Fill, GoTo, TypeOK
    <2>2. \A q \in Requests : q # r =>
            /\ pc'[q] = pc[q] /\ scope'[q] = scope[q] /\ retrieved'[q] = retrieved[q]
            /\ status'[q] = status[q] /\ held'[q] = held[q]
      BY <1>6 DEF Fill, GoTo, TakeConnection, Answered, requestVars, TypeOK
    <2>3. UNCHANGED broken
      BY <1>6 DEF Fill
    <2> QED
      BY <2>1, <2>2, <2>3, RetrievalFrame
  <1>7. ASSUME NEW r \in Requests, Leave(r)
        PROVE  RetrievalIsPermitted'
    <2>1. pc'[r] # "answer"
      BY <1>7 DEF Leave, End, GoTo, TypeOK
    <2>2. \A q \in Requests : q # r =>
            /\ pc'[q] = pc[q] /\ scope'[q] = scope[q] /\ retrieved'[q] = retrieved[q]
            /\ status'[q] = status[q]
      BY <1>7 DEF Leave, End, GoTo, Answered, requestVars, TypeOK
    <2> QED
      BY <1>7, <2>1, <2>2, RetrievalReturns DEF Leave
  <1>8. ASSUME NEW r \in Requests, CreateConversation(r)
        PROVE  RetrievalIsPermitted'
    <2>1. pc'[r] # "answer"
      BY <1>8 DEF CreateConversation, Work, GoTo, TypeOK
    <2>2. \A q \in Requests : q # r =>
            /\ pc'[q] = pc[q] /\ scope'[q] = scope[q] /\ retrieved'[q] = retrieved[q]
            /\ status'[q] = status[q] /\ held'[q] = held[q]
      BY <1>8 DEF CreateConversation, Work, GoTo, TakeConnection, Answered, requestVars, TypeOK
    <2>3. UNCHANGED broken
      BY <1>8 DEF CreateConversation, Work
    <2> QED
      BY <2>1, <2>2, <2>3, RetrievalFrame
  <1>9. ASSUME NEW r \in Requests, ListConversations(r)
        PROVE  RetrievalIsPermitted'
    <2>1. pc'[r] # "answer"
      BY <1>9 DEF ListConversations, Work, GoTo, TypeOK
    <2>2. \A q \in Requests : q # r =>
            /\ pc'[q] = pc[q] /\ scope'[q] = scope[q] /\ retrieved'[q] = retrieved[q]
            /\ status'[q] = status[q] /\ held'[q] = held[q]
      BY <1>9 DEF ListConversations, Work, GoTo, TakeConnection, Answered, requestVars, TypeOK
    <2>3. UNCHANGED broken
      BY <1>9 DEF ListConversations, Work
    <2> QED
      BY <2>1, <2>2, <2>3, RetrievalFrame
  <1>10. ASSUME NEW r \in Requests, GetConversation(r)
        PROVE  RetrievalIsPermitted'
    <2>1. pc'[r] # "answer"
      BY <1>10 DEF GetConversation, OpenConversation, Work, GoTo, TypeOK
    <2>2. \A q \in Requests : q # r =>
            /\ pc'[q] = pc[q] /\ scope'[q] = scope[q] /\ retrieved'[q] = retrieved[q]
            /\ status'[q] = status[q] /\ held'[q] = held[q]
      BY <1>10 DEF GetConversation, OpenConversation, Work, GoTo, TakeConnection, Answered, requestVars, TypeOK
    <2>3. UNCHANGED broken
      BY <1>10 DEF GetConversation, OpenConversation, Work
    <2> QED
      BY <2>1, <2>2, <2>3, RetrievalFrame
  <1>11. ASSUME NEW r \in Requests, CheckConversation(r)
        PROVE  RetrievalIsPermitted'
    <2>1. pc'[r] # "answer"
      BY <1>11 DEF CheckConversation, OpenConversation, Work, GoTo, TypeOK
    <2>2. \A q \in Requests : q # r =>
            /\ pc'[q] = pc[q] /\ scope'[q] = scope[q] /\ retrieved'[q] = retrieved[q]
            /\ status'[q] = status[q] /\ held'[q] = held[q]
      BY <1>11 DEF CheckConversation, OpenConversation, Work, GoTo, TakeConnection, Answered, requestVars, TypeOK
    <2>3. UNCHANGED broken
      BY <1>11 DEF CheckConversation, OpenConversation, Work
    <2> QED
      BY <2>1, <2>2, <2>3, RetrievalFrame
  <1>12. ASSUME NEW r \in Requests, NotFound(r)
        PROVE  RetrievalIsPermitted'
    BY <1>12, RetrievalFails DEF NotFound
  <1>13. ASSUME NEW r \in Requests, Commit(r)
        PROVE  RetrievalIsPermitted'
    <2>1. pc'[r] # "answer"
      BY <1>13 DEF Commit, End, GoTo, TypeOK
    <2>2. \A q \in Requests : q # r =>
            /\ pc'[q] = pc[q] /\ scope'[q] = scope[q] /\ retrieved'[q] = retrieved[q]
            /\ status'[q] = status[q]
      BY <1>13 DEF Commit, End, GoTo, Answered, requestVars, TypeOK
    <2> QED
      BY <1>13, <2>1, <2>2, RetrievalReturns DEF Commit
  <1>14. ASSUME NEW r \in Requests, Configure(r)
        PROVE  RetrievalIsPermitted'
    <2>1. pc'[r] # "answer"
      BY <1>14 DEF Configure, GoTo, TypeOK
    <2>2. \A q \in Requests : q # r =>
            /\ pc'[q] = pc[q] /\ scope'[q] = scope[q] /\ retrieved'[q] = retrieved[q]
            /\ status'[q] = status[q] /\ held'[q] = held[q]
      BY <1>14 DEF Configure, GoTo, requestVars, TypeOK
    <2>3. ASSUME NEW q \in Requests, q # r, pc[q] = "answer", ~ broken[held[q]]
          PROVE  ~ broken'[held[q]]
      <3>1. held[q] # held[r]
        BY <1>14, <2>3 DEF Configure, PoolIsClean, ConnectionsAreOwned, Holding, TenantSteps
      <3> QED
        BY <1>14, <2>3, <3>1 DEF Configure, TypeOK
    <2> QED
      BY <2>1, <2>2, <2>3, RetrievalFrame
  <1>15. ASSUME NEW r \in Requests, Search(r)
        PROVE  RetrievalIsPermitted'
    <2>1. CASE Fail(r, "error")
      BY <2>1, RetrievalFails
    <2>2. CASE Retrieve(r)
      <3>1. Candidates(r) \subseteq Permitted(r)
        BY DEF Candidates, Permitted, CanAccess
      <3>2. UNCHANGED <<scope, held, broken>> /\ ~ broken[held[r]]
        BY <2>2 DEF Retrieve
      <3>3. \A q \in Requests : q # r =>
                pc'[q] = pc[q] /\ retrieved'[q] = retrieved[q] /\ status'[q] = status[q]
        BY <2>2 DEF Retrieve, GoTo, Answered, TypeOK
      <3>4. /\ retrieved'[r] \subseteq Candidates(r)
            /\ status'[r] \in {"answered", "refused"}
            /\ status'[r] = "answered" => retrieved'[r] # {}
        BY <2>2 DEF Retrieve, Answered, TypeOK
      <3> QED
        BY <3>1, <3>2, <3>3, <3>4 DEF RetrievalIsPermitted, Permitted
    <2> QED
      BY <1>15, <2>1, <2>2, SearchCases
  <1>16. ASSUME NEW r \in Requests, SearchFails(r)
        PROVE  RetrievalIsPermitted'
    BY <1>16, RetrievalFails DEF SearchFails
  <1>17. ASSUME NEW r \in Requests, Finish(r)
        PROVE  RetrievalIsPermitted'
    <2>1. pc'[r] # "answer"
      BY <1>17 DEF Finish, End, GoTo, TypeOK
    <2>2. \A q \in Requests : q # r =>
            /\ pc'[q] = pc[q] /\ scope'[q] = scope[q] /\ retrieved'[q] = retrieved[q]
            /\ status'[q] = status[q]
      BY <1>17 DEF Finish, End, GoTo, Answered, requestVars, TypeOK
    <2> QED
      BY <1>17, <2>1, <2>2, RetrievalReturns DEF Finish
  <1>18. ASSUME NEW r \in Requests, DatabaseError(r)
        PROVE  RetrievalIsPermitted'
    BY <1>18, RetrievalFails DEF DatabaseError
  <1>19. ASSUME NEW r \in Requests, PoolTimeout(r)
        PROVE  RetrievalIsPermitted'
    BY <1>19, RetrievalFails DEF PoolTimeout
  <1>20. ASSUME NEW r \in Requests, Disconnect(r)
        PROVE  RetrievalIsPermitted'
    BY <1>20, RetrievalFails DEF Disconnect
  <1>21. ASSUME NEW u \in Users, NEW by \in {"subject", "user", "all"}, Invalidate(u, by)
        PROVE  RetrievalIsPermitted'
    BY <1>21 DEF Invalidate, RetrievalIsPermitted, Permitted
  <1>22. ASSUME NEW u \in Users, ChangeGrant(u)
        PROVE  RetrievalIsPermitted'
    BY <1>22 DEF ChangeGrant, requestVars, RetrievalIsPermitted, Permitted
  <1>23. ASSUME Tick
        PROVE  RetrievalIsPermitted'
    BY <1>23 DEF Tick, requestVars, RetrievalIsPermitted, Permitted
  <1> QED
    BY <1>1, <1>2, <1>3, <1>4, <1>5, <1>6, <1>7, <1>8, <1>9, <1>10, <1>11, <1>12, <1>13,
       <1>14, <1>15, <1>16, <1>17, <1>18, <1>19, <1>20, <1>21, <1>22, <1>23
       DEF Next, Serve, Fault

-----------------------------------------------------------------------------
(* The theorems. *)

\* Nothing is cached, checked out or under way at first.
LEMMA InitIInv == Init => IInv
  <1> SUFFICES ASSUME Init PROVE IInv
    OBVIOUS
  <1>1. TypeOK
    BY DEF Init, TypeOK
  <1>2. PoolIsClean
    BY DEF Init, PoolIsClean, ConnectionsAreOwned, Holding, LookupSteps, TenantSteps
  <1>3. ScopeIsKnown /\ RetrievalIsPermitted
    BY DEF Init, ScopeIsKnown, RetrievalIsPermitted, TenantSteps
  <1>4. FoundWasGranted /\ CachedWasGranted /\ ServedWasGranted
    BY DEF Init, FoundWasGranted, CachedWasGranted, ServedWasGranted
  <1>5. EvictionHolds
    BY DEF Init, EvictionHolds
  <1> QED
    BY <1>1, <1>2, <1>3, <1>4, <1>5 DEF IInv

\* Every step keeps the invariant.
LEMMA NextIInv == IInv /\ [Next]_vars => IInv'
  <1> SUFFICES ASSUME IInv, [Next]_vars
               PROVE  IInv'
    OBVIOUS
  <1>1. CASE Next
    <2> USE DEF IInv
    <2>1. TypeOK'
      BY <1>1, TypeStep
    <2>2. PoolIsClean'
      BY <1>1, PoolStep
    <2>3. ScopeIsKnown'
      BY <1>1, ScopeKnownStep
    <2>4. FoundWasGranted' /\ CachedWasGranted'
      BY <1>1, FoundStep, CachedStep
    <2>5. ServedWasGranted'
      BY <1>1, <2>1, ServedStep
    <2>6. EvictionHolds'
      BY <1>1, EvictionStep
    <2>7. RetrievalIsPermitted'
      BY <1>1, RetrievalStep
    <2> QED
      BY <2>1, <2>2, <2>3, <2>4, <2>5, <2>6, <2>7
  <1>2. CASE UNCHANGED vars
    <2> USE <1>2 DEF IInv, vars
    <2>1. TypeOK'
      BY DEF TypeOK
    <2>2. PoolIsClean'
      BY DEF PoolIsClean, ConnectionsAreOwned, Free
    <2>3. ScopeIsKnown' /\ EvictionHolds'
      BY DEF ScopeIsKnown, EvictionHolds
    <2>4. FoundWasGranted'
      BY DEF FoundWasGranted, Granted
    <2>5. CachedWasGranted'
      BY DEF CachedWasGranted, Granted, Since
    <2>6. ServedWasGranted'
      BY DEF ServedWasGranted, Granted, Since
    <2>7. RetrievalIsPermitted'
      BY DEF RetrievalIsPermitted, Permitted
    <2> QED
      BY <2>1, <2>2, <2>3, <2>4, <2>5, <2>6, <2>7
  <1> QED
    BY <1>1, <1>2

\* The invariant holds of every behaviour, whatever the users, grants, requests,
\* connections and faults, and however long the clock runs.
THEOREM AccessInvariant == Spec => []IInv
  BY InitIInv, NextIInv, PTL DEF Spec

\* The values the variables range over.
THEOREM AccessTypes == Spec => []TypeOK
  <1>1. IInv => TypeOK
    BY DEF IInv
  <1> QED
    BY <1>1, AccessInvariant, PTL

\* A connection comes out of the pool without a tenant, and a route's statements run
\* under the tenant of their caller.
THEOREM PooledConnectionsAreClean == Spec => []PoolIsClean
  <1>1. IInv => PoolIsClean
    BY DEF IInv
  <1> QED
    BY <1>1, AccessInvariant, PTL

\* A scope is older than Ttl only as far as the lookup that read it was overtaken.
THEOREM ScopesAreRecent == Spec => []ScopeIsRecent
  <1>1. IInv => ScopeIsRecent
    <2> SUFFICES ASSUME IInv, NEW r \in Requests, Credential[r] = "bearer", scope[r] # None,
                        scope[r].version # grant[Caller[r]].version
                 PROVE  \E p \in past[Caller[r]] :
                            /\ scope[r].tags = p.tags /\ scope[r].version = p.version
                            /\ \/ scope[r].served < p.until + Ttl
                               \/ /\ scope[r].overtaken
                                  /\ scope[r].served < scope[r].filled + Ttl
      BY DEF ScopeIsRecent, IInv, ServedWasGranted, Granted
    <2>1. /\ scope[r].served < scope[r].filled + Ttl
          /\ Granted(Caller[r], scope[r], Since(scope[r]))
      BY DEF IInv, ServedWasGranted
    <2>2. PICK p \in past[Caller[r]] :
            p.version = scope[r].version /\ p.tags = scope[r].tags /\ Since(scope[r]) <= p.until
      BY <2>1 DEF Granted
    <2>3. /\ scope[r].filled \in Nat /\ scope[r].served \in Nat /\ scope[r].overtaken \in BOOLEAN
          /\ p.until \in Nat
      BY DEF IInv, TypeOK, ServedRow, PastRow
    <2>4. CASE scope[r].overtaken
      BY <2>1, <2>2, <2>4
    <2>5. CASE ~ scope[r].overtaken
      <3>1. scope[r].filled <= p.until
        BY <2>2, <2>5 DEF Since
      <3>2. scope[r].served < p.until + Ttl
        BY <2>1, <2>3, <3>1
      <3> QED
        BY <2>2, <3>2
    <2> QED
      BY <2>4, <2>5
  <1> QED
    BY <1>1, AccessInvariant, PTL

\* What an eviction finds in the cache it removes for good: an entry that is older than
\* it was put there by a lookup that had read its row before, and came late.
THEOREM EvictionsHold == Spec => []EvictionHolds
  <1>1. IInv => EvictionHolds
    BY DEF IInv
  <1> QED
    BY <1>1, AccessInvariant, PTL

\* An answer rests on chunks that its caller's scope permits, and an answer or a refusal
\* on a search that did not fail.
THEOREM RetrievalsArePermitted == Spec => []RetrievalIsPermitted
  <1>1. IInv => RetrievalIsPermitted
    BY DEF IInv
  <1> QED
    BY <1>1, AccessInvariant, PTL
=============================================================================
