-------------------------------- MODULE Access --------------------------------
(***************************************************************************)
(* From a request to the rows it may see: the caller's scope, looked up    *)
(* through a cache that lives for Ttl ticks; the pool of connections; the  *)
(* transactions that carry the tenant's setting; and the queries behind    *)
(* the conversation routes, up to the chunks an answer may rest on.        *)
(*                                                                         *)
(* One instance is one event loop: a handler runs without interruption     *)
(* from an await to the next.  Grants change in the database at any time;  *)
(* they, and the calls that evict from the cache, come from outside.       *)
(***************************************************************************)
EXTENDS Integers, FiniteSets

CONSTANTS
    Users,          \* a user, or the idp_subject of one
    OrgOf,          \* user -> organization its row is of
    Tags,           \* what a grant may say: [department, level]
    FirstTags,      \* user -> what its grant says at first, or None
    Conversations,
    FirstOwner,     \* conversation -> its row, if it was created earlier, or None
    Chunks,
    MetaOf,         \* chunk -> [org, department, level]
    Requests,
    Caller,         \* request -> user
    Credential,     \* request -> "bearer" or "headers"
    HeaderOrg,      \* request -> organization its headers name ...
    HeaderTags,     \* ... and department and level, whatever its user has
    Routes,         \* request -> routes it may call
    Targets,        \* request -> conversations it may name
    Connections,    \* pool_size + max_overflow of them
    K,              \* retrieval_k: rows the search returns at most
    TopN,           \* rerank_n: chunks that are kept of these
    Ttl,            \* lifetime of a cache entry, 30 s
    LastTick,       \* bound: end of the clock
    MaxVersion,     \* bound: user -> versions of its grant
    Faults,         \* what may go wrong in a run: subset of FaultKinds
    None

FaultKinds == {"database", "client", "pool"}
RouteNames == {"create", "list", "get", "send"}
Orgs == {OrgOf[u] : u \in Users}

\* Rows of users and access_grants: as read, as cached and as served to a request.
Row == [tags : Tags, version : Nat]
FilledRow == [tags : Tags, version : Nat, overtaken : BOOLEAN, late : BOOLEAN, filled : Nat]
ServedRow == [tags : Tags, version : Nat, overtaken : BOOLEAN, filled : Nat, served : Nat]
PastRow == [tags : Tags \cup {None}, version : Nat, until : Nat]
\* Rows of conversations.
Ownership == [user : Users, org : Orgs]

ASSUME AccessAssumption ==
    /\ None \notin Users /\ None \notin Tags /\ None \notin Orgs
    /\ None \notin Connections /\ None \notin ServedRow /\ None \notin Ownership
    /\ FirstTags \in [Users -> Tags \cup {None}]
    /\ FirstOwner \in [Conversations -> Ownership \cup {None}]
    /\ Caller \in [Requests -> Users]
    /\ Credential \in [Requests -> {"bearer", "headers"}]
    /\ HeaderOrg \in [Requests -> Orgs]
    /\ HeaderTags \in [Requests -> Tags]
    /\ Routes \in [Requests -> SUBSET RouteNames]
    /\ Targets \in [Requests -> SUBSET Conversations]
    /\ K \in Nat /\ TopN \in Nat
    /\ Ttl \in Nat \ {0}
    /\ LastTick \in Nat
    /\ MaxVersion \in [Users -> Nat \ {0}]
    /\ Faults \subseteq FaultKinds

VARIABLES
    policed,    \* the role of app_db_url is subject to the tenant policies
    grant,      \* user -> its row of users and access_grants
    past,       \* history: user -> rows it had, and until when
    clock,
    cache,      \* user -> entry of _scope_cache, or None
    evicted,    \* history: user -> version it had when last evicted
    owner,      \* conversation -> its user and organization, or None
    setting,    \* connection -> veydus.org_id of its transaction, or None
    broken,     \* connection -> a statement of its transaction has failed
    pc,         \* request -> its next step
    route,      \* request -> route it calls
    held,       \* request -> connection it has checked out, or None
    found,      \* request -> row its lookup read, or None
    scope,      \* request -> scope it goes by, or None
    created,    \* request -> conversation it has inserted, or None
    retrieved,  \* request -> chunks an answer to it may rest on
    status      \* request -> how it ended, or None

tenantVars == <<policed, grant, past, evicted, owner>>
requestVars == <<route, found, scope, created, retrieved>>
vars == <<policed, grant, past, clock, cache, evicted, owner, setting, broken, pc,
          route, held, found, scope, created, retrieved, status>>

Waiting == {"auth", "begin", "stream"}
LookupSteps == {"query", "fill", "leave"}
TenantSteps == {"work", "commit", "retrieve", "search", "answer"}
Holding == LookupSteps \cup TenantSteps
Outcomes == {"unauthenticated", "forbidden", "notfound", "done", "answered", "refused",
             "error", "gone"}

Init ==
    /\ policed \in BOOLEAN
    /\ grant = [u \in Users |-> [tags |-> FirstTags[u], version |-> 1]]
    /\ past = [u \in Users |-> {}]
    /\ clock = 0
    /\ cache = [u \in Users |-> None]
    /\ evicted = [u \in Users |-> 1]
    /\ owner = FirstOwner
    /\ setting = [c \in Connections |-> None]
    /\ broken = [c \in Connections |-> FALSE]
    /\ pc = [r \in Requests |-> "idle"]
    /\ route = [r \in Requests |-> None]
    /\ held = [r \in Requests |-> None]
    /\ found = [r \in Requests |-> None]
    /\ scope = [r \in Requests |-> None]
    /\ created = [r \in Requests |-> None]
    /\ retrieved = [r \in Requests |-> {}]
    /\ status = [r \in Requests |-> None]

GoTo(r, label) == pc' = [pc EXCEPT ![r] = label]
Answered(r, outcome) == status' = [status EXCEPT ![r] = outcome]

\* The organization of a scope: of the user's row, or the one that is named.
Org(r) == IF Credential[r] = "bearer" THEN OrgOf[Caller[r]] ELSE HeaderOrg[r]

\* What a handler knows goes with it.
End(r) ==
    /\ GoTo(r, "ended")
    /\ route' = [route EXCEPT ![r] = None]
    /\ found' = [found EXCEPT ![r] = None]
    /\ scope' = [scope EXCEPT ![r] = None]
    /\ created' = [created EXCEPT ![r] = None]
    /\ retrieved' = [retrieved EXCEPT ![r] = {}]
-----------------------------------------------------------------------------
(* Connections.  An open transaction is rolled back, and what it set is    *)
(* discarded, when its connection goes back to the pool.                   *)

Free(c) == \A r \in Requests : held[r] # c
TakeConnection(r, c) == Free(c) /\ held' = [held EXCEPT ![r] = c]

\* Mutated form: set_config without is_local outlives the transaction.
ReturnUsed(r) ==
    /\ held' = [held EXCEPT ![r] = None]
    /\ broken' = [c \in Connections |-> IF c = held[r] THEN FALSE ELSE broken[c]]
    /\ UNCHANGED setting

ReturnConnection(r) ==
    /\ held' = [held EXCEPT ![r] = None]
    /\ setting' = [c \in Connections |-> IF c = held[r] THEN None ELSE setting[c]]
    /\ broken' = [c \in Connections |-> IF c = held[r] THEN FALSE ELSE broken[c]]

\* The policy tenant_isolation: rows of the organization that is set.
Visible(r, org) == policed => setting[held[r]] = org

-----------------------------------------------------------------------------
(* get_current_user_scope and resolve_user_scope_from_db. *)

HeaderScope(r) ==
    [tags |-> HeaderTags[r], version |-> 1, overtaken |-> FALSE, filled |-> 0, served |-> 0]

Arrive(r) ==
    /\ pc[r] = "idle"
    /\ \/ /\ \E name \in Routes[r] : route' = [route EXCEPT ![r] = name]
          /\ IF Credential[r] = "bearer"
             THEN GoTo(r, "auth") /\ UNCHANGED scope
             ELSE GoTo(r, "begin") /\ scope' = [scope EXCEPT ![r] = HeaderScope(r)]
          /\ UNCHANGED <<found, created, retrieved, status>>
       \/ Answered(r, "unauthenticated") /\ End(r)
    /\ UNCHANGED <<tenantVars, clock, cache, setting, broken, held>>

\* Mutated form: an entry is not past its time before the tick after it.
CachedTooLong(u) == cache[u] # None /\ clock <= cache[u].filled + Ttl

Cached(u) == cache[u] # None /\ clock < cache[u].filled + Ttl

Served(entry) ==
    [tags |-> entry.tags, version |-> entry.version, overtaken |-> entry.overtaken,
     filled |-> entry.filled, served |-> clock]

Lookup(r, c) ==
    /\ pc[r] = "auth"
    /\ TakeConnection(r, c)
    /\ \/ /\ Cached(Caller[r])
          /\ scope' = [scope EXCEPT ![r] = Served(cache[Caller[r]])]
          /\ GoTo(r, "leave")
       \/ /\ ~ Cached(Caller[r])
          /\ GoTo(r, "query")
          /\ UNCHANGED scope
    /\ UNCHANGED <<tenantVars, clock, cache, setting, broken, route, found, created,
                   retrieved, status>>

\* The entry is there when it is tested, and gone when it is read: a KeyError.
LookupExpires(r, c) ==
    /\ pc[r] = "auth"
    /\ TakeConnection(r, c)
    /\ Cached(Caller[r]) /\ clock + 1 = cache[Caller[r]].filled + Ttl
    /\ clock < LastTick
    /\ clock' = clock + 1
    /\ Answered(r, "error")
    /\ GoTo(r, "leave")
    /\ UNCHANGED <<tenantVars, cache, setting, broken, requestVars>>

\* The row of an active user and its grant, on a connection nothing was set on.
Query(r) ==
    /\ pc[r] = "query"
    /\ LET row == grant[Caller[r]]
       IN  found' = [found EXCEPT ![r] =
                        IF Visible(r, Org(r)) /\ row.tags # None
                        THEN row
                        ELSE None]
    /\ GoTo(r, "fill")
    /\ UNCHANGED <<tenantVars, clock, cache, setting, broken, route, held, scope,
                   created, retrieved, status>>

\* overtaken: the row has changed since it was read; late: and the cache evicted.
Entry(r) ==
    [tags |-> found[r].tags, version |-> found[r].version,
     overtaken |-> found[r].version # grant[Caller[r]].version,
     late |-> found[r].version < evicted[Caller[r]], filled |-> clock]

Fill(r) ==
    /\ pc[r] = "fill"
    /\ \/ /\ found[r] = None
          /\ Answered(r, "forbidden")
          /\ UNCHANGED <<cache, scope>>
       \/ /\ found[r] # None
          /\ cache' = [cache EXCEPT ![Caller[r]] = Entry(r)]
          /\ scope' = [scope EXCEPT ![r] = Served(Entry(r))]
          /\ UNCHANGED status
    /\ found' = [found EXCEPT ![r] = None]
    /\ GoTo(r, "leave")
    /\ UNCHANGED <<tenantVars, clock, setting, broken, route, held, created, retrieved>>

\* Mutated form: the connection of the lookup is kept for the route.
LeaveHolding(r) ==
    /\ pc[r] = "leave"
    /\ IF scope[r] = None THEN End(r) ELSE GoTo(r, "begin") /\ UNCHANGED requestVars
    /\ UNCHANGED <<tenantVars, clock, cache, status, held, setting, broken>>

Leave(r) ==
    /\ pc[r] = "leave"
    /\ ReturnConnection(r)
    /\ IF scope[r] = None THEN End(r) ELSE GoTo(r, "begin") /\ UNCHANGED requestVars
    /\ UNCHANGED <<tenantVars, clock, cache, status>>

\* Mutated form: the user id is taken for a key of the cache, and found nowhere.
EvictByKey(u, by) ==
    \/ /\ by = "subject" /\ Cached(u)
       /\ cache' = [cache EXCEPT ![u] = None]
    \/ /\ by = "user"
       /\ UNCHANGED cache
    \/ /\ by = "all" \/ (by = "subject" /\ ~ Cached(u))
       /\ cache' = [x \in Users |-> None]

\* By subject, if it is cached; else by user id, if one is given; else all.
Evict(u, by) ==
    \/ /\ by = "subject" /\ Cached(u)
       /\ cache' = [cache EXCEPT ![u] = None]
    \/ /\ by = "user"
       /\ cache' = [cache EXCEPT ![u] = None]
    \/ /\ by = "all" \/ (by = "subject" /\ ~ Cached(u))
       /\ cache' = [x \in Users |-> None]

\* invalidate_scope_cache.
Invalidate(u, by) ==
    /\ Evict(u, by)
    /\ evicted' = [evicted EXCEPT ![u] = grant[u].version]
    /\ UNCHANGED <<policed, grant, past, clock, owner, setting, broken, pc, held, route,
                   found, scope, created, retrieved, status>>

-----------------------------------------------------------------------------
(* tenant_transaction and the routes. *)

Begin(r, c) ==
    /\ pc[r] \in {"begin", "stream"}
    /\ TakeConnection(r, c)
    /\ setting' = [setting EXCEPT ![c] = Org(r)]
    /\ GoTo(r, IF pc[r] = "begin" THEN "work" ELSE "retrieve")
    /\ UNCHANGED <<tenantVars, clock, cache, broken, requestVars, status>>

\* Rows of conversations that r's user owns, as far as policies let r see them:
\* the statements themselves do not name the organization.
OwnConversations(r) ==
    {k \in Conversations :
        \E org \in Orgs :
            owner[k] = [user |-> Caller[r], org |-> org] /\ Visible(r, org)}

Work(r, name, label) ==
    /\ pc[r] = "work" /\ route[r] = name
    /\ GoTo(r, label)
    /\ UNCHANGED <<tenantVars, clock, cache, setting, broken, held, route, found, scope,
                   retrieved, status>>

\* A fresh id, and scope_version 1 whatever the version of the user is.
CreateConversation(r) ==
    /\ \E k \in Conversations :
        /\ owner[k] = None
        /\ \A q \in Requests : created[q] # k
        /\ created' = [created EXCEPT ![r] = k]
    /\ Work(r, "create", "commit")

ListConversations(r) == Work(r, "list", "commit") /\ UNCHANGED created

OpenConversation(r, name) ==
    /\ pc[r] = "work" /\ Targets[r] \cap OwnConversations(r) # {}
    /\ Work(r, name, "commit")
    /\ UNCHANGED created

GetConversation(r) == OpenConversation(r, "get")
CheckConversation(r) == OpenConversation(r, "send")

\* The exception rolls the transaction back.
Fail(r, outcome) ==
    /\ ReturnConnection(r)
    /\ Answered(r, outcome)
    /\ End(r)
    /\ UNCHANGED <<tenantVars, clock, cache>>

NotFound(r) ==
    /\ pc[r] = "work" /\ route[r] \in {"get", "send"}
    /\ ~ (Targets[r] \subseteq OwnConversations(r))
    /\ Fail(r, "notfound")

Commit(r) ==
    /\ pc[r] = "commit"
    /\ ReturnConnection(r)
    /\ owner' = [k \in Conversations |->
                    IF k = created[r] THEN [user |-> Caller[r], org |-> Org(r)]
                    ELSE owner[k]]
    /\ IF route[r] = "send"
       THEN GoTo(r, "stream") /\ UNCHANGED <<requestVars, status>>
       ELSE Answered(r, "done") /\ End(r)
    /\ UNCHANGED <<policed, grant, past, evicted, clock, cache>>

-----------------------------------------------------------------------------
(* Retrieval, inside the transaction of the stream. *)

\* The search parameters.  An error is swallowed, but not by the transaction.
Configure(r) ==
    /\ pc[r] = "retrieve"
    /\ \E fails \in {FALSE} \cup (IF "database" \in Faults THEN {TRUE} ELSE {}) :
            broken' = [broken EXCEPT ![held[r]] = fails]
    /\ GoTo(r, "search")
    /\ UNCHANGED <<tenantVars, clock, cache, setting, held, requestVars, status>>

\* can_access_chunk
CanAccess(org, tags, meta) ==
    /\ meta.org = org
    /\ meta.department = tags.department
    /\ meta.level <= tags.level

\* Mutated form: the predicate on the organization is left to the policies.
CandidatesOfAnyOrg(r) ==
    {x \in Chunks :
        /\ MetaOf[x].department = scope[r].tags.department
        /\ MetaOf[x].level <= scope[r].tags.level
        /\ Visible(r, MetaOf[x].org)}

\* The filter, compiled into the query, and the policies.
Candidates(r) ==
    {x \in Chunks :
        /\ MetaOf[x].org = Org(r)
        /\ MetaOf[x].department = scope[r].tags.department
        /\ MetaOf[x].level <= scope[r].tags.level
        /\ Visible(r, MetaOf[x].org)}

\* The index is approximate: a search may miss any row, also when there are less
\* than K.  What it returns carries the organization of the filter, not the row's.
Found(r) == {T \in SUBSET Candidates(r) : IsFiniteSet(T) /\ Cardinality(T) <= K}
MetaFound(r, x) == [MetaOf[x] EXCEPT !.org = Org(r)]

\* The reranking keeps the best.
Reranked(T) == {U \in SUBSET T : Cardinality(U) <= TopN /\ (T # {} /\ TopN > 0 => U # {})}

\* The gate over the chunks that are left, then the grounding threshold; what the
\* gate finds rolls back the transaction.
Search(r) ==
    /\ pc[r] = "search" /\ ~ broken[held[r]]
    /\ \E T \in Found(r) : \E top \in Reranked(T) :
        IF \A x \in top : CanAccess(Org(r), scope[r].tags, MetaFound(r, x))
        THEN /\ retrieved' = [retrieved EXCEPT ![r] = top]
             /\ \/ Answered(r, "refused")
                \/ top # {} /\ Answered(r, "answered")
             /\ GoTo(r, "answer")
             /\ UNCHANGED <<tenantVars, clock, cache, setting, broken, held, route,
                            found, scope, created>>
        ELSE Fail(r, "error")

\* A statement in a transaction that has failed, fails.
SearchFails(r) ==
    /\ pc[r] = "search" /\ broken[held[r]]
    /\ Fail(r, "error")

\* The answer is streamed and stored (module Conversation), and committed.
Finish(r) ==
    /\ pc[r] = "answer"
    /\ ReturnConnection(r)
    /\ End(r)
    /\ UNCHANGED <<tenantVars, clock, cache, status>>

-----------------------------------------------------------------------------
(* What goes wrong, and what changes outside. *)

\* A statement, a commit or the reranker fails.
DatabaseError(r) ==
    /\ "database" \in Faults
    /\ pc[r] \in {"query", "work", "commit", "search", "answer"}
    /\ Fail(r, "error")

\* pool_timeout runs out.
PoolTimeout(r) ==
    /\ "pool" \in Faults
    /\ pc[r] \in Waiting
    /\ \A c \in Connections : ~ Free(c)
    /\ Fail(r, "error")

\* The client of a stream hangs up: the generator is cancelled.
Disconnect(r) ==
    /\ "client" \in Faults
    /\ pc[r] \in {"stream", "retrieve", "search", "answer"}
    /\ Fail(r, "gone")

\* A grant is changed or withdrawn, and the version of its user counted up.
ChangeGrant(u) ==
    /\ grant[u].version < MaxVersion[u]
    /\ \E tags \in (Tags \cup {None}) \ {grant[u].tags} :
            grant' = [grant EXCEPT ![u] = [tags |-> tags, version |-> grant[u].version + 1]]
    /\ past' = [past EXCEPT ![u] = @ \cup
                    {[tags |-> grant[u].tags, version |-> grant[u].version, until |-> clock]}]
    /\ UNCHANGED <<policed, evicted, owner, clock, cache, setting, broken, pc, held,
                   requestVars, status>>

Tick ==
    /\ clock < LastTick
    /\ clock' = clock + 1
    /\ UNCHANGED <<tenantVars, cache, setting, broken, pc, held, requestVars, status>>

Serve(r) ==
    \/ \E c \in Connections : Lookup(r, c) \/ Begin(r, c)
    \/ Query(r)
    \/ Fill(r)
    \/ Leave(r)
    \/ CreateConversation(r)
    \/ ListConversations(r)
    \/ GetConversation(r)
    \/ CheckConversation(r)
    \/ NotFound(r)
    \/ Commit(r)
    \/ Configure(r)
    \/ Search(r)
    \/ SearchFails(r)
    \/ Finish(r)

Fault(r) ==
    \/ \E c \in Connections : LookupExpires(r, c)
    \/ DatabaseError(r)
    \/ PoolTimeout(r)
    \/ Disconnect(r)

Next ==
    \/ \E r \in Requests : Arrive(r) \/ Serve(r) \/ Fault(r)
    \/ \E u \in Users : ChangeGrant(u) \/ \E by \in {"subject", "user", "all"} : Invalidate(u, by)
    \/ Tick

Spec == Init /\ [][Next]_vars

\* The event loop resumes a handler whose await has returned, and the pool hands a
\* free connection to one that waits; pool_timeout is not relied on.
FairSpec == Spec /\ \A r \in Requests : WF_vars(Serve(r))

-----------------------------------------------------------------------------
(* What the requests are promised. *)

\* The values the variables range over.
TypeOK ==
    /\ policed \in BOOLEAN
    /\ grant \in [Users -> [tags : Tags \cup {None}, version : Nat]]
    /\ past \in [Users -> SUBSET PastRow]
    /\ clock \in Nat
    /\ cache \in [Users -> FilledRow \cup {None}]
    /\ evicted \in [Users -> Nat]
    /\ owner \in [Conversations -> Ownership \cup {None}]
    /\ setting \in [Connections -> Orgs \cup {None}]
    /\ broken \in [Connections -> BOOLEAN]
    /\ pc \in [Requests -> {"idle", "ended"} \cup Waiting \cup Holding]
    /\ route \in [Requests -> RouteNames \cup {None}]
    /\ held \in [Requests -> Connections \cup {None}]
    /\ found \in [Requests -> Row \cup {None}]
    /\ scope \in [Requests -> ServedRow \cup {None}]
    /\ created \in [Requests -> Conversations \cup {None}]
    /\ retrieved \in [Requests -> SUBSET Chunks]
    /\ status \in [Requests -> Outcomes \cup {None}]

\* A connection serves one request at a time, one that is at a step that needs it.
ConnectionsAreOwned ==
    /\ \A r \in Requests : held[r] # None <=> pc[r] \in Holding
    /\ \A r, q \in Requests : held[r] = held[q] /\ held[r] # None => r = q

\* The pool hands out connections that carry no tenant and no failed transaction;
\* the statements of a route run under the tenant of their caller, the lookup of a
\* scope under none.  (session.py: "the connection is returned to the pool with NO
\* residual veydus.org_id")
PoolIsClean ==
    /\ ConnectionsAreOwned
    /\ \A c \in Connections : Free(c) => setting[c] = None /\ ~ broken[c]
    /\ \A r \in Requests :
        /\ pc[r] \in TenantSteps => setting[held[r]] = Org(r)
        /\ pc[r] \in LookupSteps => setting[held[r]] = None /\ ~ broken[held[r]]

\* A token gets the scope its user's row gives now, or one given up less than Ttl
\* before it was served; but a row given up between the lookup that read it and the
\* cache it was put into counts from then.  (ADR: a 30-second cache of scopes)
ScopeIsRecent ==
    \A r \in Requests : Credential[r] = "bearer" /\ scope[r] # None =>
        LET u == Caller[r]
            SameRow(row) == scope[r].tags = row.tags /\ scope[r].version = row.version
        IN  \/ SameRow(grant[u])
            \/ \E p \in past[u] :
                    /\ SameRow(p)
                    /\ \/ scope[r].served < p.until + Ttl
                       \/ scope[r].overtaken /\ scope[r].served < scope[r].filled + Ttl

\* No row older than an eviction, and in the cache by then, is left there by it: such
\* a row is in the cache only if a lookup put it there later, which had read it before
\* the change.  (scope.py: "Called immediately when an access grant or user status
\* changes")
EvictionHolds ==
    \A u \in Users :
        cache[u] # None /\ cache[u].version < evicted[u] => cache[u].late

Permitted(r) == {x \in Chunks : CanAccess(Org(r), scope[r].tags, MetaOf[x])}

\* An answer rests on chunks that are its caller's by their own rows.  Their
\* organization the gate cannot see, and in a role without policies the database does
\* not look at; a header names one that the caller's user may not be of.  A refusal
\* comes from a search that ran, never from one that failed.
RetrievalIsPermitted ==
    \A r \in Requests : pc[r] = "answer" =>
        /\ retrieved[r] \subseteq Permitted(r)
        /\ ~ broken[held[r]]
        /\ status[r] \in {"answered", "refused"}
        /\ status[r] = "answered" => retrieved[r] # {}

\* Every request ends, pool_timeout or not: none keeps a connection while it waits
\* for one, though a request takes up to three in a row.
RequestsEnd == []<>(\A r \in Requests : pc[r] \in {"idle", "ended"})

\* "Raised when an idp_subject has no active user account or access grant."
\* (scope.py:41), as long as no grant changes.
BearerIsAdmitted ==
    \A r \in Requests :
        status[r] = "forbidden" /\ past[Caller[r]] = {} => grant[Caller[r]].tags = None
-----------------------------------------------------------------------------
(* Why the invariants hold: the inductive one. *)

\* row is the row of u, or one u gave up at time from or later.
Granted(u, row, from) ==
    /\ row.version <= grant[u].version
    /\ row.version = grant[u].version => row.tags = grant[u].tags
    /\ row.version # grant[u].version =>
        \E p \in past[u] :
            p.version = row.version /\ p.tags = row.tags /\ from <= p.until

Since(entry) == IF entry.overtaken THEN 0 ELSE entry.filled

FoundWasGranted ==
    \A r \in Requests : found[r] # None => Granted(Caller[r], found[r], 0)

CachedWasGranted ==
    \A u \in Users : cache[u] # None =>
        cache[u].filled <= clock /\ Granted(u, cache[u], Since(cache[u]))

ServedWasGranted ==
    \A r \in Requests : Credential[r] = "bearer" /\ scope[r] # None =>
        /\ scope[r].filled <= clock
        /\ scope[r].served < scope[r].filled + Ttl
        /\ Granted(Caller[r], scope[r], Since(scope[r]))

\* Past the lookup, a request has a scope.
ScopeIsKnown ==
    \A r \in Requests :
        pc[r] \in {"begin", "stream"} \cup TenantSteps => scope[r] # None

\* The inductive invariant.
IInv ==
    /\ TypeOK
    /\ PoolIsClean
    /\ ScopeIsKnown
    /\ FoundWasGranted
    /\ CachedWasGranted
    /\ ServedWasGranted
    /\ EvictionHolds
    /\ RetrievalIsPermitted
==============================================================================
