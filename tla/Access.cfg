\* Two users of two organizations, three requests and one connection; one grant
\* changes once, and a cached scope lasts for two ticks.
SPECIFICATION FairSpec
CONSTANTS
    u1 = u1  u2 = u2
    acme = acme  other = other
    finance = finance  legal = legal
    c1 = c1  c2 = c2  k1 = k1  k2 = k2
    r1 = r1  r2 = r2  r3 = r3
    None = None
    Users = {u1, u2}
    OrgOf <- MCOrgOf
    Tags <- MCTags
    FirstTags <- MCFirstTags
    Conversations = {c1, c2}
    FirstOwner <- MCFirstOwner
    Chunks <- MCMeta
    MetaOf <- MCMetaOf
    Requests = {r1, r2, r3}
    Caller <- MCCaller
    Credential <- MCCredential
    HeaderOrg <- MCHeaderOrg
    HeaderTags <- MCHeaderTags
    Routes <- MCRoutes
    Targets <- MCTargets
    Connections = {k1}
    K = 2
    TopN = 1
    Ttl = 2
    LastTick = 2
    MaxVersion <- MCMaxVersion
    Faults = {"database", "client", "pool"}
INVARIANTS
    IInv
    PoolIsClean
    ScopeIsRecent
    EvictionHolds
    RetrievalIsPermitted
PROPERTIES
    RequestsEnd
CHECK_DEADLOCK FALSE
