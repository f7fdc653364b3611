\* One request with a token of a user whose grant stands, in both roles the
\* application may have in the database.
SPECIFICATION Spec
CONSTANTS
    u1 = u1  u2 = u2
    acme = acme  other = other
    finance = finance  legal = legal
    c1 = c1  c2 = c2  k1 = k1  k2 = k2
    r1 = r1  r2 = r2  r3 = r3
    None = None
    Users = {u1, u2}
    OrgOf <- MCOrgOf
    Tags <- MCTags
    FirstTags <- MCFirstTags
    Conversations = {c1, c2}
    FirstOwner <- MCFirstOwner
    Chunks <- MCMeta
    MetaOf <- MCMetaOf
    Requests = {r1}
    Caller <- MCCaller
    Credential <- MCCredential
    HeaderOrg <- MCHeaderOrg
    HeaderTags <- MCHeaderTags
    Routes <- MCRoutes
    Targets <- MCTargets
    Connections = {k1}
    K = 2
    TopN = 1
    Ttl = 2
    LastTick = 2
    MaxVersion <- MCNoChange
    Faults = {}
INVARIANTS
    BearerIsAdmitted
CHECK_DEADLOCK FALSE
