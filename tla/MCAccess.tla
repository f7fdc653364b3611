------------------------------- MODULE MCAccess -------------------------------
(***************************************************************************)
(* Small instances of Access for TLC: two organizations with a user each,  *)
(* the same departments in both, and chunks of all combinations that the   *)
(* predicate tells apart.  Two requests have a token of u1; the third has  *)
(* headers that name u1 and the other organization, in which u1 began c1.  *)
(***************************************************************************)
EXTENDS Access

CONSTANTS u1, u2, acme, other, finance, legal, c1, c2, k1, k2,
          r1, r2, r3

MCOrgOf == [u \in Users |-> IF u = u1 THEN acme ELSE other]
MCTags ==
    {[department |-> finance, level |-> 1], [department |-> finance, level |-> 2]}
MCFirstTags == [u \in Users |-> [department |-> finance, level |-> 1]]
MCFirstOwner ==
    [k \in Conversations |-> IF k = c1 THEN [user |-> u1, org |-> other] ELSE None]
MCMeta ==
    [org : {acme, other}, department : {finance}, level : {1, 2}]
        \cup {[org |-> acme, department |-> legal, level |-> 1]}
MCMetaOf == [x \in MCMeta |-> x]
MCCaller == [r \in Requests |-> u1]
MCCredential == [r \in Requests |-> IF r = r3 THEN "headers" ELSE "bearer"]
MCHeaderOrg == [r \in Requests |-> other]
MCHeaderTags == [r \in Requests |-> [department |-> finance, level |-> 1]]
MCRoutes ==
    [r \in Requests |-> CASE r = r1 -> {"send"}
                          [] r = r2 -> {"create"}
                          [] r = r3 -> {"get", "list", "send"}]
\* Only the grant of u1 changes, once.
MCMaxVersion == [u \in Users |-> IF u = u1 THEN 2 ELSE 1]
MCNoChange == [u \in Users |-> 1]
\* c2 is the conversation r2 may create; r3 asks for either.
MCTargets == [r \in Requests |-> IF r = r3 THEN {c1, c2} ELSE {c1}]
==============================================================================
