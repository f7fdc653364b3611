---------------------------- MODULE MCConversation ----------------------------
(***************************************************************************)
(* Small instances of Conversation for TLC: one conversation of one user,  *)
(* whose queries cost one token and whose answers cost two, but those of   *)
(* r2, which costs eight, and of r3, which is empty.                       *)
(***************************************************************************)
EXTENDS Conversation

CONSTANTS c1, u1, r1, r2, r3, r4

MCOwner == [c \in Conversations |-> u1]
MCSender == [r \in Requests |-> u1]
MCTarget == [r \in Requests |-> c1]
MCTokens ==
    [role \in Roles |->
        [r \in Requests |-> CASE role = "user" -> 1
                              [] role = "assistant" /\ r = r2 -> 8
                              [] role = "assistant" /\ r = r3 -> 0
                              [] OTHER -> 2]]
==============================================================================
