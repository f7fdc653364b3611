----------------------------- MODULE SourceIndex -----------------------------
(***************************************************************************)
(* What ingestion and deletion promise to retrieval.  The index of a       *)
(* source is a set of whole documents: a document appears in one step with *)
(* all of its chunks and never changes, and purging the source removes     *)
(* everything in one step, after which nothing of it ever comes back.      *)
(***************************************************************************)
CONSTANT Sources

VARIABLES
    live,   \* the sources that have not been purged
    index   \* source -> its documents, as records [id, chunks]

vars == <<live, index>>

Init ==
    /\ live = Sources
    /\ index = [s \in Sources |-> {}]

\* All chunks of a document belong to the source and agree on their tags.
Labelled(s, d) ==
    \A c \in d.chunks :
        /\ c.source = s
        /\ \A e \in d.chunks : e.tag = c.tag

Publish(s, d) ==
    /\ s \in live
    /\ Labelled(s, d)
    /\ \A e \in index[s] : e.id # d.id
    /\ index' = [index EXCEPT ![s] = @ \cup {d}]
    /\ UNCHANGED live

Purge(s) ==
    /\ live' = live \ {s}
    /\ index' = [index EXCEPT ![s] = {}]

\* Which documents there can be is left open: d is the one the step adds.
Next ==
    \E s \in Sources :
        \/ \E d \in index'[s] : Publish(s, d)
        \/ Purge(s)

Spec == Init /\ [][Next]_vars
==============================================================================
