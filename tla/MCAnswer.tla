------------------------------- MODULE MCAnswer -------------------------------
(***************************************************************************)
(* A small instance of Answer for TLC: people, PAN cards, and telephone    *)
(* numbers that run into an Aadhaar number or follow a PAN without a       *)
(* space; a chunk that shares a person with the query's placeholder, one   *)
(* that does not, a title with a person's name; replies with split and     *)
(* unknown placeholders, breaks, and markers of chunks there are not.      *)
(***************************************************************************)
EXTENDS Answer

Person == [tag |-> "PERSON", score |-> 85]
Pan == [tag |-> "PAN", score |-> 95]
Aadhaar == [tag |-> "AADHAAR", score |-> 85]
Phone == [tag |-> "PHONE_NUMBER", score |-> 40]

MCRecognizers == {Person, Pan, Aadhaar, Phone}
MCPatterns == <<Aadhaar, Pan, Phone>>

\* What each of them reads; the number that begins with 415 is written without a space
\* before it, so that a PAN there has no \b at its end, which PHONE_NUMBER does not ask for.
Numbers == {<<"2345", "6789", "0123">>, <<"3456", "7890", "1234">>}
Reads(r) ==
    CASE r = Person -> {<<"asha">>, <<"ravi">>, <<"asha", "rao">>}
      [] r = Pan -> {<<"ABCDE1234F">>}
      [] r = Aadhaar -> Numbers
      [] r = Phone -> {<<"98", "2345", "6789">>, <<"4155550199">>} \cup Numbers

WhatIsRead == [r \in {Person, Pan, Aadhaar, Phone} |-> {Words(ws) : ws \in Reads(r)}]

EndsInside(text, j) == j < Len(text) /\ text[j + 1] = Word("4155550199")

MCMatches(r, text, i, j) ==
    j - i < 3 /\ SubSeq(text, i, j) \in WhatIsRead[r] /\ ~ EndsInside(text, j)

Standalone == Words(<<"tell", "asha", "rao", "ABCDE1234F", "4155550199">>)
FollowUp == Words(<<"98", "2345", "6789", "0123", "ABCDE1234F">>)
MCQueries == {Standalone, FollowUp}
MCSelfContained == {Standalone}
MCHistories == {<<>>, Words(<<"tell", "ravi">>)}
MCRewrites == {<<>>, Words(<<"ravi", "asha">>)}
MCChunks ==
    {[id |-> 1, similarity |-> 90, title |-> Words(<<"memo">>),
      text |-> Words(<<"ravi", "asha">>)],
     [id |-> 2, similarity |-> 60, title |-> Words(<<"ravi">>),
      text |-> Words(<<"2345", "6789", "0123", "3456", "7890", "1234">>)],
     [id |-> 3, similarity |-> 20, title |-> Words(<<"memo">>),
      text |-> <<Word("tell"), Break, Placeholder("PERSON", 1)>>]}
Split == Placeholder("PERSON", 2)
MCTokens ==
    {<<Word("tell"), Placeholder("PERSON", 1)>>, <<HeadOf(Split)>>, <<TailOf(Split), Break>>,
     <<Marker(1)>>, <<Marker(2), Placeholder("AADHAAR", 2), Marker(9)>>}
MCRefusal == Words(<<"sorry">>)
================================================================================
