----------------------------- MODULE MCIngestion -----------------------------
(***************************************************************************)
(* Small instances of Ingestion for TLC.  A configuration picks the tasks, *)
(* the placement of the request slots and the faults; the tables below say *)
(* what each task asks for.                                                *)
(***************************************************************************)
EXTENDS Ingestion

CONSTANTS s1, empty, small, half, big, mixed, fileA, fileB, finance, legal,
          i1, i2, w1, w2, up1, up2, up3, del1

\* up1 and up2 upload different files, up3 repeats the upload of up1.
MCContentOf ==
    [t \in IngestTasks |-> CASE t = up2 -> big [] OTHER -> small]
MCSourceOf == [t \in IngestTasks \cup DeleteTasks |-> s1]
\* Both uploads under one name: a new version of the same file.
MCSameName == [t \in IngestTasks |-> fileA]
MCOwnName == [t \in IngestTasks |-> IF t = up2 THEN fileB ELSE fileA]
MCNoDept == [t \in IngestTasks |-> None]
MCOtherDept == [t \in IngestTasks |-> IF t = up1 THEN legal ELSE None]
MCRequestLevel == [t \in IngestTasks |-> 1]
MCFirstAccess == [s \in Sources |-> [dept |-> finance, level |-> 2]]
\* An administrator moves the source, once.
MCLaterAccess == [s \in Sources |-> {[dept |-> legal, level |-> 3]}]
MCNoLaterAccess == [s \in Sources |-> {}]
MCChunkCount ==
    [c \in Contents |-> CASE c = empty -> 0 [] c = big -> 3 [] c = small -> 2 [] OTHER -> 1]
\* half is what a reader gets of big while it is written to a new file; one
\* upload over a longer one, and any over another while it is written, is mixed.
MCLength ==
    [c \in Contents |-> CASE c = empty -> 0 [] c = half -> 1 [] c = small -> 2 [] OTHER -> 3]
MCOverwritten ==
    [c \in Contents \X Contents |->
        IF MCLength[c[1]] <= MCLength[c[2]] THEN c[2] ELSE mixed]
MCBlends ==
    [c \in Contents \X Contents |->
        CASE c = <<empty, big>> -> {half}
          [] c[1] \in {empty, c[2]} -> {}
          [] OTHER -> {mixed}]
MCOneHost == [w \in Workers |-> i1]
MCTwoHosts == [w \in Workers |-> IF w = w1 THEN i1 ELSE i2]
==============================================================================
