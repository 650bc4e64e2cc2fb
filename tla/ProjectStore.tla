---------------------------- MODULE ProjectStore ----------------------------
(***************************************************************************)
(* What FilesystemProjectRepository promises of the file of one project,   *)
(* without saying how: a log of whole documents of which the last is the   *)
(* one that get returns.  A call that returned without an error has made   *)
(* its document, and with it everything before, safe from a crash; a crash *)
(* may take back documents that are not yet safe, newest first.            *)
(***************************************************************************)
EXTENDS Naturals, Sequences

CONSTANTS Documents

VARIABLES
    log,            \* the documents published and not taken back, oldest first
    safe,           \* how many of them a crash cannot take back
    acknowledged    \* the documents whose call has returned without an error

vars == <<log, safe, acknowledged>>

Init == log = <<>> /\ safe = 0 /\ acknowledged = {}

Publish(document) ==
    /\ log' = Append(log, document)
    /\ UNCHANGED <<safe, acknowledged>>

\* create publishes only the first document of a project, save never does.
Create(document) == log = <<>> /\ Publish(document)
Save(document) == log # <<>> /\ Publish(document)

Acknowledge(document) ==
    /\ \E i \in 1..Len(log) : log[i] = document
    /\ safe' = Len(log)
    /\ acknowledged' = acknowledged \cup {document}
    /\ UNCHANGED log

Crash ==
    /\ \E kept \in safe..Len(log) : log' = SubSeq(log, 1, kept) /\ safe' = kept
    /\ UNCHANGED acknowledged

Next ==
    \/ \E document \in Documents : Create(document) \/ Save(document) \/ Acknowledge(document)
    \/ Crash

Spec == Init /\ [][Next]_vars
=============================================================================
