----------------------------- MODULE Repository -----------------------------
(***************************************************************************)
(* FilesystemProjectRepository.create and save, system call by system      *)
(* call, for the file <project_id>.json of one project.  Writers are the   *)
(* threads or processes that share the repository directory: there is no   *)
(* lock.  Any call may fail with an OSError, and the machine may crash     *)
(* between any two calls.                                                  *)
(*                                                                         *)
(* File system (external): a name that was linked or renamed is seen by    *)
(* everyone at once but survives a crash only after an fsync of the        *)
(* directory; the bytes of a file survive only after an fsync of the file. *)
(*                                                                         *)
(* Every write makes one new inode, numbered in order; the document a call *)
(* writes is told apart by its inode.  get and list_statuses open the file *)
(* once and read that inode to its end, so a reader is whoever looks at    *)
(* "entry" and at the data behind it.                                      *)
(*                                                                         *)
(* Operators headed "Fault" are not part of the model: README, "Faults".   *)
(***************************************************************************)
EXTENDS Integers, Sequences, FiniteSets

CONSTANTS
    Writers,
    MaxInodes,      \* bound: number of temporary files made
    NoFile

ASSUME RepositoryAssumption ==
    /\ MaxInodes \in Nat \ {0}
    /\ NoFile \notin 1..MaxInodes

Inodes == 1..MaxInodes

VARIABLES
    entry,          \* the inode that <project_id>.json names, or NoFile
    recoverable,    \* what that name may be after a crash
    data,           \* inode -> "unused", "empty", "buffered", "flushed" or "torn"
    temps,          \* inodes that have a temporary name
    pc,             \* writer -> its next system call
    exclusive,      \* writer -> TRUE in create, FALSE in save
    inode,          \* writer -> the inode of its temporary file
    history,        \* (history) inodes published and not taken back by a crash
    acknowledged,   \* (history) inodes whose call returned without an error
    orphans         \* (history) temporary files a crash or a refused unlink left

files == <<entry, recoverable, data, temps>>
calls == <<pc, exclusive, inode>>
vars == <<files, calls, history, acknowledged, orphans>>

Calls == {"idle", "mkstemp", "write", "fsync", "publish", "unlink", "fsync-dir", "cleanup"}

Init ==
    /\ entry = NoFile
    /\ recoverable = {NoFile}
    /\ data = [n \in Inodes |-> "unused"]
    /\ temps = {}
    /\ pc = [w \in Writers |-> "idle"]
    /\ exclusive = [w \in Writers |-> FALSE]
    /\ inode = [w \in Writers |-> NoFile]
    /\ history = <<>>
    /\ acknowledged = {}
    /\ orphans = {}

-----------------------------------------------------------------------------
Goto(w, call) == pc' = [pc EXCEPT ![w] = call]

\* Room is the bound: a call begins if there is a temporary file left for it.
Room ==
    Cardinality({v \in Writers : pc[v] = "mkstemp"}) < Cardinality({n \in Inodes : data[n] = "unused"})

\* create: path.exists() must be false; save: path.is_file() must be true.
\* Otherwise the call raises before it has touched anything.
Begin(w) ==
    /\ pc[w] = "idle" /\ Room
    /\ exclusive' = [exclusive EXCEPT ![w] = (entry = NoFile)]
    /\ Goto(w, "mkstemp")
    /\ UNCHANGED <<files, inode, history, acknowledged, orphans>>

MakeTemporary(w) ==
    /\ pc[w] = "mkstemp"
    /\ \E n \in Inodes :
        /\ data[n] = "unused" /\ \A m \in 1..(n - 1) : data[m] # "unused"
        /\ data' = [data EXCEPT ![n] = "empty"]
        /\ temps' = temps \cup {n}
        /\ inode' = [inode EXCEPT ![w] = n]
    /\ Goto(w, "write")
    /\ UNCHANGED <<entry, recoverable, exclusive, history, acknowledged, orphans>>

\* Fault: no os.fsync of the file before it is published.
WriteUnflushed(w) ==
    /\ pc[w] = "write"
    /\ data' = [data EXCEPT ![inode[w]] = "buffered"]
    /\ Goto(w, "publish")
    /\ UNCHANGED <<entry, recoverable, temps, exclusive, inode, history, acknowledged, orphans>>

Write(w) ==
    /\ pc[w] = "write"
    /\ data' = [data EXCEPT ![inode[w]] = "buffered"]
    /\ Goto(w, "fsync")
    /\ UNCHANGED <<entry, recoverable, temps, exclusive, inode, history, acknowledged, orphans>>

SyncFile(w) ==
    /\ pc[w] = "fsync"
    /\ data' = [data EXCEPT ![inode[w]] = "flushed"]
    /\ Goto(w, "publish")
    /\ UNCHANGED <<entry, recoverable, temps, exclusive, inode, history, acknowledged, orphans>>

Publish(w) ==
    /\ entry' = inode[w]
    /\ recoverable' = recoverable \cup {inode[w]}
    /\ history' = Append(history, inode[w])

\* save: os.replace takes the temporary name away in the same step.
Replace(w) ==
    /\ pc[w] = "publish" /\ ~exclusive[w]
    /\ Publish(w)
    /\ temps' = temps \ {inode[w]}
    /\ Goto(w, "fsync-dir")
    /\ UNCHANGED <<data, exclusive, inode, acknowledged, orphans>>

\* Fault: create publishes with a rename, as save does.
LinkOverwriting(w) ==
    /\ pc[w] = "publish" /\ exclusive[w]
    /\ Publish(w)
    /\ Goto(w, "unlink")
    /\ UNCHANGED <<data, temps, exclusive, inode, acknowledged, orphans>>

\* Fault: create tries again until the name is free.
LinkRetrying(w) ==
    /\ pc[w] = "publish" /\ exclusive[w]
    /\ entry = NoFile
    /\ Publish(w)
    /\ Goto(w, "unlink")
    /\ UNCHANGED <<data, temps, exclusive, inode, acknowledged, orphans>>

\* create: os.link fails with FileExistsError if the name has appeared since.
Link(w) ==
    /\ pc[w] = "publish" /\ exclusive[w]
    /\ \/ /\ entry = NoFile
          /\ Publish(w)
          /\ Goto(w, "unlink")
       \/ /\ entry # NoFile
          /\ Goto(w, "cleanup")
          /\ UNCHANGED <<entry, recoverable, history>>
    /\ UNCHANGED <<data, temps, exclusive, inode, acknowledged, orphans>>

UnlinkTemporary(w) ==
    /\ pc[w] = "unlink"
    /\ temps' = temps \ {inode[w]}
    /\ Goto(w, "fsync-dir")
    /\ UNCHANGED <<entry, recoverable, data, exclusive, inode, history, acknowledged, orphans>>

\* Fault: the call returns without an fsync of the directory.
AcknowledgeUnsynced(w) ==
    /\ pc[w] = "fsync-dir"
    /\ acknowledged' = acknowledged \cup {inode[w]}
    /\ inode' = [inode EXCEPT ![w] = NoFile]
    /\ Goto(w, "idle")
    /\ UNCHANGED <<files, exclusive, history, orphans>>

\* The directory fsync makes every earlier link and rename durable, whoever
\* made it; then the call returns.
SyncDirectory(w) ==
    /\ pc[w] = "fsync-dir"
    /\ recoverable' = {entry}
    /\ acknowledged' = acknowledged \cup {inode[w]}
    /\ inode' = [inode EXCEPT ![w] = NoFile]
    /\ Goto(w, "idle")
    /\ UNCHANGED <<entry, data, temps, exclusive, history, orphans>>

\* An OSError from any call inside the try block; mkstemp is outside of it.
Fail(w) ==
    /\ pc[w] \in {"mkstemp", "write", "fsync", "publish", "unlink", "fsync-dir"}
    /\ Goto(w, IF pc[w] = "mkstemp" THEN "idle" ELSE "cleanup")
    /\ UNCHANGED <<files, exclusive, inode, history, acknowledged, orphans>>

\* Fault: the error is raised and the temporary file stays.
RaiseOnly(w) ==
    /\ pc[w] = "cleanup"
    /\ inode' = [inode EXCEPT ![w] = NoFile]
    /\ Goto(w, "idle")
    /\ UNCHANGED <<files, exclusive, history, acknowledged, orphans>>

\* except BaseException: unlink the temporary name if it is still there, and
\* raise.  Should this unlink be refused too, the file stays.
CleanUp(w) ==
    /\ pc[w] = "cleanup"
    /\ \/ temps' = temps \ {inode[w]} /\ UNCHANGED orphans
       \/ orphans' = orphans \cup (temps \cap {inode[w]}) /\ UNCHANGED temps
    /\ inode' = [inode EXCEPT ![w] = NoFile]
    /\ Goto(w, "idle")
    /\ UNCHANGED <<entry, recoverable, data, exclusive, history, acknowledged>>

-----------------------------------------------------------------------------
\* What the name is when the first n published documents are there.
Newest(n) == IF n = 0 THEN NoFile ELSE history[n]

\* The machine stops; every writer is gone, and starts again idle.
Crash ==
    /\ \E kept \in 0..Len(history), left \in SUBSET temps :
        /\ Newest(kept) \in recoverable
        /\ entry' = Newest(kept)
        /\ recoverable' = {Newest(kept)}
        /\ history' = SubSeq(history, 1, kept)
        /\ temps' = left
        /\ orphans' = left
    /\ data' = [n \in Inodes |-> IF data[n] \in {"empty", "buffered"} THEN "torn" ELSE data[n]]
    /\ pc' = [w \in Writers |-> "idle"]
    /\ inode' = [w \in Writers |-> NoFile]
    /\ UNCHANGED <<exclusive, acknowledged>>

Step(w) ==
    \/ MakeTemporary(w)
    \/ Write(w)
    \/ SyncFile(w)
    \/ Replace(w)
    \/ Link(w)
    \/ UnlinkTemporary(w)
    \/ SyncDirectory(w)
    \/ CleanUp(w)

Next ==
    \/ \E w \in Writers : Begin(w) \/ Step(w) \/ Fail(w)
    \/ Crash

Spec == Init /\ [][Next]_vars

\* A call in progress goes on: nothing in save waits for anyone.
FairSpec == Spec /\ \A w \in Writers : WF_vars(Step(w))

-----------------------------------------------------------------------------
TypeOK ==
    /\ entry \in Inodes \cup {NoFile}
    /\ recoverable \subseteq Inodes \cup {NoFile}
    /\ data \in [Inodes -> {"unused", "empty", "buffered", "flushed", "torn"}]
    /\ temps \subseteq Inodes
    /\ pc \in [Writers -> Calls]
    /\ exclusive \in [Writers -> BOOLEAN]
    /\ inode \in [Writers -> Inodes \cup {NoFile}]
    /\ history \in Seq(Inodes)
    /\ acknowledged \subseteq Inodes
    /\ orphans \subseteq Inodes

\* A reader never meets an empty, partial or torn document under the project's
\* name: not between the calls of a writer, and not after a crash at any point.
ReadersSeeWholeDocuments ==
    \A n \in recoverable \cup {entry} : n # NoFile => data[n] = "flushed"

\* Temporary files are left behind only by a crash or by a file system that
\* refuses to unlink: every other way out of save, through an error at any
\* call, removes the one it made (list_statuses skips what does remain).
TemporariesAreCleanedUp ==
    temps \subseteq orphans \cup {inode[w] : w \in Writers}

\* A create that races another never overwrites: once the project exists only
\* saves change it, and concurrent creators other than one raise.
CreateNeverOverwrites ==
    [][\A w \in Writers :
        entry # NoFile /\ entry' # entry /\ entry' = inode[w] /\ pc[w] = "publish" => ~exclusive[w]]_vars

\* No writer waits on another: every call comes to an end, also that of a
\* creator that loses the race, if its own system calls do.
CallsEnd == \A w \in Writers : pc[w] # "idle" ~> pc[w] = "idle"

-----------------------------------------------------------------------------
Store == INSTANCE ProjectStore WITH
    Documents <- Inodes,
    log <- history,
    safe <- Len(history) + 1 - Cardinality(recoverable)

\* The system calls implement the promised store: publishing is one step, an
\* acknowledged document is safe with all before it, and a crash takes back
\* unacknowledged documents only, newest first.
StoreSpec == Store!Spec
=============================================================================
