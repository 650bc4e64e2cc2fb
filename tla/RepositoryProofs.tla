--------------------------- MODULE RepositoryProofs ---------------------------
(***************************************************************************)
(* Proofs about Repository, for any number of writers and files: readers   *)
(* see whole documents, temporary files are cleaned up, creators do not    *)
(* overwrite, and the system calls implement ProjectStore.                 *)
(***************************************************************************)
EXTENDS Repository, SequenceTheorems, FiniteSetTheorems, TLAPS

USE RepositoryAssumption DEF Inodes

-----------------------------------------------------------------------------
(* The inductive invariant. *)

\* What a writer between two calls knows of its temporary file.
Owned ==
    \A w \in Writers :
        /\ pc[w] \in {"idle", "mkstemp"} => inode[w] = NoFile
        /\ pc[w] \notin {"idle", "mkstemp"} => inode[w] \in Inodes /\ data[inode[w]] # "unused"
        /\ pc[w] = "write" => data[inode[w]] = "empty"
        /\ pc[w] = "fsync" => data[inode[w]] = "buffered"
        /\ pc[w] \in {"publish", "unlink", "fsync-dir"} => data[inode[w]] = "flushed"
        /\ pc[w] = "fsync-dir" => inode[w] \notin temps

\* No two writers have one temporary file.
Distinct ==
    \A v, w \in Writers : inode[v] = inode[w] /\ inode[v] # NoFile => v = w

Published == {history[i] : i \in 1..Len(history)}

\* A document is published once, whole, after its bytes were synced.
PublishedOnce ==
    /\ \A i, j \in 1..Len(history) : history[i] = history[j] => i = j
    /\ \A i \in 1..Len(history) : data[history[i]] = "flushed"
    /\ \A w \in Writers :
         /\ pc[w] \in {"write", "fsync", "publish"} => inode[w] \notin Published
         /\ pc[w] \in {"unlink", "fsync-dir"} => inode[w] \in Published
         /\ pc[w] # "idle" /\ ~exclusive[w] => history # <<>>

\* A crash takes back the newest documents, from some place on.
CrashTakesNewest ==
    /\ entry = Newest(Len(history))
    /\ \E safe \in 0..Len(history) : recoverable = {Newest(i) : i \in safe..Len(history)}

IInv ==
    /\ TypeOK
    /\ Owned
    /\ Distinct
    /\ PublishedOnce
    /\ CrashTakesNewest
    /\ TemporariesAreCleanedUp

-----------------------------------------------------------------------------
(* The parts of the invariant, step by step. *)

\* Steps that publish nothing leave the log of documents as it is.
LEMMA LogUnchanged ==
    ASSUME CrashTakesNewest, UNCHANGED <<entry, recoverable, history>>
    PROVE  CrashTakesNewest'
  BY DEF CrashTakesNewest, Newest

\* A writer that begins has no file yet.
LEMMA BeginStep ==
    ASSUME IInv, NEW w \in Writers, Begin(w)
    PROVE  IInv'
  <1> USE DEF IInv, Begin, Goto, files
  <1>1. TypeOK'
    BY DEF TypeOK, Calls
  <1>2. Owned'
    BY DEF TypeOK, Owned
  <1>3. Distinct'
    BY DEF Distinct
  <1>4. PublishedOnce'
    <2>1. entry = NoFile \/ history # <<>>
      BY DEF CrashTakesNewest, Newest, TypeOK
    <2>2. /\ \A v \in Writers : v # w => pc'[v] = pc[v] /\ exclusive'[v] = exclusive[v]
          /\ pc'[w] = "mkstemp" /\ (entry = NoFile => exclusive'[w])
          /\ UNCHANGED <<history, data, inode>>
      BY DEF TypeOK
    <2> QED  BY <2>1, <2>2 DEF PublishedOnce, Published
  <1>5. CrashTakesNewest'
    BY LogUnchanged
  <1>6. TemporariesAreCleanedUp'
    BY DEF TemporariesAreCleanedUp
  <1> QED  BY <1>1, <1>2, <1>3, <1>4, <1>5, <1>6

\* The file a writer makes was nobody's, and is not published.
LEMMA MakeTemporaryStep ==
    ASSUME IInv, NEW w \in Writers, MakeTemporary(w)
    PROVE  IInv'
  <1> USE DEF IInv
  <1>1. PICK n \in Inodes :
          /\ data[n] = "unused"
          /\ data' = [data EXCEPT ![n] = "empty"]
          /\ temps' = temps \cup {n}
          /\ inode' = [inode EXCEPT ![w] = n]
    BY DEF MakeTemporary
  <1>2. /\ pc[w] = "mkstemp" /\ pc' = [pc EXCEPT ![w] = "write"]
        /\ UNCHANGED <<entry, recoverable, exclusive, history, acknowledged, orphans>>
    BY DEF MakeTemporary, Goto
  <1>3. \A v \in Writers : inode[v] # n
    BY <1>1 DEF Owned, TypeOK, Calls
  <1>4. n \notin Published
    BY <1>1 DEF PublishedOnce, Published
  <1>5. TypeOK'
    BY <1>1, <1>2 DEF TypeOK, Calls
  <1>6. Owned'
    BY <1>1, <1>2, <1>3 DEF TypeOK, Owned, Calls
  <1>7. Distinct'
    BY <1>1, <1>2, <1>3 DEF TypeOK, Distinct
  <1>8. PublishedOnce'
    BY <1>1, <1>2, <1>4 DEF TypeOK, PublishedOnce, Published
  <1>9. CrashTakesNewest'
    BY <1>2, LogUnchanged
  <1>10. TemporariesAreCleanedUp'
    BY <1>1, <1>2 DEF TypeOK, Owned, TemporariesAreCleanedUp
  <1> QED  BY <1>5, <1>6, <1>7, <1>8, <1>9, <1>10

\* Writing and syncing touch the writer's own file, which is not published yet.
LEMMA WriteStep ==
    ASSUME IInv, NEW w \in Writers, Write(w) \/ SyncFile(w)
    PROVE  IInv'
  <1> USE DEF IInv
  <1>1. /\ pc[w] \in {"write", "fsync"}
        /\ pc' = [pc EXCEPT ![w] = IF pc[w] = "write" THEN "fsync" ELSE "publish"]
        /\ data' = [data EXCEPT ![inode[w]] = IF pc[w] = "write" THEN "buffered" ELSE "flushed"]
        /\ UNCHANGED <<entry, recoverable, temps, exclusive, inode, history, acknowledged, orphans>>
    BY DEF Write, SyncFile, Goto
  <1>2. /\ inode[w] \in Inodes /\ inode[w] \notin Published
        /\ \A v \in Writers : v # w => inode[v] # inode[w]
    BY <1>1 DEF Owned, PublishedOnce, Distinct
  <1>3. TypeOK'
    BY <1>1, <1>2 DEF TypeOK, Calls
  <1>4. Owned'
    BY <1>1, <1>2 DEF TypeOK, Owned, Calls
  <1>5. Distinct'
    BY <1>1 DEF Distinct
  <1>6. PublishedOnce'
    BY <1>1, <1>2 DEF TypeOK, PublishedOnce, Published
  <1>7. CrashTakesNewest'
    BY <1>1, LogUnchanged
  <1>8. TemporariesAreCleanedUp'
    BY <1>1 DEF TemporariesAreCleanedUp
  <1> QED  BY <1>3, <1>4, <1>5, <1>6, <1>7, <1>8

\* Publishing appends the writer's document to the log.
LEMMA PublishStep ==
    ASSUME IInv, NEW w \in Writers, pc[w] = "publish", Publish(w)
    PROVE  /\ inode[w] \in Inodes /\ inode[w] \notin Published /\ data[inode[w]] = "flushed"
           /\ history' \in Seq(Inodes) /\ history' # <<>>
           /\ Len(history') = Len(history) + 1
           /\ \A i \in 1..Len(history) : history'[i] = history[i]
           /\ history'[Len(history) + 1] = inode[w]
           /\ Published' = Published \cup {inode[w]}
           /\ CrashTakesNewest'
  <1>1. /\ inode[w] \in Inodes /\ inode[w] \notin Published /\ data[inode[w]] = "flushed"
        /\ history \in Seq(Inodes) /\ Len(history) \in Nat
    BY DEF IInv, Owned, PublishedOnce, TypeOK
  <1>2. /\ history' \in Seq(Inodes) /\ history' # <<>>
        /\ Len(history') = Len(history) + 1
        /\ \A i \in 1..Len(history) : history'[i] = history[i]
        /\ history'[Len(history) + 1] = inode[w]
    BY <1>1, AppendProperties DEF Publish
  <1>3. Published' = Published \cup {inode[w]}
    <2>1. Published' = {history'[i] : i \in 1..(Len(history) + 1)}
      BY <1>2 DEF Published
    <2>2. \A i \in 1..(Len(history) + 1) : i \in 1..Len(history) \/ i = Len(history) + 1
      BY <1>1
    <2>3. 1..Len(history) \subseteq 1..(Len(history) + 1) /\ Len(history) + 1 \in 1..(Len(history) + 1)
      BY <1>1
    <2> QED  BY <1>2, <2>1, <2>2, <2>3 DEF Published
  <1>4. CrashTakesNewest'
    <2>1. entry' = Newest(Len(history))'
      BY <1>1, <1>2 DEF Newest, Publish
    <2>2. PICK safe \in 0..Len(history) : recoverable = {Newest(i) : i \in safe..Len(history)}
      BY DEF IInv, CrashTakesNewest
    <2>3. \A i \in 0..Len(history) : Newest(i)' = Newest(i)
      BY <1>1, <1>2 DEF Newest
    <2>4. recoverable' = {Newest(i) : i \in safe..Len(history)} \cup {inode[w]}
      BY <2>2 DEF Publish
    <2>5. recoverable' = {Newest(i)' : i \in safe..(Len(history) + 1)}
      BY <1>1, <1>2, <2>1, <2>3, <2>4 DEF Publish
    <2>6. safe \in 0..Len(history')
      BY <1>1, <1>2
    <2> QED  BY <1>2, <2>1, <2>5, <2>6 DEF CrashTakesNewest
  <1> QED  BY <1>1, <1>2, <1>3, <1>4

\* Every document of the longer log is there once, and whole.
LEMMA StillPublishedOnce ==
    ASSUME IInv, NEW n, n \notin Published, data[n] = "flushed", data' = data,
           Len(history') = Len(history) + 1,
           \A i \in 1..Len(history) : history'[i] = history[i],
           history'[Len(history) + 1] = n
    PROVE  /\ \A i, j \in 1..Len(history') : history'[i] = history'[j] => i = j
           /\ \A i \in 1..Len(history') : data'[history'[i]] = "flushed"
  <1>1. /\ \A i, j \in 1..Len(history) : history[i] = history[j] => i = j
        /\ \A i \in 1..Len(history) : data[history[i]] = "flushed" /\ history[i] # n
    BY DEF IInv, PublishedOnce, Published
  <1>2. \A i \in 1..Len(history') : i \in 1..Len(history) \/ i = Len(history) + 1
    BY DEF IInv, TypeOK
  <1>3. ASSUME NEW i \in 1..Len(history'), NEW j \in 1..Len(history'), history'[i] = history'[j]
        PROVE  i = j
    <2>1. CASE i \in 1..Len(history) /\ j \in 1..Len(history)
      BY <1>1, <1>3, <2>1
    <2>2. CASE i = Len(history) + 1 \/ j = Len(history) + 1
      BY <1>1, <1>2, <1>3, <2>2
    <2> QED  BY <1>2, <2>1, <2>2
  <1>4. ASSUME NEW i \in 1..Len(history') PROVE data'[history'[i]] = "flushed"
    BY <1>1, <1>2
  <1> QED  BY <1>3, <1>4

\* A save publishes and takes the temporary name away.
LEMMA ReplaceStep ==
    ASSUME IInv, NEW w \in Writers, Replace(w)
    PROVE  IInv'
  <1> USE DEF IInv
  <1>1. /\ pc[w] = "publish" /\ Publish(w) /\ temps' = temps \ {inode[w]}
        /\ pc' = [pc EXCEPT ![w] = "fsync-dir"]
        /\ UNCHANGED <<data, exclusive, inode, acknowledged, orphans>>
    BY DEF Replace, Goto
  <1>2. /\ entry' = inode[w] /\ recoverable' = recoverable \cup {inode[w]}
        /\ inode[w] \in Inodes /\ inode[w] \notin Published /\ data[inode[w]] = "flushed"
        /\ history' \in Seq(Inodes) /\ history' # <<>>
        /\ Len(history') = Len(history) + 1
        /\ \A i \in 1..Len(history) : history'[i] = history[i]
        /\ history'[Len(history) + 1] = inode[w]
        /\ Published' = Published \cup {inode[w]}
    BY <1>1, PublishStep DEF Publish
  <1>others. \A v \in Writers : v # w => inode[v] # inode[w]
    BY <1>2 DEF Distinct
  <1>3. TypeOK'
    BY <1>1, <1>2 DEF TypeOK, Calls
  <1>4. Owned'
    BY <1>1, <1>2 DEF TypeOK, Owned, Calls
  <1>5. Distinct'
    BY <1>1 DEF Distinct
  <1>6. PublishedOnce'
    <2>1. /\ \A i, j \in 1..Len(history') : history'[i] = history'[j] => i = j
          /\ \A i \in 1..Len(history') : data'[history'[i]] = "flushed"
      <3> HIDE DEF IInv
      <3> QED  BY <1>1, <1>2, StillPublishedOnce
    <2>2. \A v \in Writers :
            /\ pc'[v] \in {"write", "fsync", "publish"} => inode'[v] \notin Published'
            /\ pc'[v] \in {"unlink", "fsync-dir"} => inode'[v] \in Published'
            /\ pc'[v] # "idle" /\ ~exclusive'[v] => history' # <<>>
      BY <1>1, <1>2, <1>others DEF PublishedOnce, TypeOK
    <2> QED  BY <2>1, <2>2 DEF PublishedOnce
  <1>7. CrashTakesNewest'
    BY <1>1, PublishStep
  <1>8. TemporariesAreCleanedUp'
    BY <1>1 DEF TemporariesAreCleanedUp
  <1> QED  BY <1>3, <1>4, <1>5, <1>6, <1>7, <1>8

\* A create publishes, or finds the name taken and gives up.
LEMMA LinkStep ==
    ASSUME IInv, NEW w \in Writers, Link(w)
    PROVE  IInv'
  <1> USE DEF IInv
  <1>1. CASE Publish(w) /\ Goto(w, "unlink")
    <2>1. /\ pc[w] = "publish" /\ Publish(w)
          /\ pc' = [pc EXCEPT ![w] = "unlink"]
          /\ UNCHANGED <<data, temps, exclusive, inode, acknowledged, orphans>>
      BY <1>1 DEF Link, Goto
    <2>2. /\ entry' = inode[w] /\ recoverable' = recoverable \cup {inode[w]}
          /\ inode[w] \in Inodes /\ inode[w] \notin Published /\ data[inode[w]] = "flushed"
          /\ history' \in Seq(Inodes) /\ history' # <<>>
          /\ Len(history') = Len(history) + 1
          /\ \A i \in 1..Len(history) : history'[i] = history[i]
          /\ history'[Len(history) + 1] = inode[w]
          /\ Published' = Published \cup {inode[w]}
      BY <2>1, PublishStep DEF Publish
    <2>others. \A v \in Writers : v # w => inode[v] # inode[w]
      BY <2>2 DEF Distinct
    <2>3. TypeOK'
      BY <2>1, <2>2 DEF TypeOK, Calls
    <2>4. Owned'
      BY <2>1, <2>2 DEF TypeOK, Owned, Calls
    <2>5. Distinct'
      BY <2>1 DEF Distinct
    <2>6. PublishedOnce'
      <3>1. /\ \A i, j \in 1..Len(history') : history'[i] = history'[j] => i = j
            /\ \A i \in 1..Len(history') : data'[history'[i]] = "flushed"
        <4> HIDE DEF IInv
        <4> QED  BY <2>1, <2>2, StillPublishedOnce
      <3>2. \A v \in Writers :
              /\ pc'[v] \in {"write", "fsync", "publish"} => inode'[v] \notin Published'
              /\ pc'[v] \in {"unlink", "fsync-dir"} => inode'[v] \in Published'
              /\ pc'[v] # "idle" /\ ~exclusive'[v] => history' # <<>>
        BY <2>1, <2>2, <2>others DEF PublishedOnce, TypeOK
      <3> QED  BY <3>1, <3>2 DEF PublishedOnce
    <2>7. CrashTakesNewest'
      BY <2>1, PublishStep
    <2>8. TemporariesAreCleanedUp'
      BY <2>1 DEF TemporariesAreCleanedUp
    <2> QED  BY <2>3, <2>4, <2>5, <2>6, <2>7, <2>8
  <1>2. CASE Goto(w, "cleanup") /\ UNCHANGED <<entry, recoverable, history>>
    <2>1. /\ pc[w] = "publish" /\ pc' = [pc EXCEPT ![w] = "cleanup"]
          /\ UNCHANGED <<files, exclusive, inode, history, acknowledged, orphans>>
      BY <1>2 DEF Link, Goto, files
    <2>2. TypeOK'
      BY <2>1 DEF TypeOK, Calls, files
    <2>3. Owned'
      BY <2>1 DEF TypeOK, Owned, Calls, files
    <2>4. PublishedOnce'
      BY <2>1 DEF TypeOK, PublishedOnce, Published, files
    <2>5. Distinct' /\ TemporariesAreCleanedUp'
      BY <2>1 DEF Distinct, TemporariesAreCleanedUp, files
    <2> QED  BY <1>2, <2>2, <2>3, <2>4, <2>5, LogUnchanged
  <1> QED  BY <1>1, <1>2 DEF Link

\* The published document loses its temporary name.
LEMMA UnlinkStep ==
    ASSUME IInv, NEW w \in Writers, UnlinkTemporary(w)
    PROVE  IInv'
  <1> USE DEF IInv
  <1>1. /\ pc[w] = "unlink" /\ temps' = temps \ {inode[w]}
        /\ pc' = [pc EXCEPT ![w] = "fsync-dir"]
        /\ UNCHANGED <<entry, recoverable, data, exclusive, inode, history, acknowledged, orphans>>
    BY DEF UnlinkTemporary, Goto
  <1>2. TypeOK'
    BY <1>1 DEF TypeOK, Calls
  <1>3. Owned'
    BY <1>1 DEF TypeOK, Owned, Calls
  <1>4. PublishedOnce'
    BY <1>1 DEF TypeOK, PublishedOnce, Published
  <1>5. Distinct' /\ TemporariesAreCleanedUp'
    BY <1>1 DEF Distinct, TemporariesAreCleanedUp
  <1> QED  BY <1>1, <1>2, <1>3, <1>4, <1>5, LogUnchanged

\* The fsync of the directory leaves a crash nothing to take back.
LEMMA SyncDirectoryStep ==
    ASSUME IInv, NEW w \in Writers, SyncDirectory(w)
    PROVE  IInv'
  <1> USE DEF IInv
  <1>1. /\ pc[w] = "fsync-dir" /\ recoverable' = {entry}
        /\ acknowledged' = acknowledged \cup {inode[w]}
        /\ inode' = [inode EXCEPT ![w] = NoFile] /\ pc' = [pc EXCEPT ![w] = "idle"]
        /\ UNCHANGED <<entry, data, temps, exclusive, history, orphans>>
    BY DEF SyncDirectory, Goto
  <1>2. inode[w] \in Inodes /\ inode[w] \notin temps
    BY <1>1 DEF Owned
  <1>3. TypeOK'
    BY <1>1, <1>2 DEF TypeOK, Calls
  <1>4. Owned'
    BY <1>1 DEF TypeOK, Owned, Calls
  <1>5. Distinct'
    BY <1>1 DEF TypeOK, Distinct
  <1>6. PublishedOnce'
    BY <1>1 DEF TypeOK, PublishedOnce, Published
  <1>7. CrashTakesNewest'
    <2>1. Len(history) \in Nat /\ Len(history) \in 0..Len(history)
      BY DEF TypeOK
    <2>2. recoverable' = {Newest(i)' : i \in Len(history)..Len(history)}
      BY <1>1, <2>1 DEF CrashTakesNewest, Newest
    <2> QED  BY <1>1, <2>1, <2>2 DEF CrashTakesNewest, Newest
  <1>8. TemporariesAreCleanedUp'
    BY <1>1, <1>2 DEF TypeOK, TemporariesAreCleanedUp
  <1> QED  BY <1>3, <1>4, <1>5, <1>6, <1>7, <1>8

\* An error inside the try block leads to the clean-up, and nowhere else.
LEMMA FailStep ==
    ASSUME IInv, NEW w \in Writers, Fail(w)
    PROVE  IInv'
  <1> USE DEF IInv
  <1>1. /\ pc[w] # "idle" /\ pc' = [pc EXCEPT ![w] = IF pc[w] = "mkstemp" THEN "idle" ELSE "cleanup"]
        /\ UNCHANGED <<entry, recoverable, data, temps, exclusive, inode, history, acknowledged, orphans>>
    BY DEF Fail, Goto, files
  <1>2. TypeOK'
    BY <1>1 DEF TypeOK, Calls
  <1>3. Owned'
    BY <1>1 DEF TypeOK, Owned, Calls
  <1>4. PublishedOnce'
    BY <1>1 DEF TypeOK, PublishedOnce, Published
  <1>5. Distinct' /\ TemporariesAreCleanedUp'
    BY <1>1 DEF Distinct, TemporariesAreCleanedUp
  <1> QED  BY <1>1, <1>2, <1>3, <1>4, <1>5, LogUnchanged

\* The clean-up removes the file, or its unlink is refused.
LEMMA CleanUpStep ==
    ASSUME IInv, NEW w \in Writers, CleanUp(w)
    PROVE  IInv'
  <1> USE DEF IInv
  <1>1. /\ pc[w] = "cleanup"
        /\ \/ temps' = temps \ {inode[w]} /\ orphans' = orphans
           \/ orphans' = orphans \cup (temps \cap {inode[w]}) /\ temps' = temps
        /\ inode' = [inode EXCEPT ![w] = NoFile] /\ pc' = [pc EXCEPT ![w] = "idle"]
        /\ UNCHANGED <<entry, recoverable, data, exclusive, history, acknowledged>>
    BY DEF CleanUp, Goto
  <1>2. TypeOK'
    BY <1>1 DEF TypeOK, Calls
  <1>3. Owned'
    BY <1>1 DEF TypeOK, Owned, Calls
  <1>4. Distinct'
    BY <1>1 DEF TypeOK, Distinct
  <1>5. PublishedOnce'
    BY <1>1 DEF TypeOK, PublishedOnce, Published
  <1>6. TemporariesAreCleanedUp'
    <2>1. \A v \in Writers : v # w => inode'[v] = inode[v]
      BY <1>1 DEF TypeOK
    <2>2. \A n \in temps' : n \in orphans' \/ \E v \in Writers : v # w /\ n = inode[v]
      BY <1>1 DEF TemporariesAreCleanedUp
    <2> QED  BY <2>1, <2>2 DEF TemporariesAreCleanedUp
  <1> QED  BY <1>1, <1>2, <1>3, <1>4, <1>5, <1>6, LogUnchanged

\* After a crash the log is a prefix of what it was, and nobody writes.
LEMMA CrashStep ==
    ASSUME IInv, Crash
    PROVE  IInv'
  <1> USE DEF IInv
  <1>1. PICK kept \in 0..Len(history), left \in SUBSET temps :
          /\ Newest(kept) \in recoverable
          /\ entry' = Newest(kept)
          /\ recoverable' = {Newest(kept)}
          /\ history' = SubSeq(history, 1, kept)
          /\ temps' = left
          /\ orphans' = left
    BY DEF Crash
  <1>2. /\ data' = [n \in Inodes |-> IF data[n] \in {"empty", "buffered"} THEN "torn" ELSE data[n]]
        /\ pc' = [w \in Writers |-> "idle"]
        /\ inode' = [w \in Writers |-> NoFile]
        /\ UNCHANGED <<exclusive, acknowledged>>
    BY DEF Crash
  <1>3. history \in Seq(Inodes) /\ Len(history) \in Nat /\ \A i \in 1..kept : history[i] \in Inodes
    BY DEF TypeOK
  <1>4. history' \in Seq(Inodes) /\ Len(history') = kept /\ \A i \in 1..kept : history'[i] = history[i]
    BY <1>1, <1>3, SubSeqProperties
  <1>5. TypeOK'
    BY <1>1, <1>2, <1>4 DEF TypeOK, Calls
  <1>6. Owned'
    BY <1>2 DEF Owned
  <1>7. Distinct'
    BY <1>2 DEF Distinct
  <1>8. PublishedOnce'
    <2>1. \A i \in 1..kept : i \in 1..Len(history) /\ data'[history[i]] = "flushed"
      BY <1>2, <1>3 DEF PublishedOnce
    <2>2. /\ \A i, j \in 1..Len(history') : history'[i] = history'[j] => i = j
          /\ \A i \in 1..Len(history') : data'[history'[i]] = "flushed"
      BY <1>4, <2>1 DEF PublishedOnce
    <2> QED  BY <1>2, <2>2 DEF PublishedOnce
  <1>9. CrashTakesNewest'
    <2>1. Newest(kept)' = Newest(kept)
      BY <1>3, <1>4 DEF Newest
    <2>2. recoverable' = {Newest(i)' : i \in kept..kept} /\ kept \in 0..Len(history')
      BY <1>1, <1>4, <2>1
    <2> QED  BY <1>1, <1>4, <2>1, <2>2 DEF CrashTakesNewest
  <1>10. TemporariesAreCleanedUp'
    BY <1>1 DEF TemporariesAreCleanedUp
  <1> QED  BY <1>5, <1>6, <1>7, <1>8, <1>9, <1>10

-----------------------------------------------------------------------------
(* The invariant. *)

\* The empty directory satisfies the invariant.
LEMMA InitInv == Init => IInv
  <1> SUFFICES ASSUME Init PROVE IInv
    OBVIOUS
  <1> USE DEF Init
  <1>1. TypeOK
    BY DEF TypeOK, Calls
  <1>2. Owned /\ Distinct /\ TemporariesAreCleanedUp
    BY DEF Owned, Distinct, TemporariesAreCleanedUp
  <1>3. PublishedOnce
    BY DEF PublishedOnce, Published
  <1>4. CrashTakesNewest
    BY DEF CrashTakesNewest, Newest
  <1> QED  BY <1>1, <1>2, <1>3, <1>4 DEF IInv

\* Every system call, error and crash preserves it.
LEMMA NextInv == IInv /\ [Next]_vars => IInv'
  <1> SUFFICES ASSUME IInv, [Next]_vars PROVE IInv'
    OBVIOUS
  <1>1. ASSUME NEW w \in Writers, Begin(w) \/ Step(w) \/ Fail(w) PROVE IInv'
    BY <1>1, BeginStep, MakeTemporaryStep, WriteStep, ReplaceStep, LinkStep, UnlinkStep,
       SyncDirectoryStep, FailStep, CleanUpStep DEF Step
  <1>2. CASE Crash
    BY <1>2, CrashStep
  <1>3. CASE UNCHANGED vars
    <2>1. UNCHANGED <<entry, recoverable, data, temps, pc, exclusive, inode, history, acknowledged, orphans>>
      BY <1>3 DEF vars, files, calls
    <2>2. TypeOK' /\ Owned' /\ Distinct' /\ TemporariesAreCleanedUp'
      BY <2>1 DEF IInv, TypeOK, Owned, Distinct, TemporariesAreCleanedUp
    <2>3. PublishedOnce'
      BY <2>1 DEF IInv, PublishedOnce, Published
    <2> QED  BY <2>1, <2>2, <2>3, LogUnchanged DEF IInv
  <1> QED  BY <1>1, <1>2, <1>3 DEF Next

\* The inductive invariant: every writer knows the state of its own file, a
\* document is published once and whole, and a crash takes the newest first.
THEOREM Invariance == Spec => []IInv
  BY InitInv, NextInv, PTL DEF Spec

-----------------------------------------------------------------------------
(* What callers and readers rely on. *)

\* Every reachable state is typed.
THEOREM TypeCorrect == Spec => []TypeOK
  BY Invariance, PTL DEF IInv

\* A reader sees whole documents, between any two system calls and after any
\* crash.
THEOREM WholeDocuments == Spec => []ReadersSeeWholeDocuments
  <1>1. ASSUME IInv PROVE ReadersSeeWholeDocuments
    <2>1. /\ Len(history) \in Nat
          /\ \A i \in 0..Len(history) : Newest(i) # NoFile => data[Newest(i)] = "flushed"
      BY <1>1 DEF IInv, TypeOK, PublishedOnce, Newest
    <2>2. \A n \in recoverable \cup {entry} : \E i \in 0..Len(history) : n = Newest(i)
      BY <1>1, <2>1 DEF IInv, CrashTakesNewest
    <2> QED  BY <2>1, <2>2 DEF ReadersSeeWholeDocuments
  <1> QED  BY <1>1, Invariance, PTL

\* Nothing but a crash or a refused unlink leaves a temporary file behind.
THEOREM CleanedUp == Spec => []TemporariesAreCleanedUp
  BY Invariance, PTL DEF IInv

\* A create never overwrites: a name that changes under a writer about to
\* publish changes by its own rename, in a save.
THEOREM NoOverwriting == Spec => CreateNeverOverwrites
  <1> DEFINE Kept ==
        \A w \in Writers :
            entry # NoFile /\ entry' # entry /\ entry' = inode[w] /\ pc[w] = "publish" => ~exclusive[w]
  <1>1. ASSUME IInv, [Next]_vars PROVE [Kept]_vars
    <2> SUFFICES ASSUME NEW w \in Writers, entry # NoFile, entry' # entry, entry' = inode[w], pc[w] = "publish"
                 PROVE  ~exclusive[w]
      OBVIOUS
    <2>1. inode[w] \in Inodes /\ inode[w] \notin Published
      BY <1>1 DEF IInv, Owned, PublishedOnce
    <2>2. ASSUME NEW v \in Writers, Replace(v) PROVE ~exclusive[w]
      BY <1>1, <2>1, <2>2 DEF Replace, Publish, IInv, Distinct
    <2>3. ASSUME NEW v \in Writers, Link(v) PROVE FALSE
      BY <2>3 DEF Link
    <2>4. ASSUME NEW v \in Writers,
                 \/ Begin(v) \/ MakeTemporary(v) \/ Write(v) \/ SyncFile(v)
                 \/ UnlinkTemporary(v) \/ SyncDirectory(v) \/ Fail(v) \/ CleanUp(v)
          PROVE  FALSE
      BY <2>4 DEF Begin, MakeTemporary, Write, SyncFile, UnlinkTemporary, SyncDirectory, Fail, CleanUp, files
    <2>5. CASE Crash
      <3>1. PICK kept \in 0..Len(history) : entry' = Newest(kept)
        BY <2>5 DEF Crash
      <3>2. kept = 0 \/ kept \in 1..Len(history)
        BY <1>1 DEF IInv, TypeOK
      <3>3. entry' = NoFile \/ entry' \in Published
        BY <3>1, <3>2 DEF Newest, Published
      <3> QED  BY <2>1, <3>3
    <2>6. CASE UNCHANGED vars
      BY <2>6 DEF vars, files
    <2> QED  BY <1>1, <2>2, <2>3, <2>4, <2>5, <2>6 DEF Next, Step
  <1> QED  BY <1>1, Invariance, PTL DEF Spec, CreateNeverOverwrites

-----------------------------------------------------------------------------
(* The system calls implement the store. *)

\* How many of the published documents a crash cannot take back.
Safe == Len(history) + 1 - Cardinality(recoverable)

\* What may be recovered are the documents from some place on, all different:
\* counting them gives the place.
LEMMA SafeIsPlace ==
    ASSUME IInv, NEW s \in 0..Len(history),
           recoverable = {Newest(i) : i \in s..Len(history)}
    PROVE  Safe = s
  <1> DEFINE place == [i \in s..Len(history) |-> Newest(i)]
  <1>1. Len(history) \in Nat /\ s \in Nat /\ s <= Len(history)
    BY DEF IInv, TypeOK
  <1>2. \A i, j \in 0..Len(history) : Newest(i) = Newest(j) => i = j
    <2>1. \A i \in 1..Len(history) : history[i] # NoFile
      BY DEF IInv, TypeOK
    <2> QED  BY <1>1, <2>1 DEF IInv, PublishedOnce, Newest
  <1>3. place \in Bijection(s..Len(history), recoverable)
    <2>1. place \in [s..Len(history) -> recoverable]
      OBVIOUS
    <2>2. place \in Injection(s..Len(history), recoverable)
      <3>1. \A i \in s..Len(history) : i \in 0..Len(history) /\ place[i] = Newest(i)
        BY <1>1
      <3> HIDE DEF place
      <3>2. ASSUME NEW i \in s..Len(history), NEW j \in s..Len(history), place[i] = place[j]
            PROVE  i = j
        <4>1. i \in 0..Len(history) /\ j \in 0..Len(history) /\ Newest(i) = Newest(j)
          BY <3>1, <3>2
        <4> QED  BY <1>2, <4>1
      <3> QED  BY <2>1, <3>2 DEF Injection, IsInjective
    <2>3. place \in Surjection(s..Len(history), recoverable)
      BY <2>1 DEF Surjection
    <2> QED  BY <2>2, <2>3 DEF Bijection
  <1>4. /\ IsFiniteSet(s..Len(history))
        /\ Cardinality(s..Len(history)) = Len(history) - s + 1
    BY <1>1, FS_Interval
  <1>5. Cardinality(recoverable) = Len(history) - s + 1
    <2>1. ExistsBijection(s..Len(history), recoverable)
      BY <1>3 DEF ExistsBijection
    <2> QED  BY <1>4, <2>1, FS_Bijection
  <1> QED  BY <1>1, <1>5 DEF Safe

\* What may be recovered can be counted.
LEMMA RecoverableIsFinite ==
    ASSUME TypeOK
    PROVE  IsFiniteSet(recoverable) /\ Cardinality(recoverable) \in Nat
  <1>1. IsFiniteSet(1..MaxInodes)
    BY FS_Interval
  <1>2. IsFiniteSet(1..MaxInodes \cup {NoFile})
    BY <1>1, FS_AddElement
  <1>3. recoverable \in SUBSET (1..MaxInodes \cup {NoFile})
    BY DEF TypeOK
  <1> QED  BY <1>2, <1>3, FS_Subset, FS_CardinalityType

\* Calls that neither publish nor return, and crashes apart, the store stands still.
LEMMA StoreStutters ==
    ASSUME UNCHANGED <<history, recoverable, acknowledged>>
    PROVE  UNCHANGED Store!vars
  BY DEF Store!vars

\* A rename or link is the store's Create or Save.
LEMMA StorePublishes ==
    ASSUME IInv, NEW w \in Writers, pc[w] = "publish", Publish(w), UNCHANGED acknowledged,
           (entry = NoFile) \/ ~exclusive[w]
    PROVE  \E n \in Inodes : Store!Create(n) \/ Store!Save(n)
  <1>1. inode[w] \in Inodes /\ history \in Seq(Inodes) /\ Len(history) \in Nat
    BY DEF IInv, Owned, TypeOK
  <1>2. history' = Append(history, inode[w]) /\ recoverable' = recoverable \cup {inode[w]}
    BY DEF Publish
  <1>3. PICK s \in 0..Len(history) : recoverable = {Newest(i) : i \in s..Len(history)}
    BY DEF IInv, CrashTakesNewest
  <1>4. Safe = s
    BY <1>3, SafeIsPlace
  <1>5. Cardinality(recoverable') = Cardinality(recoverable) + 1
    <2>1. inode[w] \notin recoverable
      <3>1. inode[w] \notin Published /\ inode[w] # NoFile
        BY <1>1 DEF IInv, PublishedOnce
      <3>2. \A i \in s..Len(history) : i = 0 \/ i \in 1..Len(history)
        BY <1>1
      <3> QED  BY <1>3, <3>1, <3>2 DEF Newest, Published
    <2>2. IsFiniteSet(recoverable)
      BY RecoverableIsFinite DEF IInv
    <2> QED  BY <1>2, <2>1, <2>2, FS_AddElement
  <1>6. Safe' = Safe
    <2>1. Len(history') = Len(history) + 1
      BY <1>1, <1>2, AppendProperties
    <2>2. Cardinality(recoverable) \in Nat
      BY RecoverableIsFinite DEF IInv
    <2> QED  BY <1>1, <1>5, <2>1, <2>2 DEF Safe
  <1>7. Store!Publish(inode[w])
    BY <1>2, <1>6 DEF Store!Publish, Safe
  <1>8. history = <<>> \/ history # <<>>
    OBVIOUS
  <1> QED  BY <1>1, <1>7, <1>8 DEF Store!Create, Store!Save

\* The fsync of the directory is the store's Acknowledge.
LEMMA StoreAcknowledges ==
    ASSUME IInv, NEW w \in Writers, SyncDirectory(w)
    PROVE  Store!Acknowledge(inode[w]) /\ inode[w] \in Inodes
  <1>1. /\ pc[w] = "fsync-dir" /\ recoverable' = {entry} /\ history' = history
        /\ acknowledged' = acknowledged \cup {inode[w]}
    BY DEF SyncDirectory
  <1>2. inode[w] \in Inodes /\ inode[w] \in Published /\ Len(history) \in Nat
    BY <1>1 DEF IInv, Owned, PublishedOnce, TypeOK
  <1>3. \E i \in 1..Len(history) : history[i] = inode[w]
    BY <1>2 DEF Published
  <1>4. Safe' = Len(history)
    <2>1. Cardinality(recoverable') = 1
      BY <1>1, FS_Singleton
    <2> QED  BY <1>1, <1>2, <2>1 DEF Safe
  <1> QED  BY <1>1, <1>2, <1>3, <1>4 DEF Store!Acknowledge, Safe

\* A crash is the store's Crash: it takes back nothing from before the place.
LEMMA StoreCrashes ==
    ASSUME IInv, Crash
    PROVE  Store!Crash
  <1>1. PICK kept \in 0..Len(history) :
          /\ Newest(kept) \in recoverable
          /\ recoverable' = {Newest(kept)}
          /\ history' = SubSeq(history, 1, kept)
          /\ acknowledged' = acknowledged
    BY DEF Crash
  <1>2. PICK s \in 0..Len(history) : recoverable = {Newest(i) : i \in s..Len(history)}
    BY DEF IInv, CrashTakesNewest
  <1>3. Safe = s
    BY <1>2, SafeIsPlace
  <1>4. history \in Seq(Inodes) /\ Len(history) \in Nat
    BY DEF IInv, TypeOK
  <1>5. kept \in s..Len(history)
    <2>1. PICK i \in s..Len(history) : Newest(i) = Newest(kept)
      BY <1>1, <1>2
    <2>2. i = kept
      <3>1. \A n \in 1..Len(history) : history[n] # NoFile
        BY <1>4
      <3> QED  BY <1>4, <2>1, <3>1 DEF IInv, PublishedOnce, Newest
    <2> QED  BY <2>1, <2>2
  <1>6. Safe' = kept
    <2>1. Len(history') = kept
      <3>1. \A i \in 1..kept : history[i] \in Inodes
        BY <1>4
      <3> QED  BY <1>1, <1>4, <3>1, SubSeqProperties
    <2>2. Cardinality(recoverable') = 1
      BY <1>1, FS_Singleton
    <2> QED  BY <1>4, <2>1, <2>2 DEF Safe
  <1> QED  BY <1>1, <1>3, <1>5, <1>6 DEF Store!Crash, Safe

\* The repository implements the store: every step publishes one document,
\* acknowledges one with all before it, takes back unacknowledged ones newest
\* first, or changes nothing of the log.
THEOREM Implementation == Spec => StoreSpec
  <1>1. Init => Store!Init
    <2>1. ASSUME Init PROVE Cardinality(recoverable) = 1 /\ Len(history) = 0 /\ history = <<>> /\ acknowledged = {}
      BY <2>1, FS_Singleton DEF Init
    <2> QED  BY <2>1 DEF Store!Init
  <1>2. ASSUME IInv, [Next]_vars PROVE [Store!Next]_Store!vars
    <2>1. ASSUME NEW w \in Writers, Replace(w) PROVE Store!Next
      <3>1. pc[w] = "publish" /\ ~exclusive[w] /\ Publish(w) /\ UNCHANGED acknowledged
        BY <2>1 DEF Replace
      <3> QED  BY <1>2, <3>1, StorePublishes DEF Store!Next
    <2>2. ASSUME NEW w \in Writers, Link(w) PROVE [Store!Next]_Store!vars
      <3>1. CASE entry = NoFile /\ Publish(w)
        <4>1. pc[w] = "publish" /\ UNCHANGED acknowledged
          BY <2>2 DEF Link
        <4> QED  BY <1>2, <3>1, <4>1, StorePublishes DEF Store!Next
      <3>2. CASE UNCHANGED <<entry, recoverable, history>>
        BY <2>2, <3>2, StoreStutters DEF Link
      <3> QED  BY <2>2, <3>1, <3>2 DEF Link
    <2>3. ASSUME NEW w \in Writers, SyncDirectory(w) PROVE Store!Next
      BY <1>2, <2>3, StoreAcknowledges DEF Store!Next
    <2>4. CASE Crash
      BY <1>2, <2>4, StoreCrashes DEF Store!Next
    <2>5. ASSUME NEW w \in Writers,
                 \/ Begin(w) \/ MakeTemporary(w) \/ Write(w) \/ SyncFile(w)
                 \/ UnlinkTemporary(w) \/ Fail(w) \/ CleanUp(w)
          PROVE  UNCHANGED Store!vars
      BY <2>5, StoreStutters
         DEF Begin, MakeTemporary, Write, SyncFile, UnlinkTemporary, Fail, CleanUp, files
    <2>6. CASE UNCHANGED vars
      BY <2>6, StoreStutters DEF vars, files
    <2> QED  BY <1>2, <2>1, <2>2, <2>3, <2>4, <2>5, <2>6 DEF Next, Step
  <1> QED  BY <1>1, <1>2, Invariance, PTL DEF Spec, StoreSpec, Store!Spec
=============================================================================
