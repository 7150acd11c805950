------------------------------ MODULE BlobCache ------------------------------
(***************************************************************************)
(* The image cache of cloud.vm tasks: downloadResumable and fetchBundle of *)
(* download.go, called by the create operation of cloud_vm.go.  Up to      *)
(* computeMaxParallel tasks run at once and nothing serialises those that  *)
(* want the same image: they share the image's path, its .part file and,   *)
(* through open descriptors, the bytes.                                    *)
(*                                                                         *)
(* Abstracted: a blob is Size blocks and a file the sequence of which of   *)
(* its blocks are right; a directory bundle is how complete it is.  The    *)
(* server, cp and polar-vmd are external and may fail; the agent may crash *)
(* between any two steps.                                                  *)
(***************************************************************************)
EXTENDS Naturals, Sequences

CONSTANTS
  Tasks,       \* create tasks of one image
  Size,        \* the blocks of the image
  MaxAttempts, \* downloadMaxAttempts
  NoFile       \* a file that does not exist

BlobAssumption ==
  Size \in Nat \ {0} /\ MaxAttempts \in Nat \ {0} /\ NoFile \notin Seq(BOOLEAN)

VARIABLES
  kind,    \* what is cached: a raw "image" or a directory "bundle"
  via,     \* the scheme of its url
  served,  \* the source has the content the task's sha256 names
  image,   \* <sha>.raw
  part,    \* <sha>.raw.part
  bundle,  \* <sha>.bundle
  bpart,   \* <sha>.bundle.part
  done,    \* the .done marker in the bundle
  at,      \* where each task is
  have,    \* the bytes of .part its request resumes after
  fd,      \* where the file it writes is now; "none": unlinked, or no file
  append,  \* it was opened with O_APPEND
  off,     \* the next block of the source
  tries,   \* attempts made
  crowd,   \* history: tasks that overlapped another one
  strange  \* history: the marker was written by one of those

disk == <<image, part, bundle, bpart, done>>
task == <<have, fd, append, off, tries>>
source == <<kind, via, served>>
vars == <<source, disk, at, task, crowd, strange>>

Whole == [i \in 1 .. Size |-> TRUE]
Trees == {"absent", "torn", "whole", "wrong"}
Labels == {"idle", "check", "stat", "ask", "stream", "clear", "copy", "verify",
           "rename", "remove", "removing", "mark", "use", "failed"}

-----------------------------------------------------------------------------
TypeOK ==
  /\ kind \in {"image", "bundle"} /\ via \in {"http", "file"}
  /\ served \in BOOLEAN
  /\ \A f \in {image, part} : f # NoFile => f \in Seq(BOOLEAN)
  /\ bundle \in Trees /\ bpart \in Trees /\ done \in BOOLEAN
  /\ at \in [Tasks -> Labels]
  /\ have \in [Tasks -> Nat] /\ off \in [Tasks -> 0 .. Size]
  /\ fd \in [Tasks -> {"none", "part", "image"}]
  /\ append \in [Tasks -> BOOLEAN]
  /\ tries \in [Tasks -> 0 .. MaxAttempts]
  /\ crowd \subseteq Tasks /\ strange \in BOOLEAN

(* An earlier life may have left a part with something else in it. *)
Init ==
  /\ kind \in {"image", "bundle"} /\ via \in {"http", "file"}
  /\ served \in BOOLEAN
  /\ image = NoFile
  /\ part \in {NoFile, <<FALSE>>}
  /\ bundle = "absent" /\ bpart \in {"absent", "torn"} /\ done = FALSE
  /\ at = [t \in Tasks |-> "idle"]
  /\ have = [t \in Tasks |-> 0] /\ off = [t \in Tasks |-> 0]
  /\ fd = [t \in Tasks |-> "none"] /\ append = [t \in Tasks |-> FALSE]
  /\ tries = [t \in Tasks |-> 0]
  /\ crowd = {} /\ strange = FALSE

Goto(t, label) == at' = [at EXCEPT ![t] = label]
Busy == {t \in Tasks : at[t] # "idle"}

(* Every open descriptor follows its file to its new name. *)
Follow(from, to) ==
  [t \in Tasks |-> IF fd[t] = from THEN to ELSE IF fd[t] = to THEN "none" ELSE fd[t]]

(* One block more of the source, at the end of the file or at the writer's own
   offset; what lies between was never written. *)
Written(f, t) ==
  LET pos == IF append[t] THEN Len(f) + 1 ELSE off[t] + 1
      ext == IF pos <= Len(f) THEN Len(f) ELSE pos
  IN [i \in 1 .. ext |->
        IF i = pos THEN served /\ i = off[t] + 1 ELSE i <= Len(f) /\ f[i]]

(* Another attempt, or giving up. *)
Again(t) ==
  /\ tries' = [tries EXCEPT ![t] = @ + 1]
  /\ Goto(t, IF tries[t] + 1 >= MaxAttempts THEN "failed" ELSE "stat")

-----------------------------------------------------------------------------
(* Mutated operators. *)

(* A part that cannot be what was wanted is renamed all the same. *)
VerifySkipped(t) ==
  /\ at[t] = "verify" /\ kind = "image"
  /\ IF part # NoFile
     THEN Goto(t, "rename") /\ UNCHANGED <<part, fd>>
     ELSE Goto(t, "failed") /\ UNCHANGED <<part, fd>>
  /\ UNCHANGED <<source, image, bundle, bpart, done, have, append, off,
                 tries, crowd, strange>>

-----------------------------------------------------------------------------
(* A create task arrives. *)
Begin(t) ==
  /\ at[t] = "idle"
  /\ Goto(t, "check")
  /\ crowd' = IF Busy = {} THEN {} ELSE crowd \cup Busy \cup {t}
  /\ UNCHANGED <<source, disk, have, fd, append, off, tries, strange>>

(* The image hashed where it is, or the bundle's marker read. *)
Check(t) ==
  /\ at[t] = "check"
  /\ Goto(t, CASE kind = "image" /\ image = Whole -> "use"
               [] kind = "image" /\ image # Whole ->
                    IF via = "http" THEN "stat" ELSE "clear"
               [] kind = "bundle" -> IF done THEN "use"
                                     ELSE IF via = "http" THEN "failed" ELSE "clear")
  /\ UNCHANGED <<source, disk, task, crowd, strange>>

-----------------------------------------------------------------------------
(* httpDownloadWithResume: stat the part, ask for the rest, take the answer. *)
Stat(t) ==
  /\ at[t] = "stat"
  /\ have' = [have EXCEPT ![t] = IF part = NoFile THEN 0 ELSE Len(part)]
  /\ Goto(t, "ask")
  /\ UNCHANGED <<source, disk, fd, append, off, tries, crowd, strange>>

(* 206: the part is appended to, created if it went away meanwhile. *)
Partial(t) ==
  /\ at[t] = "ask" /\ have[t] > 0 /\ have[t] < Size
  /\ part' = IF part = NoFile THEN <<>> ELSE part
  /\ fd' = [fd EXCEPT ![t] = "part"]
  /\ append' = [append EXCEPT ![t] = TRUE]
  /\ off' = [off EXCEPT ![t] = have[t]]
  /\ have' = [have EXCEPT ![t] = 0]
  /\ Goto(t, "stream")
  /\ UNCHANGED <<source, image, bundle, bpart, done, tries, crowd,
                 strange>>

(* 200: a server that knows no ranges, or nothing to resume; from the start. *)
Full(t) ==
  /\ at[t] = "ask"
  /\ part' = <<>>
  /\ fd' = [fd EXCEPT ![t] = "part"]
  /\ have' = [have EXCEPT ![t] = 0]
  /\ Goto(t, "stream")
  /\ UNCHANGED <<source, image, bundle, bpart, done, append, off, tries,
                 crowd, strange>>

(* 416: the part is at least as long as the blob; the hash will tell. *)
NothingMore(t) ==
  /\ at[t] = "ask" /\ have[t] >= Size
  /\ have' = [have EXCEPT ![t] = 0]
  /\ Goto(t, "verify")
  /\ UNCHANGED <<source, disk, fd, append, off, tries, crowd, strange>>

(* Another 4xx. *)
Refused(t) ==
  /\ at[t] = "ask"
  /\ have' = [have EXCEPT ![t] = 0]
  /\ Goto(t, "failed")
  /\ UNCHANGED <<source, disk, fd, append, off, tries, crowd, strange>>

(* No answer, 429 or 5xx. *)
Unanswered(t) ==
  /\ at[t] = "ask"
  /\ have' = [have EXCEPT ![t] = 0]
  /\ Again(t)
  /\ UNCHANGED <<source, disk, fd, append, off, crowd, strange>>

(* A block is read and written, wherever the file is by now. *)
Block(t) ==
  /\ at[t] = "stream" /\ kind = "image" /\ off[t] < Size
  /\ off' = [off EXCEPT ![t] = @ + 1]
  /\ part' = IF fd[t] = "part" THEN Written(part, t) ELSE part
  /\ image' = IF fd[t] = "image" THEN Written(image, t) ELSE image
  /\ UNCHANGED <<source, bundle, bpart, done, at, have, fd, append,
                 tries, crowd, strange>>

(* The file is closed. *)
Close(t) ==
  /\ fd' = [fd EXCEPT ![t] = "none"]
  /\ append' = [append EXCEPT ![t] = FALSE]
  /\ off' = [off EXCEPT ![t] = 0]

(* The body ends, or a body of unknown length ends early unnoticed. *)
Eof(t) ==
  /\ at[t] = "stream"
  /\ kind = "image"
  /\ via = "file" => off[t] = Size
  /\ Close(t)
  /\ Goto(t, "verify")
  /\ UNCHANGED <<source, disk, have, tries, crowd, strange>>

(* A reset connection, a short body, a full disk. *)
Cut(t) ==
  /\ at[t] = "stream" /\ kind = "image"
  /\ Close(t)
  /\ IF via = "http" THEN Again(t) ELSE Goto(t, "failed") /\ UNCHANGED tries
  /\ UNCHANGED <<source, disk, have, crowd, strange>>

-----------------------------------------------------------------------------
(* copyLocal: the part removed, then a clone or a copy of a file. *)
Clear(t) ==
  /\ at[t] = "clear"
  /\ IF kind = "image"
     THEN part' = NoFile /\ fd' = Follow("part", "none") /\ UNCHANGED bpart
     ELSE bpart' = "absent" /\ UNCHANGED <<part, fd>>
  /\ Goto(t, "copy")
  /\ UNCHANGED <<source, image, bundle, done, have, append, off, tries,
                 crowd, strange>>

Clone(t) ==
  /\ at[t] = "copy" /\ kind = "image"
  /\ part = NoFile
  /\ part' = [i \in 1 .. Size |-> served]
  /\ Goto(t, "verify")
  /\ UNCHANGED <<source, image, bundle, bpart, done, task, crowd, strange>>

Copy(t) ==
  /\ at[t] = "copy" /\ kind = "image"
  /\ part' = <<>>
  /\ fd' = [fd EXCEPT ![t] = "part"]
  /\ Goto(t, "stream")
  /\ UNCHANGED <<source, image, bundle, bpart, done, have, append, off,
                 tries, crowd, strange>>

(* cp -R of a bundle; into a directory that another task made meanwhile it
   copies below it and leaves what is there. *)
CopyTree(t) ==
  /\ at[t] = "copy" /\ kind = "bundle"
  /\ bpart' = IF bpart = "absent" THEN "torn" ELSE bpart
  /\ Goto(t, "stream")
  /\ UNCHANGED <<source, image, part, bundle, done, task, crowd, strange>>

TreeCopied(t) ==
  /\ at[t] = "stream" /\ kind = "bundle"
  /\ bpart' = IF bpart = "torn" THEN (IF served THEN "whole" ELSE "wrong") ELSE bpart
  /\ Goto(t, "verify")
  /\ UNCHANGED <<source, image, part, bundle, done, task, crowd, strange>>

(* cp -Rc fails: cleared and tried once more without the clone; no source, or no
   room for the copy either: the end. *)
TreeFails(t) ==
  /\ at[t] \in {"copy", "stream"} /\ kind = "bundle"
  /\ tries' = [tries EXCEPT ![t] = 1]
  /\ Goto(t, IF tries[t] = 0 THEN "clear" ELSE "failed")
  /\ UNCHANGED <<source, disk, have, fd, append, off, crowd, strange>>

-----------------------------------------------------------------------------
(* The part hashed; one that is not what was wanted is removed. *)
Verify(t) ==
  /\ at[t] = "verify" /\ kind = "image"
  /\ IF part = Whole
     THEN Goto(t, "rename") /\ UNCHANGED <<part, fd>>
     ELSE Goto(t, "failed") /\ part' = NoFile /\ fd' = Follow("part", "none")
  /\ UNCHANGED <<source, image, bundle, bpart, done, have, append, off,
                 tries, crowd, strange>>

(* The part renamed, whatever it holds by now. *)
Rename(t) ==
  /\ at[t] = "rename" /\ kind = "image"
  /\ IF part = NoFile
     THEN Goto(t, "failed") /\ UNCHANGED <<part, image, fd>>
     ELSE /\ image' = part /\ part' = NoFile
          /\ fd' = Follow("part", "image")
          /\ Goto(t, "use")
  /\ UNCHANGED <<source, bundle, bpart, done, have, append, off, tries,
                 crowd, strange>>

VerifyTree(t) ==
  /\ at[t] = "verify" /\ kind = "bundle"
  /\ IF bpart = "whole"
     THEN Goto(t, "remove") /\ UNCHANGED bpart
     ELSE Goto(t, "failed") /\ bpart' = "absent"
  /\ UNCHANGED <<source, image, part, bundle, done, task, crowd, strange>>

(* What was there goes, file by file. *)
RemoveTree(t) ==
  /\ at[t] = "remove"
  /\ bundle' = IF bundle = "absent" THEN "absent" ELSE "torn"
  /\ done' \in {done, FALSE}
  /\ Goto(t, "removing")
  /\ UNCHANGED <<source, image, part, bpart, task, crowd, strange>>

TreeRemoved(t) ==
  /\ at[t] = "removing"
  /\ bundle' = "absent" /\ done' = FALSE
  /\ Goto(t, "rename")
  /\ UNCHANGED <<source, image, part, bpart, task, crowd, strange>>

RenameTree(t) ==
  /\ at[t] = "rename" /\ kind = "bundle"
  /\ IF bpart = "absent" \/ bundle # "absent"
     THEN Goto(t, "failed") /\ UNCHANGED <<bundle, bpart>>
     ELSE Goto(t, "mark") /\ bundle' = bpart /\ bpart' = "absent"
  /\ UNCHANGED <<source, image, part, done, task, crowd, strange>>

(* The marker, or no room for it. *)
Mark(t) ==
  /\ at[t] = "mark"
  /\ IF bundle = "absent"
     THEN Goto(t, "failed") /\ UNCHANGED <<done, strange>>
     ELSE /\ done' = TRUE
          /\ strange' = (t \in crowd)
          /\ Goto(t, "use")
  /\ UNCHANGED <<source, image, part, bundle, bpart, task, crowd>>

MarkFails(t) ==
  /\ at[t] = "mark"
  /\ Goto(t, "failed")
  /\ UNCHANGED <<source, disk, task, crowd, strange>>

-----------------------------------------------------------------------------
(* polar-vmd create and run with the cached path, or the task's error: either
   ends the task, its registers are cleared for the next one. *)
End(t) ==
  /\ at[t] \in {"use", "failed"}
  /\ Goto(t, "idle")
  /\ tries' = [tries EXCEPT ![t] = 0]
  /\ crowd' = crowd \ {t}
  /\ UNCHANGED <<source, disk, have, fd, append, off, strange>>

(* The agent dies; the disk stays as it is. *)
Crash ==
  /\ at' = [t \in Tasks |-> "idle"]
  /\ have' = [t \in Tasks |-> 0] /\ off' = [t \in Tasks |-> 0]
  /\ fd' = [t \in Tasks |-> "none"] /\ append' = [t \in Tasks |-> FALSE]
  /\ tries' = [t \in Tasks |-> 0]
  /\ crowd' = {}
  /\ UNCHANGED <<source, disk, strange>>

-----------------------------------------------------------------------------
Fetch(t) ==
  \/ Check(t) \/ Stat(t) \/ Partial(t) \/ Full(t) \/ NothingMore(t) \/ Refused(t)
  \/ Unanswered(t) \/ Block(t) \/ Eof(t) \/ Cut(t)
  \/ Clear(t) \/ Clone(t) \/ Copy(t) \/ CopyTree(t) \/ TreeCopied(t) \/ TreeFails(t)
  \/ Verify(t) \/ Rename(t)
  \/ VerifyTree(t) \/ RemoveTree(t) \/ TreeRemoved(t) \/ RenameTree(t)
  \/ Mark(t) \/ MarkFails(t) \/ End(t)

Next == (\E t \in Tasks : Begin(t) \/ Fetch(t)) \/ Crash

Spec == Init /\ [][Next]_vars

-----------------------------------------------------------------------------
Cached == IF kind = "image" THEN image = Whole ELSE bundle = "whole"

(* The header of download.go: the whole file is verified, "then renames into
   place"; polar-vmd gets nothing else. *)
ImageVerified == \A t \in Tasks : at[t] = "use" => Cached

(* A create task that had the cache to itself hands polar-vmd exactly the image
   its sha256 names, whatever earlier tasks, crashes and servers left on the
   disk - except a bundle that one of several tasks at once marked as done. *)
AloneVerified ==
  \A t \in Tasks \ crowd :
    at[t] = "use" => Cached \/ (kind = "bundle" /\ strange)

=============================================================================
