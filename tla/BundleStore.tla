----------------------------- MODULE BundleStore -----------------------------
(***************************************************************************)
(* The bundle store: Install and Uninstall of skills/installer.go, Start   *)
(* and install of skills/bundle.go, over the directory of one version of   *)
(* one bundle and the log of install results.  installMu covers the        *)
(* download and the unpacking; the gates that follow it, the removal of a  *)
(* bundle that fails them, and Uninstall run outside of it.                *)
(*                                                                         *)
(* Abstracted: a package is what its manifest is worth and whether it has  *)
(* requirements; an error is "failed" whatever its wording; requests are   *)
(* well formed and carry a URL.  The download, pip and the file system are *)
(* external and may fail; the agent may crash between any two steps.       *)
(***************************************************************************)
CONSTANTS
  Installers,   \* goroutines of skill.install frames
  Starters,     \* goroutines of skill.start frames
  Uninstallers, \* goroutines of skill.uninstall frames
  Nobody,       \* nobody holds installMu
  NoFrame,      \* a goroutine without a frame
  Ids,          \* install ids
  Packages,     \* what the download URL may serve
  Envelopes,    \* signature envelopes of manifest_preview
  Signed,       \* POLAR_AGENT_REQUIRE_SIGNED is on
  BundleName    \* the bundle's name, the skill_kind of its frames

Unpackers == Installers \cup Starters
Ops == Unpackers \cup Uninstallers

PackageType == [manifest : {"none", "malformed", "other", "unmet", "fits"},
                venv : BOOLEAN]

BundleAssumption ==
  /\ Installers \cap Starters = {} /\ Unpackers \cap Uninstallers = {}
  /\ Nobody \notin Ops
  /\ Packages \subseteq PackageType
  /\ Envelopes \subseteq {"absent", "half", "wrong", "right"}
  /\ Signed \in BOOLEAN

VARIABLES
  pkg,      \* the package of this version
  env,      \* the envelope sent with each install id
  dir,      \* <root>/<bundle>/<version>
  staging,  \* its .staging directory
  holder,   \* who holds installMu
  log,      \* resultLog: the answer remembered for each install id
  disk,     \* installs.json: those that survive the process
  sure,     \* history: ids answered by an install alone in the store, whose
            \* answer is remembered and whose directory is as it was then
  pc,       \* where each goroutine is
  req,      \* the install id of each installer's frame
  res,      \* the status it will answer
  overlap,  \* history: installers that were not alone in the store
  early     \* history: the installers a run found in the store when it began;
            \* all of them once its files are gone

source == <<pkg, env>>
store == <<dir, staging>>
results == <<log, disk, sure>>
history == <<overlap, early>>
vars == <<source, store, holder, results, pc, req, res, history>>

Dirs == {"absent", "bare", "ready", "torn"}
Statuses == {"ok", "already", "failed"}
Remembered == Statuses \cup {"none"}
Inside == {"download", "unpack", "rename", "venv"}
Labels == {"idle", "lookup", "stat", "lock", "gates", "clean", "cleaning",
           "record", "answer", "replayed", "exec", "running"} \cup Inside

-----------------------------------------------------------------------------
TypeOK ==
  /\ pkg \in Packages /\ env \in [Ids -> Envelopes]
  /\ dir \in Dirs /\ staging \in {"absent", "torn", "whole"}
  /\ holder \in Unpackers \cup {Nobody}
  /\ log \in [Ids -> Remembered] /\ disk \in [Ids -> Remembered]
  /\ sure \subseteq Ids
  /\ pc \in [Ops -> Labels]
  /\ req \in [Installers -> Ids \cup {NoFrame}]
  /\ res \in [Installers -> Statuses]
  /\ overlap \subseteq Installers
  /\ early \in [Starters -> SUBSET Installers]

Init ==
  /\ pkg \in Packages /\ env \in [Ids -> Envelopes]
  /\ dir = "absent" /\ staging = "absent"
  /\ holder = Nobody
  /\ log = [id \in Ids |-> "none"] /\ disk = log /\ sure = {}
  /\ pc = [o \in Ops |-> "idle"]
  /\ req = [i \in Installers |-> NoFrame]
  /\ res = [i \in Installers |-> "failed"]
  /\ overlap = {}
  /\ early = [s \in Starters |-> {}]

Goto(o, label) == pc' = [pc EXCEPT ![o] = label]
Busy == {o \in Ops : pc[o] \notin {"idle", "running"}}
BusyInstallers == Busy \cap Installers

(* A goroutine starts: whoever is in the store is no longer alone. *)
Enter(o) ==
  overlap' = IF Busy = {} THEN {} ELSE (Busy \cup {o}) \cap Installers

(* An installer is done; its registers are cleared for the next frame. *)
Leave(i) ==
  /\ Goto(i, "idle")
  /\ req' = [req EXCEPT ![i] = NoFrame] /\ res' = [res EXCEPT ![i] = "failed"]
  /\ overlap' = overlap \ {i}

(* os.RemoveAll takes its time: the directory is torn before it is gone. *)
Remove(left) ==
  /\ dir' = IF dir = "absent" THEN "absent" ELSE left
  /\ sure' = IF dir = "absent" THEN sure ELSE {}
  /\ early' = [s \in Starters |-> IF pc[s] = "running" THEN Installers ELSE early[s]]

(* VerifySkillSignature and the gate on its verdict: an envelope with one half,
   or a signature that does not verify, fails; none fails where one is
   required. *)
SignatureOk(id) == env[id] = "right" \/ (env[id] = "absent" /\ ~ Signed)

(* What Install makes of the manifest it reads: a bundle without one passes. *)
ManifestOk == pkg.manifest \in {"none", "fits"}

-----------------------------------------------------------------------------
(* Mutated operators. *)

(* Without the look after the lock. *)
AcquireBlindly(o) ==
  /\ pc[o] = "lock" /\ holder = Nobody
  /\ holder' = o
  /\ Goto(o, "download")
  /\ UNCHANGED <<source, store, results, req, res, history>>

(* Without the look before the lock. *)
StatSkipped(i) ==
  /\ pc[i] = "stat"
  /\ Goto(i, "lock")
  /\ UNCHANGED <<source, store, holder, results, req, res, history>>

(* A bundle that fails a gate is left where it is. *)
GatesLeave(i) ==
  /\ pc[i] = "gates"
  /\ res' = [res EXCEPT ![i] = IF SignatureOk(req[i]) /\ ManifestOk
                               THEN "ok" ELSE "failed"]
  /\ Goto(i, "record")
  /\ UNCHANGED <<source, store, holder, results, req, history>>

-----------------------------------------------------------------------------
(* Install *)

InstallFrame(i) ==
  /\ pc[i] = "idle"
  /\ \E id \in Ids : req' = [req EXCEPT ![i] = id]
  /\ Enter(i)
  /\ Goto(i, "lookup")
  /\ UNCHANGED <<source, store, holder, results, res, early>>

(* The same install id within 24 hours, and a directory there: the answer of
   last time, whoever made the directory since. *)
Replay(i) ==
  /\ pc[i] = "lookup"
  /\ log[req[i]] # "none" /\ dir # "absent"
  /\ res' = [res EXCEPT ![i] = log[req[i]]]
  /\ Goto(i, "replayed")
  /\ UNCHANGED <<source, store, holder, results, req, history>>

Unknown(i) ==
  /\ pc[i] = "lookup"
  /\ log[req[i]] = "none" \/ dir = "absent"
  /\ Goto(i, "stat")
  /\ UNCHANGED <<source, store, holder, results, req, res, history>>

(* An answer older than 24 hours is dropped from memory only. *)
Expired(i) ==
  /\ pc[i] = "lookup"
  /\ log[req[i]] # "none"
  /\ log' = [log EXCEPT ![req[i]] = "none"]
  /\ sure' = sure \ {req[i]}
  /\ Goto(i, "stat")
  /\ UNCHANGED <<source, store, holder, disk, req, res, history>>

Stat(i) ==
  /\ pc[i] = "stat"
  /\ IF dir = "absent"
     THEN Goto(i, "lock") /\ UNCHANGED res
     ELSE Goto(i, "record") /\ res' = [res EXCEPT ![i] = "already"]
  /\ UNCHANGED <<source, store, holder, results, req, history>>

-----------------------------------------------------------------------------
(* bundleSkill.install, for Install and for Start, under installMu *)

(* Where a goroutine goes when install returns nil or an error. *)
Returned(o) == IF o \in Installers THEN "gates" ELSE "exec"
Errored(o) == IF o \in Installers THEN "clean" ELSE "idle"
Fail(o) ==
  /\ holder' = Nobody
  /\ Goto(o, Errored(o))
  /\ res' = [i \in Installers |-> IF i = o THEN "failed" ELSE res[i]]

(* The lock, and the second look: another may have unpacked it meanwhile. *)
Acquire(o) ==
  /\ pc[o] = "lock" /\ holder = Nobody
  /\ IF dir = "absent"
     THEN holder' = o /\ Goto(o, "download")
     ELSE holder' = Nobody /\ Goto(o, Returned(o))
  /\ UNCHANGED <<source, store, results, req, res, history>>

(* To a temporary file, hashed on the way; then what an earlier life left of the
   staging directory goes, and unpacking begins. *)
Download(o) ==
  /\ pc[o] = "download"
  /\ staging' = "torn"
  /\ Goto(o, "unpack")
  /\ UNCHANGED <<source, dir, holder, results, req, res, history>>

(* No answer, a bad one, too large, or with another sha256. *)
DownloadFails(o) ==
  /\ pc[o] = "download"
  /\ Fail(o)
  /\ UNCHANGED <<source, store, results, req, history>>

Unpack(o) ==
  /\ pc[o] = "unpack"
  /\ staging' = "whole"
  /\ Goto(o, "rename")
  /\ UNCHANGED <<source, dir, holder, results, req, res, history>>

(* A bad archive or a full disk: the staging directory goes. *)
UnpackFails(o) ==
  /\ pc[o] \in {"unpack", "rename"}
  /\ staging' = "absent"
  /\ Fail(o)
  /\ UNCHANGED <<source, dir, results, req, history>>

(* The directory appears, from here on visible to everyone. *)
Rename(o) ==
  /\ pc[o] = "rename"
  /\ dir = "absent"
  /\ dir' = IF pkg.venv THEN "bare" ELSE "ready"
  /\ staging' = "absent"
  /\ sure' = {}
  /\ IF pkg.venv THEN Goto(o, "venv") /\ UNCHANGED holder
                 ELSE Goto(o, Returned(o)) /\ holder' = Nobody
  /\ UNCHANGED <<source, log, disk, req, res, history>>

(* uv, or python3 and pip, within ten minutes. *)
Venv(o) ==
  /\ pc[o] = "venv"
  /\ dir' = IF dir = "bare" THEN "ready" ELSE dir
  /\ sure' = {}
  /\ holder' = Nobody
  /\ Goto(o, Returned(o))
  /\ UNCHANGED <<source, staging, log, disk, req, res, history>>

VenvFails(o) ==
  /\ pc[o] = "venv"
  /\ Fail(o)
  /\ UNCHANGED <<source, store, results, req, history>>

-----------------------------------------------------------------------------
(* Install, after installMu *)

(* Signature, manifest, publisher, requirements.  A directory that is gone
   reads as one without a manifest; of one being removed the manifest may be gone
   already. *)
Gates(i) ==
  /\ pc[i] = "gates"
  /\ \/ /\ SignatureOk(req[i])
        /\ ManifestOk \/ dir \in {"absent", "torn"}
        /\ Goto(i, "record") /\ res' = [res EXCEPT ![i] = "ok"]
     \/ /\ ~ SignatureOk(req[i]) \/ (~ ManifestOk /\ dir # "absent")
        /\ Goto(i, "clean") /\ res' = [res EXCEPT ![i] = "failed"]
  /\ UNCHANGED <<source, store, holder, results, req, history>>

CleanBegin(i) ==
  /\ pc[i] = "clean" /\ i \in Installers
  /\ Remove("torn")
  /\ Goto(i, "cleaning")
  /\ UNCHANGED <<source, staging, holder, log, disk, req, res, overlap>>

CleanEnd(i) ==
  /\ pc[i] = "cleaning" /\ i \in Installers
  /\ Remove("absent")
  /\ Goto(i, "record")
  /\ UNCHANGED <<source, staging, holder, log, disk, req, res, overlap>>

(* storeResult: memory, then a temporary file and a rename, which may fail. *)
Record(i) ==
  /\ pc[i] = "record"
  /\ log' = [log EXCEPT ![req[i]] = res[i]]
  /\ disk' \in {log', disk}
  /\ sure' = IF i \in overlap THEN sure \ {req[i]} ELSE sure \cup {req[i]}
  /\ Goto(i, "answer")
  /\ UNCHANGED <<source, store, holder, req, res, history>>

(* skill.install.result, and on success an advertise. *)
Answer(i) ==
  /\ pc[i] \in {"answer", "replayed"}
  /\ Leave(i)
  /\ UNCHANGED <<source, store, holder, results, early>>

-----------------------------------------------------------------------------
(* Start *)

(* The bundle there, or installed first, without the gates. *)
StartFrame(s) ==
  /\ pc[s] = "idle" /\ s \in Starters
  /\ Enter(s)
  /\ Goto(s, IF dir = "absent" THEN "lock" ELSE "exec")
  /\ UNCHANGED <<source, store, holder, results, req, res, early>>

(* Manifest, entrypoint, interpreter, then the process. *)
Exec(s) ==
  /\ pc[s] = "exec"
  /\ dir # "absent" /\ pkg.manifest # "malformed"
  /\ early' = [early EXCEPT ![s] = IF dir = "torn" THEN Installers ELSE BusyInstallers]
  /\ Goto(s, "running")
  /\ UNCHANGED <<source, store, holder, results, req, res, overlap>>

ExecFails(s) ==
  /\ pc[s] = "exec"
  /\ Goto(s, "idle")
  /\ UNCHANGED <<source, store, holder, results, req, res, history>>

RunEnds(s) ==
  /\ pc[s] = "running"
  /\ early' = [early EXCEPT ![s] = {}]
  /\ Goto(s, "idle")
  /\ UNCHANGED <<source, store, holder, results, req, res, overlap>>

-----------------------------------------------------------------------------
(* Uninstall *)

(* Runs are registered under the kind of their frame, which is "bundle". *)
KindBundle == "bundle"
Matching == {s \in Starters : pc[s] = "running" /\ KindBundle = BundleName}

Uninstall(u) ==
  /\ pc[u] = "idle" /\ u \in Uninstallers
  /\ dir # "absent"
  /\ \E force \in BOOLEAN : Matching = {} \/ force
  /\ Enter(u)
  /\ Remove("torn")
  /\ Goto(u, "cleaning")
  /\ UNCHANGED <<source, staging, holder, log, disk, req, res>>

UninstallEnds(u) ==
  /\ pc[u] = "cleaning" /\ u \in Uninstallers
  /\ Remove("absent")
  /\ Goto(u, "idle")
  /\ UNCHANGED <<source, staging, holder, log, disk, req, res, overlap>>

-----------------------------------------------------------------------------
(* The agent stops and is started again: NewInstaller reads installs.json, and
   finds the directories as they are. *)
Crash ==
  /\ pc' = [o \in Ops |-> "idle"]
  /\ holder' = Nobody
  /\ log' = disk
  /\ sure' = {id \in sure : disk[id] = log[id]}
  /\ overlap' = {}
  /\ early' = [s \in Starters |-> {}]
  /\ req' = [i \in Installers |-> NoFrame]
  /\ res' = [i \in Installers |-> "failed"]
  /\ UNCHANGED <<source, store, disk>>

-----------------------------------------------------------------------------
Unpacking(o) ==
  \/ Acquire(o) \/ Download(o) \/ DownloadFails(o) \/ Unpack(o) \/ UnpackFails(o)
  \/ Rename(o) \/ Venv(o) \/ VenvFails(o)

Next ==
  \/ \E i \in Installers :
       \/ InstallFrame(i) \/ Replay(i) \/ Unknown(i) \/ Expired(i) \/ Stat(i)
       \/ Gates(i) \/ CleanBegin(i) \/ CleanEnd(i)
       \/ Record(i) \/ Answer(i)
  \/ \E o \in Unpackers : Unpacking(o)
  \/ \E s \in Starters : StartFrame(s) \/ Exec(s) \/ ExecFails(s) \/ RunEnds(s)
  \/ \E u \in Uninstallers : Uninstall(u) \/ UninstallEnds(u)
  \/ Crash

Spec == Init /\ [][Next]_vars

-----------------------------------------------------------------------------
(* Whatever overlaps and wherever the agent stopped, the staging directory and
   the directory are never there together, and the goroutine that is to rename
   finds the name free: an install replaces nothing. *)
NoClobber ==
  /\ staging # "absent" => dir = "absent"
  /\ \A o \in Unpackers : pc[o] = "rename" => staging = "whole" /\ holder = o

(* An install that had the store to itself answers exactly what is there: ok,
   a complete bundle that passed every gate; failed, nothing; and it says
   already installed only of a directory that is there.  The same holds of the
   answer it repeats for a known id, also after a restart, as long as nobody has
   changed the directory since that answer and an install alone gave it; after
   an uninstall and another start or install the repeated answer is stale. *)
AloneIsExact ==
  \A i \in Installers \ overlap :
    /\ pc[i] = "answer" =>
         /\ res[i] = "ok" => /\ dir = "ready"
                             /\ SignatureOk(req[i]) /\ ManifestOk
         /\ res[i] = "already" => dir # "absent"
         /\ res[i] = "failed" => dir = "absent"
    /\ pc[i] = "replayed" /\ req[i] \in sure =>
         /\ res[i] = "ok" => dir = "ready" /\ SignatureOk(req[i]) /\ ManifestOk
         /\ res[i] # "failed"

(* A run loses its files only to an uninstall, or to an install that was under
   way when the run began: one that comes later finds the bundle there and
   touches nothing, whatever its signature. *)
LateInstallsHarmless ==
  \A i \in Installers, s \in Starters :
    (pc[i] = "clean" /\ pc[s] = "running") => i \in early[s]
=============================================================================
