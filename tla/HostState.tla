------------------------------ MODULE HostState ------------------------------
(* What tasks and frames change on the host: the routing table
   (RouteTransaction), a bundle directory (BundleStore), an image in the cache
   (BlobCache), authorized_keys (GuestKeys), what the runs hold (RunHandles) and
   what they are fed (RunInput), and agent.toml (AgentConfig).  No handler changes
   two of them, so instead of their product each behaviour follows one while the
   others rest. *)
EXTENDS RouteTransaction

CONSTANTS
  Installers, Starters, Uninstallers, NoFrame, Ids, Packages, Envelopes, Signed,
  BundleName, Creates, Size, MaxAttempts, NoFile, Editors, Keys, NoKey, NoKeys,
  MaxEdits, Starts, Names, Free, Operator, Sessions, Limit, MaxInput, Cmds, Answers

VARIABLES
  pkg, env, dir, staging, holder, log, disk, sure, frame, req, res, overlap, early,
  kind, via, served, image, part, bundle, bpart, marked, at, have, fd, append, off,
  tries, crowd, strange,
  auth, tmp, step, add, drop, cur, out, lines, mixed, edits,
  skill, priv, place, name, temp, conf, tunnel, child, handles, shared, late,
  spoilt, theirs, raced,
  serves, got, ends, inBuf, ready, cuts, closing, sessions, listed, stopped, asked,
  pinged, opened,
  toml, does, stage, mem, goal, said, cut, tangled,
  follows

Store == INSTANCE BundleStore WITH pc <- frame
Blob == INSTANCE BlobCache WITH Tasks <- Creates, done <- marked
Auth == INSTANCE GuestKeys WITH before <- lines
Held == INSTANCE RunHandles WITH early <- late
Fed == INSTANCE RunInput WITH
  Ids <- Sessions, todo <- ready, log <- cuts,
  raced <- pinged, late <- opened
Conf == INSTANCE AgentConfig

ASSUME HostAssumption ==
  /\ Store!BundleAssumption /\ Blob!BlobAssumption /\ Auth!KeyAssumption
  /\ Held!HandleAssumption /\ Fed!InputAssumption /\ Conf!ConfigAssumption

storeVars == <<pkg, env, dir, staging, holder, log, disk, sure, frame, req, res,
               overlap, early>>
blobVars == <<kind, via, served, image, part, bundle, bpart, marked, at, have, fd,
              append, off, tries, crowd, strange>>
authVars == <<auth, tmp, step, add, drop, cur, out, lines, mixed, edits>>
heldVars == <<skill, priv, place, name, temp, conf, tunnel, child, handles, shared,
              late, spoilt, theirs, raced>>
fedVars == <<serves, got, ends, inBuf, ready, cuts, closing, sessions, listed,
             stopped, asked, pinged, opened>>
confVars == <<toml, does, stage, mem, goal, said, cut, tangled>>

hostVars == <<vars, storeVars, blobVars, authVars, heldVars, fedVars, confVars, follows>>

HostInit ==
  /\ follows \in {"routes", "bundle", "image", "keys", "handles", "input", "config"}
  /\ Init /\ (follows # "routes" => kernel = CHOOSE k \in Kernels : TRUE)
  /\ Store!Init /\ (follows # "bundle" => pkg.venv /\ \A id \in Ids : env[id] = "right")
  /\ Blob!Init
  /\ follows # "image" => /\ kind = "image" /\ via = "http" /\ served
                          /\ part = NoFile /\ bpart = "absent"
  /\ Auth!Init
  /\ Held!Init
  /\ follows # "handles" => /\ skill = "vnc" /\ priv = "none" /\ theirs = {}
                            /\ \A n \in Names : tunnel[n] = Free
                            /\ \A r \in Starts : name[r] = CHOOSE n \in Names : TRUE
  /\ Fed!Init /\ (follows # "input" => serves = "mcp")
  /\ Conf!Init

HostNext ==
  /\ UNCHANGED follows
  /\ \/ /\ follows = "routes" /\ Next
        /\ UNCHANGED <<storeVars, blobVars, authVars, heldVars, fedVars, confVars>>
     \/ /\ follows = "bundle" /\ Store!Next
        /\ UNCHANGED <<vars, blobVars, authVars, heldVars, fedVars, confVars>>
     \/ /\ follows = "image" /\ Blob!Next
        /\ UNCHANGED <<vars, storeVars, authVars, heldVars, fedVars, confVars>>
     \/ /\ follows = "keys" /\ Auth!Next
        /\ UNCHANGED <<vars, storeVars, blobVars, heldVars, fedVars, confVars>>
     \/ /\ follows = "handles" /\ Held!Next
        /\ UNCHANGED <<vars, storeVars, blobVars, authVars, fedVars, confVars>>
     \/ /\ follows = "input" /\ Fed!Next
        /\ UNCHANGED <<vars, storeVars, blobVars, authVars, heldVars, confVars>>
     \/ /\ follows = "config" /\ Conf!Next
        /\ UNCHANGED <<vars, storeVars, blobVars, authVars, heldVars, fedVars>>

HostSpec == HostInit /\ [][HostNext]_hostVars

NoClobber == Store!NoClobber
AloneIsExact == Store!AloneIsExact
LateInstallsHarmless == Store!LateInstallsHarmless
AloneVerified == Blob!AloneVerified
AloneEdits == Auth!AloneEdits
Released == Held!Released
OperatorKept == Held!OperatorKept
LinesExact == Fed!LinesExact
ActiveKept == Fed!ActiveKept
OneIdentity == Conf!OneIdentity
=============================================================================
