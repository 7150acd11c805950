----------------------------- MODULE AgentConfig -----------------------------
(***************************************************************************)
(* agent.toml: who the agent is.  register asks the dock for an identity   *)
(* and saves it, login saves a token it was given, set-agent-id reads the  *)
(* file, changes one or two fields and saves it, attach reads it and       *)
(* presents what it read in every hello.  Each is a process of its own,    *)
(* the file is rewritten in place, and nothing keeps two of them apart.    *)
(*                                                                         *)
(* Abstracted: a value is the command that brought it, also when the file  *)
(* was cut off within it; values do not need the quoting of the file; the  *)
(* three proxy_ fields come together.                                      *)
(***************************************************************************)
EXTENDS Naturals, Sequences, FiniteSets

CONSTANTS
  Cmds,     \* processes
  None,     \* an empty field
  Answers   \* the optional fields a dock may send

Fields == {"server", "token", "agent_id", "bot_user_id", "host_id", "proxy"}
Order == <<"server", "token", "agent_id", "bot_user_id", "host_id", "proxy">>

ConfigAssumption == None \notin Cmds /\ Answers \subseteq SUBSET Fields

VARIABLES
  toml,    \* the lines of the file, none when there is no file
  does,    \* which command a process is
  stage,   \* where it is
  mem,     \* its configuration
  goal,    \* history: the configuration its save is to bring about
  said,    \* history: the goal of the last save that ended
  cut,     \* history: a save has begun since and not ended
  tangled  \* history: the file was changed under a command that had read or opened it

confvars == <<toml, does, stage, mem, goal, said, cut, tangled>>

Configs == [Fields -> Cmds \cup {None}]
ConfigTypeOK ==
  /\ toml \in Seq(Fields \X Cmds)
  /\ does \in [Cmds -> {"nothing", "login", "register", "set", "attach"}]
  /\ stage \in [Cmds -> {"idle", "posted", "save", "write", "attached", "over"}]
  /\ mem \in [Cmds -> Configs] /\ goal \in [Cmds -> Configs] /\ said \in Configs
  /\ cut \in BOOLEAN /\ tangled \in BOOLEAN

Blank == [f \in Fields |-> None]

Init ==
  /\ toml = <<>>
  /\ does = [c \in Cmds |-> "nothing"] /\ stage = [c \in Cmds |-> "idle"]
  /\ mem = [c \in Cmds |-> Blank] /\ goal = [c \in Cmds |-> Blank]
  /\ said = Blank /\ cut = FALSE /\ tangled = FALSE

-----------------------------------------------------------------------------
(* The file.                                                               *)

(* Save leaves empty fields out: the i-th line is the i-th field that is set. *)
Rendered(cfg) ==
  LET set == {k \in DOMAIN Order : cfg[Order[k]] # None}
      Line(i) == CHOOSE k \in set : Cardinality({j \in set : j <= k}) = i
  IN [i \in 1 .. Cardinality(set) |-> <<Order[Line(i)], cfg[Order[Line(i)]]>>]

(* Mutated: the reader was not taught a field that was added later. *)
ParsedWithoutHost(lines) ==
  [f \in Fields |->
     LET at == {i \in DOMAIN lines : lines[i][1] = f}
     IN IF at = {} \/ f = "host_id" THEN None
        ELSE lines[CHOOSE i \in at : \A j \in at : j <= i][2]]

(* Of a field that is there twice the last line counts. *)
Parsed(lines) ==
  [f \in Fields |->
     LET at == {i \in DOMAIN lines : lines[i][1] = f}
     IN IF at = {} THEN None
        ELSE lines[CHOOSE i \in at : \A j \in at : j <= i][2]]

Complete(cfg) == cfg["server"] # None /\ cfg["token"] # None

-----------------------------------------------------------------------------
(* The commands.                                                           *)

(* Wrong usage, no configuration to load, no bot to attach to. *)
Refuse(c) ==
  /\ stage[c] = "idle"
  /\ stage' = [stage EXCEPT ![c] = "over"]
  /\ UNCHANGED <<toml, does, mem, goal, said, cut, tangled>>

(* c has this to save, and the file should then say that. *)
Saves(c, what, cfg, then) ==
  /\ does' = [does EXCEPT ![c] = what]
  /\ stage' = [stage EXCEPT ![c] = "save"]
  /\ mem' = [mem EXCEPT ![c] = cfg] /\ goal' = [goal EXCEPT ![c] = then]
  /\ UNCHANGED <<toml, said, cut, tangled>>

Given(c, fields) == [f \in Fields |-> IF f \in fields THEN c ELSE None]

(* The token is verified after it is saved. *)
Login(c) ==
  /\ stage[c] = "idle"
  /\ LET cfg == Given(c, {"server", "token"}) IN Saves(c, "login", cfg, cfg)

(* The enroll token is spent when the dock answers. *)
Register(c) ==
  /\ stage[c] = "idle"
  /\ does' = [does EXCEPT ![c] = "register"]
  /\ stage' = [stage EXCEPT ![c] = "posted"]
  /\ UNCHANGED <<toml, mem, goal, said, cut, tangled>>

(* An older dock sends a token and no more. *)
Answered(c) ==
  /\ stage[c] = "posted"
  /\ \E fields \in Answers :
       LET cfg == Given(c, {"server", "token"} \cup fields)
       IN Saves(c, "register", cfg, cfg)

(* No answer, an error, an answer without a token. *)
Unanswered(c) ==
  /\ stage[c] = "posted"
  /\ stage' = [stage EXCEPT ![c] = "over"]
  /\ UNCHANGED <<toml, does, mem, goal, said, cut, tangled>>

(* set-agent-id: the id, and perhaps the bot.  Ids that are there already are
   not saved again. *)
SetAgentID(c) ==
  /\ stage[c] = "idle" /\ Complete(Parsed(toml))
  /\ \E new \in {{"agent_id"}, {"agent_id", "bot_user_id"}} :
       LET On(cfg) == [f \in Fields |-> IF f \in new THEN c ELSE cfg[f]]
       IN Saves(c, "set", On(Parsed(toml)), On(IF cut THEN Parsed(toml) ELSE said))

(* The session loop keeps what attach read. *)
Attach(c) ==
  /\ stage[c] = "idle" /\ Complete(Parsed(toml))
  /\ does' = [does EXCEPT ![c] = "attach"]
  /\ stage' = [stage EXCEPT ![c] = "attached"]
  /\ mem' = [mem EXCEPT ![c] = Parsed(toml)]
  /\ UNCHANGED <<toml, goal, said, cut, tangled>>

-----------------------------------------------------------------------------
(* Save: os.WriteFile empties the file, then writes from its start.        *)

(* Others that have read the file to change it, or opened it to write it. *)
Under(c) ==
  {d \in Cmds \ {c} : stage[d] = "write" \/ (stage[d] = "save" /\ does[d] = "set")}

Truncate(c) ==
  /\ stage[c] = "save"
  /\ stage' = [stage EXCEPT ![c] = "write"]
  /\ toml' = <<>>
  /\ cut' = TRUE
  /\ tangled' = (tangled \/ Under(c) # {})
  /\ UNCHANGED <<does, mem, goal, said>>

OpenFails(c) ==
  /\ stage[c] = "save"
  /\ stage' = [stage EXCEPT ![c] = "over"]
  /\ UNCHANGED <<toml, does, mem, goal, said, cut, tangled>>

(* The first n lines of the new text, over whatever another put there. *)
Over(c, n) ==
  \E k \in 0 .. Len(toml) :
    toml' = SubSeq(Rendered(mem[c]), 1, n) \o SubSeq(toml, k + 1, Len(toml))

Write(c) ==
  /\ stage[c] = "write"
  /\ stage' = [stage EXCEPT ![c] = "over"]
  /\ Over(c, Len(Rendered(mem[c])))
  /\ said' = goal[c] /\ cut' = FALSE
  /\ tangled' = (tangled \/ Under(c) # {})
  /\ UNCHANGED <<does, mem, goal>>

(* The disk is full, or the process dies in the write. *)
WriteCut(c) ==
  /\ stage[c] = "write"
  /\ stage' = [stage EXCEPT ![c] = "over"]
  /\ \E n \in 0 .. Len(Rendered(mem[c])) - 1 : Over(c, n)
  /\ tangled' = (tangled \/ Under(c) # {})
  /\ UNCHANGED <<does, mem, goal, said, cut>>

Dies(c) ==
  /\ stage[c] \in {"posted", "save", "write", "attached"}
  /\ stage' = [stage EXCEPT ![c] = "over"]
  /\ UNCHANGED <<toml, does, mem, goal, said, cut, tangled>>

-----------------------------------------------------------------------------
Next ==
  \E c \in Cmds :
    \/ Refuse(c) \/ Login(c) \/ Register(c) \/ Answered(c) \/ Unanswered(c)
    \/ SetAgentID(c) \/ Attach(c)
    \/ Truncate(c) \/ OpenFails(c) \/ Write(c) \/ WriteCut(c) \/ Dies(c)

Spec == Init /\ [][Next]_confvars

-----------------------------------------------------------------------------
(* One identity: what was brought by the command that brought the token, and
   ids an operator set. *)
OfOne(cfg) ==
  \A f \in Fields :
    \/ cfg[f] \in {cfg["token"], None}
    \/ f \in {"agent_id", "bot_user_id"} /\ does[cfg[f]] = "set"

(* "we persist it so it survives agent restarts and rides in every hello":
   unless one command saved under another, the file holds the identity that was
   saved last with every field of it, whatever came before, and a save that was
   cut short leaves fewer fields of that one and never some of two; so no hello
   presents a token with the ids of another registration. *)
OneIdentity ==
  ~ tangled =>
    /\ ~ cut => Parsed(toml) = said
    /\ Complete(Parsed(toml)) => OfOne(Parsed(toml))
    /\ \A c \in Cmds : stage[c] = "attached" => OfOne(mem[c])
=============================================================================
