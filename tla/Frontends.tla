-------------------------------- MODULE Frontends --------------------------------
(***************************************************************************)
(* Everything that operates the one server: the command line (cli.py), the    *)
(* window (gui_app.py), the dashboard (dash.py), the watchdog and the agent.  *)
(* An operation is abstracted as in AgentMethods, to whether it asks first,    *)
(* whether it takes the OpsLock, and what it looks at and changes.  Two of     *)
(* them run at a time, in processes of their own.                            *)
(***************************************************************************)
EXTENDS AgentMethods, FiniteSets

CONSTANT Runners

Asking(op) == [asks |-> TRUE, lock |-> op.lock, reads |-> op.reads, writes |-> op.writes]
Plain(op) == [Asking(op) EXCEPT !.asks = FALSE]
Lockless(op) == [op EXCEPT !.lock = FALSE]
Like(name) == Plain(METHODS[name])
Sees(reads) == Plain(Reading(reads))
Do(reads, writes) == Plain(Acting(reads, writes))

--------------------------------------------------------------------------------
(* The command line *)

CliReports ==
    "cli postmortem" :> Like("postmortem") @@ "cli status" :> Like("status")

CliServer ==
    "cli start" :> Like("start") @@ "cli stop" :> Like("stop") @@ "cli restart" :> Like("restart")
    @@ "cli kill" :> Asking(METHODS["kill"])
    @@ "cli console" :> Like("cmd") @@ "cli cmd" :> Like("cmd") @@ "cli save" :> Like("save")

CliSpark ==
    "cli tps" :> Like("tps") @@ "cli health" :> Like("health") @@ "cli profile" :> Like("profile")
    @@ "cli purge" :> Like("purge") @@ "cli stats" :> Sees({}) @@ "cli logs" :> Sees({})

(* create, with its prune and its off-site copy, is what the timer runs too. *)
CliBackup ==
    "cli backup create" :> Plain(Locked({"server", "world", "archives"},
                                        {"archives", "console", "world", "elsewhere"}))
    @@ "cli backup list" :> Like("backup.list")
    @@ "cli backup prune" :> Lockless(Like("backup.prune"))
    @@ "cli backup pull" :> Do({"archives"}, {"elsewhere"})
    @@ "cli backup verify" :> Like("backup.verify")
    @@ "cli backup restore" :> Asking(METHODS["backup.restore"])
    @@ "cli backup restore --to" :> Like("backup.extract")
    @@ "cli backup offsite" :> Lockless(Like("backup.offsite"))

CliProps ==
    "cli props list" :> Like("props.list") @@ "cli props get" :> Like("props.get")
    @@ "cli props set" :> Do({"props", "server"}, {"props", "console"})

(* The question is about the share of the host's memory. *)
CliJvm ==
    "cli jvm show" :> Like("jvm.show")
    @@ "cli jvm heap" :> Like("jvm.heap")
    @@ "cli jvm heap, most of the memory" :> Asking(METHODS["jvm.heap"])
    @@ "cli jvm java" :> Do({"vars"}, {"vars"})

CliPlayers ==
    "cli player list" :> Like("players.list")
    @@ "cli player whitelist" :> Like("players.whitelist")
    @@ "cli player op, kick" :> Like("players.op") @@ "cli player ban" :> Like("players.ban")

CliWatchdog ==
    "cli watchdog arm" :> Like("watchdog.arm") @@ "cli watchdog disarm" :> Like("watchdog.disarm")
    @@ "cli watchdog status" :> Like("watchdog.state") @@ "cli watchdog install" :> Do({}, {"elsewhere"})

CliSync ==
    "cli sync --pull" :> Do({"modconfig"}, {"elsewhere"})
    @@ "cli sync --push" :> Asking(Acting({}, {"modconfig"}))
    @@ "cli rcon" :> Sees({"props"}) @@ "cli inspect" :> Like("inspect")

CliMods ==
    "cli mods" :> Like("mods.list") @@ "cli recipes search" :> Like("recipes.search")
    @@ "cli recipes show" :> Like("recipes.get") @@ "cli recipes cost" :> Like("recipes.cost")
    @@ "cli recipes tag" :> Like("recipes.tag") @@ "cli items" :> Like("items.manifest")
    @@ "cli assets sync" :> Like("assets.sync") @@ "cli assets catalog" :> Like("assets.catalog")

CliCraft ==
    "cli craft" :> Asking(METHODS["craft.do"]) @@ "cli craft --preview" :> Like("craft.preview")

CliConfig ==
    "cli config tree" :> Like("config.tree") @@ "cli config get" :> Like("config.get")
    @@ "cli config set" :> Like("config.set")
    @@ "cli config set --restart" :>
            Do({"modconfig", "server"}, {"modconfig", "server", "world", "intent"})

(* ai, watch and the rest read what they send or show. *)
CliAnalysis ==
    "cli ai" :> Sees({"server", "jars", "intent"}) @@ "cli watch" :> Sees({"server", "archives", "intent"})
    @@ "cli history" :> Sees({}) @@ "cli trace" :> Sees({"server"})

CliEvents ==
    "cli events" :> Like("events.list") @@ "cli metrics" :> Do({}, {"elsewhere"})

--------------------------------------------------------------------------------
(* The window *)

GuiServer ==
    "gui start" :> Like("start") @@ "gui stop" :> Asking(METHODS["stop"])
    @@ "gui restart" :> Asking(METHODS["restart"]) @@ "gui save" :> Like("save")

GuiBackup ==
    "gui backup" :> Plain(Locked({"server", "world", "archives"},
                                 {"archives", "console", "world"}))

GuiOthers ==
    "gui purge" :> Like("purge") @@ "gui armed" :> Like("watchdog.arm") @@ "gui console" :> Like("cmd")
    @@ "gui player" :> Like("players.op") @@ "gui verify" :> Like("backup.verify")

GuiProps == "gui props" :> Asking(Acting({"props", "server"}, {"props", "console"}))

GuiJvm ==
    "gui heap" :> Like("jvm.heap") @@ "gui heap, most of the memory" :> Asking(METHODS["jvm.heap"])
    @@ "gui java" :> Do({"vars"}, {"vars"})

GuiConfig ==
    "gui config save" :> Like("config.set")
    @@ "gui config restart" :> Asking(METHODS["restart"])

GuiCraft == "gui craft" :> Asking(METHODS["craft.do"]) @@ "gui preview" :> Like("craft.preview")

GuiSync ==
    "gui profile" :> Like("profile") @@ "gui pull" :> Do({"modconfig"}, {"elsewhere"})
    @@ "gui push" :> Asking(Acting({}, {"modconfig"}))

--------------------------------------------------------------------------------
(* The dashboard's keys, the watchdog, and doctor --fix *)

Dash ==
    "dash s" :> Do({}, {"console", "world"}) @@ "dash p" :> Like("purge")
    @@ "dash b" :> Lockless(Like("backup.create"))
    @@ "dash S" :> Lockless(Like("start"))
    @@ "dash X" :> Lockless(Asking(METHODS["stop"]))

(* It also saves the world now and then. *)
Heal ==
    "watchdog heal" :> Like("restart")
    @@ "watchdog save" :> Do({"server"}, {"console", "world"})

Doctor ==
    "cli doctor" :> Sees({"server", "props", "vars"})
    @@ "cli doctor --fix" :> Do({"server", "props", "vars"}, {"props", "vars"})
    @@ "gui doctor, fix" :> Asking(Acting({"server", "props", "vars"}, {"props", "vars"}))

AgentOperations ==
    [name \in DOMAIN METHODS |-> IF METHODS[name].destructive THEN Asking(METHODS[name])
                                 ELSE Plain(METHODS[name])]

Operations ==
    AgentOperations @@ CliReports @@ CliServer @@ CliSpark @@ CliBackup @@ CliProps @@ CliJvm
    @@ CliPlayers @@ CliWatchdog @@ CliSync @@ CliMods @@ CliCraft @@ CliConfig @@ CliAnalysis
    @@ CliEvents @@ GuiServer @@ GuiBackup @@ GuiOthers @@ GuiProps @@ GuiJvm @@ GuiConfig
    @@ GuiCraft @@ GuiSync @@ Dash @@ Heal @@ Doctor

Guarded == {"server", "world", "archives"}
Saving == {"save", "cli save", "gui save", "dash s", "watchdog save"}
Typing == {"cmd", "cli console", "cli cmd", "gui console"}
WithoutLock ==
    {"cli backup prune", "cli config set --restart", "dash b", "dash S", "dash X"}
    \cup Saving \cup Typing

(* What the table comes to; it depends on no constant but None, so that        *)
(* evaluating it once shows it.                                             *)
ASSUME TableAssumption ==
    \A name \in DOMAIN Operations :
        Operations[name].writes \cap Guarded # {} =>
            Operations[name].lock \/ name \in WithoutLock
ASSUME RunnersAssumption == None \notin Runners

--------------------------------------------------------------------------------

VARIABLES
    runner,     \* each runner: its operation, where it is, and the operation that has
                \* changed what this one had looked at, "" if none
    ops         \* the holder of the OpsLock

ends == <<runner, ops>>

OpOf(r) == Operations[runner[r].op]
Go2(r, place) == runner' = [runner EXCEPT ![r].at = place]

(* One of them at least changes what the lock is for. *)
EndsInit ==
    /\ runner \in [Runners -> {[op |-> name, at |-> "new", upset |-> ""] :
                                  name \in {n \in DOMAIN Operations : Operations[n].writes # {}}}]
    /\ \E r \in Runners : OpOf(r).writes \cap Guarded # {}
    /\ ops = None

Ask(r) ==
    /\ runner[r].at = "new"
    /\ Go2(r, IF OpOf(r).asks THEN "ask" ELSE "enter")
    /\ UNCHANGED ops

Answer2(r) ==
    /\ runner[r].at = "ask"
    /\ \E place \in {"enter", "done"} : Go2(r, place)
    /\ UNCHANGED ops

(* Mutant: whoever finds the lock taken goes on without it. *)
MutantEnterOps(r) ==
    /\ runner[r].at = "enter"
    /\ Go2(r, "look") /\ ops' = IF OpOf(r).lock /\ ops = None THEN r ELSE ops

(* The lock does not wait. *)
EnterOps(r) ==
    /\ runner[r].at = "enter"
    /\ IF OpOf(r).lock /\ ops # None
         THEN Go2(r, "done") /\ UNCHANGED ops
         ELSE Go2(r, "look") /\ ops' = IF OpOf(r).lock THEN r ELSE ops

Observe2(r) ==
    /\ runner[r].at = "look" /\ Go2(r, "work")
    /\ UNCHANGED ops

Upsets(r, s) ==
    /\ OpOf(r).writes \cap (OpOf(s).reads \cup OpOf(s).writes) \cap Guarded # {}
    /\ OpOf(s).writes \cap Guarded # {}

(* It makes its changes, and lets go of the lock. *)
Work(r) ==
    /\ runner[r].at = "work"
    /\ runner' = [s \in Runners |->
         IF s = r THEN [runner[s] EXCEPT !.at = "done"]
         ELSE IF runner[s].at = "work" /\ Upsets(r, s) THEN [runner[s] EXCEPT !.upset = runner[r].op]
         ELSE runner[s]]
    /\ ops' = IF ops = r THEN None ELSE ops

EndsNext ==
    \E r \in Runners : Ask(r) \/ Answer2(r) \/ EnterOps(r) \/ Observe2(r) \/ Work(r)

EndsSpec == EndsInit /\ [][EndsNext]_ends

--------------------------------------------------------------------------------

(* Of all the operations of all the front ends only those named above - five,  *)
(* the saves, and the commands people type - can act on a server, a world or    *)
(* an archive that somebody else has changed since they looked, or make         *)
(* somebody else do so; and nobody who holds the lock waits for an answer, so   *)
(* that a question left open keeps nobody out (util.py:229-255 and its users).  *)
OnlyTheLockless ==
    /\ \A r \in Runners :
          runner[r].upset # "" => {runner[r].op, runner[r].upset} \cap WithoutLock # {}
    /\ ops # None => runner[ops].at # "ask"

================================================================================
