------------------------------ MODULE AgentMethods ------------------------------
(***************************************************************************)
(* The agent's method registry and the gates a request passes before its   *)
(* handler runs (agent.py).  A method is abstracted to what decides about   *)
(* other processes: the capability it needs, whether it wants a             *)
(* confirmation, whether it takes the OpsLock, what it reads and what it    *)
(* changes.                                                                 *)
(***************************************************************************)
EXTENDS TLC

CONSTANT None

(* What an operation of lulism can read or change.  "server" is the game    *)
(* process and its tmux session, "console" the effect of a console command, *)
(* "items" players' inventories, "intent" the watchdog's state file,        *)
(* "session" the agent session itself, "elsewhere" a directory or a host    *)
(* nothing else here uses.                                                  *)
Resources == {"server", "world", "archives", "props", "vars", "modconfig",
              "console", "items", "intent", "jars", "session", "elsewhere"}

Method(capability, destructive, lock, reads, writes) ==
    [capability |-> capability, destructive |-> destructive, lock |-> lock,
     reads |-> reads, writes |-> writes]

Reading(reads) == Method(None, FALSE, FALSE, reads, {})
Acting(reads, writes) == Method("actions", FALSE, FALSE, reads, writes)
Locked(reads, writes) == Method("actions", FALSE, TRUE, reads, writes)
Risky(capability, lock, reads, writes) ==
    Method(capability, TRUE, lock, reads, writes)

SessionMethods ==
    "agent.hello" :> Method(None, FALSE, FALSE, {}, {"session"})
    @@ "agent.ping" :> Reading({})
    @@ "agent.schema" :> Reading({})
    @@ "agent.shutdown" :> Method(None, FALSE, FALSE, {}, {"session"})
    @@ "status" :> Reading({"server", "archives", "intent"})

(* A save writes the world, and a command that somebody types may be "stop" or *)
(* "save-all" as well as any other.                                         *)
LifecycleMethods ==
    "start" :> Locked({"server"}, {"server", "world", "intent"})
    @@ "stop" :> Locked({"server"}, {"server", "world", "intent"})
    @@ "restart" :> Locked({"server"}, {"server", "world", "intent"})
    @@ "kill" :> Risky("actions", TRUE, {"server"}, {"server", "intent"})
    @@ "save" :> Acting({"server"}, {"console", "world"})
    @@ "cmd" :> Acting({}, {"console", "server", "world"})

SparkMethods ==
    "tps" :> Reading({"server"})
    @@ "health" :> Reading({"server"})
    @@ "profile" :> Acting({"server"}, {"console"})
    @@ "purge" :> Acting({"server"}, {"console"})

PlayerMethods ==
    "players.list" :> Reading({"server"})
    @@ "players.whitelist" :> Acting({}, {"console"})
    @@ "players.op" :> Acting({}, {"console"})
    @@ "players.kick" :> Acting({}, {"console"})
    @@ "players.ban" :> Risky("actions", FALSE, {}, {"console"})

BackupMethods ==
    "backup.create" :> Locked({"server", "world"}, {"archives", "console", "world"})
    @@ "backup.list" :> Reading({"archives"})
    @@ "backup.prune" :> Locked({"archives"}, {"archives"})
    @@ "backup.verify" :> Reading({"archives"})
    @@ "backup.restore" :> Risky("destructive", TRUE, {"server", "archives"}, {"world"})
    @@ "backup.extract" :> Locked({"archives"}, {"elsewhere"})
    @@ "backup.offsite" :> Locked({"archives"}, {"elsewhere"})

LogMethods ==
    "logs.tail" :> Reading({})
    @@ "logs.crashes" :> Reading({})
    @@ "postmortem" :> Reading({"intent"})
    @@ "metrics.history" :> Reading({})

SettingMethods ==
    "props.list" :> Reading({"props"})
    @@ "props.get" :> Reading({"props"})
    @@ "props.set" :> Risky("destructive", FALSE, {"props"}, {"props"})
    @@ "jvm.show" :> Reading({"vars"})
    @@ "jvm.heap" :> Risky("destructive", FALSE, {"vars"}, {"vars"})
    @@ "mods.list" :> Reading({"jars"})

RecipeMethods ==
    "recipes.search" :> Reading({"jars", "items"})
    @@ "recipes.cost" :> Reading({"jars"})
    @@ "recipes.get" :> Reading({"jars"})
    @@ "recipes.tag" :> Reading({"jars"})

(* Mutant: crafting asks for no confirmation. *)
MutantCraftMethods ==
    "craft.preview" :> Reading({"jars", "items"})
    @@ "craft.do" :> Acting({"jars", "items"}, {"items"})

CraftMethods ==
    "craft.preview" :> Reading({"jars", "items"})
    @@ "craft.do" :> Risky("actions", FALSE, {"jars", "items"}, {"items"})

AssetMethods ==
    "items.manifest" :> Reading({"jars"})
    @@ "icons.fetch" :> Reading({"jars"})
    @@ "assets.sync" :> Acting({}, {"jars"})
    @@ "assets.catalog" :> Reading({"jars"})

ConfigMethods ==
    "config.tree" :> Reading({"modconfig", "jars"})
    @@ "config.get" :> Reading({"modconfig"})
    @@ "config.set" :> Risky("destructive", FALSE, {"modconfig", "server"},
                             {"modconfig", "console"})
    @@ "config.reload" :> Acting({"server"}, {"console"})
    @@ "inspect" :> Reading({"server"})

WatchdogMethods ==
    "watchdog.state" :> Reading({"intent"})
    @@ "watchdog.arm" :> Acting({}, {"intent"})
    @@ "watchdog.disarm" :> Acting({}, {"intent"})
    @@ "events.list" :> Reading({})
    @@ "events.subscribe" :> Method(None, FALSE, FALSE, {}, {"session"})
    @@ "events.unsubscribe" :> Method(None, FALSE, FALSE, {}, {"session"})

METHODS ==
    SessionMethods @@ LifecycleMethods @@ SparkMethods @@ PlayerMethods
    @@ BackupMethods @@ LogMethods @@ SettingMethods @@ RecipeMethods
    @@ CraftMethods @@ AssetMethods @@ ConfigMethods @@ WatchdogMethods

--------------------------------------------------------------------------------
(* handle_request up to the call: the error a request earns before its      *)
(* handler runs, or "call".  `confirm` says that params.confirm is true and *)
(* nothing that merely looks like it; `form` is the first of the two shape   *)
(* checks that fails, or "good".                                             *)

Capabilities == {"actions", "destructive"}

(* Mutant: any capability opens every gate. *)
MutantGate(req, caps) ==
    IF req.form = "not-jsonrpc" THEN "INVALID_REQUEST"
    ELSE IF req.form = "params-not-object" THEN "INVALID_PARAMS"
    ELSE IF req.method \notin DOMAIN METHODS THEN "METHOD_NOT_FOUND"
    ELSE IF METHODS[req.method].capability # None /\ caps = {}
      THEN "CAP_REQUIRED"
    ELSE IF METHODS[req.method].destructive /\ ~req.confirm THEN "CONFIRM_REQUIRED"
    ELSE "call"

Gate(req, caps) ==
    IF req.form = "not-jsonrpc" THEN "INVALID_REQUEST"
    ELSE IF req.form = "params-not-object" THEN "INVALID_PARAMS"
    ELSE IF req.method \notin DOMAIN METHODS THEN "METHOD_NOT_FOUND"
    ELSE IF METHODS[req.method].capability \notin caps \cup {None}
      THEN "CAP_REQUIRED"
    ELSE IF METHODS[req.method].destructive /\ ~req.confirm THEN "CONFIRM_REQUIRED"
    ELSE "call"

(* What a handler may raise, and the error code it becomes.  ValueError     *)
(* stands for KeyError, TypeError and ValueError, of which props' and        *)
(* modconfig's errors are subclasses; DomainError for the other classes of   *)
(* the last named clause.  The rest, ModsError and InspectError among them, *)
(* is an internal error.                                                    *)
ErrorCode ==
    "BadParams" :> "INVALID_PARAMS" @@ "NotRunning" :> "APP_ERROR-1"
    @@ "ValueError" :> "INVALID_PARAMS" @@ "TransportError" :> "APP_ERROR-3"
    @@ "DomainError" :> "APP_ERROR-1" @@ "LockHeldError" :> "APP_ERROR-1"
    @@ "Exception" :> "INTERNAL_ERROR"

================================================================================
