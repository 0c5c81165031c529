--------------------------------- MODULE MCParts ---------------------------------
(***************************************************************************)
(* The components that share nothing with each other, checked in one run:    *)
(* Init picks one of them, the rest stay as they are.                        *)
(***************************************************************************)
EXTENDS AgentClient, ServerRepository, MCCrafting, Recipes, Cost, Restore, Store, Migration, Gui,
        Editing, Frontends

VARIABLE part

(* Recipe files to parse: well-formed, without a usable ingredient, of a type *)
(* that is not listed.                                                       *)
Opt(pred, ok) == [pred |-> pred, ok |-> ok]
MCJsons ==
    {Json("crafting", "object", 2,
          <<<<Opt("a", TRUE)>>, <<Opt("a", TRUE), Opt("a", TRUE)>>, <<Opt("b", FALSE)>>>>),
     Json("crafting", "string", 0, <<<<Opt("b", FALSE)>>>>),
     Json("cooking", "string", 0, <<<<Opt("a", TRUE), Opt("b", TRUE)>>>>),
     Json("brewing", "string", 0, <<<<Opt("a", TRUE)>>>>),
     Json("stonecutting", "string", 3, <<<<Opt("a", TRUE)>>>>)}

(* Recipes that use up, share and repeat each other's products, and cycles. *)
Ingredient(item, per) == [item |-> item, per |-> per]
MCRules ==
    {Raw, Rule(1, <<Ingredient("a", 1)>>), Rule(2, <<Ingredient("b", 1)>>),
     Rule(3, <<Ingredient("c", 2)>>),
     Rule(2, <<Ingredient("a", 1), Ingredient("b", 3)>>),
     Rule(3, <<Ingredient("c", 1), Ingredient("b", 1)>>)}
MCTagFiles ==
    {TagFile(t, r, e) : t \in {"t", "u"}, r \in BOOLEAN,
                        e \in {<<"a">>, <<"b", "u">>, <<"t", "c">>}}

--------------------------------------------------------------------------------

(* The parts whose Init leaves a choice, when they are not the one checked. *)

BenchAtRest ==
    /\ order = [recipe |-> CHOOSE r \in Recipes : TRUE, hold |-> TRUE, count |-> 0]
    /\ held = [i \in Items |-> 0] /\ online = FALSE /\ phase = "refused" /\ at = First
    /\ loose = [r \in DOMAIN Reqs |-> 0] /\ got = loose /\ taken = loose
    /\ many = 0 /\ given = 0 /\ shaky = FALSE /\ blind = {} /\ moved = FALSE
StoreAtRest == files = <<>> /\ offset = 0 /\ all = <<>> /\ loaded = TRUE /\ hollow = FALSE
DeskAtRest ==
    /\ question = "none" /\ tagFiles = <<>> /\ rules = [i \in Things |-> Raw]
    /\ target = (CHOOSE i \in Things : TRUE) /\ count = 1
EndsAtRest == runner = [r \in Runners |-> [op |-> "status", at |-> "done", upset |-> ""]] /\ ops = None
UnpackingAtRest == RestoreInit /\ ~serving /\ \A a \in Archives : archive[a] = "gone"

(* The window is explored twice: with settings but no conversation, and with   *)
(* a conversation but no settings.                                          *)
Asks(kind) == \E i \in DOMAIN queue : queue[i].kind = kind

PartsInit ==
    /\ part \in {"calls", "phone", "craft", "recipes", "cost", "restore", "file", "migrate", "window",
               "talk", "edit", "ends"}
    /\ ClientInit /\ RepositoryInit /\ FileInit /\ GuiInit /\ EditInit
    /\ IF part = "craft" THEN CraftInit /\ order.count # 2 /\ (online \/ order.hold) ELSE BenchAtRest
    /\ IF part = "recipes" THEN StoreInit ELSE StoreAtRest
    /\ IF part = "cost" THEN CostInit ELSE DeskAtRest
    /\ IF part = "restore" THEN RestoreInit ELSE UnpackingAtRest
    /\ IF part = "ends" THEN EndsInit ELSE EndsAtRest
    /\ IF part = "migrate" THEN MigrateInit ELSE MigrateInit /\ ~exists

PartsNext ==
    /\ UNCHANGED <<part, desk>>
    /\ part \notin {"window", "talk"} => UNCHANGED window
    /\ part # "edit" => UNCHANGED editing
    /\ part # "ends" => UNCHANGED ends
    /\ \/ /\ part = "calls" /\ ClientNext
          /\ UNCHANGED <<repository, bench, store, unpacking, storeVars, moving>>
       \/ /\ part = "phone" /\ RepositoryNext
          /\ UNCHANGED <<clientVars, bench, store, unpacking, storeVars, moving>>
       \/ /\ part = "craft" /\ CraftNext
          /\ UNCHANGED <<clientVars, repository, store, unpacking, storeVars, moving>>
       \/ /\ part = "recipes" /\ NextPage
          /\ UNCHANGED <<clientVars, repository, bench, unpacking, storeVars, moving>>
       \/ /\ part = "restore" /\ RestoreNext
          /\ UNCHANGED <<clientVars, repository, bench, store, storeVars, moving>>
       \/ /\ part = "file" /\ FileNext
          /\ UNCHANGED <<clientVars, repository, bench, store, unpacking, moving>>
       \/ /\ part = "migrate" /\ MigrateNext
          /\ UNCHANGED <<clientVars, repository, bench, store, unpacking, storeVars>>
       \/ /\ \/ part = "window" /\ GuiNext /\ "_chat_running" \notin flags'
             \/ part = "talk" /\ GuiNext /\ disk2' = disk2 /\ ~Asks("ollama")'
          /\ UNCHANGED <<clientVars, repository, bench, store, unpacking, storeVars, moving>>
       \/ /\ \/ part = "edit" /\ EditNext
             \/ part = "ends" /\ EndsNext
          /\ UNCHANGED <<clientVars, repository, bench, store, unpacking, storeVars, moving>>

partsVars == <<part, clientVars, repository, bench, store, desk, unpacking, storeVars, moving,
              window, editing, ends>>

PartsSpec == PartsInit /\ [][PartsNext]_partsVars /\ ClientFairness

================================================================================
