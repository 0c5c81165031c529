-------------------------------- MODULE Crafting --------------------------------
(***************************************************************************)
(* One craft over the console (crafting.py, craft): probe what the player   *)
(* holds, decide how often to craft, take the ingredients with /clear, give *)
(* the output with /give.  The player goes on playing in between, RCON may  *)
(* lose a reply, and the reply to a command sent over tmux is read back     *)
(* from the server's log.                                                  *)
(***************************************************************************)
EXTENDS Integers, Sequences, FiniteSetsExt, Functions

CONSTANTS
    Items,
    Recipes,    \* what is required, each with its options, and the yield
    MaxStack,   \* [crafting].max_output_stack
    Hour,       \* the first number in a line of the log: the hour of the day
    MaxHeld     \* bound: loose items of a kind

(* The parser keeps a recipe that has ingredients, each with a count and with  *)
(* something that satisfies it (crafting.py:171-262); the configuration       *)
(* keeps a stack between 1 and 64 (config.py:224).                           *)
ASSUME CraftingAssumption ==
    /\ IsFiniteSet(Items) /\ MaxStack \in Nat \ {0} /\ Hour \in Nat /\ MaxHeld \in Nat
    /\ \A recipe \in Recipes :
         /\ recipe.yield \in Nat \ {0}
         /\ recipe.reqs \in Seq([options : Seq(SUBSET Items), per : Nat \ {0}])
         /\ recipe.reqs # <<>>
         /\ \A r \in DOMAIN recipe.reqs : recipe.reqs[r].options # <<>>

VARIABLES
    order,      \* the recipe, whether the button is held, and the count asked for
    held,       \* what the player has in loose slots
    online,
    phase,      \* "probe", "decide", "take", "give", "done" or "refused"
    at,         \* the requirement and the option the next command is about
    loose,      \* what the probes have found for each requirement
    many,       \* will_craft
    got,        \* what the replies say was removed for each requirement
    taken,      \* ghost: what was removed
    given,      \* ghost: what was given
    shaky,      \* ghost: a command left RCON
    blind,      \* ghost: the requirements of which a /clear left RCON
    moved       \* ghost: the player changed something meanwhile

bench == <<order, held, online, phase, at, loose, many, got, taken, given, shaky, blind,
           moved>>

Reqs == order.recipe.reqs
First == [req |-> 1, opt |-> 1]

CraftInit ==
    /\ order \in [recipe : Recipes, hold : {FALSE}, count : 1..MaxStack + 1]
                  \cup [recipe : Recipes, hold : {TRUE}, count : {0}]
    /\ held \in [Items -> 0..MaxHeld] /\ online \in BOOLEAN
    /\ phase = "probe" /\ at = First
    /\ loose = [r \in DOMAIN Reqs |-> 0] /\ got = loose /\ taken = loose
    /\ many = 0 /\ given = 0 /\ shaky = FALSE /\ blind = {} /\ moved = FALSE

--------------------------------------------------------------------------------
(* Console.send: RCON answers; or RCON fails, before or after the command    *)
(* was executed, and the command is sent again over tmux, whose session may  *)
(* be gone as well.                                                         *)

Ways == [by : {"rcon"}, times : {1}] \cup [by : {"tmux"}, times : {1, 2}]
            \cup [by : {"nobody"}, times : {0, 1}]

(* _clear_count takes the first number of the reply, and none if the reply     *)
(* says that nothing was found.  Over tmux the reply is whatever the log has   *)
(* gained: its first number is part of a time stamp, of any line; a lagging    *)
(* server has logged nothing yet.                                           *)
Readings(found, way) ==
    CASE way.by = "rcon" -> {found}
      [] way.by = "tmux" -> {0, Hour}
      [] OTHER -> {}

Amount(option) == IF online THEN SumFunctionOnSet(held, option) ELSE 0
Option == Reqs[at.req].options[at.opt]
Least(x, y) == IF x < y THEN x ELSE y

(* To the next option of the requirement, the next requirement, or the next  *)
(* phase.                                                                   *)
Advance(satisfied, next) ==
    LET more == ~satisfied /\ at.opt < Len(Reqs[at.req].options)
        last == ~more /\ at.req = Len(Reqs)
    IN  /\ at' = IF last THEN First
                 ELSE IF more THEN [at EXCEPT !.opt = @ + 1]
                 ELSE [req |-> at.req + 1, opt |-> 1]
        /\ phase' = IF last THEN next ELSE phase

Refused == phase' = "refused" /\ UNCHANGED at

Probe ==
    /\ phase = "probe"
    /\ \E way \in Ways :
         /\ shaky' = (shaky \/ way.by # "rcon")
         /\ \/ /\ online \/ way.by = "tmux"
               /\ \E read \in Readings(Amount(Option), way) :
                     loose' = [loose EXCEPT ![at.req] = @ + read]
               /\ Advance(FALSE, "decide")
            \/ /\ ~online \/ way.by # "rcon"
               /\ Refused /\ UNCHANGED loose
    /\ UNCHANGED <<order, held, online, many, got, taken, given, blind, moved>>

--------------------------------------------------------------------------------
(* plan_craft, _decide_n *)

Craftable == Min({loose[r] \div Reqs[r].per : r \in DOMAIN Reqs})

Cap == IF MaxStack < order.recipe.yield THEN 1 ELSE MaxStack \div order.recipe.yield

(* Mutant: the scarcest ingredient is not the one that limits. *)
MutantWillCraft ==
    LET most == Least(Max({loose[r] \div Reqs[r].per : r \in DOMAIN Reqs}), Cap)
    IN  IF order.hold THEN most ELSE Least(order.count, most)

WillCraft ==
    LET most == Least(Craftable, Cap)
    IN  IF order.hold THEN most ELSE Least(order.count, most)

Decide ==
    /\ phase = "decide"
    /\ many' = WillCraft
    /\ phase' = IF many' > 0 THEN "take" ELSE "refused"
    /\ UNCHANGED <<order, held, online, at, loose, got, taken, given, shaky, blind, moved>>

--------------------------------------------------------------------------------
(* craft *)

Need == Reqs[at.req].per * many

(* /clear may take any of the items that match. *)
Without(option, n) ==
    {left \in [Items -> 0..MaxHeld] :
        /\ \A i \in Items : left[i] <= held[i] /\ (i \notin option => left[i] = held[i])
        /\ SumFunctionOnSet(left, option) = SumFunctionOnSet(held, option) - n}

Take ==
    /\ phase = "take"
    /\ \E way \in Ways :
         LET ask == Need - got[at.req]
             before == Least(Amount(Option), ask * (way.times - 1))
             now == Least(Amount(Option) - before, ask)
             removed == IF way.times = 0 THEN 0 ELSE before + now
         IN  /\ shaky' = (shaky \/ way.by # "rcon")
             /\ blind' = blind \cup (IF way.by = "rcon" THEN {} ELSE {at.req})
             /\ held' \in Without(Option, removed)
             /\ taken' = [taken EXCEPT ![at.req] = @ + removed]
             /\ \/ \E read \in Readings(now, way) :
                     /\ got' = [got EXCEPT ![at.req] = @ + read]
                     /\ Advance(got'[at.req] >= Need, "give")
                \/ way.by = "nobody" /\ Refused /\ UNCHANGED got
    /\ UNCHANGED <<order, online, loose, many, given, moved>>

(* Mutant: what the probes promised is given. *)
MutantEffective == many

Effective == Min({got[r] \div Reqs[r].per : r \in DOMAIN Reqs})

(* The receiver may be another player, who may not be there.  The result is  *)
(* reported as crafted whatever /give says.                                 *)
Give ==
    /\ phase = "give"
    /\ IF Effective = 0
         THEN phase' = "refused" /\ UNCHANGED <<given, shaky, moved>>
         ELSE \E way \in Ways, there \in BOOLEAN :
                /\ phase' = IF way.by = "nobody" THEN "refused" ELSE "done"
                /\ given' = IF there THEN order.recipe.yield * Effective * way.times ELSE 0
                /\ shaky' = (shaky \/ way.by # "rcon")
                /\ moved' = (moved \/ ~there)
    /\ UNCHANGED <<order, held, online, at, loose, many, got, taken, blind>>

(* The player uses or finds items, leaves or comes back: once. *)
Play ==
    /\ phase \in {"probe", "decide", "take"} /\ ~moved
    /\ moved' = TRUE
    /\ \/ \E i \in Items : \E k \in 0..MaxHeld :
             k # held[i] /\ held' = [held EXCEPT ![i] = k] /\ UNCHANGED online
       \/ online' = ~online /\ UNCHANGED held
    /\ UNCHANGED <<order, phase, at, loose, many, got, taken, given, shaky, blind>>

CraftNext == Probe \/ Decide \/ Take \/ Give \/ Play
CraftSpec == CraftInit /\ [][CraftNext]_bench

--------------------------------------------------------------------------------

(* The number of crafts given for. *)
Granted == given \div order.recipe.yield

(* What is given was paid for with every ingredient whose removal RCON has     *)
(* answered, although the player moves items between the probes, the /clear     *)
(* commands and the /give, and although other commands leave RCON; twice as     *)
(* much at most, if a /give was sent again over tmux (crafting.py:811-859).    *)
Backed ==
    \A r \in DOMAIN Reqs \ blind :
        Reqs[r].per * Granted <= (IF shaky THEN 2 ELSE 1) * taken[r]

(* No option of one requirement is an option of another, or twice.  The      *)
(* probes count an item of two options twice.                               *)
Disjoint ==
    \A r, s \in DOMAIN Reqs :
        \A o \in DOMAIN Reqs[r].options : \A u \in DOMAIN Reqs[s].options :
            <<r, o>> # <<s, u>> => Reqs[r].options[o] \cap Reqs[s].options[u] = {}

(* When nobody interferes, a craft takes exactly what its crafts need and    *)
(* gives exactly what they yield; and a craft over RCON gives one stack at     *)
(* most, or the yield of a single craft (crafting.py:741-859).               *)
FairTrade ==
    /\ phase = "done" /\ ~shaky /\ ~moved /\ Disjoint =>
            /\ given = many * order.recipe.yield
            /\ \A r \in DOMAIN Reqs : taken[r] = Reqs[r].per * many
    /\ ~shaky => given <= MaxStack \/ given <= order.recipe.yield

(* crafting.py:816-817: "grant only the fully-backed number of crafts (never *)
(* more than we removed) — anti-dupe by construction".                      *)
NeverOverGranted == \A r \in DOMAIN Reqs : Reqs[r].per * Granted <= taken[r]

================================================================================
