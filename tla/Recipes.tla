--------------------------------- MODULE Recipes ---------------------------------
(***************************************************************************)
(* From the recipe files of the mods and datapacks to the phone: the listing *)
(* script on the server and its pages, the parser (crafting.py), and the     *)
(* phone's RecipeStore, which collects page after page.                     *)
(***************************************************************************)
EXTENDS Integers, FiniteSets, SequencesExt

CONSTANTS
    Jsons,      \* the recipe files' contents, see Json
    RecipeIds,
    MaxFiles,   \* bound: recipe files
    PageSize    \* what the phone asks for at once

(* `result` says how the result is written, `count` the count written with    *)
(* it, 0 for none; `inputs` are its ingredients, each a sequence of options   *)
(* with whether the option is a well-formed predicate.                       *)
Json(type, result, count, inputs) ==
    [type |-> type, result |-> result, count |-> count, inputs |-> inputs]

(* The game refuses a result of less than none. *)
ASSUME JsonsAssumption ==
    \A json \in Jsons : json.count \in Nat /\ json.inputs \in Seq(Range(json.inputs))

(* Both stay below what the code caps: 5000 recipes to a page, 50 000 recipes  *)
(* in all.                                                                  *)
ASSUME PagesAssumption == MaxFiles \in 0..50000 /\ PageSize \in 1..5000

VARIABLES
    files,      \* the recipe files, datapacks first, as [id, json]
    offset, all, loaded,
    hollow      \* ghost: a page held recipes, and none that could be parsed

store == <<files, offset, all, loaded, hollow>>

--------------------------------------------------------------------------------
(* parse_recipe *)

RECIPE_TYPES == {"crafting", "cooking", "stonecutting", "smithing"}

(* _ingredient_predicates *)
Predicates(input) ==
    FoldLeft(LAMBDA seen, o : IF o.ok /\ ~Contains(seen, o.pred) THEN Append(seen, o.pred)
                              ELSE seen, <<>>, input)

(* The elements of a sequence that are in a set, in their order. *)
Sift(s, good) ==
    LET kept[n \in 0..Len(s)] ==
            IF n = 0 THEN <<>>
            ELSE IF s[n] \in good THEN Append(kept[n - 1], s[n]) ELSE kept[n - 1]
    IN  kept[Len(s)]

Slots(json) ==
    LET options == [i \in DOMAIN json.inputs |-> Predicates(json.inputs[i])]
    IN  Sift(options, Range(options) \ {<<>>})

(* What is cooked is one; of a result that is a string only the stonecutter   *)
(* has a count beside it.                                                   *)
ResultCount(json) ==
    IF json.type = "cooking" \/ (json.result = "string" /\ json.type # "stonecutting")
       \/ json.count = 0
    THEN 1 ELSE json.count

Requirements(slots) ==
    {[options |-> s, per |-> Cardinality({i \in DOMAIN slots : slots[i] = s})] : s \in Range(slots)}

Listable(json) == json.type \in RECIPE_TYPES /\ json.result # "none"

Parses(json) == Listable(json) /\ Slots(json) # <<>>

ParseRecipe(json) ==
    [reqs |-> Requirements(Slots(json)), yield |-> ResultCount(json)]

--------------------------------------------------------------------------------
(* The listing script: the first file of an id that can be listed counts.    *)

(* Mutant: an id is remembered once it is on the page. *)
MutantConsider(page, file, from, limit) ==
    IF file.id \in page.seen \/ ~Listable(file.json) THEN page
    ELSE IF page.hits < from THEN [page EXCEPT !.hits = @ + 1]
    ELSE IF Len(page.out) >= limit THEN [page EXCEPT !.truncated = TRUE]
    ELSE [page EXCEPT !.seen = @ \cup {file.id}, !.out = Append(@, file)]

Consider(page, file, from, limit) ==
    IF file.id \in page.seen \/ ~Listable(file.json) THEN page
    ELSE LET hit == [page EXCEPT !.seen = @ \cup {file.id}, !.hits = @ + 1]
         IN  IF hit.hits <= from THEN hit
             ELSE IF Len(hit.out) >= limit THEN [hit EXCEPT !.truncated = TRUE]
             ELSE [hit EXCEPT !.out = Append(@, file)]

(* The script goes through the files. *)
Scan(from, limit) ==
    LET page[n \in 0..Len(files)] ==
            IF n = 0 THEN [seen |-> {}, hits |-> 0, out |-> <<>>, truncated |-> FALSE]
            ELSE Consider(page[n - 1], files[n], from, limit)
    IN  page[Len(files)]

(* search_recipes: lines that cannot be parsed are left out of the page, but *)
(* not of the server's count.                                               *)
SearchRecipes(from, limit) ==
    LET page == Scan(from, limit)
    IN  [recipes   |-> Sift(page.out, {f \in Range(page.out) : Parses(f.json)}),
         truncated |-> page.truncated]

--------------------------------------------------------------------------------
(* RecipeStore.ensureLoaded *)

StoreInit ==
    /\ files \in BoundedSeq([id : RecipeIds, json : Jsons], MaxFiles)
    /\ offset = 0 /\ all = <<>> /\ loaded = FALSE /\ hollow = FALSE

NextPage ==
    /\ ~loaded
    /\ LET page == SearchRecipes(offset, PageSize)
       IN  /\ all' = all \o page.recipes
           /\ offset' = offset + Len(page.recipes)
           /\ loaded' = (page.recipes = <<>> \/ ~page.truncated)
           /\ hollow' = (page.recipes = <<>> /\ page.truncated)
    /\ UNCHANGED files

StoreSpec == StoreInit /\ [][NextPage]_store

--------------------------------------------------------------------------------

Everything == SearchRecipes(0, MaxFiles).recipes

(* What plan_craft needs of a recipe: it divides by what one craft takes and  *)
(* looks for the minimum over the ingredients.                              *)
Plannable(recipe) ==
    recipe.reqs # {} /\ recipe.yield >= 1 /\ \A q \in recipe.reqs : q.per >= 1 /\ q.options # <<>>

(* The phone ends up with every recipe of the pack, unless a whole page was  *)
(* dropped by the parser, which it takes for the end; with each once and in   *)
(* order if the parser dropped none; and with none that cannot be planned,    *)
(* whatever the files say (RecipeStore.kt:27-42, crafting.py:168-422).       *)
PhoneHasAll ==
    /\ \A f \in Range(all) : Plannable(ParseRecipe(f.json))
    /\ loaded =>
         /\ hollow \/ Range(all) = Range(Everything)
         /\ (\A f \in Range(files) : Listable(f.json) => Parses(f.json)) => all = Everything

================================================================================
