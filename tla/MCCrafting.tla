-------------------------------- MODULE MCCrafting --------------------------------
(* A small instance of Crafting for TLC. *)
EXTENDS Crafting

(* Recipes to craft. *)
Needs(options, per) == [options |-> options, per |-> per]
MCRecipes ==
    {[reqs |-> <<Needs(<<{"a"}>>, 2)>>, yield |-> 2],
     [reqs |-> <<Needs(<<{"a"}, {"b"}>>, 1), Needs(<<{"c"}>>, 1)>>, yield |-> 1],
     [reqs |-> <<Needs(<<{"a", "b"}>>, 1), Needs(<<{"b"}>>, 1)>>, yield |-> 3]}

=================================================================================
