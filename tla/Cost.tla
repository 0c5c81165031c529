----------------------------------- MODULE Cost -----------------------------------
(***************************************************************************)
(* The pure half of crafting.py: what a tag stands for, and what a tree of   *)
(* recipes costs.                                                           *)
(***************************************************************************)
EXTENDS Integers, FiniteSets, FiniteSetsExt, SequencesExt

CONSTANTS
    Things,     \* item ids
    Tags,       \* tag ids
    TagFiles,   \* what a tag file can be, see TagFile
    Rules,      \* how an item is made, see Rule
    Amounts,    \* how many crafts are asked for
    MaxTagFiles,    \* bound: tag files
    MaxDepth    \* max_depth of the cost tree

TagFile(tag, replace, entries) == [tag |-> tag, replace |-> replace, entries |-> entries]

(* A recipe for the tree: `each` is its result count, `needs` a sequence of   *)
(* [item, per]; a base material has none.                                   *)
Rule(each, needs) == [each |-> each, needs |-> needs]
Raw == Rule(0, <<>>)

ASSUME CostAssumption ==
    /\ IsFiniteSet(Tags) /\ IsFiniteSet(Things) /\ Tags \cap Things = {} /\ MaxDepth \in Nat
    /\ Amounts \subseteq Nat \ {0}
    /\ \A file \in TagFiles : file.tag \in Tags /\ file.entries \in Seq(Tags \cup Things)
    /\ \A rule \in Rules : /\ rule.needs \in Seq([item : Things, per : Nat])
                           /\ rule # Raw => rule.each \in Nat \ {0}

VARIABLES
    question,   \* "tags" or "cost"
    tagFiles,   \* the tag files, mods first
    rules,      \* the recipe of each item
    target, count

desk == <<question, tagFiles, rules, target, count>>

CostInit ==
    \E some \in Things :
    \/ /\ question = "tags" /\ tagFiles \in BoundedSeq(TagFiles, MaxTagFiles)
       /\ rules = [i \in Things |-> Raw] /\ target = some /\ count = 1
    \/ /\ question = "cost" /\ rules \in [Things -> Rules] /\ target = some
       /\ rules[some] # Raw
       /\ count \in Amounts /\ tagFiles = <<>>

--------------------------------------------------------------------------------
(* parse_tag_listing, resolve_tag_map *)

(* A sequence with what it has not of another. *)
Joined(cur, more) ==
    LET grown[n \in 0..Len(more)] ==
            IF n = 0 THEN cur
            ELSE IF more[n] \in Range(grown[n - 1]) THEN grown[n - 1]
            ELSE Append(grown[n - 1], more[n])
    IN  grown[Len(more)]

(* Mutant: a file that replaces a tag adds to it. *)
MutantMerge(tags, file) == [tags EXCEPT ![file.tag] = Joined(@, file.entries)]

Merge(tags, file) ==
    [tags EXCEPT ![file.tag] = Joined(IF file.replace THEN <<>> ELSE @, file.entries)]

TagMap ==
    LET merged[n \in 0..Len(tagFiles)] ==
            IF n = 0 THEN [t \in Tags |-> <<>>] ELSE Merge(merged[n - 1], tagFiles[n])
    IN  merged[Len(tagFiles)]

(* The walk through a tag that was not seen takes its entries in their order;  *)
(* `nested` is the walk through another.                                     *)
Visit(tags, walked, t, nested) ==
  IF t \in walked.seen THEN walked
  ELSE
    LET step[n \in 0..Len(tags[t])] ==
            IF n = 0 THEN [walked EXCEPT !.seen = @ \cup {t}]
            ELSE LET e == tags[t][n]
                 IN  IF e \in Tags THEN nested[<<step[n - 1], e>>]
                     ELSE [step[n - 1] EXCEPT !.out = Joined(@, <<e>>)]
    IN  step[Len(tags[t])]

Walks == [out : Seq(Things), seen : SUBSET Tags]

(* walk, as it can be nested: each sees one more tag, so that it nests no      *)
(* deeper than there are tags.                                              *)
Walk(tags) ==
    LET walk[room \in 0..Cardinality(Tags)] ==
            IF room = 0 THEN [visit \in Walks \X Tags |-> visit[1]]
            ELSE [visit \in Walks \X Tags |-> Visit(tags, visit[1], visit[2], walk[room - 1])]
    IN  walk[Cardinality(Tags)]

ResolveTag(tags, t) == Walk(tags)[<<[out |-> <<>>, seen |-> {}], t>>].out

--------------------------------------------------------------------------------
(* cost_breakdown *)

Ceil(n, d) == (n + d - 1) \div d

(* Mutant: the surplus of an earlier craft is not used. *)
MutantSurplus(tree, item, qty) == 0

Surplus(tree, item, qty) == IF tree.left[item] < qty THEN tree.left[item] ELSE qty

Crafts(qty, each) == Ceil(qty, each)

Books == [base : [Things -> Nat], left : [Things -> Nat], crafts : [Things -> Nat],
          truncated : BOOLEAN]

(* A call of produce: qty of an item, for the items of the ancestry. *)
Call(tree, item, qty, ancestry) ==
    [tree |-> tree, item |-> item, qty |-> qty, ancestry |-> ancestry]
CallsOfProduce == [tree : Books, item : Things, qty : Nat, ancestry : SUBSET Things]

(* The ingredients of some crafts, one after the other. *)
Ingredients(tree, needs, crafts, ancestry, produce) ==
    LET after[n \in 0..Len(needs)] ==
            IF n = 0 THEN tree
            ELSE produce[Call(after[n - 1], needs[n].item, needs[n].per * crafts, ancestry)]
    IN  after[Len(needs)]

(* produce, with `room` levels to the depth limit and `deeper` for the calls   *)
(* one level down.                                                          *)
Bill(call, room, deeper) ==
    LET tree == call.tree
        item == call.item
        use == Surplus(tree, item, call.qty)
        short == call.qty - use
        spent == [tree EXCEPT !.left[item] = @ - use]
        rule == rules[item]
        crafts == Crafts(short, rule.each)
    IN  IF short = 0 THEN spent
        ELSE IF rule = Raw \/ room = 0 \/ item \in call.ancestry
          THEN [spent EXCEPT !.base[item] = @ + short, !.truncated = @ \/ rule # Raw]
        ELSE Ingredients([spent EXCEPT !.left[item] = @ + (crafts * rule.each - short),
                                       !.crafts[item] = @ + crafts],
                         rule.needs, crafts, call.ancestry \cup {item}, deeper)

Billing(room, deeper) == [call \in CallsOfProduce |-> Bill(call, room, deeper)]

Produce ==
    LET produce[room \in 0..MaxDepth] ==
            IF room = 0 THEN Billing(0, <<>>) ELSE Billing(room, produce[room - 1])
    IN  produce[MaxDepth]

CostBreakdown ==
    LET none == [i \in Things |-> 0]
    IN  Ingredients([base |-> none, left |-> none, crafts |-> [none EXCEPT ![target] = count],
                     truncated |-> FALSE],
                    rules[target].needs, count, {target}, Produce)

(* Nothing changes: a question is answered at once. *)
CostSpec == CostInit /\ [][FALSE]_desk

--------------------------------------------------------------------------------

(* What the files that count say of a tag: those since the last to replace it. *)
Counts(k) == \A j \in DOMAIN tagFiles :
                j > k /\ tagFiles[j].tag = tagFiles[k].tag => ~tagFiles[j].replace
Direct(t) == UNION {Range(tagFiles[k].entries) :
                      k \in {j \in DOMAIN tagFiles : tagFiles[j].tag = t /\ Counts(j)}}

(* A tag and the tags it leads to. *)
LeadsInto(S) == \A u \in S : Direct(u) \cap Tags \subseteq S
Reach(t) == {u \in Tags : \A S \in SUBSET Tags : t \in S /\ LeadsInto(S) => u \in S}

(* A tag stands for the items that can be reached from it through the files   *)
(* that count, which are those since the last that replaces it, whatever the  *)
(* order of the files, nested tags and cycles (crafting.py:533-583).         *)
TagsMeanTheirFiles ==
    question = "tags" =>
        \A t \in Tags :
            /\ Range(ResolveTag(TagMap, t)) = (UNION {Direct(u) : u \in Reach(t)}) \ Tags
            /\ IsInjective(ResolveTag(TagMap, t))

(* What a craft of an item takes of another, and what all crafts take of it. *)
Per(rule, item) ==
    SumFunctionOnSet([k \in DOMAIN rule.needs |->
                         IF rule.needs[k].item = item THEN rule.needs[k].per ELSE 0],
                     DOMAIN rule.needs)
Used(tree, item) ==
    SumFunctionOnSet([i \in Things |-> tree.crafts[i] * Per(rules[i], item)], Things)

(* The books balance: of every item, what is bought and what is crafted is    *)
(* what is used and what is left, with surplus shared between branches, in     *)
(* any order of the ingredients, in cycles and at the depth limit; and no     *)
(* intermediate is crafted once more than is needed: less than one craft of   *)
(* it is left (crafting.py:919-993).                                        *)
CostBalanced ==
    question = "cost" =>
        LET tree == CostBreakdown
        IN  \A i \in Things :
                LET made == IF i = target THEN 0 ELSE tree.crafts[i] * rules[i].each
                IN  /\ tree.base[i] + made = Used(tree, i) + tree.left[i]
                    /\ tree.left[i] >= 0
                    /\ tree.left[i] > 0 => tree.left[i] < rules[i].each

================================================================================
