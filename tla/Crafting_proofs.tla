------------------------------ MODULE Crafting_proofs ------------------------------
(***************************************************************************)
(* A craft, for any recipes, any inventory and any way a command may go: what *)
(* is given was paid for, and what nobody disturbs is an exact trade.  And the *)
(* recipes themselves, for any recipe files: the phone's pages add up, a tag   *)
(* stands for what the files say, and the books of a cost tree balance.       *)
(***************************************************************************)
EXTENDS Crafting, Recipes, Cost, DataTheorems, SequenceTheorems, FiniteSetTheorems, TLAPS

Numbers == [DOMAIN Reqs -> Nat]

BenchType ==
    /\ order.recipe \in Recipes /\ order.count \in Nat
    /\ held \in [Items -> 0..MaxHeld] /\ online \in BOOLEAN
    /\ phase \in {"probe", "decide", "take", "give", "done", "refused"}
    /\ at \in [req : DOMAIN Reqs, opt : Nat] /\ at.opt \in DOMAIN Reqs[at.req].options
    /\ loose \in Numbers /\ got \in Numbers /\ taken \in Numbers
    /\ many \in Nat /\ given \in Nat
    /\ shaky \in BOOLEAN /\ moved \in BOOLEAN

(* Where the taking is: before it nothing was taken, behind it all that can    *)
(* be had, and something is missing where it stands.                         *)
Underway ==
    /\ phase \in {"probe", "decide"} => \A r \in DOMAIN Reqs : got[r] = 0
    /\ phase = "take" => /\ many > 0 /\ got[at.req] < Need
                         /\ \A r \in DOMAIN Reqs : r > at.req => got[r] = 0

(* Over RCON the replies say what was removed; over tmux they say nothing.     *)
Accounts ==
    /\ ~shaky => got = taken /\ blind = {}
    /\ \A r \in DOMAIN Reqs \ blind : got[r] = taken[r]

(* What is given is what the replies of the /clear commands back, or twice     *)
(* that.                                                                   *)
Grants ==
    /\ phase \in {"probe", "decide", "take", "give"} => given = 0
    /\ given # 0 => /\ Effective > 0
                    /\ ~shaky => given = order.recipe.yield * Effective
                    /\ given \in {order.recipe.yield * Effective,
                                  order.recipe.yield * (2 * Effective)}

PaidInv == BenchType /\ Underway /\ Accounts /\ Grants

--------------------------------------------------------------------------------

Calm == ~shaky /\ ~moved
Offer(r) == [o \in DOMAIN Reqs[r].options |-> Amount(Reqs[r].options[o])]
Offered(r, options) == SumFunctionOnSet(Offer(r), options)
All(r) == 1..Len(Reqs[r].options)

(* The probes add up what the options hold; the stock lasts for what is still   *)
(* to be taken; what was taken is what was needed.                           *)
Probed ==
    /\ Calm /\ phase = "probe" =>
          \A r \in DOMAIN Reqs :
             /\ r < at.req => loose[r] = Offered(r, All(r))
             /\ r = at.req => loose[r] = Offered(r, 1..at.opt - 1)
             /\ r > at.req => loose[r] = 0
    /\ Calm /\ phase = "decide" => \A r \in DOMAIN Reqs : loose[r] = Offered(r, All(r))
    /\ phase = "decide" => at = First

Stocked ==
    /\ Calm /\ Disjoint /\ phase = "take" =>
          \A r \in DOMAIN Reqs :
             /\ r < at.req => got[r] = Reqs[r].per * many
             /\ r = at.req => got[r] + Offered(r, at.opt..Len(Reqs[r].options)) >= Reqs[r].per * many
             /\ r > at.req => Offered(r, All(r)) >= Reqs[r].per * many
    /\ Calm /\ Disjoint /\ phase \in {"give", "done"} =>
          \A r \in DOMAIN Reqs : got[r] = Reqs[r].per * many

Modest ==
    /\ many <= Cap
    /\ ~shaky => \A r \in DOMAIN Reqs : got[r] <= Reqs[r].per * many
    /\ Calm /\ phase = "done" => given # 0

FairInv == PaidInv /\ Probed /\ Stocked /\ Modest

--------------------------------------------------------------------------------
(* The recipe and the stock *)

(* What the order's recipe is made of. *)
LEMMA RecipeFacts ==
    ASSUME BenchType
    PROVE  /\ order.recipe.yield \in Nat \ {0}
           /\ Len(Reqs) \in Nat \ {0} /\ DOMAIN Reqs = 1..Len(Reqs)
           /\ \A r \in DOMAIN Reqs :
                /\ Reqs[r].per \in Nat \ {0}
                /\ Len(Reqs[r].options) \in Nat \ {0}
                /\ DOMAIN Reqs[r].options = 1..Len(Reqs[r].options)
                /\ \A o \in DOMAIN Reqs[r].options : Reqs[r].options[o] \subseteq Items
<1>1. /\ order.recipe.yield \in Nat \ {0}
      /\ Reqs \in Seq([options : Seq(SUBSET Items), per : Nat \ {0}])
      /\ Reqs # <<>> /\ \A r \in DOMAIN Reqs : Reqs[r].options # <<>>
  BY CraftingAssumption DEF BenchType, Reqs
<1> HIDE DEF Reqs
<1>2. Len(Reqs) \in Nat \ {0} /\ DOMAIN Reqs = 1..Len(Reqs)
  BY <1>1
<1>3. ASSUME NEW r \in DOMAIN Reqs
      PROVE  /\ Reqs[r].per \in Nat \ {0} /\ Reqs[r].options \in Seq(SUBSET Items)
             /\ Reqs[r].options # <<>>
  <2> DEFINE Requirement == [options : Seq(SUBSET Items), per : Nat \ {0}]
  <2>1. Reqs[r] \in Requirement
    <3>1. Reqs \in Seq(Requirement)  BY <1>1
    <3> HIDE DEF Requirement
    <3>. QED BY <3>1
  <2>2. Reqs[r].per \in Nat \ {0} /\ Reqs[r].options \in Seq(SUBSET Items)
    BY ONLY <2>1
  <2>. QED BY <1>1, <2>2
<1>4. ASSUME NEW options \in Seq(SUBSET Items), options # <<>>
      PROVE  /\ Len(options) \in Nat \ {0} /\ DOMAIN options = 1..Len(options)
             /\ \A o \in DOMAIN options : options[o] \subseteq Items
  BY <1>4
<1>5. ASSUME NEW r \in DOMAIN Reqs
      PROVE  /\ Len(Reqs[r].options) \in Nat \ {0}
             /\ DOMAIN Reqs[r].options = 1..Len(Reqs[r].options)
             /\ \A o \in DOMAIN Reqs[r].options : Reqs[r].options[o] \subseteq Items
  BY <1>3, <1>4
<1>6. \A r \in DOMAIN Reqs : Reqs[r].per \in Nat \ {0}
  BY <1>3
<1>. QED BY <1>1, <1>2, <1>5, <1>6

(* What a player holds of some items is a number. *)
LEMMA StockNat ==
    ASSUME NEW h \in [Items -> 0..MaxHeld], NEW S \in SUBSET Items
    PROVE  IsFiniteSet(S) /\ SumFunctionOnSet(h, S) \in Nat
<1>1. IsFiniteSet(S)  BY CraftingAssumption, FS_Subset
<1>2. \A i \in S : h[i] \in Nat  BY CraftingAssumption
<1>. QED BY <1>1, <1>2, SumNat

LEMMA AmountNat ==
    ASSUME BenchType, NEW option \in SUBSET Items
    PROVE  Amount(option) \in Nat
BY StockNat DEF BenchType, Amount

(* A /clear that removes n of an option leaves the others, and is an n that    *)
(* was there.                                                               *)
LEMMA Clearing ==
    ASSUME BenchType, NEW option \in SUBSET Items, NEW n \in Int, held' \in Without(option, n),
           UNCHANGED online
    PROVE  /\ held' \in [Items -> 0..MaxHeld] /\ n \in Nat
           /\ n <= Amount(option) => Amount(option)' = Amount(option) - n
           /\ \A other \in SUBSET Items : other \cap option = {} => Amount(other)' = Amount(other)
<1>1. /\ held' \in [Items -> 0..MaxHeld] /\ \A i \in Items : held'[i] <= held[i]
      /\ \A i \in Items : i \notin option => held'[i] = held[i]
      /\ SumFunctionOnSet(held', option) = SumFunctionOnSet(held, option) - n
  BY DEF Without
<1>2. /\ IsFiniteSet(option) /\ SumFunctionOnSet(held, option) \in Nat
      /\ SumFunctionOnSet(held', option) \in Nat
  BY <1>1, StockNat DEF BenchType
<1>3. SumFunctionOnSet(held', option) <= SumFunctionOnSet(held, option)
  <2>1. Whole(held, option) /\ Whole(held', option)
    BY <1>1, <1>2, CraftingAssumption DEF Whole, BenchType
  <2>. QED BY <1>1, <2>1, SumLess
<1>4. n \in Nat  BY <1>1, <1>2, <1>3
<1>5. ASSUME n <= Amount(option) PROVE Amount(option)' = Amount(option) - n
  <2>1. CASE online  BY <1>1, <2>1 DEF Amount
  <2>2. CASE ~online  BY <1>4, <1>5, <2>2 DEF Amount
  <2>. QED BY <2>1, <2>2
<1>6. ASSUME NEW other \in SUBSET Items, other \cap option = {}
      PROVE  Amount(other)' = Amount(other)
  <2>1. \A i \in other : held[i] = held'[i]  BY <1>1, <1>6
  <2>2. Whole(held, other)
    BY StockNat, CraftingAssumption DEF Whole, BenchType
  <2>3. SumFunctionOnSet(held, other) = SumFunctionOnSet(held', other)
    BY <2>1, <2>2, SumSame
  <2>. QED BY <2>3 DEF Amount
<1>. QED BY <1>1, <1>4, <1>5, <1>6

(* The scarcest requirement. *)
LEMMA Scarcest ==
    ASSUME BenchType, NEW f \in Numbers
    PROVE  LET least == Min({f[r] \div Reqs[r].per : r \in DOMAIN Reqs})
           IN  /\ least \in Nat
               /\ \A n \in Nat : n <= least <=> \A r \in DOMAIN Reqs : Reqs[r].per * n <= f[r]
<1> DEFINE S == {f[r] \div Reqs[r].per : r \in DOMAIN Reqs}
<1>1. \A r \in DOMAIN Reqs :
          /\ Reqs[r].per \in Nat \ {0} /\ f[r] \in Nat
          /\ f[r] \div Reqs[r].per \in Nat
          /\ \A n \in Nat : n <= f[r] \div Reqs[r].per <=> Reqs[r].per * n <= f[r]
  BY RecipeFacts, Division DEF Numbers
<1>2. S \in SUBSET Nat /\ S # {}  BY <1>1, RecipeFacts
<1>3. Min(S) \in S /\ \A m \in S : Min(S) <= m
  <2> HIDE DEF S
  <2>. QED BY <1>2, MinIsLeast
<1>4. Min(S) \in Nat  BY <1>2, <1>3
<1>5. ASSUME NEW n \in Nat PROVE n <= Min(S) <=> \A r \in DOMAIN Reqs : Reqs[r].per * n <= f[r]
  <2>1. n <= Min(S) <=> \A m \in S : n <= m
    <3> HIDE DEF S
    <3>. QED BY <1>2, <1>3, <1>4
  <2>2. (\A m \in S : n <= m) <=> \A r \in DOMAIN Reqs : n <= f[r] \div Reqs[r].per
    OBVIOUS
  <2>. QED BY <1>1, <2>1, <2>2
<1>. QED BY <1>4, <1>5


--------------------------------------------------------------------------------
(* The steps of the probes and of the /clear commands                         *)

(* Where the next command goes. *)
LEMMA Advancing ==
    ASSUME BenchType, NEW satisfied \in BOOLEAN, NEW next, Advance(satisfied, next)
    PROVE  \/ /\ ~satisfied /\ at.opt < Len(Reqs[at.req].options)
              /\ at' = [req |-> at.req, opt |-> at.opt + 1] /\ phase' = phase
           \/ /\ satisfied \/ at.opt = Len(Reqs[at.req].options)
              /\ at.req < Len(Reqs)
              /\ at' = [req |-> at.req + 1, opt |-> 1] /\ phase' = phase
           \/ /\ satisfied \/ at.opt = Len(Reqs[at.req].options)
              /\ at.req = Len(Reqs)
              /\ at' = [req |-> 1, opt |-> 1] /\ phase' = next
<1>1. /\ Len(Reqs) \in Nat \ {0} /\ DOMAIN Reqs = 1..Len(Reqs)
      /\ Len(Reqs[at.req].options) \in Nat \ {0}
      /\ DOMAIN Reqs[at.req].options = 1..Len(Reqs[at.req].options)
  BY RecipeFacts DEF BenchType
<1>2. at = [req |-> at.req, opt |-> at.opt] /\ at.req \in 1..Len(Reqs)
      /\ at.opt \in 1..Len(Reqs[at.req].options)
  BY <1>1 DEF BenchType
<1>3. CASE ~satisfied /\ at.opt < Len(Reqs[at.req].options)
  <2>1. at' = [at EXCEPT !.opt = @ + 1] /\ phase' = phase  BY <1>3 DEF Advance
  <2>2. at' = [req |-> at.req, opt |-> at.opt + 1]  BY <1>2, <2>1
  <2>. QED BY <1>3, <2>1, <2>2
<1>4. CASE ~(~satisfied /\ at.opt < Len(Reqs[at.req].options)) /\ at.req = Len(Reqs)
  <2>1. at' = First /\ phase' = next  BY <1>4 DEF Advance
  <2>. QED BY <1>1, <1>2, <1>4, <2>1 DEF First
<1>5. CASE ~(~satisfied /\ at.opt < Len(Reqs[at.req].options)) /\ at.req # Len(Reqs)
  <2>1. at' = [req |-> at.req + 1, opt |-> 1] /\ phase' = phase  BY <1>5 DEF Advance
  <2>. QED BY <1>1, <1>2, <1>5, <2>1
<1>. QED BY <1>3, <1>4, <1>5

(* The step it goes to exists. *)
LEMMA AdvanceType ==
    ASSUME BenchType, NEW satisfied \in BOOLEAN, NEW next, Advance(satisfied, next),
           UNCHANGED order
    PROVE  /\ at' \in [req : DOMAIN Reqs, opt : Nat]
           /\ at'.opt \in DOMAIN Reqs[at'.req].options
           /\ phase' \in {phase, next}
<1>1. /\ Len(Reqs) \in Nat \ {0} /\ DOMAIN Reqs = 1..Len(Reqs)
      /\ \A r \in DOMAIN Reqs : /\ Len(Reqs[r].options) \in Nat \ {0}
                                /\ DOMAIN Reqs[r].options = 1..Len(Reqs[r].options)
  BY RecipeFacts
<1>2. at.req \in 1..Len(Reqs) /\ at.opt \in 1..Len(Reqs[at.req].options)
  BY <1>1 DEF BenchType
<1>. QED BY <1>1, <1>2, Advancing

(* What a command reads of what was found. *)
LEMMA ReadingFacts ==
    ASSUME NEW way \in Ways, NEW found \in Nat, NEW read \in Readings(found, way)
    PROVE  /\ read \in Nat
           /\ way.by = "rcon" => read = found /\ way.times = 1
BY CraftingAssumption DEF Ways, Readings

(* What a /clear, sent once or twice, removes. *)
LEMMA Removal ==
    ASSUME BenchType, Underway, phase = "take", NEW way \in Ways
    PROVE  LET ask == Need - got[at.req]
               before == Least(Amount(Option), ask * (way.times - 1))
               now == Least(Amount(Option) - before, ask)
               removed == IF way.times = 0 THEN 0 ELSE before + now
           IN  /\ Option \in SUBSET Items /\ Amount(Option) \in Nat
               /\ ask \in Nat \ {0}
               /\ removed \in Int /\ removed <= Amount(Option)
               /\ way.times # 0 => now \in Nat /\ removed >= now
               /\ way.times = 1 => removed = now /\ now = Least(Amount(Option), ask)
<1> DEFINE a == Amount(Option)
           ask == Need - got[at.req]
           before == Least(a, ask * (way.times - 1))
           now == Least(a - before, ask)
           removed == IF way.times = 0 THEN 0 ELSE before + now
<1>1. /\ at.req \in DOMAIN Reqs /\ Option \in SUBSET Items
      /\ Reqs[at.req].per \in Nat \ {0}
  BY RecipeFacts DEF BenchType, Option
<1>2. a \in Nat  BY <1>1, AmountNat
<1>3. ask \in Nat \ {0}
  BY <1>1 DEF BenchType, Numbers, Underway, Need
<1>4. way.times \in {0, 1, 2}  BY DEF Ways
<1> DEFINE Goal == /\ removed \in Int /\ removed <= a
                   /\ way.times # 0 => now \in Nat /\ removed >= now
                   /\ way.times = 1 => removed = now /\ now = Least(a, ask)
<1> HIDE DEF a, ask
<1> SUFFICES Goal  BY <1>1, <1>2, <1>3 DEF a, ask
<1>5. CASE way.times = 0
  BY <1>2, <1>3, <1>5
<1>6. CASE way.times = 1
  <2>1. ask * (way.times - 1) = 0  BY <1>3, <1>6
  <2>2. before = 0  BY <1>2, <2>1 DEF Least
  <2>3. now = Least(a, ask) /\ removed = now  BY <1>2, <1>3, <1>6, <2>2 DEF Least
  <2>. QED BY <1>2, <1>3, <1>6, <2>3 DEF Least
<1>7. CASE way.times = 2
  <2>1. ask * (way.times - 1) = ask  BY <1>3, <1>7
  <2>2. before = Least(a, ask)  BY <2>1
  <2>. QED BY <1>2, <1>3, <1>7, <2>2 DEF Least
<1>. QED BY <1>4, <1>5, <1>6, <1>7


--------------------------------------------------------------------------------
(* What is given was paid for *)

(* The requirement of the order stays what it is. *)
LEMMA SameRecipe ==
    ASSUME UNCHANGED order
    PROVE  Reqs' = Reqs /\ Numbers' = Numbers
BY DEF Reqs, Numbers

LEMMA PaidAtFirst ==
    ASSUME CraftInit
    PROVE  PaidInv
<1>1. /\ order.recipe \in Recipes /\ order.count \in Nat
      /\ held \in [Items -> 0..MaxHeld] /\ online \in BOOLEAN
  <2>1. CASE order \in [recipe : Recipes, hold : {FALSE}, count : 1..MaxStack + 1]
    BY <2>1, CraftingAssumption DEF CraftInit
  <2>2. CASE order \in [recipe : Recipes, hold : {TRUE}, count : {0}]
    BY <2>2 DEF CraftInit
  <2>. QED BY <2>1, <2>2 DEF CraftInit
<1>2. loose \in Numbers /\ got \in Numbers /\ taken \in Numbers
      /\ \A r \in DOMAIN Reqs : got[r] = 0 /\ taken[r] = 0
      /\ got = taken
  BY DEF CraftInit, Numbers
<1>3. at \in [req : DOMAIN Reqs, opt : Nat] /\ at.opt \in DOMAIN Reqs[at.req].options
  <2>1. /\ Reqs \in Seq([options : Seq(SUBSET Items), per : Nat \ {0}])
        /\ Reqs # <<>> /\ \A r \in DOMAIN Reqs : Reqs[r].options # <<>>
    BY <1>1, CraftingAssumption DEF Reqs
  <2> HIDE DEF Reqs
  <2>2. 1 \in DOMAIN Reqs  BY <2>1
  <2>3. Reqs[1].options \in Seq(SUBSET Items)
    <3> DEFINE Requirement == [options : Seq(SUBSET Items), per : Nat \ {0}]
    <3>1. Reqs \in Seq(Requirement)  BY <2>1
    <3>2. Reqs[1] \in Requirement
      <4> HIDE DEF Requirement
      <4>. QED BY <2>2, <3>1
    <3>. QED BY <3>2
  <2>4. 1 \in DOMAIN Reqs[1].options
    <3>1. \A options \in Seq(SUBSET Items) : options # <<>> => 1 \in DOMAIN options  OBVIOUS
    <3>. QED BY <2>1, <2>2, <2>3, <3>1
  <2>. QED BY <2>2, <2>4 DEF CraftInit, First
<1>4. BenchType  BY <1>1, <1>2, <1>3 DEF BenchType, CraftInit
<1>5. Underway /\ Accounts /\ Grants
  BY <1>2 DEF Underway, Accounts, Grants, CraftInit
<1>. QED BY <1>4, <1>5 DEF PaidInv

LEMMA ProbePaid ==
    ASSUME PaidInv, Probe
    PROVE  PaidInv'
<1>1. BenchType /\ Underway /\ Accounts /\ Grants  BY DEF PaidInv
<1>2. Reqs' = Reqs /\ Numbers' = Numbers  BY SameRecipe DEF Probe
<1>3. PICK way \in Ways :
         /\ shaky' = (shaky \/ way.by # "rcon")
         /\ \/ /\ online \/ way.by = "tmux"
               /\ \E read \in Readings(Amount(Option), way) :
                     loose' = [loose EXCEPT ![at.req] = @ + read]
               /\ Advance(FALSE, "decide")
            \/ /\ ~online \/ way.by # "rcon"
               /\ Refused /\ UNCHANGED loose
  BY DEF Probe
<1>4. shaky' \in BOOLEAN /\ (~shaky' => ~shaky)  BY <1>1, <1>3 DEF BenchType
<1>5. /\ loose' \in Numbers /\ phase' \in {"probe", "decide", "refused"}
      /\ at' \in [req : DOMAIN Reqs, opt : Nat]
      /\ at'.opt \in DOMAIN Reqs[at'.req].options
  <2>1. CASE Refused /\ UNCHANGED loose
    BY <1>1, <2>1 DEF Refused, BenchType
  <2>2. CASE /\ \E read \in Readings(Amount(Option), way) :
                    loose' = [loose EXCEPT ![at.req] = @ + read]
             /\ Advance(FALSE, "decide")
    <3>1. PICK read \in Readings(Amount(Option), way) :
                    loose' = [loose EXCEPT ![at.req] = @ + read]
      BY <2>2
    <3>2. Option \in SUBSET Items /\ at.req \in DOMAIN Reqs
      BY <1>1, RecipeFacts DEF BenchType, Option
    <3>3. read \in Nat  BY <1>1, <3>2, AmountNat, ReadingFacts
    <3>4. loose' \in Numbers  BY <1>1, <3>1, <3>2, <3>3 DEF BenchType, Numbers
    <3>5. /\ at' \in [req : DOMAIN Reqs, opt : Nat]
          /\ at'.opt \in DOMAIN Reqs[at'.req].options
          /\ phase' \in {phase, "decide"}
      <4>1. UNCHANGED order  BY DEF Probe
      <4>. QED BY <1>1, <2>2, <4>1, AdvanceType
    <3>6. phase = "probe"  BY DEF Probe
    <3>. QED BY <3>4, <3>5, <3>6
  <2>. QED BY <1>3, <2>1, <2>2
<1>6. UNCHANGED <<order, held, online, many, got, taken, given, blind, moved>> /\ phase = "probe"
  BY DEF Probe
<1>7. BenchType'  BY <1>1, <1>2, <1>4, <1>5, <1>6 DEF BenchType
<1>8. Underway'  BY <1>1, <1>2, <1>5, <1>6 DEF Underway
<1>9. Accounts'  BY <1>1, <1>2, <1>4, <1>6 DEF Accounts
<1>10. Grants'  BY <1>1, <1>6 DEF Grants
<1>. QED BY <1>7, <1>8, <1>9, <1>10 DEF PaidInv

(* What will be crafted is at most what the probes allow, what was asked for    *)
(* and what fills a stack.                                                   *)
LEMMA CapNat ==
    ASSUME BenchType
    PROVE  /\ Cap \in Nat \ {0}
           /\ Cap = 1 \/ order.recipe.yield * Cap <= MaxStack
<1>1. order.recipe.yield \in Nat \ {0} /\ MaxStack \in Nat \ {0}
  BY RecipeFacts, CraftingAssumption
<1> DEFINE yield == order.recipe.yield
<1>2. CASE MaxStack < yield  BY <1>2 DEF Cap
<1>3. CASE ~(MaxStack < yield)
  <2>1. /\ MaxStack \div yield \in Nat /\ yield * (MaxStack \div yield) <= MaxStack
        /\ 1 <= MaxStack \div yield <=> yield * 1 <= MaxStack
    <3> HIDE DEF yield
    <3>. QED BY <1>1, Division DEF yield
  <2>2. Cap = MaxStack \div yield  BY <1>3 DEF Cap
  <2>3. yield * 1 <= MaxStack  BY <1>1, <1>3
  <2>. QED BY <1>1, <2>1, <2>2, <2>3
<1>. QED BY <1>2, <1>3

LEMMA WillCraftFacts ==
    ASSUME BenchType
    PROVE  /\ WillCraft \in Nat /\ WillCraft <= Cap
           /\ \A r \in DOMAIN Reqs : Reqs[r].per * WillCraft <= loose[r]
<1>1. Craftable \in Nat /\ \A n \in Nat :
          n <= Craftable <=> \A r \in DOMAIN Reqs : Reqs[r].per * n <= loose[r]
  BY Scarcest DEF BenchType, Craftable
<1>2. Cap \in Nat /\ order.count \in Nat  BY CapNat DEF BenchType
<1>3. WillCraft \in Nat /\ WillCraft <= Cap /\ WillCraft <= Craftable
  BY <1>1, <1>2 DEF WillCraft, Least
<1>. QED BY <1>1, <1>3

LEMMA DecidePaid ==
    ASSUME PaidInv, Decide
    PROVE  PaidInv'
<1>1. BenchType /\ Underway /\ Accounts /\ Grants  BY DEF PaidInv
<1>2. Reqs' = Reqs /\ Numbers' = Numbers  BY SameRecipe DEF Decide
<1>3. /\ phase = "decide" /\ many' = WillCraft
      /\ phase' = IF many' > 0 THEN "take" ELSE "refused"
      /\ UNCHANGED <<order, held, online, at, loose, got, taken, given, shaky, blind, moved>>
  BY DEF Decide
<1>4. many' \in Nat  BY <1>1, <1>3, WillCraftFacts
<1>5. BenchType'  BY <1>1, <1>2, <1>3, <1>4 DEF BenchType
<1>6. Underway'
  <2>1. /\ at.req \in DOMAIN Reqs /\ Reqs[at.req].per \in Nat \ {0} /\ got[at.req] = 0
        /\ \A r \in DOMAIN Reqs : got[r] = 0
    BY <1>1, <1>3, RecipeFacts DEF BenchType, Underway
  <2>2. many' > 0 => Reqs[at.req].per * many' > 0  BY <1>4, <2>1
  <2>3. many' > 0 => 0 < Need'  BY <1>2, <1>3, <2>2 DEF Need
  <2>. QED BY <1>2, <1>3, <1>4, <2>1, <2>3 DEF Underway
<1>7. Accounts'  BY <1>1, <1>2, <1>3 DEF Accounts
<1>8. Grants'  BY <1>1, <1>3 DEF Grants
<1>. QED BY <1>5, <1>6, <1>7, <1>8 DEF PaidInv


LEMMA TakePaid ==
    ASSUME PaidInv, Take
    PROVE  PaidInv'
<1>1. BenchType /\ Underway /\ Accounts /\ Grants  BY DEF PaidInv
<1>2. Reqs' = Reqs /\ Numbers' = Numbers  BY SameRecipe DEF Take
<1>3. phase = "take" /\ UNCHANGED <<order, online, loose, many, given, moved>>
  BY DEF Take
<1>4. PICK way \in Ways :
         LET ask == Need - got[at.req]
             before == Least(Amount(Option), ask * (way.times - 1))
             now == Least(Amount(Option) - before, ask)
             removed == IF way.times = 0 THEN 0 ELSE before + now
         IN  /\ shaky' = (shaky \/ way.by # "rcon")
             /\ blind' = blind \cup (IF way.by = "rcon" THEN {} ELSE {at.req})
             /\ held' \in Without(Option, removed)
             /\ taken' = [taken EXCEPT ![at.req] = @ + removed]
             /\ \/ \E read \in Readings(now, way) :
                     /\ got' = [got EXCEPT ![at.req] = @ + read]
                     /\ Advance(got'[at.req] >= Need, "give")
                \/ way.by = "nobody" /\ Refused /\ UNCHANGED got
  BY DEF Take
<1> DEFINE ask == Need - got[at.req]
           before == Least(Amount(Option), ask * (way.times - 1))
           now == Least(Amount(Option) - before, ask)
           removed == IF way.times = 0 THEN 0 ELSE before + now
           r == at.req
<1>5. /\ Option \in SUBSET Items
      /\ removed \in Int
      /\ way.times # 0 => now \in Nat /\ removed >= now
      /\ way.times = 1 => removed = now
  BY <1>1, <1>3, Removal
<1>6. /\ held' \in [Items -> 0..MaxHeld] /\ removed \in Nat
  <2>1. held' \in Without(Option, removed)  BY <1>4
  <2> HIDE DEF removed
  <2>. QED BY <1>1, <1>3, <1>5, <2>1, Clearing
<1>7. shaky' = (shaky \/ way.by # "rcon") /\ taken' = [taken EXCEPT ![r] = @ + removed]
  BY <1>4
<1>8. r \in DOMAIN Reqs /\ got \in Numbers /\ taken \in Numbers
  BY <1>1 DEF BenchType
<1>0. blind' = blind \cup (IF way.by = "rcon" THEN {} ELSE {r})
  BY <1>4
<1>9. \/ \E read \in Readings(now, way) :
           /\ got' = [got EXCEPT ![r] = @ + read]
           /\ Advance(got'[r] >= Need, "give")
      \/ way.by = "nobody" /\ Refused /\ UNCHANGED got
  BY <1>4
<1> HIDE DEF removed, now, before, ask
<1>10. taken' \in Numbers /\ \A s \in DOMAIN Reqs : taken'[s] >= taken[s]
  BY <1>6, <1>7, <1>8 DEF Numbers
<1>11. shaky' \in BOOLEAN /\ (~shaky' => ~shaky /\ way.by = "rcon")
  BY <1>1, <1>7 DEF BenchType
<1>12. Grants'
  <2>1. given = 0  BY <1>1, <1>3 DEF Grants
  <2>. QED BY <1>3, <2>1 DEF Grants
<1>13. CASE way.by = "nobody" /\ Refused /\ UNCHANGED got
  <2>1. phase' = "refused" /\ at' = at /\ got' = got  BY <1>13 DEF Refused
  <2>2. BenchType'
    BY <1>1, <1>2, <1>3, <1>6, <1>10, <1>11, <2>1 DEF BenchType
  <2>3. Underway'  BY <2>1 DEF Underway
  <2>4. Accounts'
    <3>1. shaky' /\ r \in blind' /\ blind \subseteq blind'  BY <1>0, <1>7, <1>13
    <3>2. \A s \in DOMAIN Reqs : s # r => taken'[s] = taken[s]  BY <1>7, <1>8 DEF Numbers
    <3>. QED BY <1>1, <1>2, <2>1, <3>1, <3>2 DEF Accounts
  <2>. QED BY <1>12, <2>2, <2>3, <2>4 DEF PaidInv
<1>14. CASE \E read \in Readings(now, way) :
                /\ got' = [got EXCEPT ![r] = @ + read]
                /\ Advance(got'[r] >= Need, "give")
  <2>1. PICK read \in Readings(now, way) :
                /\ got' = [got EXCEPT ![r] = @ + read]
                /\ Advance(got'[r] >= Need, "give")
    BY <1>14
  <2>2. way.times # 0 /\ now \in Nat /\ removed >= now
    <3>1. way.by # "nobody"  BY <2>1 DEF Readings, Ways
    <3>2. way.times # 0  BY <3>1 DEF Ways
    <3>. QED BY <1>5, <3>2
  <2>3. /\ read \in Nat
        /\ way.by = "rcon" => read = now /\ removed = now
    <3>1. /\ read \in Nat
          /\ way.by = "rcon" => read = now /\ way.times = 1
      BY <2>1, <2>2, ReadingFacts
    <3>. QED BY <1>5, <3>1 DEF removed, now, before, ask
  <2>4. got' \in Numbers  BY <1>8, <2>1, <2>3 DEF Numbers
  <2>5. /\ at' \in [req : DOMAIN Reqs, opt : Nat]
        /\ at'.opt \in DOMAIN Reqs[at'.req].options
        /\ phase' \in {phase, "give"}
    <3> DEFINE s == got'[r] >= Need
    <3>1. s \in BOOLEAN /\ Advance(s, "give")  BY <2>1
    <3> HIDE DEF s
    <3>. QED BY <1>1, <1>3, <3>1, AdvanceType
  <2>6. BenchType'
    BY <1>1, <1>2, <1>3, <1>6, <1>10, <1>11, <2>4, <2>5 DEF BenchType
  <2>7. ASSUME phase' = "take"
        PROVE  many' > 0 /\ got'[at'.req] < Need' /\ \A s \in DOMAIN Reqs : s > at'.req => got'[s] = 0
    <3>1. /\ many > 0 /\ many \in Nat /\ \A s \in DOMAIN Reqs : s > r => got[s] = 0
          /\ \A s \in DOMAIN Reqs : Reqs[s].per \in Nat \ {0}
          /\ DOMAIN Reqs = 1..Len(Reqs) /\ Len(Reqs) \in Nat
      BY <1>1, <1>3, RecipeFacts DEF Underway, BenchType
    <3>2. Need' = Reqs[at'.req].per * many  BY <1>2, <1>3 DEF Need
    <3>3. \/ ~(got'[r] >= Need) /\ at' = [req |-> r, opt |-> at.opt + 1]
          \/ r < Len(Reqs) /\ at' = [req |-> r + 1, opt |-> 1]
      <4> DEFINE s == got'[r] >= Need
      <4>1. s \in BOOLEAN /\ Advance(s, "give")  BY <2>1
      <4>2. ~(phase' = "give")  BY <2>7
      <4>3. \/ ~s /\ at' = [req |-> r, opt |-> at.opt + 1]
            \/ r < Len(Reqs) /\ at' = [req |-> r + 1, opt |-> 1]
        <5> HIDE DEF s
        <5>. QED BY <1>1, <4>1, <4>2, Advancing
      <4>. QED BY <4>3
    <3>4. \A s \in DOMAIN Reqs : s # r => got'[s] = got[s]
      BY <1>8, <2>1 DEF Numbers
    <3>5. CASE ~(got'[r] >= Need) /\ at' = [req |-> r, opt |-> at.opt + 1]
      <4>1. at'.req = r /\ Need' = Need  BY <3>2, <3>5 DEF Need
      <4>2. Need \in Nat /\ got'[r] \in Nat
        <5>1. Need \in Nat  BY <1>8, <3>1 DEF Need
        <5>2. got'[r] \in Nat  BY <1>8, <2>4 DEF Numbers
        <5>. QED BY <5>1, <5>2
      <4>3. got'[r] < Need  BY <3>5, <4>2
      <4>. QED BY <1>3, <1>8, <3>1, <3>4, <4>1, <4>3
    <3>6. CASE r < Len(Reqs) /\ at' = [req |-> r + 1, opt |-> 1]
      <4>1. at'.req = r + 1 /\ r + 1 \in DOMAIN Reqs /\ r \in Nat  BY <1>8, <3>1, <3>6
      <4>2. got'[r + 1] = 0  BY <3>1, <3>4, <4>1
      <4>3. Reqs[r + 1].per * many > 0
        <5>1. \A x, y \in Nat \ {0} : x * y > 0  OBVIOUS
        <5>. QED BY <3>1, <4>1, <5>1
      <4>4. \A s \in DOMAIN Reqs : s > r + 1 => got'[s] = 0  BY <3>1, <3>4, <4>1
      <4>. QED BY <1>3, <3>1, <3>2, <4>1, <4>2, <4>3, <4>4
    <3>. QED BY <3>3, <3>5, <3>6
  <2>8. Underway'
    BY <1>2, <1>3, <2>5, <2>7 DEF Underway
  <2>9. ~shaky' => got' = taken'
    BY <1>1, <1>7, <1>11, <2>1, <2>3 DEF Accounts
  <2>10. ASSUME NEW s \in DOMAIN Reqs \ blind' PROVE got'[s] = taken'[s]
    <3>1. s \in DOMAIN Reqs \ blind /\ (s = r => way.by = "rcon")  BY <1>0
    <3>2. got[s] = taken[s]  BY <1>1, <3>1 DEF Accounts
    <3>3. CASE s = r
      <4>1. got'[r] = got[r] + read /\ taken'[r] = taken[r] + removed
        BY <1>7, <1>8, <2>1 DEF Numbers
      <4>. QED BY <2>3, <3>1, <3>2, <3>3, <4>1
    <3>4. CASE s # r
      BY <1>7, <1>8, <2>1, <3>2, <3>4 DEF Numbers
    <3>. QED BY <3>3, <3>4
  <2>11. ~shaky' => blind' = {}  BY <1>0, <1>1, <1>11 DEF Accounts
  <2>12. Accounts'  BY <1>2, <2>9, <2>10, <2>11 DEF Accounts
  <2>. QED BY <1>12, <2>6, <2>8, <2>12 DEF PaidInv
<1>. QED BY <1>9, <1>13, <1>14

LEMMA GivePaid ==
    ASSUME PaidInv, Give
    PROVE  PaidInv'
<1>1. BenchType /\ Underway /\ Accounts /\ Grants  BY DEF PaidInv
<1>2. Reqs' = Reqs /\ Numbers' = Numbers  BY SameRecipe DEF Give
<1>3. /\ phase = "give"
      /\ UNCHANGED <<order, held, online, at, loose, many, got, taken, blind>>
  BY DEF Give
<1>4. Effective' = Effective  BY <1>2, <1>3 DEF Effective
<1>5. Effective \in Nat /\ order.recipe.yield \in Nat \ {0}
  BY <1>1, Scarcest, RecipeFacts DEF BenchType, Effective
<1>6. given = 0  BY <1>1, <1>3 DEF Grants
<1>7. CASE Effective = 0
  <2>1. phase' = "refused" /\ UNCHANGED <<given, shaky, moved>>  BY <1>7 DEF Give
  <2>2. BenchType'  BY <1>1, <1>2, <1>3, <2>1 DEF BenchType
  <2>3. Underway' /\ Accounts' /\ Grants'
    BY <1>1, <1>2, <1>3, <1>6, <2>1 DEF Underway, Accounts, Grants
  <2>. QED BY <2>2, <2>3 DEF PaidInv
<1>8. CASE Effective # 0
  <2>1. PICK way \in Ways, there \in BOOLEAN :
                /\ phase' = IF way.by = "nobody" THEN "refused" ELSE "done"
                /\ given' = IF there THEN order.recipe.yield * Effective * way.times ELSE 0
                /\ shaky' = (shaky \/ way.by # "rcon")
                /\ moved' = (moved \/ ~there)
    BY <1>8 DEF Give
  <2>2. way.times \in Nat /\ (way.by = "rcon" => way.times = 1)  BY DEF Ways
  <2>3. given' \in Nat
    <3>1. order.recipe.yield * Effective \in Nat  BY <1>5
    <3>2. order.recipe.yield * Effective * way.times \in Nat  BY <2>2, <3>1
    <3>. QED BY <2>1, <3>2
  <2>4. BenchType'  BY <1>1, <1>2, <1>3, <2>1, <2>3 DEF BenchType
  <2>5. Underway'  BY <2>1 DEF Underway
  <2>6. shaky' = FALSE => shaky = FALSE  BY <1>1, <2>1 DEF BenchType
  <2>7. Accounts'  BY <1>1, <1>2, <1>3, <2>4, <2>6 DEF Accounts, BenchType
  <2>8. ASSUME given' # 0, ~shaky' PROVE given' = order.recipe.yield * Effective
    <3>1. way.times = 1  BY <1>1, <2>1, <2>2, <2>8 DEF BenchType
    <3>2. given' = order.recipe.yield * Effective * way.times  BY <2>1, <2>8
    <3>. QED BY <1>5, <3>1, <3>2
  <2>10. given' \in {0, order.recipe.yield * Effective, order.recipe.yield * (2 * Effective)}
    <3>1. order.recipe.yield * Effective * 1 = order.recipe.yield * Effective  BY <1>5
    <3>2. order.recipe.yield * Effective * 2 = order.recipe.yield * (2 * Effective)  BY <1>5
    <3>3. order.recipe.yield * Effective * 0 = 0  BY <1>5
    <3>4. way.times \in {0, 1, 2}  BY DEF Ways
    <3>. QED BY <2>1, <3>1, <3>2, <3>3, <3>4
  <2>9. Grants'  BY <1>3, <1>4, <1>5, <1>8, <2>1, <2>8, <2>10 DEF Grants
  <2>. QED BY <2>4, <2>5, <2>7, <2>9 DEF PaidInv
<1>. QED BY <1>7, <1>8

LEMMA PlayPaid ==
    ASSUME PaidInv, Play
    PROVE  PaidInv'
<1>1. BenchType /\ Underway /\ Accounts /\ Grants  BY DEF PaidInv
<1>2. Reqs' = Reqs /\ Numbers' = Numbers  BY SameRecipe DEF Play
<1>3. /\ moved' = TRUE
      /\ UNCHANGED <<order, phase, at, loose, many, got, taken, given, shaky, blind>>
  BY DEF Play
<1>4. held' \in [Items -> 0..MaxHeld] /\ online' \in BOOLEAN
  BY <1>1 DEF Play, BenchType
<1>5. BenchType'  BY <1>1, <1>2, <1>3, <1>4 DEF BenchType
<1>6. Underway' /\ Accounts' /\ Grants'
  BY <1>1, <1>2, <1>3 DEF Underway, Accounts, Grants, Need, Effective
<1>. QED BY <1>5, <1>6 DEF PaidInv

(* Every step keeps it. *)
LEMMA PaidAlways == CraftSpec => []PaidInv
<1>1. CraftInit => PaidInv  BY PaidAtFirst
<1>2. PaidInv /\ [CraftNext]_bench => PaidInv'
  <2> SUFFICES ASSUME PaidInv, [CraftNext]_bench PROVE PaidInv'
    OBVIOUS
  <2>1. CASE Probe  BY <2>1, ProbePaid
  <2>2. CASE Decide  BY <2>2, DecidePaid
  <2>3. CASE Take  BY <2>3, TakePaid
  <2>4. CASE Give  BY <2>4, GivePaid
  <2>5. CASE Play  BY <2>5, PlayPaid
  <2>6. CASE UNCHANGED bench
    BY <2>6 DEF bench, PaidInv, BenchType, Underway, Accounts, Grants, Numbers, Reqs, Need, Effective
  <2>. QED BY <2>1, <2>2, <2>3, <2>4, <2>5, <2>6 DEF CraftNext
<1>. QED BY <1>1, <1>2, PTL DEF CraftSpec

(* Backed: what is given was paid for, twice at most, with every ingredient     *)
(* whose removal RCON has answered, whatever the player does and whatever       *)
(* happens to the other commands meanwhile (crafting.py:811-859).             *)
THEOREM NothingForNothing == CraftSpec => []Backed
<1>1. PaidInv => Backed
  <2> SUFFICES ASSUME PaidInv, NEW r \in DOMAIN Reqs \ blind
               PROVE  Reqs[r].per * Granted <= (IF shaky THEN 2 ELSE 1) * taken[r]
    BY DEF Backed
  <2>1. BenchType /\ Accounts /\ Grants  BY DEF PaidInv
  <2>2. Effective \in Nat /\ Reqs[r].per * Effective <= got[r]
    BY <2>1, Scarcest DEF BenchType, Effective
  <2>3. Reqs[r].per \in Nat \ {0} /\ got[r] = taken[r] /\ taken[r] \in Nat
    BY <2>1, RecipeFacts DEF BenchType, Numbers, Accounts
  <2>4. order.recipe.yield \in Nat \ {0}  BY <2>1, RecipeFacts
  <2>5. \A n \in Nat : given = order.recipe.yield * n => Granted = n
    BY <2>4, Division DEF Granted
  <2>6. CASE given = 0
    <3>1. order.recipe.yield * 0 = 0  BY <2>4
    <3>2. Granted = 0  BY <2>5, <2>6, <3>1
    <3>. QED BY <2>3, <3>2
  <2>7. CASE given # 0 /\ ~shaky
    <3>1. Granted = Effective  BY <2>1, <2>2, <2>5, <2>7 DEF Grants
    <3>. QED BY <2>2, <2>3, <2>7, <3>1
  <2>8. CASE given # 0 /\ shaky
    <3>1. Granted \in {Effective, 2 * Effective}
      <4>1. 2 * Effective \in Nat  BY <2>2
      <4>2. given \in {order.recipe.yield * Effective, order.recipe.yield * (2 * Effective)}
        BY <2>1, <2>8 DEF Grants
      <4>. QED BY <2>2, <2>5, <4>1, <4>2
    <3>2. /\ Reqs[r].per * Effective <= 2 * taken[r]
          /\ Reqs[r].per * (2 * Effective) <= 2 * taken[r]
      <4>1. Reqs[r].per * (2 * Effective) = 2 * (Reqs[r].per * Effective)  BY <2>2, <2>3
      <4>2. Reqs[r].per * Effective \in Nat  BY <2>2, <2>3
      <4>. QED BY <2>2, <2>3, <4>1, <4>2
    <3>. QED BY <2>8, <3>1, <3>2
  <2>. QED BY <2>6, <2>7, <2>8
<1>. QED BY <1>1, PaidAlways, PTL


--------------------------------------------------------------------------------
(* What nobody disturbs is an exact trade *)

(* What the options of a requirement hold together. *)
LEMMA OfferFacts ==
    ASSUME BenchType, NEW r \in DOMAIN Reqs
    PROVE  /\ DOMAIN Offer(r) = All(r) /\ All(r) = DOMAIN Reqs[r].options
           /\ \A o \in All(r) : Offer(r)[o] = Amount(Reqs[r].options[o]) /\ Offer(r)[o] \in Nat
           /\ IsFiniteSet(All(r)) /\ Whole(Offer(r), All(r))
           /\ \A S \in SUBSET All(r) : Offered(r, S) \in Nat /\ Whole(Offer(r), S)
<1>1. All(r) = DOMAIN Reqs[r].options /\ Len(Reqs[r].options) \in Nat
  BY RecipeFacts DEF All
<1>2. \A o \in All(r) : Offer(r)[o] = Amount(Reqs[r].options[o]) /\ Offer(r)[o] \in Nat
  BY <1>1, RecipeFacts, AmountNat DEF Offer
<1>3. IsFiniteSet(All(r))  BY <1>1, FS_Interval DEF All
<1>4. \A S \in SUBSET All(r) : Offered(r, S) \in Nat /\ Whole(Offer(r), S)
  <2>1. TAKE S \in SUBSET All(r)
  <2>2. IsFiniteSet(S) /\ \A o \in S : Offer(r)[o] \in Nat  BY <1>2, <1>3, FS_Subset
  <2>. QED BY <2>2, SumNat DEF Offered, Whole
<1>5. Whole(Offer(r), All(r))  BY <1>2, <1>3 DEF Whole
<1>6. DOMAIN Offer(r) = All(r)  BY <1>1 DEF Offer
<1>. QED BY <1>1, <1>2, <1>3, <1>4, <1>5, <1>6

(* With one option more, before or behind. *)
LEMMA OfferedStep ==
    ASSUME BenchType, NEW r \in DOMAIN Reqs, NEW o \in All(r)
    PROVE  LET n == Len(Reqs[r].options)
               amount == Amount(Reqs[r].options[o])
           IN  /\ amount \in Nat
               /\ Offered(r, 1..o) = Offered(r, 1..o - 1) + amount
               /\ Offered(r, o..n) = amount + Offered(r, o + 1..n)
               /\ Offered(r, 1..0) = 0 /\ Offered(r, n + 1..n) = 0
               /\ Offered(r, 1..o - 1) \in Nat /\ Offered(r, o + 1..n) \in Nat
<1> DEFINE n == Len(Reqs[r].options)
<1>1. n \in Nat /\ o \in 1..n /\ All(r) = 1..n  BY RecipeFacts DEF All
<1> HIDE DEF n
<1>2. /\ 1..o \in SUBSET All(r) /\ o..n \in SUBSET All(r)
      /\ 1..o - 1 \in SUBSET All(r) /\ o + 1..n \in SUBSET All(r)
      /\ o \in 1..o /\ o \in o..n
      /\ 1..0 = {} /\ n + 1..n = {}
  BY <1>1
<1>3. (1..o) \ {o} = 1..o - 1 /\ (o..n) \ {o} = o + 1..n  BY <1>1
<1>4. /\ Whole(Offer(r), 1..o) /\ Whole(Offer(r), o..n)
      /\ Offered(r, 1..o - 1) \in Nat /\ Offered(r, o + 1..n) \in Nat
      /\ Offer(r)[o] = Amount(Reqs[r].options[o]) /\ Offer(r)[o] \in Nat
  BY <1>2, OfferFacts
<1>5. Offered(r, 1..o) = Offer(r)[o] + Offered(r, 1..o - 1)
  <2>1. SumFunctionOnSet(Offer(r), 1..o)
            = Offer(r)[o] + SumFunctionOnSet(Offer(r), (1..o) \ {o})
    BY <1>2, <1>4, SumRemove
  <2>. QED BY <1>3, <2>1 DEF Offered
<1>6. Offered(r, o..n) = Offer(r)[o] + Offered(r, o + 1..n)
  <2>1. SumFunctionOnSet(Offer(r), o..n)
            = Offer(r)[o] + SumFunctionOnSet(Offer(r), (o..n) \ {o})
    <3> DEFINE S == o..n
    <3>1. Whole(Offer(r), S) /\ o \in S  BY <1>2, <1>4
    <3> HIDE DEF S
    <3>2. SumFunctionOnSet(Offer(r), S) = Offer(r)[o] + SumFunctionOnSet(Offer(r), S \ {o})
      BY <3>1, SumRemove
    <3>. QED BY <3>2 DEF S
  <2>. QED BY <1>3, <2>1 DEF Offered
<1>7. Offered(r, 1..0) = 0 /\ Offered(r, n + 1..n) = 0
  BY <1>2, SumNothing DEF Offered
<1>8. Offered(r, 1..o) = Offered(r, 1..o - 1) + Offer(r)[o]
  <2> DEFINE x == Offered(r, 1..o - 1)
             y == Offer(r)[o]
  <2>1. x \in Nat /\ y \in Nat /\ Offered(r, 1..o) = y + x  BY <1>4, <1>5
  <2> HIDE DEF x, y
  <2>2. Offered(r, 1..o) = x + y  BY <2>1
  <2>. QED BY <2>2 DEF x, y
<1>. QED BY <1>4, <1>6, <1>7, <1>8 DEF n

(* Options that hold what they held offer what they offered. *)
LEMMA OfferedSame ==
    ASSUME BenchType, UNCHANGED order, NEW r \in DOMAIN Reqs, NEW S \in SUBSET All(r),
           \A o \in S : Amount(Reqs[r].options[o])' = Amount(Reqs[r].options[o])
    PROVE  Offered(r, S)' = Offered(r, S)
<1>1. Reqs' = Reqs  BY SameRecipe
<1> DEFINE f == Offer(r)
           h == [o \in DOMAIN Reqs[r].options |-> Amount(Reqs[r].options[o])']
<1>2. \A o \in S : f[o] = h[o]
  <2>1. S \subseteq DOMAIN Reqs[r].options  BY OfferFacts
  <2>. QED BY <2>1 DEF Offer
<1>3. Whole(f, S)  BY OfferFacts
<1>4. SumFunctionOnSet(f, S) = SumFunctionOnSet(h, S)
  <2> HIDE DEF f, h
  <2>. QED BY <1>2, <1>3, SumSame
<1>5. Offered(r, S)' = SumFunctionOnSet(h, S)
  BY <1>1 DEF Offered, Offer
<1>. QED BY <1>4, <1>5 DEF Offered


LEMMA FairAtFirst ==
    ASSUME CraftInit
    PROVE  FairInv
<1>1. PaidInv  BY PaidAtFirst
<1>2. BenchType  BY <1>1 DEF PaidInv
<1>3. /\ phase = "probe" /\ at = First /\ many = 0 /\ given = 0
      /\ \A r \in DOMAIN Reqs : loose[r] = 0 /\ got[r] = 0
  BY DEF CraftInit
<1>4. \A r \in DOMAIN Reqs : Offered(r, 1..0) = 0 /\ r >= 1 /\ r \in Nat
  <2>1. TAKE r \in DOMAIN Reqs
  <2>2. 1 \in All(r) /\ r \in Nat /\ r >= 1  BY <1>2, RecipeFacts DEF All
  <2>. QED BY <1>2, <2>2, OfferedStep
<1>5. Probed
  <2>1. at.req = 1 /\ at.opt = 1  BY <1>3 DEF First
  <2>. QED BY <1>3, <1>4, <2>1 DEF Probed
<1>6. Stocked  BY <1>3 DEF Stocked
<1>7. Modest
  <2>1. Cap \in Nat  BY <1>2, CapNat
  <2>2. \A r \in DOMAIN Reqs : Reqs[r].per * 0 = 0  BY <1>2, RecipeFacts
  <2>. QED BY <1>3, <2>1, <2>2 DEF Modest
<1>. QED BY <1>1, <1>5, <1>6, <1>7 DEF FairInv

LEMMA ProbeFair ==
    ASSUME FairInv, Probe
    PROVE  FairInv'
<1>1. PaidInv /\ BenchType /\ Probed /\ Modest  BY DEF FairInv, PaidInv
<1>2. PaidInv'  BY <1>1, ProbePaid
<1>3. /\ phase = "probe"
      /\ UNCHANGED <<order, held, online, many, got, taken, given, moved>>
      /\ UNCHANGED order
  BY DEF Probe
<1>4. Reqs' = Reqs  BY <1>3, SameRecipe
<1>5. PICK way \in Ways :
         /\ shaky' = (shaky \/ way.by # "rcon")
         /\ \/ /\ online \/ way.by = "tmux"
               /\ \E read \in Readings(Amount(Option), way) :
                     loose' = [loose EXCEPT ![at.req] = @ + read]
               /\ Advance(FALSE, "decide")
            \/ /\ ~online \/ way.by # "rcon"
               /\ Refused /\ UNCHANGED loose
  BY DEF Probe
<1>6. ~shaky' => ~shaky /\ way.by = "rcon"  BY <1>1, <1>5 DEF BenchType
<1>7. Modest'
  <2>1. Cap' = Cap  BY <1>3 DEF Cap
  <2>2. phase' # "done"
    <3>1. phase' \in {phase, "decide"} \/ phase' = "refused"
      BY <1>1, <1>3, <1>5, AdvanceType DEF Refused
    <3>. QED BY <1>3, <3>1
  <2>. QED BY <1>1, <1>3, <1>4, <1>6, <2>1, <2>2 DEF Modest
<1>8. CASE Refused /\ UNCHANGED loose
  <2>1. phase' = "refused"  BY <1>8 DEF Refused
  <2>. QED BY <1>2, <1>7, <2>1 DEF FairInv, Probed, Stocked
<1>9. CASE /\ \E read \in Readings(Amount(Option), way) :
                 loose' = [loose EXCEPT ![at.req] = @ + read]
           /\ Advance(FALSE, "decide")
  <2> DEFINE n == Len(Reqs[at.req].options)
             a == Amount(Option)
  <2>1. /\ Len(Reqs) \in Nat \ {0} /\ DOMAIN Reqs = 1..Len(Reqs)
        /\ at.req \in 1..Len(Reqs) /\ n \in Nat \ {0} /\ at.opt \in 1..n
        /\ All(at.req) = 1..n
    BY <1>1, RecipeFacts DEF BenchType, All
  <2>2. /\ Option \in SUBSET Items /\ a \in Nat
        /\ Offered(at.req, 1..at.opt) = Offered(at.req, 1..at.opt - 1) + a
        /\ Offered(at.req, 1..at.opt - 1) \in Nat
    <3>1. Option \in SUBSET Items  BY <1>1, <2>1, RecipeFacts DEF Option
    <3>. QED BY <1>1, <2>1, <3>1, AmountNat, OfferedStep DEF Option
  <2>3. ASSUME Calm'
        PROVE  /\ loose' = [loose EXCEPT ![at.req] = @ + a]
               /\ \A r \in DOMAIN Reqs :
                    /\ r < at.req => loose[r] = Offered(r, All(r))
                    /\ r = at.req => loose[r] = Offered(r, 1..at.opt - 1)
                    /\ r > at.req => loose[r] = 0
    <3>1. Calm /\ way.by = "rcon"  BY <1>3, <1>6, <2>3 DEF Calm
    <3>2. PICK read \in Readings(a, way) : loose' = [loose EXCEPT ![at.req] = @ + read]
      BY <1>9
    <3>3. read = a  BY <2>2, <3>1, <3>2, ReadingFacts
    <3>4. loose' = [loose EXCEPT ![at.req] = @ + a]  BY <3>2, <3>3
    <3>. QED BY <1>1, <1>3, <3>1, <3>4 DEF Probed
  <2>4. \A r \in DOMAIN Reqs : Offer(r)' = Offer(r)
    BY <1>3, <1>4 DEF Offer, Amount
  <2>5. ASSUME Calm', NEW r \in DOMAIN Reqs
        PROVE  /\ r < at.req => loose'[r] = Offered(r, All(r))
               /\ r = at.req => loose'[r] = Offered(r, 1..at.opt)
               /\ r > at.req => loose'[r] = 0
    <3>1. loose \in Numbers  BY <1>1 DEF BenchType
    <3>2. CASE r = at.req
      <4>1. loose'[r] = loose[r] + a  BY <2>3, <2>5, <3>1, <3>2 DEF Numbers
      <4>. QED BY <2>1, <2>2, <2>3, <2>5, <3>2, <4>1
    <3>3. CASE r # at.req
      <4>1. loose'[r] = loose[r]  BY <2>3, <2>5, <3>1, <3>3 DEF Numbers
      <4>. QED BY <2>3, <2>5, <3>3, <4>1
    <3>. QED BY <3>2, <3>3
  <2> HIDE DEF a
  <2>6. \/ at.opt < n /\ at' = [req |-> at.req, opt |-> at.opt + 1] /\ phase' = "probe"
        \/ /\ at.opt = n /\ at.req < Len(Reqs)
           /\ at' = [req |-> at.req + 1, opt |-> 1] /\ phase' = "probe"
        \/ /\ at.opt = n /\ at.req = Len(Reqs)
           /\ at' = [req |-> 1, opt |-> 1] /\ phase' = "decide"
    BY <1>1, <1>3, <1>9, Advancing
  <2>7. Stocked'  BY <2>6 DEF Stocked
  <2>8. Probed'
    <3>1. CASE at.opt < n /\ at' = [req |-> at.req, opt |-> at.opt + 1] /\ phase' = "probe"
      <4>1. at'.req = at.req /\ at'.opt - 1 = at.opt  BY <2>1, <3>1
      <4>2. Calm' => \A r \in DOMAIN Reqs :
               /\ r < at'.req => loose'[r] = Offered(r, All(r))
               /\ r = at'.req => loose'[r] = Offered(r, 1..at'.opt - 1)
               /\ r > at'.req => loose'[r] = 0
        BY <2>5, <4>1
      <4>. QED BY <1>4, <2>4, <3>1, <4>2 DEF Probed, Offered, All
    <3>2. CASE /\ at.opt = n /\ at.req < Len(Reqs)
               /\ at' = [req |-> at.req + 1, opt |-> 1] /\ phase' = "probe"
      <4>1. at'.req = at.req + 1 /\ at'.opt - 1 = 0 /\ 1..at.opt = All(at.req)
        BY <2>1, <3>2
      <4>2. \A r \in DOMAIN Reqs : Offered(r, 1..0) = 0
        <5>1. TAKE r \in DOMAIN Reqs
        <5>2. 1 \in All(r)  BY <1>1, RecipeFacts DEF All
        <5>. QED BY <1>1, <5>2, OfferedStep
      <4>3. Calm' => \A r \in DOMAIN Reqs :
               /\ r < at'.req => loose'[r] = Offered(r, All(r))
               /\ r = at'.req => loose'[r] = Offered(r, 1..at'.opt - 1)
               /\ r > at'.req => loose'[r] = 0
        BY <2>1, <2>5, <4>1, <4>2
      <4>. QED BY <1>4, <2>4, <3>2, <4>3 DEF Probed, Offered, All
    <3>3. CASE /\ at.opt = n /\ at.req = Len(Reqs)
               /\ at' = [req |-> 1, opt |-> 1] /\ phase' = "decide"
      <4>1. 1..at.opt = All(at.req)  BY <2>1, <3>3
      <4>2. Calm' => \A r \in DOMAIN Reqs : loose'[r] = Offered(r, All(r))
        BY <2>1, <2>5, <3>3, <4>1
      <4>. QED BY <1>4, <2>4, <3>3, <4>2 DEF Probed, First, Offered, All
    <3>. QED BY <2>6, <3>1, <3>2, <3>3
  <2>. QED BY <1>2, <1>7, <2>7, <2>8 DEF FairInv
<1>. QED BY <1>5, <1>8, <1>9


LEMMA DecideFair ==
    ASSUME FairInv, Decide
    PROVE  FairInv'
<1>1. PaidInv /\ BenchType /\ Probed /\ Modest /\ Underway  BY DEF FairInv, PaidInv
<1>2. PaidInv'  BY <1>1, DecidePaid
<1>3. /\ phase = "decide" /\ many' = WillCraft
      /\ phase' = IF many' > 0 THEN "take" ELSE "refused"
      /\ UNCHANGED <<order, held, online, at, loose, got, taken, given, shaky, moved>>
      /\ UNCHANGED order /\ UNCHANGED shaky /\ UNCHANGED moved /\ UNCHANGED got /\ UNCHANGED at
  BY DEF Decide
<1>4. Reqs' = Reqs  BY <1>3, SameRecipe
<1>5. /\ many' \in Nat /\ many' <= Cap
      /\ \A r \in DOMAIN Reqs : Reqs[r].per * many' <= loose[r]
  BY <1>1, <1>3, WillCraftFacts
<1>6. \A r \in DOMAIN Reqs : Offer(r)' = Offer(r)
  BY <1>3, <1>4 DEF Offer, Amount
<1>7. Probed'  BY <1>3 DEF Probed
<1>8. Modest'
  <2>1. Cap' = Cap  BY <1>3 DEF Cap
  <2>2. \A r \in DOMAIN Reqs : got[r] = 0 /\ 0 <= Reqs[r].per * many'
    <3>1. TAKE r \in DOMAIN Reqs
    <3>2. Reqs[r].per \in Nat /\ got[r] = 0  BY <1>1, <1>3, RecipeFacts DEF Underway
    <3>. QED BY <1>5, <3>2
  <2>. QED BY <1>3, <1>4, <1>5, <2>1, <2>2 DEF Modest
<1>9. Stocked'
  <2>1. at.req = 1 /\ at.opt = 1  BY <1>1, <1>3 DEF Probed, First
  <2>2. \A r \in DOMAIN Reqs : /\ ~(r < 1) /\ (r = 1 \/ r > 1) /\ got[r] = 0
                               /\ Offered(r, All(r)) \in Nat
    <3>1. TAKE r \in DOMAIN Reqs
    <3>2. r \in Nat \ {0} /\ got[r] = 0  BY <1>1, <1>3, RecipeFacts DEF Underway
    <3>3. Offered(r, All(r)) \in Nat
      <4>1. All(r) \in SUBSET All(r)  OBVIOUS
      <4>. QED BY <1>1, <4>1, OfferFacts
    <3>. QED BY <3>2, <3>3
  <2>3. Calm => \A r \in DOMAIN Reqs : /\ Offered(r, All(r)) >= Reqs[r].per * many'
                                       /\ got[r] + Offered(r, All(r)) >= Reqs[r].per * many'
    <3>1. SUFFICES ASSUME Calm, NEW r \in DOMAIN Reqs
                   PROVE  /\ Offered(r, All(r)) >= Reqs[r].per * many'
                          /\ got[r] + Offered(r, All(r)) >= Reqs[r].per * many'
      OBVIOUS
    <3>2. loose[r] = Offered(r, All(r)) /\ Reqs[r].per * many' <= loose[r]
      BY <1>1, <1>3, <1>5, <3>1 DEF Probed
    <3>3. got[r] = 0 /\ Offered(r, All(r)) \in Nat  BY <2>2
    <3>4. Offered(r, All(r)) >= Reqs[r].per * many'  BY <3>2
    <3>5. got[r] + Offered(r, All(r)) = Offered(r, All(r))  BY <3>3
    <3>. QED BY <3>4, <3>5
  <2>4. Calm' = Calm /\ phase' \in {"take", "refused"}  BY <1>3 DEF Calm
  <2>. QED BY <1>3, <1>4, <1>6, <2>1, <2>2, <2>3, <2>4 DEF Stocked, Offered, All
<1>. QED BY <1>2, <1>7, <1>8, <1>9 DEF FairInv

(* The arithmetic of one /clear: it takes what is there, as far as it is needed. *)
LEMMA OneClear ==
    ASSUME NEW need \in Nat, NEW had \in Nat, had < need, NEW a \in Nat,
           NEW now, now = Least(a, need - had)
    PROVE  /\ now \in Nat /\ now <= a /\ had + now <= need
           /\ had + now < need => now = a
           /\ had + a >= need => had + now = need
BY DEF Least

LEMMA TakeFair ==
    ASSUME FairInv, Take
    PROVE  FairInv'
<1>1. PaidInv /\ BenchType /\ Probed /\ Modest /\ Underway /\ Stocked  BY DEF FairInv, PaidInv
<1>2. PaidInv'  BY <1>1, TakePaid
<1>3. /\ phase = "take" /\ UNCHANGED <<order, online, loose, many, given, moved>>
      /\ UNCHANGED order /\ UNCHANGED online /\ UNCHANGED many /\ UNCHANGED moved
  BY DEF Take
<1>4. Reqs' = Reqs /\ Disjoint' = Disjoint  BY <1>3, SameRecipe DEF Disjoint
<1>5. PICK way \in Ways :
         LET ask == Need - got[at.req]
             before == Least(Amount(Option), ask * (way.times - 1))
             now == Least(Amount(Option) - before, ask)
             removed == IF way.times = 0 THEN 0 ELSE before + now
         IN  /\ shaky' = (shaky \/ way.by # "rcon")
             /\ held' \in Without(Option, removed)
             /\ taken' = [taken EXCEPT ![at.req] = @ + removed]
             /\ \/ \E read \in Readings(now, way) :
                     /\ got' = [got EXCEPT ![at.req] = @ + read]
                     /\ Advance(got'[at.req] >= Need, "give")
                \/ way.by = "nobody" /\ Refused /\ UNCHANGED got
  BY DEF Take
<1> DEFINE ask == Need - got[at.req]
           before == Least(Amount(Option), ask * (way.times - 1))
           now == Least(Amount(Option) - before, ask)
           removed == IF way.times = 0 THEN 0 ELSE before + now
           q == at.req
           n == Len(Reqs[q].options)
           a == Amount(Option)
<1>6. ~shaky' => ~shaky /\ way.by = "rcon"  BY <1>1, <1>5 DEF BenchType
<1>7. /\ phase' \in {"take", "give", "refused"}
      /\ Cap' = Cap
  <2>1. phase' \in {"take", "give", "refused"}
    <3>1. CASE Advance(got'[q] >= Need, "give")
      <4> DEFINE s == got'[q] >= Need
      <4>1. s \in BOOLEAN /\ Advance(s, "give")  BY <3>1
      <4> HIDE DEF s
      <4>2. phase' \in {phase, "give"}  BY <1>1, <1>3, <4>1, AdvanceType
      <4>. QED BY <1>3, <4>2
    <3>2. CASE Refused  BY <3>2 DEF Refused
    <3>. QED BY <1>5, <3>1, <3>2
  <2>. QED BY <1>3, <2>1 DEF Cap
<1>8. /\ Option \in SUBSET Items /\ a \in Nat /\ ask \in Nat \ {0}
      /\ removed \in Int /\ removed <= a
      /\ way.times = 1 => removed = now /\ now = Least(a, ask)
  BY <1>1, <1>3, Removal
<1>9. /\ DOMAIN Reqs = 1..Len(Reqs) /\ Len(Reqs) \in Nat \ {0} /\ q \in 1..Len(Reqs)
      /\ n \in Nat \ {0} /\ at.opt \in 1..n /\ All(q) = 1..n
      /\ Reqs[q].per \in Nat \ {0} /\ many \in Nat /\ got \in Numbers
      /\ Option = Reqs[q].options[at.opt]
  BY <1>1, RecipeFacts DEF BenchType, All, Option
<1>10. Need \in Nat /\ got[q] \in Nat /\ got[q] < Need /\ Need = Reqs[q].per * many
  BY <1>1, <1>3, <1>9 DEF Need, Underway, Numbers
(* Over RCON. *)
<1>11. ASSUME ~shaky'
       PROVE  /\ removed = Least(a, Need - got[q])
              /\ got' = [got EXCEPT ![q] = @ + removed]
              /\ Advance(got'[q] >= Need, "give")
  <2>1. way.by = "rcon" /\ way.times = 1  BY <1>6, <1>11 DEF Ways
  <2>2. removed = now /\ now = Least(a, ask)  BY <1>8, <2>1
  <2>3. PICK read \in Readings(now, way) :
                     /\ got' = [got EXCEPT ![q] = @ + read]
                     /\ Advance(got'[q] >= Need, "give")
    BY <1>5, <2>1
  <2>4. now \in Nat
    <3> HIDE DEF a, ask, now
    <3>. QED BY <1>8, <2>2 DEF Least
  <2>5. read = now
    <3> HIDE DEF now
    <3>. QED BY <2>1, <2>3, <2>4, ReadingFacts
  <2>. QED BY <2>2, <2>3, <2>5
<1>12. held' \in Without(Option, removed)  BY <1>5
<1>13. /\ removed \in Nat
       /\ \A other \in SUBSET Items : other \cap Option = {} => Amount(other)' = Amount(other)
  <2> HIDE DEF removed
  <2>1. PICK option \in SUBSET Items : option = Option  BY <1>8
  <2>2. held' \in Without(option, removed)  BY <1>12, <2>1
  <2>3. /\ removed \in Nat
        /\ \A other \in SUBSET Items : other \cap option = {} => Amount(other)' = Amount(other)
    BY <1>1, <1>3, <1>8, <2>2, Clearing
  <2>. QED BY <2>1, <2>3
<1> HIDE DEF removed, now, before, ask
<1>14. Modest'
  <2>1. ASSUME ~shaky', NEW r \in DOMAIN Reqs PROVE got'[r] <= Reqs[r].per * many
    <3>1. got[r] <= Reqs[r].per * many /\ got[r] \in Nat
      BY <1>1, <1>6, <1>9, <2>1 DEF Modest, Numbers
    <3>2. CASE r # q  BY <1>9, <1>11, <2>1, <3>1, <3>2 DEF Numbers
    <3>3. CASE r = q
      <4>1. got'[r] = got[q] + removed  BY <1>9, <1>11, <2>1, <3>3 DEF Numbers
      <4>2. got[q] + removed <= Need
        <5> HIDE DEF a, q
        <5>. QED BY <1>8, <1>10, <1>11, <2>1, OneClear
      <4>. QED BY <1>10, <3>3, <4>1, <4>2
    <3>. QED BY <3>2, <3>3
  <2>. QED BY <1>1, <1>3, <1>4, <1>7, <2>1 DEF Modest
<1>15. Probed'  BY <1>7 DEF Probed
<1> DEFINE rest == Offered(q, at.opt + 1..n)
<1>16. ASSUME Calm', Disjoint
       PROVE  /\ rest \in Nat /\ got[q] + (a + rest) >= Need
              /\ at.opt = n => rest = 0
              /\ \A r \in DOMAIN Reqs : r < q => got[r] = Reqs[r].per * many
              /\ \A r \in DOMAIN Reqs : r > q => Offered(r, All(r)) >= Reqs[r].per * many
  <2>1. Calm  BY <1>3, <1>6, <1>16 DEF Calm
  <2>2. /\ Offered(q, at.opt..n) = a + rest /\ rest \in Nat
        /\ Offered(q, n + 1..n) = 0
    BY <1>1, <1>9, OfferedStep
  <2>. QED BY <1>1, <1>3, <1>9, <1>10, <1>16, <2>1, <2>2 DEF Stocked
<1>17. ASSUME Disjoint, NEW r \in DOMAIN Reqs, NEW S \in SUBSET All(r), r # q \/ at.opt \notin S
       PROVE  Offered(r, S)' = Offered(r, S)
  <2>1. ASSUME NEW o \in S
        PROVE  Amount(Reqs[r].options[o])' = Amount(Reqs[r].options[o])
    <3>1. o \in DOMAIN Reqs[r].options /\ Reqs[r].options[o] \in SUBSET Items
      BY <1>1, OfferFacts, RecipeFacts
    <3>2. at.opt \in DOMAIN Reqs[q].options  BY <1>1 DEF BenchType
    <3>3. <<r, o>> # <<q, at.opt>>  BY <1>17, <2>1
    <3>4. Reqs[r].options[o] \cap Reqs[q].options[at.opt] = {}
      BY <1>9, <1>17, <3>1, <3>2, <3>3 DEF Disjoint
    <3> DEFINE other == Reqs[r].options[o]
    <3>5. other \in SUBSET Items /\ other \cap Option = {}  BY <1>9, <3>1, <3>4
    <3>6. Amount(other)' = Amount(other)
      <4> HIDE DEF other
      <4>1. PICK x : x = other  OBVIOUS
      <4>2. Amount(x)' = Amount(x)  BY <1>13, <3>5, <4>1
      <4>3. x = Reqs[r].options[o] /\ x = Reqs'[r].options[o]
        BY <1>4, <4>1 DEF other
      <4>. QED BY <4>2, <4>3 DEF other, Amount
    <3>. QED BY <3>6
  <2>. QED BY <1>1, <1>3, <2>1, OfferedSame
<1>18. ASSUME Calm', Disjoint
       PROVE  /\ got' = [got EXCEPT ![q] = @ + removed] /\ got'[q] = got[q] + removed
              /\ got'[q] \in Nat /\ got'[q] <= Need
              /\ got'[q] < Need => removed = a
              /\ got[q] + a >= Need => got'[q] = Need
              /\ Advance(got'[q] >= Need, "give")
  <2>1. ~shaky'  BY <1>18 DEF Calm
  <2>2. got' = [got EXCEPT ![q] = @ + removed] /\ Advance(got'[q] >= Need, "give")
    BY <1>11, <2>1
  <2>3. got'[q] = got[q] + removed  BY <1>9, <2>2 DEF Numbers
  <2>4. /\ removed \in Nat /\ got[q] + removed <= Need
        /\ got[q] + removed < Need => removed = a
        /\ got[q] + a >= Need => got[q] + removed = Need
    <3> DEFINE need == Need
               had == got[q]
    <3>1. removed = Least(a, need - had) /\ a \in Nat  BY <1>8, <1>11, <2>1
    <3>2. need \in Nat /\ had \in Nat /\ had < need  BY <1>10
    <3> HIDE DEF a, q, need, had
    <3>3. /\ removed \in Nat /\ had + removed <= need
          /\ had + removed < need => removed = a
          /\ had + a >= need => had + removed = need
      BY <3>1, <3>2, OneClear
    <3>. QED BY <3>3 DEF need, had
  <2>. QED BY <1>10, <2>2, <2>3, <2>4
(* What was taken for a requirement when its taking is over. *)
<1>19. ASSUME Calm', Disjoint, got'[q] >= Need \/ at.opt = n
       PROVE  \A r \in DOMAIN Reqs : r <= q => got'[r] = Reqs[r].per * many
  <2>1. got'[q] = Need
    <3>1. CASE got'[q] >= Need  BY <1>10, <1>18, <1>19, <3>1
    <3>2. CASE at.opt = n
      <4>1. rest = 0 /\ got[q] + (a + rest) >= Need  BY <1>16, <1>19, <3>2
      <4>2. got[q] + a >= Need
        <5> HIDE DEF a, rest, q
        <5>. QED BY <1>8, <1>10, <4>1
      <4>. QED BY <1>18, <1>19, <4>2
    <3>. QED BY <1>19, <3>1, <3>2
  <2>2. ASSUME NEW r \in DOMAIN Reqs, r < q PROVE got'[r] = Reqs[r].per * many
    <3>1. r # q /\ got[r] = Reqs[r].per * many  BY <1>9, <1>16, <1>19, <2>2
    <3>. QED BY <1>9, <1>18, <1>19, <3>1 DEF Numbers
  <2>3. got'[q] = Reqs[q].per * many  BY <1>10, <2>1
  <2>4. \A r \in DOMAIN Reqs : r <= q => r < q \/ r = q  BY <1>9
  <2> HIDE DEF q
  <2>. QED BY <2>2, <2>3, <2>4
<1>20. ASSUME Calm', Disjoint, phase' = "take", NEW r \in DOMAIN Reqs
       PROVE  /\ r < at'.req => got'[r] = Reqs[r].per * many
              /\ r = at'.req => got'[r] + SumFunctionOnSet(Offer(r)', at'.opt..Len(Reqs[r].options))
                                    >= Reqs[r].per * many
              /\ r > at'.req => SumFunctionOnSet(Offer(r)', 1..Len(Reqs[r].options))
                                    >= Reqs[r].per * many
  <2> DEFINE s == got'[q] >= Need
  <2>1. \/ ~s /\ at.opt < n /\ at' = [req |-> q, opt |-> at.opt + 1]
        \/ (s \/ at.opt = n) /\ q < Len(Reqs) /\ at' = [req |-> q + 1, opt |-> 1]
    <3>1. s \in BOOLEAN /\ Advance(s, "give")  BY <1>18, <1>20
    <3>2. phase' # "give"  BY <1>20
    <3> HIDE DEF s
    <3>. QED BY <1>1, <3>1, <3>2, Advancing
  <2>2. r > q => /\ SumFunctionOnSet(Offer(r)', 1..Len(Reqs[r].options)) >= Reqs[r].per * many
                 /\ got'[r] = 0
    <3>1. SUFFICES ASSUME r > q
                   PROVE  /\ SumFunctionOnSet(Offer(r)', 1..Len(Reqs[r].options)) >= Reqs[r].per * many
                          /\ got'[r] = 0
      OBVIOUS
    <3>2. r # q  BY <1>9, <3>1
    <3>3. PICK S : S = All(r)  OBVIOUS
    <3>4. Offered(r, S)' = Offered(r, S)  BY <1>17, <1>20, <3>2, <3>3
    <3>5. SumFunctionOnSet(Offer(r)', S) = Offered(r, All(r))  BY <3>3, <3>4 DEF Offered
    <3>6. Offered(r, All(r)) >= Reqs[r].per * many  BY <1>16, <1>20, <3>1
    <3>7. got[r] = 0  BY <1>1, <1>3, <3>1 DEF Underway
    <3>8. got'[r] = 0  BY <1>9, <1>18, <1>20, <3>2, <3>7 DEF Numbers
    <3>. QED BY <3>3, <3>5, <3>6, <3>8 DEF All
  <2>3. CASE ~s /\ at.opt < n /\ at' = [req |-> q, opt |-> at.opt + 1]
    <3>1. at'.req = q /\ at'.opt = at.opt + 1  BY <2>3
    <3>2. r < q => got'[r] = Reqs[r].per * many
      BY <1>9, <1>16, <1>18, <1>20 DEF Numbers
    <3>3. ASSUME r = q
          PROVE  got'[r] + SumFunctionOnSet(Offer(r)', at'.opt..Len(Reqs[r].options))
                     >= Reqs[r].per * many
      <4>1. PICK S : S = at.opt + 1..n  OBVIOUS
      <4>2. S \in SUBSET All(r) /\ at.opt \notin S  BY <1>9, <3>3, <4>1
      <4>3. Offered(r, S)' = Offered(r, S)  BY <1>17, <1>20, <4>2
      <4>4. SumFunctionOnSet(Offer(r)', S) = rest  BY <3>3, <4>1, <4>3 DEF Offered
      <4>5. got'[q] < Need  BY <1>10, <1>18, <1>20, <2>3
      <4>6. got'[q] + rest >= Need
        <5>1. /\ removed = a /\ got'[q] = got[q] + a /\ rest \in Nat
              /\ got[q] + (a + rest) >= Need
          BY <1>16, <1>18, <1>20, <4>5
        <5> HIDE DEF a, rest, q
        <5>. QED BY <1>8, <1>10, <5>1
      <4>. QED BY <1>10, <3>1, <3>3, <4>1, <4>4, <4>6
    <3>. QED BY <2>2, <3>1, <3>2, <3>3
  <2>4. CASE (s \/ at.opt = n) /\ q < Len(Reqs) /\ at' = [req |-> q + 1, opt |-> 1]
    <3>1. at'.req = q + 1 /\ at'.opt = 1  BY <2>4
    <3>2. r <= q => got'[r] = Reqs[r].per * many  BY <1>19, <1>20, <2>4
    <3>3. r \in Nat /\ q \in Nat  BY <1>9
    <3>4. r = q + 1 => got'[r] + SumFunctionOnSet(Offer(r)', 1..Len(Reqs[r].options))
                         >= Reqs[r].per * many
      <4>1. SUFFICES ASSUME r = q + 1
                     PROVE  got'[r] + SumFunctionOnSet(Offer(r)', 1..Len(Reqs[r].options))
                                >= Reqs[r].per * many
        OBVIOUS
      <4>2. r > q /\ r # q  BY <3>3, <4>1
      <4>3. PICK S : S = All(r)  OBVIOUS
      <4>4. Offered(r, S)' = Offered(r, S)  BY <1>17, <1>20, <4>2, <4>3
      <4>5. SumFunctionOnSet(Offer(r)', 1..Len(Reqs[r].options)) \in Nat
        <5>1. SumFunctionOnSet(Offer(r)', S) = Offered(r, S)  BY <4>4 DEF Offered
        <5>2. Offered(r, S) \in Nat  BY <1>1, <4>3, OfferFacts
        <5>. QED BY <4>3, <5>1, <5>2 DEF All
      <4>6. got'[r] = 0 /\ SumFunctionOnSet(Offer(r)', 1..Len(Reqs[r].options)) >= Reqs[r].per * many
        BY <2>2, <4>2
      <4>. QED BY <4>5, <4>6
    <3>. QED BY <2>2, <3>1, <3>2, <3>3, <3>4
  <2>. QED BY <2>1, <2>3, <2>4
<1>21. ASSUME Calm', Disjoint, phase' = "give"
       PROVE  \A r \in DOMAIN Reqs : got'[r] = Reqs[r].per * many
  <2> DEFINE s == got'[q] >= Need
  <2>1. (s \/ at.opt = n) /\ q = Len(Reqs)
    <3>1. s \in BOOLEAN /\ Advance(s, "give")  BY <1>18, <1>21
    <3> HIDE DEF s
    <3>. QED BY <1>1, <1>3, <1>21, <3>1, Advancing
  <2>2. \A r \in DOMAIN Reqs : r <= q  BY <1>9, <2>1
  <2>. QED BY <1>19, <1>21, <2>1, <2>2
<1>22. Stocked'
  <2>1. phase' # "done"  BY <1>7
  <2>. QED BY <1>3, <1>4, <1>20, <1>21, <2>1 DEF Stocked, Offered, All
<1>. QED BY <1>2, <1>14, <1>15, <1>22 DEF FairInv


LEMMA GiveFair ==
    ASSUME FairInv, Give
    PROVE  FairInv'
<1>1. PaidInv /\ BenchType /\ Probed /\ Modest /\ Stocked  BY DEF FairInv, PaidInv
<1>2. PaidInv'  BY <1>1, GivePaid
<1>3. /\ phase = "give"
      /\ UNCHANGED <<order, held, online, at, loose, many, got, taken>> /\ UNCHANGED order
  BY DEF Give
<1>4. Reqs' = Reqs /\ Disjoint' = Disjoint /\ Cap' = Cap
  BY <1>3, SameRecipe DEF Disjoint, Cap
<1>5. Effective \in Nat /\ order.recipe.yield \in Nat \ {0}
  BY <1>1, Scarcest, RecipeFacts DEF BenchType, Effective
<1>6. CASE Effective = 0
  <2>1. phase' = "refused" /\ UNCHANGED <<given, shaky, moved>>  BY <1>6 DEF Give
  <2>2. Modest'  BY <1>1, <1>3, <1>4, <2>1 DEF Modest
  <2>3. Probed' /\ Stocked'  BY <2>1 DEF Probed, Stocked
  <2>. QED BY <1>2, <2>2, <2>3 DEF FairInv
<1>7. CASE Effective # 0
  <2>1. PICK way \in Ways, there \in BOOLEAN :
                /\ phase' = IF way.by = "nobody" THEN "refused" ELSE "done"
                /\ given' = IF there THEN order.recipe.yield * Effective * way.times ELSE 0
                /\ shaky' = (shaky \/ way.by # "rcon")
                /\ moved' = (moved \/ ~there)
    BY <1>7 DEF Give
  <2>2. /\ ~shaky' => ~shaky /\ way.times = 1
        /\ ~moved' => ~moved /\ there
    BY <1>1, <2>1 DEF BenchType, Ways
  <2>3. Calm' => Calm  BY <2>2 DEF Calm
  <2>4. Calm' => given' # 0
    <3>1. order.recipe.yield * Effective # 0  BY <1>5, <1>7
    <3>2. order.recipe.yield * Effective * 1 = order.recipe.yield * Effective  BY <1>5
    <3>. QED BY <2>1, <2>2, <3>1, <3>2 DEF Calm
  <2>5. Modest'  BY <1>1, <1>3, <1>4, <2>2, <2>4 DEF Modest
  <2>6. phase' \in {"done", "refused"}  BY <2>1
  <2>7. Probed'  BY <2>6 DEF Probed
  <2>8. Stocked'  BY <1>1, <1>3, <1>4, <2>3, <2>6 DEF Stocked
  <2>. QED BY <1>2, <2>5, <2>7, <2>8 DEF FairInv
<1>. QED BY <1>6, <1>7

LEMMA PlayFair ==
    ASSUME FairInv, Play
    PROVE  FairInv'
<1>1. PaidInv /\ BenchType /\ Probed /\ Modest  BY DEF FairInv, PaidInv
<1>2. PaidInv'  BY <1>1, PlayPaid
<1>3. /\ moved' = TRUE
      /\ UNCHANGED <<order, phase, at, loose, many, got, taken, given, shaky>> /\ UNCHANGED order
  BY DEF Play
<1>4. Reqs' = Reqs /\ Cap' = Cap  BY <1>3, SameRecipe DEF Cap
<1>5. ~Calm'  BY <1>3 DEF Calm
<1>6. Probed' /\ Stocked'  BY <1>1, <1>3, <1>5 DEF Probed, Stocked, First
<1>7. Modest'  BY <1>1, <1>3, <1>4, <1>5 DEF Modest
<1>. QED BY <1>2, <1>6, <1>7 DEF FairInv

(* Every step keeps it. *)
LEMMA FairAlways == CraftSpec => []FairInv
<1>1. CraftInit => FairInv  BY FairAtFirst
<1>2. FairInv /\ [CraftNext]_bench => FairInv'
  <2> SUFFICES ASSUME FairInv, [CraftNext]_bench PROVE FairInv'
    OBVIOUS
  <2>1. CASE Probe  BY <2>1, ProbeFair
  <2>2. CASE Decide  BY <2>2, DecideFair
  <2>3. CASE Take  BY <2>3, TakeFair
  <2>4. CASE Give  BY <2>4, GiveFair
  <2>5. CASE Play  BY <2>5, PlayFair
  <2>6. CASE UNCHANGED bench
    <3>1. /\ UNCHANGED order /\ UNCHANGED phase /\ UNCHANGED at /\ UNCHANGED loose
          /\ UNCHANGED many /\ UNCHANGED got /\ UNCHANGED given /\ UNCHANGED shaky
          /\ UNCHANGED moved /\ UNCHANGED held /\ UNCHANGED online /\ UNCHANGED taken
          /\ UNCHANGED blind
      BY <2>6 DEF bench
    <3>2. /\ Reqs' = Reqs /\ Numbers' = Numbers /\ Cap' = Cap /\ Calm' = Calm
          /\ Disjoint' = Disjoint /\ Need' = Need /\ Effective' = Effective
      BY <3>1 DEF Reqs, Numbers, Cap, Calm, Disjoint, Need, Effective
    <3>3. \A r \in DOMAIN Reqs : Offer(r)' = Offer(r)
      BY <3>1, <3>2 DEF Offer, Amount
    <3>4. PaidInv'
      BY <3>1, <3>2 DEF FairInv, PaidInv, BenchType, Underway, Accounts, Grants
    <3>5. Probed' /\ Stocked' /\ Modest'
      BY <3>1, <3>2, <3>3 DEF FairInv, Probed, Stocked, Modest, Offered, All
    <3>. QED BY <3>4, <3>5 DEF FairInv
  <2>. QED BY <2>1, <2>2, <2>3, <2>4, <2>5, <2>6 DEF CraftNext
<1>. QED BY <1>1, <1>2, PTL DEF CraftSpec

(* FairTrade: an undisturbed craft takes exactly what its crafts need and gives *)
(* exactly what they yield, and over RCON no more than a stack or one craft.   *)
THEOREM UndisturbedIsExact == CraftSpec => []FairTrade
<1>1. FairInv => FairTrade
  <2> SUFFICES ASSUME FairInv PROVE FairTrade
    OBVIOUS
  <2>1. BenchType /\ Accounts /\ Grants /\ Stocked /\ Modest  BY DEF FairInv, PaidInv
  <2>2. /\ Effective \in Nat
        /\ \A n \in Nat : n <= Effective <=> \A r \in DOMAIN Reqs : Reqs[r].per * n <= got[r]
    BY <2>1, Scarcest DEF BenchType, Effective
  <2>3. /\ order.recipe.yield \in Nat \ {0} /\ many \in Nat /\ 1 \in DOMAIN Reqs
        /\ \A r \in DOMAIN Reqs : Reqs[r].per \in Nat \ {0} /\ got[r] \in Nat
    BY <2>1, RecipeFacts DEF BenchType, Numbers
  <2>4. ASSUME phase = "done", Calm, Disjoint
        PROVE  /\ given = many * order.recipe.yield
               /\ \A r \in DOMAIN Reqs : taken[r] = Reqs[r].per * many
    <3>1. \A r \in DOMAIN Reqs : got[r] = Reqs[r].per * many  BY <2>1, <2>4 DEF Stocked
    <3>2. Effective >= many
      <4>1. \A r \in DOMAIN Reqs : Reqs[r].per * many <= got[r]  BY <2>3, <3>1
      <4>. QED BY <2>2, <2>3, <4>1
    <3>3. Effective <= many
      <4>1. Reqs[1].per * Effective <= got[1]  BY <2>2, <2>3
      <4>2. got[1] <= Reqs[1].per * many
        <5>1. got[1] = Reqs[1].per * many /\ got[1] \in Nat  BY <2>3, <3>1
        <5>. QED BY <5>1
      <4>. QED BY <2>2, <2>3, <4>1, <4>2, Squeezed
    <3>4. Effective = many  BY <2>2, <2>3, <3>2, <3>3
    <3>5. given = order.recipe.yield * Effective  BY <2>1, <2>4 DEF Grants, Modest, Calm
    <3>6. given = many * order.recipe.yield  BY <2>3, <3>4, <3>5
    <3>7. got = taken  BY <2>1, <2>4 DEF Accounts, Calm
    <3>. QED BY <3>1, <3>6, <3>7
  <2>5. ASSUME ~shaky PROVE given <= MaxStack \/ given <= order.recipe.yield
    <3>1. CASE given = 0  BY <2>3, <3>1
    <3>2. CASE given # 0
      <4>1. given = order.recipe.yield * Effective  BY <2>1, <2>5, <3>2 DEF Grants
      <4>2. Cap \in Nat \ {0} /\ (Cap = 1 \/ order.recipe.yield * Cap <= MaxStack)
        BY <2>1, CapNat
      <4>3. Effective <= many
        <5>1. Reqs[1].per * Effective <= got[1]  BY <2>2, <2>3
        <5>2. got[1] <= Reqs[1].per * many  BY <2>1, <2>3, <2>5 DEF Modest
        <5>. QED BY <2>2, <2>3, <5>1, <5>2, Squeezed
      <4>4. Effective <= Cap  BY <2>1, <2>2, <2>3, <4>2, <4>3 DEF Modest
      <4>. DEFINE y == order.recipe.yield
      <4>5. y \in Nat /\ Effective \in Nat /\ Cap \in Nat /\ MaxStack \in Nat
        BY <2>2, <2>3, <4>2, CraftingAssumption
      <4>6. given = y * Effective /\ (Cap = 1 \/ y * Cap <= MaxStack)
        BY <4>1, <4>2
      <4>. HIDE DEF y
      <4>7. y * Effective <= y * Cap /\ y * Effective \in Nat /\ y * Cap \in Nat /\ y * 1 = y
        BY <4>4, <4>5, Scaled
      <4>8. given <= MaxStack \/ given <= y
        BY <4>5, <4>6, <4>7
      <4>. QED BY <4>8 DEF y
    <3>. QED BY <3>1, <3>2
  <2>. QED BY <2>4, <2>5 DEF FairTrade, Calm
<1>. QED BY <1>1, FairAlways, PTL

--------------------------------------------------------------------------------
(* The phone's recipes, for any pack of recipe files *)

(* What Sift goes through: one more element at each step. *)
Sifted(s, good, kept) ==
    kept = [n \in 0..Len(s) |-> IF n = 0 THEN <<>>
                                ELSE IF s[n] \in good THEN Append(kept[n - 1], s[n])
                                ELSE kept[n - 1]]

(* There is such a sieve, and Sift is its last step. *)
LEMMA SiftSteps ==
    ASSUME NEW X, NEW s \in Seq(X), NEW good
    PROVE  \E kept : Sifted(s, good, kept) /\ Sift(s, good) = kept[Len(s)]
  <1>. DEFINE step == [n \in 1..Len(s) |->
                          [r \in Seq(X) |-> IF s[n] \in good THEN Append(r, s[n]) ELSE r]]
              Eq(h) == h = [n \in 0..Len(s) |-> IF n = 0 THEN <<>>
                                ELSE IF s[n] \in good THEN Append(h[n - 1], s[n])
                                ELSE h[n - 1]]
              it == CHOOSE h : Eq(h)
  <1>1. /\ Len(s) \in Nat /\ <<>> \in Seq(X) /\ step \in [1..Len(s) -> [Seq(X) -> Seq(X)]]
    OBVIOUS
  <1>2. PICK g : Made(g, Len(s), Seq(X), <<>>, step)
    <2>. HIDE DEF step
    <2>. QED BY <1>1, Steps
  <1>3. Eq(g)
    <2>1. /\ g \in [0..Len(s) -> Seq(X)] /\ g[0] = <<>>
          /\ \A n \in 1..Len(s) : g[n] = step[n][g[n - 1]]
      BY <1>2 DEF Made
    <2>2. \A n \in 1..Len(s) : g[n - 1] \in Seq(X)
      <3>1. \A n \in 1..Len(s) : n - 1 \in 0..Len(s)
        BY <1>1
      <3>. QED BY <2>1, <3>1, Zenon
    <2>3. \A n \in 1..Len(s) :
             g[n] = IF s[n] \in good THEN Append(g[n - 1], s[n]) ELSE g[n - 1]
      BY <2>1, <2>2
    <2>. HIDE DEF step
    <2>4. \A n \in 0..Len(s) : g[n] = IF n = 0 THEN <<>>
                                      ELSE IF s[n] \in good THEN Append(g[n - 1], s[n])
                                      ELSE g[n - 1]
      <3>1. \A n \in 0..Len(s) : n = 0 \/ (n \in 1..Len(s) /\ n # 0)
        BY <1>1
      <3>. QED BY <2>1, <2>3, <3>1, Zenon
    <2>. QED BY <2>1, <2>4, Zenon
  <1>4. Eq(it)
    <2>. HIDE DEF Eq
    <2>. QED BY <1>3, Zenon
  <1>5. Sift(s, good) = it[Len(s)]
    BY Zenon DEF Sift
  <1>6. Sifted(s, good, it)
    <2>1. it = [n \in 0..Len(s) |-> IF n = 0 THEN <<>>
                                ELSE IF s[n] \in good THEN Append(it[n - 1], s[n])
                                ELSE it[n - 1]]
      BY <1>4
    <2>. HIDE DEF it
    <2>. QED BY <2>1 DEF Sifted
  <1>. QED BY <1>5, <1>6

(* Sift leaves the elements that are in the set, and a sequence of such as it is. *)
LEMMA Sifts ==
    ASSUME NEW X, NEW s \in Seq(X), NEW good
    PROVE  /\ Sift(s, good) \in Seq(X) /\ Len(Sift(s, good)) <= Len(s)
           /\ Range(Sift(s, good)) = Range(s) \cap good
           /\ (\A i \in 1..Len(s) : s[i] \in good) => Sift(s, good) = s
  <1>. DEFINE N == Len(s)
  <1>1. PICK kept : Sifted(s, good, kept) /\ Sift(s, good) = kept[N]
    BY SiftSteps
  <1>2. /\ N \in Nat /\ DOMAIN s = 1..N /\ kept[0] = <<>>
        /\ \A n \in 0..N - 1 :
              kept[n + 1] = IF s[n + 1] \in good THEN Append(kept[n], s[n + 1]) ELSE kept[n]
    <2>1. /\ N \in Nat /\ DOMAIN s = 1..N
          /\ \A n \in 0..N - 1 : /\ n \in 0..N /\ n + 1 \in 0..N
                                 /\ n + 1 # 0 /\ (n + 1) - 1 = n
      OBVIOUS
    <2>2. \A n \in 0..N : kept[n] = IF n = 0 THEN <<>>
                                    ELSE IF s[n] \in good THEN Append(kept[n - 1], s[n])
                                    ELSE kept[n - 1]
      BY <1>1, Zenon DEF Sifted
    <2>. HIDE DEF N
    <2>3. \A n \in 0..N - 1 :
             kept[n + 1] = IF s[n + 1] \in good THEN Append(kept[(n + 1) - 1], s[n + 1])
                           ELSE kept[(n + 1) - 1]
      BY <2>1, <2>2, Zenon
    <2>4. \A n \in 0..N - 1 : kept[(n + 1) - 1] = kept[n]
      BY <2>1, Zenon
    <2>5. kept[0] = <<>>
      BY <2>1, <2>2
    <2>. QED BY <2>1, <2>3, <2>4, <2>5, Zenon
  <1>. HIDE DEF N
  <1>. DEFINE Good(n) == /\ kept[n] \in Seq(X) /\ Len(kept[n]) <= n
                         /\ Range(kept[n]) = {s[i] : i \in 1..n} \cap good
                         /\ (\A i \in 1..n : s[i] \in good) =>
                               Len(kept[n]) = n /\ \A i \in 1..n : kept[n][i] = s[i]
              P == {n \in 0..N : Good(n)}
  <1>3. 0 \in P
    <2>1. Good(0)
      BY <1>2 DEF Range
    <2>. HIDE DEF Good
    <2>. QED BY <1>2, <2>1
  <1>4. ASSUME NEW n \in 0..N - 1, n \in P  PROVE  n + 1 \in P
    <2>1. /\ kept[n] \in Seq(X) /\ Len(kept[n]) <= n
          /\ Range(kept[n]) = {s[i] : i \in 1..n} \cap good
          /\ (\A i \in 1..n : s[i] \in good) =>
                Len(kept[n]) = n /\ \A i \in 1..n : kept[n][i] = s[i]
      <3>1. Good(n)
        <4>. HIDE DEF Good
        <4>. QED BY <1>4
      <3>. QED BY <3>1
    <2>2. n + 1 \in 1..N /\ s[n + 1] \in X /\ 1..n + 1 = 1..n \cup {n + 1} /\ n \in Nat
      BY <1>2
    <2>3. {s[i] : i \in 1..n + 1} = {s[i] : i \in 1..n} \cup {s[n + 1]}
      BY <2>2
    <2>4. ASSUME s[n + 1] \in good  PROVE Good(n + 1)
      <3>1. kept[n + 1] = Append(kept[n], s[n + 1])
        BY <1>2, <2>4
      <3>2. /\ kept[n + 1] \in Seq(X) /\ Len(kept[n + 1]) = Len(kept[n]) + 1
            /\ \A i \in 1..Len(kept[n]) : kept[n + 1][i] = kept[n][i]
            /\ kept[n + 1][Len(kept[n]) + 1] = s[n + 1]
        BY <3>1, <2>1, <2>2, AppendProperties
      <3>3. Range(kept[n + 1]) = Range(kept[n]) \cup {s[n + 1]}
        <4>1. /\ DOMAIN kept[n] = 1..Len(kept[n]) /\ Len(kept[n]) \in Nat
              /\ DOMAIN kept[n + 1] = 1..Len(kept[n]) \cup {Len(kept[n]) + 1}
          <5>1. Len(kept[n]) \in Nat /\ Len(kept[n + 1]) = Len(kept[n]) + 1
            BY <2>1, <3>2
          <5>2. DOMAIN kept[n] = 1..Len(kept[n]) /\ DOMAIN kept[n + 1] = 1..Len(kept[n + 1])
            BY <2>1, <3>2, LenProperties
          <5>. QED BY <5>1, <5>2
        <4>. QED BY <3>2, <4>1 DEF Range
      <3>4. Len(kept[n + 1]) <= n + 1
        BY <2>1, <3>2
      <3>5. Range(kept[n + 1]) = {s[i] : i \in 1..n + 1} \cap good
        BY <2>1, <2>3, <2>4, <3>3
      <3>6. (\A i \in 1..n + 1 : s[i] \in good) =>
               Len(kept[n + 1]) = n + 1 /\ \A i \in 1..n + 1 : kept[n + 1][i] = s[i]
        BY <2>1, <2>2, <3>2
      <3>. QED BY <3>2, <3>4, <3>5, <3>6
    <2>5. ASSUME s[n + 1] \notin good  PROVE Good(n + 1)
      <3>1. kept[n + 1] = kept[n]
        BY <1>2, <2>5
      <3>2. Range(kept[n + 1]) = {s[i] : i \in 1..n + 1} \cap good
        BY <2>1, <2>3, <2>5, <3>1
      <3>. QED BY <2>1, <2>2, <2>5, <3>1, <3>2
    <2>6. Good(n + 1)
      BY <2>4, <2>5
    <2>. HIDE DEF Good
    <2>. QED BY <2>2, <2>6, <1>2
  <1>5. N \in P
    <2>. HIDE DEF P
    <2>1. N \in Nat /\ N \in 0..N
      BY <1>2
    <2>2. \A n \in 0..N - 1 : n \in P => n + 1 \in P
      BY <1>4
    <2>3. \A n \in 0..N : n \in P
      BY <1>3, <2>1, <2>2, InductionUpTo
    <2>. QED BY <2>1, <2>3
  <1>6. /\ kept[N] \in Seq(X) /\ Len(kept[N]) <= N
        /\ Range(kept[N]) = {s[i] : i \in 1..N} \cap good
        /\ (\A i \in 1..N : s[i] \in good) =>
              Len(kept[N]) = N /\ \A i \in 1..N : kept[N][i] = s[i]
    <2>1. Good(N)
      <3>. HIDE DEF Good
      <3>. QED BY <1>5
    <2>. QED BY <2>1
  <1>7. {s[i] : i \in 1..N} = Range(s)
    BY <1>2 DEF Range
  <1>8. (\A i \in 1..N : s[i] \in good) => kept[N] = s
    BY <1>6, SeqEqual DEF N
  <1>. QED BY <1>1, <1>6, <1>7, <1>8 DEF N

(* A recipe with an ingredient can be planned. *)
LEMMA ParsedIsPlannable ==
    ASSUME NEW json \in Jsons, Parses(json)
    PROVE  Plannable(ParseRecipe(json))
  <1>. DEFINE options == [i \in DOMAIN json.inputs |-> Predicates(json.inputs[i])]
              slots == Slots(json)
  <1>1. json.count \in Nat /\ json.inputs \in Seq(Range(json.inputs))
    BY JsonsAssumption
  <1>2. options \in Seq(Range(options))
    <2>1. DOMAIN json.inputs = 1..Len(json.inputs) /\ Len(json.inputs) \in Nat
      BY <1>1
    <2>2. options \in [1..Len(json.inputs) -> Range(options)]
      BY <2>1 DEF Range
    <2>. HIDE DEF options
    <2>. QED BY <2>1, <2>2, SeqDef
  <1>3. slots = Sift(options, Range(options) \ {<<>>})
    BY DEF Slots
  <1>. HIDE DEF options
  <1>4. slots \in Seq(Range(options)) /\ Range(slots) = Range(options) \cap (Range(options) \ {<<>>})
    <2>. HIDE DEF slots
    <2>. QED BY <1>2, <1>3, Sifts
  <1>5. slots # <<>>
    BY DEF Parses
  <1>. HIDE DEF slots
  <1>6. Len(slots) \in Nat /\ DOMAIN slots = 1..Len(slots) /\ 1 \in DOMAIN slots
    BY <1>4, <1>5
  <1>7. \A s \in Range(slots) : s # <<>> /\ Cardinality({i \in DOMAIN slots : slots[i] = s}) >= 1
    <2>. SUFFICES ASSUME NEW s \in Range(slots)
                  PROVE  s # <<>> /\ Cardinality({i \in DOMAIN slots : slots[i] = s}) >= 1
      OBVIOUS
    <2>. DEFINE S == {i \in DOMAIN slots : slots[i] = s}
    <2>1. S # {}
      BY DEF Range
    <2>2. IsFiniteSet(DOMAIN slots) /\ S \subseteq DOMAIN slots
      BY <1>6, FS_Interval
    <2>. HIDE DEF S
    <2>3. IsFiniteSet(S)
      BY <2>2, FS_Subset
    <2>4. Cardinality(S) \in Nat /\ Cardinality(S) # 0
      BY <2>1, <2>3, FS_CardinalityType, FS_EmptySet
    <2>5. Cardinality(S) >= 1
      BY <2>4
    <2>. QED BY <1>4, <2>5 DEF S
  <1>8. ParseRecipe(json) = [reqs |-> Requirements(slots), yield |-> ResultCount(json)]
    BY DEF ParseRecipe, slots
  <1>9. ResultCount(json) \in Nat /\ ResultCount(json) >= 1
    BY <1>1 DEF ResultCount
  <1>10. /\ Requirements(slots) # {}
         /\ \A q \in Requirements(slots) : q.per >= 1 /\ q.options # <<>>
    <2>1. slots[1] \in Range(slots)
      BY <1>6 DEF Range
    <2>2. Requirements(slots) # {}
      BY <2>1, Zenon DEF Requirements
    <2>3. \A q \in Requirements(slots) : \E s \in Range(slots) :
             q = [options |-> s, per |-> Cardinality({i \in DOMAIN slots : slots[i] = s})]
      BY Zenon DEF Requirements
    <2>. QED
      <3>. SUFFICES ASSUME NEW q \in Requirements(slots)  PROVE q.per >= 1 /\ q.options # <<>>
        BY <2>2
      <3>1. PICK s \in Range(slots) :
               q = [options |-> s, per |-> Cardinality({i \in DOMAIN slots : slots[i] = s})]
        BY <2>3
      <3>2. q.options = s /\ q.per = Cardinality({i \in DOMAIN slots : slots[i] = s})
        BY <3>1
      <3>. QED BY <1>7, <3>2
  <1>. QED BY <1>8, <1>9, <1>10 DEF Plannable

(* What there is to a page, and one that is empty. *)
Found == [id : RecipeIds, json : Jsons]
Pages == [seen : SUBSET RecipeIds, hits : Nat, out : Seq(Found), truncated : BOOLEAN]
Blank == [seen |-> {}, hits |-> 0, out |-> <<>>, truncated |-> FALSE]

(* A file that the script passes over. *)
Passed(page, file) == file.id \in page.seen \/ ~Listable(file.json)

(* What the listing script makes of a page with one more file. *)
Turned(page, file, from, limit, next) ==
    /\ next \in Pages
    /\ Passed(page, file) => next = page
    /\ ~Passed(page, file) =>
          /\ next.seen = page.seen \cup {file.id} /\ next.hits = page.hits + 1
          /\ page.hits + 1 <= from =>
                next.out = page.out /\ next.truncated = page.truncated
          /\ page.hits + 1 > from =>
                IF Len(page.out) < limit
                THEN next.out = Append(page.out, file) /\ next.truncated = page.truncated
                ELSE next.out = page.out /\ next.truncated = TRUE

(* It does make that of it. *)
LEMMA Considered ==
    ASSUME NEW page \in Pages, NEW file \in Found, NEW from \in Nat, NEW limit \in Nat,
           NEW next, next = Consider(page, file, from, limit)
    PROVE  Turned(page, file, from, limit, next)
  <1>. DEFINE hit == [page EXCEPT !.seen = @ \cup {file.id}, !.hits = @ + 1]
  <1>1. CASE Passed(page, file)
    BY <1>1 DEF Consider, Passed, Turned
  <1>2. CASE ~Passed(page, file)
    <2>1. next = IF hit.hits <= from THEN hit
                 ELSE IF Len(hit.out) >= limit THEN [hit EXCEPT !.truncated = TRUE]
                 ELSE [hit EXCEPT !.out = Append(@, file)]
      BY <1>2 DEF Consider, Passed
    <2>2. /\ hit \in Pages /\ hit.seen = page.seen \cup {file.id} /\ hit.hits = page.hits + 1
          /\ hit.out = page.out /\ hit.truncated = page.truncated
      <3>1. file.id \in RecipeIds /\ page.seen \in SUBSET RecipeIds /\ page.hits \in Nat
        BY DEF Found, Pages
      <3>2. page.seen \cup {file.id} \in SUBSET RecipeIds /\ page.hits + 1 \in Nat
        BY <3>1
      <3>. QED BY <3>2 DEF Pages
    <2>3. /\ page.hits \in Nat /\ page.out \in Seq(Found) /\ Len(page.out) \in Nat
      BY DEF Pages
    <2>. HIDE DEF hit
    <2>4. CASE page.hits + 1 <= from
      BY <1>2, <2>1, <2>2, <2>3, <2>4 DEF Turned
    <2>5. CASE page.hits + 1 > from /\ Len(page.out) >= limit
      <3>1. next = [hit EXCEPT !.truncated = TRUE]
        BY <2>1, <2>2, <2>3, <2>5
      <3>2. next \in Pages /\ next.truncated = TRUE /\ next.out = page.out
            /\ next.seen = page.seen \cup {file.id} /\ next.hits = page.hits + 1
        BY <2>2, <3>1 DEF Pages
      <3>. QED BY <1>2, <2>2, <2>3, <2>5, <3>2 DEF Turned
    <2>6. CASE page.hits + 1 > from /\ Len(page.out) < limit
      <3>1. next = [hit EXCEPT !.out = Append(@, file)]
        BY <2>1, <2>2, <2>3, <2>6
      <3>2. Append(hit.out, file) \in Seq(Found)
        BY <2>2, <2>3
      <3>3. next \in Pages /\ next.truncated = page.truncated /\ next.out = Append(page.out, file)
            /\ next.seen = page.seen \cup {file.id} /\ next.hits = page.hits + 1
        BY <2>2, <3>1, <3>2 DEF Pages
      <3>. QED BY <1>2, <2>2, <2>3, <2>6, <3>3 DEF Turned
    <2>7. \/ page.hits + 1 <= from
          \/ page.hits + 1 > from /\ Len(page.out) >= limit
          \/ page.hits + 1 > from /\ Len(page.out) < limit
      BY <2>3
    <2>. QED BY <2>4, <2>5, <2>6, <2>7, Zenon
  <1>. QED BY <1>1, <1>2

(* The script takes one file after the other, and Scan is its last page. *)
LEMMA ScanSteps ==
    ASSUME files \in Seq(Found), NEW from \in Nat, NEW limit \in Nat
    PROVE  \E page : /\ page \in [0..Len(files) -> Pages] /\ page[0] = Blank
                     /\ \A n \in 0..Len(files) - 1 :
                           page[n + 1] = Consider(page[n], files[n + 1], from, limit)
                     /\ Scan(from, limit) = page[Len(files)]
  <1>. DEFINE step == [n \in 1..Len(files) |->
                          [a \in Pages |-> Consider(a, files[n], from, limit)]]
              Eq(h) == h = [n \in 0..Len(files) |->
                               IF n = 0 THEN [seen |-> {}, hits |-> 0, out |-> <<>>, truncated |-> FALSE]
                               ELSE Consider(h[n - 1], files[n], from, limit)]
              it == CHOOSE h : Eq(h)
  <1>1. /\ Len(files) \in Nat /\ Blank \in Pages
        /\ step \in [1..Len(files) -> [Pages -> Pages]]
    <2>1. Len(files) \in Nat /\ \A n \in 1..Len(files) : files[n] \in Found
      OBVIOUS
    <2>2. Blank \in Pages
      BY DEF Blank, Pages
    <2>3. \A n \in 1..Len(files) : \A a \in Pages : Consider(a, files[n], from, limit) \in Pages
      BY <2>1, Considered DEF Turned
    <2>. QED BY <2>1, <2>2, <2>3
  <1>2. PICK g : Made(g, Len(files), Pages, Blank, step)
    <2>. HIDE DEF step
    <2>. QED BY <1>1, Steps
  <1>3. Eq(g)
    <2>1. /\ g \in [0..Len(files) -> Pages] /\ g[0] = Blank
          /\ \A n \in 1..Len(files) : g[n] = step[n][g[n - 1]]
      BY <1>2 DEF Made
    <2>2. \A n \in 1..Len(files) : g[n - 1] \in Pages
      <3>1. \A n \in 1..Len(files) : n - 1 \in 0..Len(files)
        BY <1>1
      <3>. QED BY <2>1, <3>1, Zenon
    <2>3. \A n \in 1..Len(files) : g[n] = Consider(g[n - 1], files[n], from, limit)
      BY <2>1, <2>2
    <2>. HIDE DEF step
    <2>4. \A n \in 0..Len(files) : g[n] = IF n = 0 THEN Blank
                                          ELSE Consider(g[n - 1], files[n], from, limit)
      <3>1. \A n \in 0..Len(files) : n = 0 \/ (n \in 1..Len(files) /\ n # 0)
        BY <1>1
      <3>. QED BY <2>1, <2>3, <3>1, Zenon
    <2>. QED BY <2>1, <2>4, Zenon DEF Blank
  <1>4. Eq(it)
    <2>. HIDE DEF Eq
    <2>. QED BY <1>3, Zenon
  <1>5. Scan(from, limit) = it[Len(files)]
    BY Zenon DEF Scan
  <1>6. it = g
    <2>. DEFINE S == {n \in 0..Len(files) : it[n] = g[n]}
    <2>1. /\ it = [n \in 0..Len(files) |-> IF n = 0 THEN Blank
                                           ELSE Consider(it[n - 1], files[n], from, limit)]
          /\ g = [n \in 0..Len(files) |-> IF n = 0 THEN Blank
                                          ELSE Consider(g[n - 1], files[n], from, limit)]
      BY <1>3, <1>4 DEF Blank
    <2>. HIDE DEF it, Eq
    <2>2. \A n \in 0..Len(files) :
             /\ it[n] = IF n = 0 THEN Blank ELSE Consider(it[n - 1], files[n], from, limit)
             /\ g[n] = IF n = 0 THEN Blank ELSE Consider(g[n - 1], files[n], from, limit)
      BY <2>1, Zenon
    <2>3. 0 \in 0..Len(files)
      BY <1>1
    <2>4. 0 \in S
      BY <2>2, <2>3
    <2>5. ASSUME NEW n \in 0..Len(files) - 1, n \in S  PROVE n + 1 \in S
      <3>1. n + 1 \in 0..Len(files) /\ n + 1 # 0 /\ (n + 1) - 1 = n
        BY <1>1
      <3>2. it[n] = g[n]
        BY <2>5
      <3>3. it[(n + 1) - 1] = g[(n + 1) - 1]
        BY <3>1, <3>2, Zenon
      <3>4. it[n + 1] = g[n + 1]
        BY <2>2, <3>1, <3>3, Zenon
      <3>. QED BY <3>1, <3>4
    <2>6. \A n \in 0..Len(files) : n \in S
      <3>. HIDE DEF S
      <3>. QED BY <1>1, <2>4, <2>5, InductionUpTo
    <2>7. \A n \in 0..Len(files) : it[n] = g[n]
      BY <2>6
    <2>. QED BY <2>1, <2>2, <2>7, Zenon
  <1>7. \A n \in 0..Len(files) - 1 : g[n + 1] = Consider(g[n], files[n + 1], from, limit)
    <2>. SUFFICES ASSUME NEW n \in 0..Len(files) - 1
                  PROVE  g[n + 1] = Consider(g[n], files[n + 1], from, limit)
      OBVIOUS
    <2>1. n + 1 \in 0..Len(files) /\ n + 1 # 0 /\ (n + 1) - 1 = n
      BY <1>1
    <2>2. g[n + 1] = Consider(g[(n + 1) - 1], files[n + 1], from, limit)
      BY <1>3, <2>1, Zenon
    <2>. QED BY <2>1, <2>2, Zenon
  <1>8. g \in [0..Len(files) -> Pages] /\ g[0] = Blank
    BY <1>2 DEF Made
  <1>. QED BY <1>5, <1>6, <1>7, <1>8, Zenon

(* What the script lists when nobody pages. *)
Listing == Scan(0, MaxFiles).out

(* How much of n entries there is between the first and the first limit after it. *)
PageLen(n, from, limit) ==
    IF n <= from THEN 0 ELSE IF n - from <= limit THEN n - from ELSE limit

(* A page is a piece of the listing, and says whether more comes after it. *)
IsPiece(from, limit) ==
    /\ Listing \in Seq(Found)
    /\ \A i \in 1..Len(Listing) : Listing[i] \in Range(files) /\ Listable(Listing[i].json)
    /\ Scan(from, limit).out \in Seq(Found)
    /\ Len(Scan(from, limit).out) = PageLen(Len(Listing), from, limit)
    /\ \A i \in 1..Len(Scan(from, limit).out) :
          Scan(from, limit).out[i] = Listing[from + i]
    /\ Scan(from, limit).truncated <=> Len(Listing) > from + limit

(* Every page is. *)
LEMMA PageIsPiece ==
    ASSUME files \in Seq(Found), Len(files) <= MaxFiles, NEW from \in Nat, NEW limit \in Nat
    PROVE  IsPiece(from, limit)
  <1>. DEFINE N == Len(files)
  <1>1. /\ N \in Nat /\ MaxFiles \in Nat /\ N <= MaxFiles
        /\ \A n \in 1..N : files[n] \in Found /\ files[n] \in Range(files)
    BY PagesAssumption DEF Range
  <1>2. PICK g : /\ g \in [0..N -> Pages] /\ g[0] = Blank
                 /\ \A n \in 0..N - 1 : g[n + 1] = Consider(g[n], files[n + 1], from, limit)
                 /\ Scan(from, limit) = g[N]
    BY ScanSteps
  <1>3. PICK h : /\ h \in [0..N -> Pages] /\ h[0] = Blank
                 /\ \A n \in 0..N - 1 : h[n + 1] = Consider(h[n], files[n + 1], 0, MaxFiles)
                 /\ Scan(0, MaxFiles) = h[N]
    BY <1>1, ScanSteps
  <1>. HIDE DEF N
  <1>. DEFINE Alike(a, b, n) ==
                 /\ b.seen = a.seen /\ b.hits = a.hits /\ b.hits = Len(b.out) /\ b.hits <= n
                 /\ a.truncated <=> b.hits > from + limit
                 /\ Len(a.out) = PageLen(b.hits, from, limit)
                 /\ \A i \in 1..Len(a.out) : a.out[i] = b.out[from + i]
                 /\ \A i \in 1..Len(b.out) : b.out[i] \in Range(files) /\ Listable(b.out[i].json)
              P == {n \in 0..N : Alike(g[n], h[n], n)}
  <1>4. 0 \in P
    <2>1. Alike(Blank, Blank, 0)
      BY DEF Blank, PageLen
    <2>. HIDE DEF Alike
    <2>. QED BY <1>1, <1>2, <1>3, <2>1
  <1>5. ASSUME NEW a \in Pages, NEW b \in Pages, NEW n \in 0..N - 1, Alike(a, b, n),
               NEW c, c = Consider(a, files[n + 1], from, limit),
               NEW d, d = Consider(b, files[n + 1], 0, MaxFiles)
        PROVE  Alike(c, d, n + 1)
    <2>. DEFINE file == files[n + 1]
    <2>1. /\ file \in Found /\ file \in Range(files) /\ n \in Nat /\ n < MaxFiles
          /\ a.hits \in Nat /\ a.out \in Seq(Found) /\ b.hits \in Nat /\ b.out \in Seq(Found)
          /\ a.truncated \in BOOLEAN /\ Len(a.out) \in Nat /\ 0 \in Nat /\ MaxFiles \in Nat
          /\ c = Consider(a, file, from, limit) /\ d = Consider(b, file, 0, MaxFiles)
      BY <1>1, <1>5 DEF Pages
    <2>. HIDE DEF file
    <2>2. /\ c \in Pages
          /\ Passed(a, file) => c = a
          /\ ~Passed(a, file) =>
                /\ c.seen = a.seen \cup {file.id} /\ c.hits = a.hits + 1
                /\ a.hits + 1 <= from => c.out = a.out /\ c.truncated = a.truncated
                /\ a.hits + 1 > from =>
                      IF Len(a.out) < limit
                      THEN c.out = Append(a.out, file) /\ c.truncated = a.truncated
                      ELSE c.out = a.out /\ c.truncated = TRUE
      <3>1. Turned(a, file, from, limit, c)
        BY <1>5, <2>1, Considered
      <3>. QED BY <3>1 DEF Turned
    <2>3. /\ d \in Pages
          /\ Passed(b, file) => d = b
          /\ ~Passed(b, file) =>
                /\ d.seen = b.seen \cup {file.id} /\ d.hits = b.hits + 1
                /\ b.hits + 1 > 0 =>
                      IF Len(b.out) < MaxFiles
                      THEN d.out = Append(b.out, file) /\ d.truncated = b.truncated
                      ELSE d.out = b.out /\ d.truncated = TRUE
      <3>1. Turned(b, file, 0, MaxFiles, d)
        BY <1>5, <2>1, Considered
      <3>. QED BY <3>1 DEF Turned
    <2>4. Passed(a, file) <=> Passed(b, file)
      BY <1>5 DEF Passed
    <2>5. CASE Passed(a, file)
      <3>1. c = a /\ d = b
        BY <2>2, <2>3, <2>4, <2>5
      <3>2. Alike(a, b, n + 1)
        BY <1>5, <2>1
      <3>. HIDE DEF Alike
      <3>. QED BY <3>1, <3>2
    <2>6. CASE ~Passed(a, file)
      <3>1. /\ d.seen = c.seen /\ d.hits = c.hits /\ d.hits = b.hits + 1 /\ d.hits <= n + 1
            /\ d.out = Append(b.out, file) /\ Len(b.out) = b.hits /\ a.hits = b.hits
        <4>1. b.seen = a.seen /\ b.hits = a.hits /\ b.hits = Len(b.out) /\ b.hits <= n
          BY <1>5
        <4>2. c.seen = a.seen \cup {file.id} /\ c.hits = a.hits + 1
          BY <2>2, <2>6
        <4>3. d.seen = b.seen \cup {file.id} /\ d.hits = b.hits + 1 /\ ~Passed(b, file)
          BY <2>3, <2>4, <2>6
        <4>4. d.out = Append(b.out, file)
          <5>1. b.hits + 1 > 0 /\ Len(b.out) < MaxFiles
            BY <2>1, <4>1
          <5>. QED BY <2>3, <4>3, <5>1
        <4>. QED BY <2>1, <4>1, <4>2, <4>3, <4>4
      <3>2. Len(d.out) = b.hits + 1
        BY <2>1, <3>1
      <3>3. /\ \A i \in 1..b.hits : d.out[i] = b.out[i]
            /\ d.out[b.hits + 1] = file
        <4>1. Len(b.out) = b.hits /\ d.out = Append(b.out, file)
          BY <3>1
        <4>2. /\ \A i \in 1..Len(b.out) : Append(b.out, file)[i] = b.out[i]
              /\ Append(b.out, file)[Len(b.out) + 1] = file
          BY <2>1, AppendProperties
        <4>. QED BY <4>1, <4>2
      <3>4. Listable(file.json)
        BY <2>6 DEF Passed
      <3>5. \A i \in 1..Len(d.out) : d.out[i] \in Range(files) /\ Listable(d.out[i].json)
        <4>1. \A i \in 1..Len(d.out) : i \in 1..b.hits \/ i = b.hits + 1
          BY <2>1, <3>2
        <4>. QED BY <1>5, <2>1, <3>1, <3>3, <3>4, <4>1
      <3>6. CASE b.hits + 1 <= from
        <4>1. c.out = a.out /\ c.truncated = a.truncated /\ Len(a.out) = 0
          BY <1>5, <2>1, <2>2, <2>6, <3>1, <3>6 DEF PageLen
        <4>. QED BY <1>5, <2>1, <3>1, <3>2, <3>5, <3>6, <4>1 DEF PageLen
      <3>7. CASE b.hits + 1 > from /\ Len(a.out) < limit
        <4>1. /\ c.out = Append(a.out, file) /\ c.truncated = a.truncated
              /\ Len(a.out) = b.hits - from /\ b.hits >= from
          BY <1>5, <2>1, <2>2, <2>6, <3>1, <3>7 DEF PageLen
        <4>2. /\ Len(c.out) = Len(a.out) + 1
              /\ \A i \in 1..Len(a.out) : c.out[i] = a.out[i]
              /\ c.out[Len(a.out) + 1] = file
          <5>1. /\ Len(Append(a.out, file)) = Len(a.out) + 1
                /\ \A i \in 1..Len(a.out) : Append(a.out, file)[i] = a.out[i]
                /\ Append(a.out, file)[Len(a.out) + 1] = file
            BY <2>1, AppendProperties
          <5>. QED BY <4>1, <5>1
        <4>3. \A i \in 1..Len(c.out) : c.out[i] = d.out[from + i]
          <5>. SUFFICES ASSUME NEW i \in 1..Len(c.out)  PROVE c.out[i] = d.out[from + i]
            OBVIOUS
          <5>1. CASE i = Len(a.out) + 1
            <6>1. from + i = b.hits + 1
              BY <2>1, <4>1, <5>1
            <6>2. c.out[i] = file /\ d.out[from + i] = file
              BY <3>3, <4>2, <5>1, <6>1
            <6>. QED BY <6>2
          <5>2. CASE i # Len(a.out) + 1
            <6>1. i \in 1..Len(a.out)
              BY <2>1, <4>2, <5>2
            <6>2. i \in 1..Len(a.out) /\ from + i \in 1..b.hits
              BY <2>1, <4>1, <6>1
            <6>3. a.out[i] = b.out[from + i]
              BY <1>5, <6>2
            <6>. QED BY <3>3, <4>2, <6>2, <6>3
          <5>. QED BY <5>1, <5>2
        <4>4. (c.truncated <=> d.hits > from + limit)
              /\ Len(c.out) = PageLen(d.hits, from, limit)
          <5>1. a.truncated <=> b.hits > from + limit
            BY <1>5
          <5>2. b.hits < from + limit
            BY <2>1, <3>7, <4>1
          <5>3. ~c.truncated /\ ~(d.hits > from + limit)
            BY <2>1, <3>1, <4>1, <5>1, <5>2
          <5>4. d.hits = b.hits + 1 /\ Len(c.out) = Len(a.out) + 1
            BY <3>1, <4>2
          <5>5. /\ ~(b.hits + 1 <= from) /\ (b.hits + 1) - from <= limit
                /\ Len(a.out) + 1 = (b.hits + 1) - from
            BY <2>1, <3>7, <4>1, <5>2
          <5>6. Len(c.out) = PageLen(b.hits + 1, from, limit)
            BY <5>4, <5>5 DEF PageLen
          <5>. QED BY <5>3, <5>4, <5>6
        <4>. QED BY <3>1, <3>2, <3>5, <4>3, <4>4
      <3>8. CASE b.hits + 1 > from /\ Len(a.out) >= limit
        <4>1. c.out = a.out /\ c.truncated = TRUE
          BY <2>1, <2>2, <2>6, <3>1, <3>8
        <4>2. Len(a.out) = limit /\ b.hits >= from + limit
          BY <1>5, <2>1, <3>1, <3>8 DEF PageLen
        <4>3. \A i \in 1..Len(c.out) : c.out[i] = d.out[from + i]
          <5>. SUFFICES ASSUME NEW i \in 1..Len(c.out)  PROVE c.out[i] = d.out[from + i]
            OBVIOUS
          <5>1. i \in 1..Len(a.out) /\ from + i \in 1..b.hits
            BY <2>1, <4>1, <4>2
          <5>2. a.out[i] = b.out[from + i]
            BY <1>5, <5>1
          <5>. QED BY <3>3, <4>1, <5>1, <5>2
        <4>4. d.hits > from + limit /\ Len(c.out) = PageLen(d.hits, from, limit)
          <5>1. d.hits = b.hits + 1 /\ Len(c.out) = limit
            BY <3>1, <4>1, <4>2
          <5>2. d.hits > from + limit /\ d.hits - from > limit /\ ~(d.hits <= from)
                /\ ~(d.hits - from <= limit)
            BY <2>1, <4>2, <5>1
          <5>. QED BY <5>1, <5>2 DEF PageLen
        <4>. QED BY <3>1, <3>2, <3>5, <4>1, <4>3, <4>4
      <3>9. \/ b.hits + 1 <= from
            \/ b.hits + 1 > from /\ Len(a.out) < limit
            \/ b.hits + 1 > from /\ Len(a.out) >= limit
        BY <2>1
      <3>. QED BY <3>6, <3>7, <3>8, <3>9, Zenon
    <2>. QED BY <2>5, <2>6
  <1>6. \A n \in 0..N - 1 : n \in P => n + 1 \in P
    <2>. SUFFICES ASSUME NEW n \in 0..N - 1, n \in P  PROVE n + 1 \in P
      OBVIOUS
    <2>. HIDE DEF Alike
    <2>1. n \in 0..N /\ n + 1 \in 0..N
      BY <1>1
    <2>2. g[n] \in Pages /\ h[n] \in Pages /\ Alike(g[n], h[n], n)
      BY <1>2, <1>3, <2>1
    <2>3. Alike(g[n + 1], h[n + 1], n + 1)
      BY <1>2, <1>3, <1>5, <2>2, Zenon
    <2>. QED BY <2>1, <2>3
  <1>7. Alike(g[N], h[N], N)
    <2>. HIDE DEF Alike
    <2>1. \A n \in 0..N : n \in P
      <3>. HIDE DEF P
      <3>. QED BY <1>1, <1>4, <1>6, InductionUpTo
    <2>. QED BY <1>1, <2>1
  <1>8. Listing = h[N].out /\ g[N] \in Pages /\ h[N] \in Pages
    BY <1>1, <1>2, <1>3 DEF Listing
  <1>. QED BY <1>2, <1>7, <1>8 DEF Pages, IsPiece

--------------------------------------------------------------------------------
(* The phone collects the pieces *)

ParsedFiles == {f \in Found : Parses(f.json)}
AllParse == \A f \in Range(files) : Listable(f.json) => Parses(f.json)

(* Behind the phone lies a part of the listing, and it has what could be       *)
(* parsed of it.  It asks for the next page by how many it has, so that after  *)
(* recipes that could not be parsed it gets the last ones again.              *)
Collected ==
    \E c \in offset..Len(Listing) :
       /\ Range(all) = {Listing[i] : i \in 1..c} \cap ParsedFiles
       /\ loaded => hollow \/ c = Len(Listing)

(* Where all can be parsed it has just that part.                            *)
InOrder ==
    AllParse => /\ \A i \in 1..offset : all[i] = Listing[i]
                /\ loaded => offset = Len(Listing)

StoreInv ==
    /\ files \in Seq(Found) /\ Len(files) <= MaxFiles
    /\ all \in Seq(Found) /\ offset = Len(all)
    /\ Collected /\ InOrder

(* What a page brings: what could be parsed of its piece of the listing. *)
Brings(page, from, limit) ==
    LET n == PageLen(Len(Listing), from, limit)
    IN  /\ page.recipes \in Seq(Found) /\ Len(page.recipes) <= n
        /\ Range(page.recipes) = {Listing[from + i] : i \in 1..n} \cap ParsedFiles
        /\ page.truncated <=> Len(Listing) > from + limit
        /\ AllParse => /\ Len(page.recipes) = n
                       /\ \A i \in 1..n : page.recipes[i] = Listing[from + i]

(* Every page does. *)
LEMMA PageBrings ==
    ASSUME files \in Seq(Found), Len(files) <= MaxFiles, NEW from \in Nat, NEW limit \in Nat
    PROVE  Brings(SearchRecipes(from, limit), from, limit)
  <1>. DEFINE page == Scan(from, limit)
              good == {f \in Range(page.out) : Parses(f.json)}
              n == PageLen(Len(Listing), from, limit)
  <1>1. /\ Listing \in Seq(Found) /\ Len(Listing) \in Nat
        /\ \A i \in 1..Len(Listing) : Listing[i] \in Range(files) /\ Listable(Listing[i].json)
        /\ page.out \in Seq(Found) /\ Len(page.out) = n
        /\ \A i \in 1..n : page.out[i] = Listing[from + i]
        /\ page.truncated <=> Len(Listing) > from + limit
    <2>1. IsPiece(from, limit)
      BY PageIsPiece
    <2>. QED BY <2>1 DEF IsPiece
  <1>2. n \in Nat /\ \A i \in 1..n : from + i \in 1..Len(Listing)
    BY <1>1 DEF PageLen
  <1>3. /\ SearchRecipes(from, limit).recipes = Sift(page.out, good)
        /\ SearchRecipes(from, limit).truncated = page.truncated
    BY DEF SearchRecipes
  <1>. HIDE DEF page, good, n
  <1>4. /\ Sift(page.out, good) \in Seq(Found) /\ Len(Sift(page.out, good)) <= n
        /\ Range(Sift(page.out, good)) = Range(page.out) \cap good
        /\ (\A i \in 1..n : page.out[i] \in good) => Sift(page.out, good) = page.out
    BY <1>1, Sifts
  <1>5. Range(page.out) = {Listing[from + i] : i \in 1..n}
    <2>1. DOMAIN page.out = 1..n
      BY <1>1
    <2>. QED BY <1>1, <2>1 DEF Range
  <1>6. Range(page.out) \cap good = {Listing[from + i] : i \in 1..n} \cap ParsedFiles
    <2>1. \A f \in Range(page.out) : f \in Found
      BY <1>1 DEF Range
    <2>. QED BY <1>5, <2>1 DEF good, ParsedFiles
  <1>7. AllParse => \A i \in 1..n : page.out[i] \in good
    <2>. SUFFICES ASSUME AllParse, NEW i \in 1..n  PROVE page.out[i] \in good
      OBVIOUS
    <2>1. page.out[i] = Listing[from + i] /\ Listing[from + i] \in Range(files)
          /\ Listable(Listing[from + i].json)
      BY <1>1, <1>2
    <2>2. Parses(page.out[i].json)
      BY <2>1 DEF AllParse
    <2>3. page.out[i] \in Range(page.out)
      BY <1>5, <2>1
    <2>. QED BY <2>2, <2>3 DEF good
  <1>8. AllParse => Sift(page.out, good) = page.out
    BY <1>4, <1>7
  <1>. QED BY <1>1, <1>3, <1>4, <1>6, <1>8 DEF n, Brings

(* Before the first page there is nothing of the listing. *)
LEMMA StoreInvInit == StoreInit => StoreInv
  <1>. SUFFICES ASSUME StoreInit  PROVE StoreInv
    OBVIOUS
  <1>1. files \in Seq(Found) /\ Len(files) <= MaxFiles
    <2>1. PICK m \in 0..MaxFiles : files \in [1..m -> Found]
      BY DEF StoreInit, BoundedSeq, SeqOf, Found
    <2>. QED BY <2>1, PagesAssumption
  <1>2. Listing \in Seq(Found) /\ Len(Listing) \in Nat
    <2>1. IsPiece(0, MaxFiles)
      BY <1>1, PagesAssumption, PageIsPiece
    <2>. QED BY <2>1 DEF IsPiece
  <1>3. all = <<>> /\ offset = 0 /\ ~loaded
    BY DEF StoreInit
  <1>4. Collected
    <2>1. Range(all) = {}
      BY <1>3 DEF Range
    <2>2. 0 \in offset..Len(Listing) /\ {Listing[i] : i \in 1..0} = {}
      BY <1>2, <1>3
    <2>. QED BY <1>3, <2>1, <2>2 DEF Collected
  <1>. QED BY <1>1, <1>3, <1>4 DEF StoreInv, InOrder

(* Every page keeps it. *)
LEMMA StoreInvStep == StoreInv /\ [NextPage]_store => StoreInv'
  <1>. SUFFICES ASSUME StoreInv, [NextPage]_store  PROVE StoreInv'
    OBVIOUS
  <1>. USE DEF StoreInv
  <1>1. CASE UNCHANGED store
    <2>1. files' = files /\ all' = all /\ offset' = offset /\ loaded' = loaded /\ hollow' = hollow
      BY <1>1 DEF store
    <2>2. Listing' = Listing /\ AllParse' = AllParse
      BY <2>1 DEF Listing, AllParse, Scan
    <2>. QED BY <2>1, <2>2 DEF Collected, InOrder
  <1>2. CASE NextPage
    <2>. DEFINE page == SearchRecipes(offset, PageSize)
                L == Listing
                n == PageLen(Len(L), offset, PageSize)
    <2>1. /\ ~loaded /\ all' = all \o page.recipes /\ offset' = offset + Len(page.recipes)
          /\ loaded' = (page.recipes = <<>> \/ ~page.truncated)
          /\ hollow' = (page.recipes = <<>> /\ page.truncated) /\ files' = files
      BY <1>2 DEF NextPage
    <2>2. Listing' = L /\ AllParse' = AllParse
      BY <2>1 DEF Listing, AllParse, Scan
    <2>3. /\ offset \in Nat /\ PageSize \in Nat /\ PageSize >= 1 /\ MaxFiles \in Nat
          /\ Len(L) \in Nat /\ L \in Seq(Found)
      <3>1. offset \in Nat /\ PageSize \in Nat /\ PageSize >= 1 /\ MaxFiles \in Nat
        BY PagesAssumption
      <3>2. IsPiece(offset, PageSize)
        BY <3>1, PageIsPiece
      <3>. QED BY <3>1, <3>2 DEF IsPiece
    <2>4. /\ page.recipes \in Seq(Found) /\ Len(page.recipes) \in Nat
          /\ Len(page.recipes) <= n
          /\ Range(page.recipes) = {L[offset + i] : i \in 1..n} \cap ParsedFiles
          /\ page.truncated <=> Len(L) > offset + PageSize
          /\ AllParse => /\ Len(page.recipes) = n
                         /\ \A i \in 1..n : page.recipes[i] = L[offset + i]
      <3>1. Brings(page, offset, PageSize)
        BY <2>3, PageBrings
      <3>. QED BY <3>1 DEF Brings
    <2>5. PICK c \in offset..Len(L) : Range(all) = {L[i] : i \in 1..c} \cap ParsedFiles
      BY DEF Collected
    <2>6. /\ n \in Nat /\ offset + n <= Len(L) /\ c \in Nat /\ offset <= c /\ c <= Len(L)
          /\ ~(Len(L) > offset + PageSize) => offset + n = Len(L)
          /\ n = 0 => offset = Len(L)
      BY <2>3, <2>5 DEF PageLen
    <2>. HIDE DEF page, L, n
    <2>7. /\ all' \in Seq(Found) /\ Len(all') = offset + Len(page.recipes)
          /\ \A i \in 1..offset : all'[i] = all[i]
          /\ \A i \in 1..Len(page.recipes) : all'[offset + i] = page.recipes[i]
      BY <2>1, <2>3, <2>4
    <2>8. Range(all') = Range(all) \cup Range(page.recipes)
      <3>1. DOMAIN all' = 1..offset + Len(page.recipes) /\ DOMAIN all = 1..offset
            /\ DOMAIN page.recipes = 1..Len(page.recipes)
        BY <2>4, <2>7
      <3>2. \A i \in 1..offset + Len(page.recipes) :
               i \in 1..offset \/ \E j \in 1..Len(page.recipes) : i = offset + j
        <4>. SUFFICES ASSUME NEW i \in 1..offset + Len(page.recipes), i \notin 1..offset
                      PROVE  i - offset \in 1..Len(page.recipes) /\ i = offset + (i - offset)
          BY Zenon
        <4>. QED BY <2>3, <2>4
      <3>3. /\ \A i \in 1..offset : i \in 1..offset + Len(page.recipes)
            /\ \A j \in 1..Len(page.recipes) : offset + j \in 1..offset + Len(page.recipes)
        BY <2>3, <2>4
      <3>4. /\ Range(all') = {all'[i] : i \in 1..offset + Len(page.recipes)}
            /\ Range(all) = {all[i] : i \in 1..offset}
            /\ Range(page.recipes) = {page.recipes[i] : i \in 1..Len(page.recipes)}
        BY <3>1 DEF Range
      <3>5. ASSUME NEW x \in Range(all')  PROVE x \in Range(all) \cup Range(page.recipes)
        <4>1. PICK i \in 1..offset + Len(page.recipes) : x = all'[i]
          BY <3>4
        <4>2. CASE i \in 1..offset
          BY <2>7, <3>4, <4>1, <4>2
        <4>3. CASE i \notin 1..offset
          <5>1. PICK j \in 1..Len(page.recipes) : i = offset + j
            BY <3>2, <4>3
          <5>2. x = page.recipes[j]
            BY <2>7, <4>1, <5>1
          <5>. QED BY <3>4, <5>2
        <4>. QED BY <4>2, <4>3
      <3>6. ASSUME NEW x \in Range(all) \cup Range(page.recipes)  PROVE x \in Range(all')
        <4>1. CASE x \in Range(all)
          BY <2>7, <3>3, <3>4, <4>1
        <4>2. CASE x \in Range(page.recipes)
          <5>1. PICK j \in 1..Len(page.recipes) : x = page.recipes[j]
            BY <3>4, <4>2
          <5>2. x = all'[offset + j] /\ offset + j \in 1..offset + Len(page.recipes)
            BY <2>7, <3>3, <5>1
          <5>. QED BY <3>4, <5>2
        <4>. QED BY <3>6, <4>1, <4>2
      <3>. QED BY <3>5, <3>6
    <2>9. Collected'
      <3>. DEFINE e == IF c >= offset + n THEN c ELSE offset + n
      <3>1. e \in Nat /\ offset' <= e /\ e <= Len(L) /\ offset' \in Nat
        BY <2>1, <2>3, <2>4, <2>6
      <3>2. {L[i] : i \in 1..e} = {L[i] : i \in 1..c} \cup {L[offset + i] : i \in 1..n}
        <4>1. \A i \in 1..c : i \in 1..e
          BY <2>6, <3>1
        <4>2. \A i \in 1..n : offset + i \in 1..e
          BY <2>3, <2>6, <3>1
        <4>3. \A i \in 1..e : i \in 1..c \/ \E j \in 1..n : i = offset + j
          <5>. SUFFICES ASSUME NEW i \in 1..e, i \notin 1..c
                        PROVE  i - offset \in 1..n /\ i = offset + (i - offset)
            BY Zenon
          <5>. QED BY <2>3, <2>6
        <4>. HIDE DEF e
        <4>. QED BY <4>1, <4>2, <4>3
      <3>3. Range(all') = {L[i] : i \in 1..e} \cap ParsedFiles
        BY <2>4, <2>5, <2>8, <3>2
      <3>4. loaded' => hollow' \/ e = Len(L)
        BY <2>1, <2>3, <2>4, <2>6
      <3>. HIDE DEF e
      <3>5. e \in offset'..Len(L)
        BY <2>3, <3>1
      <3>. QED BY <2>2, <3>3, <3>4, <3>5 DEF Collected, L
    <2>10. InOrder'
      <3>. SUFFICES ASSUME AllParse
                    PROVE  /\ \A i \in 1..offset' : all'[i] = L[i]
                           /\ loaded' => offset' = Len(L)
        BY <2>2 DEF InOrder, L
      <3>1. Len(page.recipes) = n /\ offset' = offset + n
            /\ \A i \in 1..n : page.recipes[i] = L[offset + i]
        BY <2>1, <2>4
      <3>2. \A i \in 1..offset' : all'[i] = L[i]
        <4>. SUFFICES ASSUME NEW i \in 1..offset + n  PROVE all'[i] = L[i]
          BY <3>1
        <4>1. CASE i \in 1..offset
          BY <2>7, <4>1 DEF InOrder, L
        <4>2. CASE i \notin 1..offset
          <5>1. i - offset \in 1..n /\ offset + (i - offset) = i
            BY <2>3, <2>6, <4>2
          <5>2. all'[offset + (i - offset)] = page.recipes[i - offset]
            BY <2>7, <3>1, <5>1
          <5>3. page.recipes[i - offset] = L[offset + (i - offset)]
            BY <3>1, <5>1
          <5>. QED BY <5>1, <5>2, <5>3
        <4>. QED BY <4>1, <4>2
      <3>3. loaded' => offset' = Len(L)
        <4>1. page.recipes = <<>> => n = 0
          BY <2>4, <3>1
        <4>2. loaded' => page.recipes = <<>> \/ ~page.truncated
          BY <2>1
        <4>3. ~page.truncated => offset + n = Len(L)
          BY <2>4, <2>6
        <4>4. n = 0 => offset + n = Len(L)
          BY <2>3, <2>6
        <4>. QED BY <3>1, <4>1, <4>2, <4>3, <4>4
      <3>. QED BY <3>2, <3>3
    <2>11. offset' = Len(all') /\ files' \in Seq(Found) /\ Len(files') <= MaxFiles
      BY <2>1, <2>7
    <2>. QED BY <2>7, <2>9, <2>10, <2>11
  <1>. QED BY <1>1, <1>2

(* It says that the phone has all. *)
LEMMA StoreInvHasAll == StoreInv => PhoneHasAll
  <1>. SUFFICES ASSUME StoreInv  PROVE PhoneHasAll
    OBVIOUS
  <1>. USE DEF StoreInv
  <1>1. /\ MaxFiles \in Nat /\ Len(Listing) \in Nat /\ Listing \in Seq(Found)
        /\ \A i \in 1..Len(Listing) : Listing[i] \in Range(files) /\ Listable(Listing[i].json)
        /\ Len(Listing) = PageLen(Len(Listing), 0, MaxFiles)
    <2>1. MaxFiles \in Nat /\ 0 \in Nat
      BY PagesAssumption
    <2>2. IsPiece(0, MaxFiles)
      BY <2>1, PageIsPiece
    <2>3. Len(Listing) = Len(Scan(0, MaxFiles).out)
      BY DEF Listing
    <2>. QED BY <2>1, <2>2, <2>3 DEF IsPiece
  <1>2. /\ Everything \in Seq(Found)
        /\ Range(Everything) = {Listing[0 + i] : i \in 1..Len(Listing)} \cap ParsedFiles
        /\ AllParse => /\ Len(Everything) = Len(Listing)
                       /\ \A i \in 1..Len(Listing) : Everything[i] = Listing[0 + i]
    <2>1. Brings(SearchRecipes(0, MaxFiles), 0, MaxFiles)
      BY <1>1, PageBrings
    <2>. QED BY <1>1, <2>1 DEF Brings, Everything
  <1>3. {Listing[0 + i] : i \in 1..Len(Listing)} = {Listing[i] : i \in 1..Len(Listing)}
    BY <1>1
  <1>4. PICK c \in offset..Len(Listing) :
           /\ Range(all) = {Listing[i] : i \in 1..c} \cap ParsedFiles
           /\ loaded => hollow \/ c = Len(Listing)
    BY DEF Collected
  <1>5. \A f \in Range(all) : Plannable(ParseRecipe(f.json))
    <2>. SUFFICES ASSUME NEW f \in Range(all)  PROVE Plannable(ParseRecipe(f.json))
      OBVIOUS
    <2>1. f \in Found /\ Parses(f.json)
      BY <1>4 DEF ParsedFiles
    <2>2. f.json \in Jsons
      BY <2>1 DEF Found
    <2>. QED BY <2>1, <2>2, ParsedIsPlannable
  <1>6. loaded => hollow \/ Range(all) = Range(Everything)
    BY <1>2, <1>3, <1>4
  <1>7. loaded /\ AllParse => all = Everything
    <2>. SUFFICES ASSUME loaded, AllParse  PROVE all = Everything
      OBVIOUS
    <2>1. offset = Len(Listing) /\ \A i \in 1..offset : all[i] = Listing[i]
      BY DEF InOrder
    <2>2. Len(Everything) = Len(all) /\ \A i \in 1..Len(all) : all[i] = Everything[i]
      BY <1>1, <1>2, <2>1
    <2>. QED BY <1>2, <2>2, SeqEqual
  <1>. QED BY <1>5, <1>6, <1>7 DEF PhoneHasAll, AllParse

(* Whatever recipe files a pack has, the phone's pages add up to what the      *)
(* server lists, and all it got can be planned (RecipeStore.kt:27-42,         *)
(* crafting.py:168-422).                                                     *)
THEOREM PagesAddUp == StoreSpec => []PhoneHasAll
  <1>. QED BY StoreInvInit, StoreInvStep, StoreInvHasAll, PTL DEF StoreSpec

--------------------------------------------------------------------------------
(* What a tree of recipes costs, for any recipes *)

Needs == [item : Things, per : Nat]

(* f holds the books after each ingredient. *)
Serial(tree, needs, times, ancestry, produce, f) ==
    /\ f \in [0..Len(needs) -> Books] /\ f[0] = tree
    /\ Ingredients(tree, needs, times, ancestry, produce) = f[Len(needs)]
    /\ \A n \in 0..Len(needs) - 1 :
          f[n + 1] = produce[Call(f[n], needs[n + 1].item, needs[n + 1].per * times, ancestry)]

(* The ingredients are produced one after the other. *)
LEMMA IngredientsMade ==
    ASSUME NEW tree \in Books,
           NEW needs \in Seq(Needs),
           NEW times \in Nat,
           NEW ancestry \in SUBSET Things,
           NEW produce \in [CallsOfProduce -> Books]
    PROVE  \E f : Serial(tree, needs, times, ancestry, produce, f)
  <1>. DEFINE Do(a, n) == produce[Call(a, needs[n].item, needs[n].per * times, ancestry)]
              step == [n \in 1..Len(needs) |-> [a \in Books |-> Do(a, n)]]
              Eq(h) == h = [n \in 0..Len(needs) |->
                                IF n = 0 THEN tree ELSE Do(h[n - 1], n)]
              it == CHOOSE h : Eq(h)
  <1>1. /\ Len(needs) \in Nat /\ tree \in Books
        /\ \A n \in 1..Len(needs) : \A a \in Books : Do(a, n) \in Books
    <2>1. Len(needs) \in Nat /\ \A n \in 1..Len(needs) : needs[n] \in Needs
      OBVIOUS
    <2>4. \A n \in 1..Len(needs) : needs[n].item \in Things /\ needs[n].per \in Nat
      BY <2>1 DEF Needs
    <2>2. \A n \in 1..Len(needs) : needs[n].per * times \in Nat
      BY <2>4
    <2>3. \A n \in 1..Len(needs) : \A a \in Books :
             Call(a, needs[n].item, needs[n].per * times, ancestry) \in CallsOfProduce
      BY <2>2, <2>4 DEF Call, CallsOfProduce
    <2>. QED BY <2>1, <2>3
  <1>2. step \in [1..Len(needs) -> [Books -> Books]]
    BY <1>1
  <1>3. PICK g : Made(g, Len(needs), Books, tree, step)
    <2>. HIDE DEF step
    <2>. QED BY <1>1, <1>2, Steps
  <1>4. /\ g \in [0..Len(needs) -> Books] /\ g[0] = tree
        /\ \A n \in 1..Len(needs) : g[n] = Do(g[n - 1], n)
    <2>1. /\ g \in [0..Len(needs) -> Books] /\ g[0] = tree
          /\ \A n \in 1..Len(needs) : g[n] = step[n][g[n - 1]]
      BY <1>3 DEF Made
    <2>2. \A n \in 1..Len(needs) : g[n - 1] \in Books
      BY <1>1, <2>1, Numbered, Zenon
    <2>. QED BY <2>1, <2>2
  <1>. HIDE DEF step
  <1>5. Eq(g)
    <2>1. \A n \in 0..Len(needs) : g[n] = IF n = 0 THEN tree ELSE Do(g[n - 1], n)
      BY <1>1, <1>4, Numbered, Zenon
    <2>. QED BY <1>4, <2>1, Zenon
  <1>6. Eq(it)
    <2>. HIDE DEF Eq
    <2>. QED BY <1>5, Zenon
  <1>7. Ingredients(tree, needs, times, ancestry, produce) = it[Len(needs)]
    BY Zenon DEF Ingredients
  <1>8. \A h : Eq(h) => /\ h[0] = tree
                        /\ \A n \in 0..Len(needs) - 1 : h[n + 1] = Do(h[n], n + 1)
    <2>. SUFFICES ASSUME NEW h, Eq(h)
                  PROVE  /\ h[0] = tree
                         /\ \A n \in 0..Len(needs) - 1 : h[n + 1] = Do(h[n], n + 1)
      OBVIOUS
    <2>1. \A n \in 0..Len(needs) : h[n] = IF n = 0 THEN tree ELSE Do(h[n - 1], n)
      BY Zenon
    <2>2. \A n \in 0..Len(needs) - 1 : h[n + 1] = Do(h[(n + 1) - 1], n + 1)
      BY <1>1, <2>1, Numbered, Zenon
    <2>. QED BY <1>1, <2>1, <2>2, Numbered, Zenon
  <1>. HIDE DEF it, Eq, Do
  <1>9. it[0] = tree /\ g[0] = tree
    BY <1>5, <1>6, <1>8, Zenon
  <1>10. /\ \A n \in 0..Len(needs) - 1 : it[n + 1] = Do(it[n], n + 1)
         /\ \A n \in 0..Len(needs) - 1 : g[n + 1] = Do(g[n], n + 1)
    BY <1>5, <1>6, <1>8, Zenon
  <1>11. Ingredients(tree, needs, times, ancestry, produce) = g[Len(needs)]
    <2>1. \A n \in 0..Len(needs) - 1 : it[n] = g[n] => it[n + 1] = g[n + 1]
      BY <1>10, Zenon
    <2>2. it[0] = g[0] /\ Len(needs) \in Nat
      BY <1>1, <1>9, Zenon
    <2>3. \A n \in 0..Len(needs) : it[n] = g[n]
      BY <2>1, <2>2, Agree
    <2>4. it[Len(needs)] = g[Len(needs)]
      BY <2>2, <2>3, Numbered
    <2>. QED BY <1>7, <2>4, Zenon
  <1>12. Serial(tree, needs, times, ancestry, produce, g)
    BY <1>4, <1>9, <1>10, <1>11, Zenon DEF Serial, Do
  <1>. QED BY <1>12

(* The recipes are recipes. *)
RulesOK == rules \in [Things -> Rules] /\ target \in Things

(* A rule's parts, and what one craft of it takes. *)
LEMMA RuleParts ==
    ASSUME NEW rule \in Rules
    PROVE  /\ rule.needs \in Seq(Needs) /\ rule.each \in Nat
           /\ rule # Raw => rule.each \in Nat \ {0}
           /\ \A i : Per(rule, i) \in Nat
  <1>1. rule.needs \in Seq(Needs) /\ (rule # Raw => rule.each \in Nat \ {0})
    BY CostAssumption DEF Needs
  <1>2. rule.each \in Nat
    BY <1>1 DEF Raw, Rule
  <1>3. ASSUME NEW i  PROVE Per(rule, i) \in Nat
    <2>. DEFINE W == [k \in DOMAIN rule.needs |->
                         IF rule.needs[k].item = i THEN rule.needs[k].per ELSE 0]
    <2>1. DOMAIN rule.needs = 1..Len(rule.needs) /\ Len(rule.needs) \in Nat
          /\ \A k \in 1..Len(rule.needs) : rule.needs[k] \in Needs
      BY <1>1
    <2>2. \A k \in DOMAIN rule.needs : W[k] \in Nat
      BY <2>1 DEF Needs
    <2>3. IsFiniteSet(DOMAIN rule.needs)
      BY <2>1, FS_Interval
    <2>. HIDE DEF W
    <2>4. SumFunctionOnSet(W, DOMAIN rule.needs) \in Nat
      BY <2>2, <2>3, SumNat
    <2>. QED BY <2>4 DEF Per, W
  <1>. QED BY <1>1, <1>2, <1>3

(* What is used or left of an item and was neither bought nor crafted. *)
Crafted(tree, i) == IF i = target THEN 0 ELSE tree.crafts[i] * rules[i].each
Owed(tree, i) == Used(tree, i) + tree.left[i] - (tree.base[i] + Crafted(tree, i))

(* No more is left of anything than one craft too few would leave. *)
Frugal(tree) == \A i \in Things : tree.left[i] > 0 => tree.left[i] < rules[i].each

(* A call of produce pays what it was called for, and no more. *)
Pays(call, tree) ==
    /\ tree \in Books /\ Frugal(tree)
    /\ \A i \in Things : Owed(tree, i) = Owed(call.tree, i) - (IF i = call.item THEN call.qty ELSE 0)

Honest(produce) ==
    /\ produce \in [CallsOfProduce -> Books]
    /\ \A call \in CallsOfProduce :
          Frugal(call.tree) /\ target \in call.ancestry => Pays(call, produce[call])

(* The parts of the books are numbers. *)
LEMMA BookParts ==
    ASSUME NEW tree \in Books
    PROVE  /\ tree.base \in [Things -> Nat] /\ tree.left \in [Things -> Nat]
           /\ tree.crafts \in [Things -> Nat] /\ tree.truncated \in BOOLEAN
  BY DEF Books

(* What is used of an item is a number; some more crafts use so much more. *)
LEMMA UsedMore ==
    ASSUME RulesOK, NEW tree \in Books, NEW i \in Things
    PROVE  /\ Used(tree, i) \in Nat
           /\ \A other \in Books : other.crafts = tree.crafts => Used(other, i) = Used(tree, i)
           /\ \A other \in Books : \A j \in Things : \A c \in Nat :
                 other.crafts = [tree.crafts EXCEPT ![j] = @ + c] =>
                    Used(other, i) = Used(tree, i) + c * Per(rules[j], i)
  <1>. DEFINE W(t) == [k \in Things |-> t.crafts[k] * Per(rules[k], i)]
  <1>1. IsFiniteSet(Things) /\ \A k \in Things : Per(rules[k], i) \in Nat
    BY CostAssumption, RuleParts DEF RulesOK
  <1>2. ASSUME NEW t \in Books  PROVE \A k \in Things : W(t)[k] \in Nat
    <2>1. \A k \in Things : t.crafts[k] \in Nat
      BY BookParts
    <2>. QED BY <1>1, <2>1
  <1>3. \A t \in Books : Used(t, i) = SumFunctionOnSet(W(t), Things)
    BY DEF Used
  <1>4. \A t \in Books : Used(t, i) \in Nat
    <2>. SUFFICES ASSUME NEW t \in Books  PROVE Used(t, i) \in Nat
      OBVIOUS
    <2>1. \A k \in Things : W(t)[k] \in Nat
      BY <1>2
    <2>. HIDE DEF W
    <2>. QED BY <1>1, <1>3, <2>1, SumNat
  <1>5. \A other \in Books : other.crafts = tree.crafts => Used(other, i) = Used(tree, i)
    BY DEF Used
  <1>6. ASSUME NEW other \in Books, NEW j \in Things, NEW c \in Nat,
               other.crafts = [tree.crafts EXCEPT ![j] = @ + c]
        PROVE  Used(other, i) = Used(tree, i) + c * Per(rules[j], i)
    <2>. DEFINE f == W(tree)
                g == W(other)
    <2>1. /\ \A k \in Things : f[k] \in Nat /\ g[k] \in Nat
      BY <1>2
    <2>2. \A k \in Things \ {j} : f[k] = g[k]
      BY <1>6, BookParts
    <2>3. g[j] = f[j] + c * Per(rules[j], i)
      <3>1. /\ tree.crafts[j] \in Nat /\ other.crafts[j] = tree.crafts[j] + c
            /\ Per(rules[j], i) \in Nat
        BY <1>1, <1>6, BookParts
      <3>2. (tree.crafts[j] + c) * Per(rules[j], i) =
               tree.crafts[j] * Per(rules[j], i) + c * Per(rules[j], i)
        BY <3>1
      <3>. QED BY <3>1, <3>2
    <2>. HIDE DEF f, g
    <2>4. /\ Whole(f, Things) /\ Whole(g, Things)
          /\ Whole(f, Things \ {j}) /\ Whole(g, Things \ {j})
      BY <1>1, <2>1, FS_Subset DEF Whole
    <2>5. /\ SumFunctionOnSet(f, Things) = f[j] + SumFunctionOnSet(f, Things \ {j})
          /\ SumFunctionOnSet(g, Things) = g[j] + SumFunctionOnSet(g, Things \ {j})
      BY <2>4, SumRemove
    <2>6. SumFunctionOnSet(f, Things \ {j}) = SumFunctionOnSet(g, Things \ {j})
      BY <2>2, <2>4, SumSame
    <2>7. /\ Used(tree, i) = SumFunctionOnSet(f, Things)
          /\ Used(other, i) = SumFunctionOnSet(g, Things)
      BY <1>3 DEF f, g
    <2>8. /\ f[j] \in Nat /\ c * Per(rules[j], i) \in Nat
          /\ SumFunctionOnSet(f, Things \ {j}) \in Int
      BY <1>1, <2>1, <2>4, SumInt
    <2>. QED BY <2>3, <2>5, <2>6, <2>7, <2>8
  <1>. QED BY <1>4, <1>5, <1>6

(* So is what is owed. *)
LEMMA OwedInt ==
    ASSUME RulesOK, NEW tree \in Books, NEW i \in Things
    PROVE  Crafted(tree, i) \in Nat /\ Owed(tree, i) \in Int
  <1>1. rules[i].each \in Nat
    BY RuleParts DEF RulesOK
  <1>2. Used(tree, i) \in Nat
    BY UsedMore
  <1>3. tree.crafts[i] \in Nat /\ tree.left[i] \in Nat /\ tree.base[i] \in Nat
    BY BookParts
  <1>4. Crafted(tree, i) \in Nat
    BY <1>1, <1>3 DEF Crafted
  <1>. QED BY <1>2, <1>3, <1>4 DEF Owed

(* The books have been paid what some crafts take. *)
Settled(paid, tree, rule, times) ==
    /\ paid \in Books /\ Frugal(paid)
    /\ \A i \in Things : Owed(paid, i) = Owed(tree, i) - times * Per(rule, i)

(* The ingredients of some crafts are paid for when each of them is. *)
LEMMA IngredientsPaid ==
    ASSUME RulesOK, NEW tree \in Books, Frugal(tree), NEW rule \in Rules, NEW times \in Nat,
           NEW ancestry \in SUBSET Things, target \in ancestry, NEW produce, Honest(produce)
    PROVE  Settled(Ingredients(tree, rule.needs, times, ancestry, produce), tree, rule, times)
  <1>. DEFINE r == Ingredients(tree, rule.needs, times, ancestry, produce)
              needs == rule.needs
              N == Len(needs)
              W(i) == [k \in DOMAIN needs |-> IF needs[k].item = i THEN needs[k].per ELSE 0]
              S(i, n) == SumFunctionOnSet(W(i), 1..n)
  <1>1. /\ needs \in Seq(Needs) /\ N \in Nat /\ DOMAIN needs = 1..N
        /\ \A n \in 1..N : needs[n] \in Needs
    BY RuleParts
  <1>2. \A n \in 1..N : needs[n].item \in Things /\ needs[n].per \in Nat
    BY <1>1 DEF Needs
  <1>. HIDE DEF needs
  <1>3. ASSUME NEW i \in Things
        PROVE  /\ S(i, 0) = 0 /\ S(i, N) = Per(rule, i)
               /\ \A n \in 0..N : S(i, n) \in Nat
               /\ \A n \in 0..N - 1 :
                     S(i, n + 1) = S(i, n) + (IF needs[n + 1].item = i THEN needs[n + 1].per ELSE 0)
    <2>1. \A n \in 1..N : W(i)[n] \in Nat /\ W(i)[n] = IF needs[n].item = i THEN needs[n].per ELSE 0
      BY <1>1, <1>2
    <2>2. S(i, N) = Per(rule, i)
      BY <1>1 DEF Per, needs
    <2>. DEFINE w == W(i)
    <2>. HIDE DEF w, W, N
    <2>3. SumFunctionOnSet(w, 1..0) = 0
      <3>1. 1..0 = {}
        OBVIOUS
      <3>. QED BY <3>1, SumNothing
    <2>4. \A n \in 0..N : SumFunctionOnSet(w, 1..n) \in Nat
      <3>. SUFFICES ASSUME NEW n \in 0..N  PROVE SumFunctionOnSet(w, 1..n) \in Nat
        OBVIOUS
      <3>1. IsFiniteSet(1..n) /\ \A k \in 1..n : w[k] \in Nat
        <4>1. IsFiniteSet(1..n)
          BY FS_Interval
        <4>2. \A k \in 1..n : k \in 1..N
          BY <1>1
        <4>. QED BY <2>1, <4>1, <4>2 DEF w
      <3>. QED BY <3>1, SumNat
    <2>5. \A n \in 0..N - 1 : SumFunctionOnSet(w, 1..n + 1) = SumFunctionOnSet(w, 1..n) + w[n + 1]
      <3>. SUFFICES ASSUME NEW n \in 0..N - 1
                    PROVE  SumFunctionOnSet(w, 1..n + 1) = SumFunctionOnSet(w, 1..n) + w[n + 1]
        OBVIOUS
      <3>1. /\ n \in 0..N /\ n + 1 \in 1..n + 1 /\ (1..n + 1) \ {n + 1} = 1..n
            /\ \A k \in 1..n + 1 : k \in 1..N
        BY <1>1
      <3>2. IsFiniteSet(1..n + 1) /\ \A k \in 1..n + 1 : w[k] \in Nat
        BY <2>1, <3>1, FS_Interval DEF w
      <3>3. Whole(w, 1..n + 1)
        BY <3>2 DEF Whole
      <3>4. SumFunctionOnSet(w, 1..n + 1) = w[n + 1] + SumFunctionOnSet(w, (1..n + 1) \ {n + 1})
        BY <3>1, <3>3, SumRemove
      <3>5. w[n + 1] \in Nat /\ SumFunctionOnSet(w, 1..n) \in Nat
        BY <2>4, <3>1, <3>2
      <3>6. SumFunctionOnSet(w, (1..n + 1) \ {n + 1}) = SumFunctionOnSet(w, 1..n)
        BY <3>1, Zenon
      <3>. QED BY <3>4, <3>5, <3>6
    <2>6. \A n \in 0..N - 1 : w[n + 1] = IF needs[n + 1].item = i THEN needs[n + 1].per ELSE 0
      BY <1>1, <2>1, Numbered DEF w
    <2>. QED BY <2>2, <2>3, <2>4, <2>5, <2>6 DEF w
  <1>. HIDE DEF S
  <1>4. produce \in [CallsOfProduce -> Books]
    BY DEF Honest
  <1>5. PICK f : /\ f \in [0..N -> Books] /\ f[0] = tree
                 /\ Ingredients(tree, needs, times, ancestry, produce) = f[N]
                 /\ \A n \in 0..N - 1 :
                       f[n + 1] = produce[Call(f[n], needs[n + 1].item, needs[n + 1].per * times, ancestry)]
    <2>1. \E f : Serial(tree, needs, times, ancestry, produce, f)
      BY <1>1, <1>4, IngredientsMade
    <2>. QED BY <2>1 DEF Serial
  <1>. HIDE DEF N
  <1>. DEFINE Good(n) == /\ Frugal(f[n])
                         /\ \A i \in Things : Owed(f[n], i) = Owed(tree, i) - times * S(i, n)
              P == {n \in 0..N : Good(n)}
  <1>6. Good(0)
    <2>1. \A i \in Things : Owed(tree, i) \in Int /\ times * S(i, 0) = 0
      BY <1>3, OwedInt
    <2>. QED BY <1>5, <2>1
  <1>7. ASSUME NEW n \in 0..N - 1, Good(n)  PROVE Good(n + 1)
    <2>. DEFINE need == needs[n + 1]
                call == Call(f[n], need.item, need.per * times, ancestry)
    <2>1. n \in 0..N /\ n + 1 \in 1..N /\ n + 1 \in 0..N
      BY <1>1, Numbered
    <2>2. need.item \in Things /\ need.per \in Nat /\ need.per * times \in Nat /\ f[n] \in Books
      BY <1>2, <1>5, <2>1
    <2>. HIDE DEF need
    <2>3. /\ call \in CallsOfProduce /\ call.tree = f[n] /\ call.ancestry = ancestry
          /\ call.item = need.item /\ call.qty = need.per * times
      BY <2>2 DEF Call, CallsOfProduce
    <2>4. f[n + 1] = produce[call]
      BY <1>5 DEF need
    <2>. HIDE DEF call
    <2>5. Pays(call, f[n + 1])
      BY <1>7, <2>3, <2>4 DEF Honest
    <2>6. ASSUME NEW i \in Things
          PROVE  Owed(f[n + 1], i) = Owed(tree, i) - times * S(i, n + 1)
      <3>1. Owed(f[n + 1], i) = Owed(f[n], i) - (IF i = need.item THEN need.per * times ELSE 0)
        BY <2>3, <2>5 DEF Pays
      <3>2. Owed(f[n], i) = Owed(tree, i) - times * S(i, n)
        BY <1>7
      <3>3. S(i, n + 1) = S(i, n) + (IF need.item = i THEN need.per ELSE 0) /\ S(i, n) \in Nat
        BY <1>3, <2>1 DEF need
      <3>4. Owed(tree, i) \in Int
        BY OwedInt
      <3>5. CASE i = need.item
        <4>1. times * (S(i, n) + need.per) = times * S(i, n) + need.per * times
          BY <2>2, <3>3
        <4>. QED BY <2>2, <3>1, <3>2, <3>3, <3>4, <3>5, <4>1
      <3>6. CASE i # need.item
        <4>1. times * S(i, n) \in Nat
          BY <3>3
        <4>. QED BY <3>1, <3>2, <3>3, <3>4, <3>6, <4>1
      <3>. QED BY <3>5, <3>6
    <2>. QED BY <2>5, <2>6 DEF Pays
  <1>8. Good(N)
    <2>. HIDE DEF Good
    <2>1. 0 \in P /\ \A n \in 0..N - 1 : n \in P => n + 1 \in P
      BY <1>1, <1>6, <1>7, Numbered
    <2>2. \A n \in 0..N : n \in P
      <3>. HIDE DEF P
      <3>. QED BY <1>1, <2>1, InductionUpTo
    <2>. QED BY <1>1, <2>2, Numbered
  <1>9. N \in 0..N /\ r = f[N]
    BY <1>1, <1>5 DEF needs
  <1>. HIDE DEF r
  <1>10. Settled(r, tree, rule, times)
    BY <1>3, <1>5, <1>8, <1>9 DEF Settled
  <1>. QED BY <1>10 DEF r

(* The parts of a call. *)
LEMMA CallParts ==
    ASSUME NEW call \in CallsOfProduce
    PROVE  /\ call.tree \in Books /\ call.item \in Things /\ call.qty \in Nat
           /\ call.ancestry \in SUBSET Things
  BY DEF CallsOfProduce

(* How many crafts there are to a number of items: enough, and none too many. *)
LEMMA CraftsEnough ==
    ASSUME NEW qty \in Nat, NEW each \in Nat \ {0}
    PROVE  /\ Crafts(qty, each) \in Nat
           /\ Crafts(qty, each) * each - qty \in Nat
           /\ Crafts(qty, each) * each - qty < each
  <1>. DEFINE x == qty + each - 1
              c == x \div each
  <1>1. x \in Nat /\ Crafts(qty, each) = c
    BY DEF Crafts, Ceil
  <1>. HIDE DEF x
  <1>2. c \in Nat /\ each * c <= x /\ \A n \in Nat : n <= c <=> each * n <= x
    BY <1>1, Division
  <1>. HIDE DEF c
  <1>3. each * (c + 1) > x
    <2>1. c + 1 \in Nat /\ ~(c + 1 <= c)
      BY <1>2
    <2>2. ~(each * (c + 1) <= x)
      BY <1>2, <2>1
    <2>3. each * (c + 1) \in Nat
      BY <2>1
    <2>. QED BY <1>1, <2>2, <2>3
  <1>4. each * (c + 1) = each * c + each /\ each * c = c * each /\ each * c \in Nat
    BY <1>2
  <1>5. each * c >= qty /\ each * c - qty < each
    BY <1>1, <1>2, <1>3, <1>4 DEF x
  <1>. QED BY <1>1, <1>2, <1>4, <1>5

(* What is taken of the surplus, and what is short then. *)
Use(call) == Surplus(call.tree, call.item, call.qty)
Lack(call) == call.qty - Use(call)
Spent(call) == [call.tree EXCEPT !.left[call.item] = @ - Use(call)]

(* What is left then: the books, less what was taken.                       *)
LEMMA SpentIs ==
    ASSUME NEW call \in CallsOfProduce
    PROVE  /\ Use(call) \in Nat /\ Use(call) <= call.tree.left[call.item] /\ Lack(call) \in Nat
           /\ Lack(call) # 0 => Use(call) = call.tree.left[call.item]
           /\ Spent(call) \in Books
           /\ Spent(call).base = call.tree.base /\ Spent(call).crafts = call.tree.crafts
           /\ Spent(call).left = [call.tree.left EXCEPT ![call.item] = @ - Use(call)]
  <1>1. call.tree \in Books /\ call.item \in Things /\ call.qty \in Nat
    BY CallParts
  <1>2. call.tree.left[call.item] \in Nat /\ call.tree.left \in [Things -> Nat]
    BY <1>1, BookParts
  <1>3. /\ Use(call) \in Nat /\ Use(call) <= call.tree.left[call.item] /\ Lack(call) \in Nat
        /\ Lack(call) # 0 => Use(call) = call.tree.left[call.item]
    BY <1>1, <1>2 DEF Use, Lack, Surplus
  <1>4. [call.tree.left EXCEPT ![call.item] = @ - Use(call)] \in [Things -> Nat]
    <2>1. call.tree.left[call.item] - Use(call) \in Nat
      BY <1>2, <1>3
    <2>. QED BY <1>1, <1>2, <2>1
  <1>5. /\ Spent(call).base = call.tree.base /\ Spent(call).crafts = call.tree.crafts
        /\ Spent(call).left = [call.tree.left EXCEPT ![call.item] = @ - Use(call)]
        /\ Spent(call) \in Books
    BY <1>1, <1>4 DEF Spent, Books
  <1>. QED BY <1>3, <1>5

(* The books when what is short is bought, and when it is crafted. *)
Bought(call) ==
    [Spent(call) EXCEPT !.base[call.item] = @ + Lack(call), !.truncated = @ \/ rules[call.item] # Raw]
Times(call) == Crafts(Lack(call), rules[call.item].each)
Begun(call) ==
    [Spent(call) EXCEPT !.left[call.item] = @ + (Times(call) * rules[call.item].each - Lack(call)),
                        !.crafts[call.item] = @ + Times(call)]

(* What is short is bought, and nothing else changes.                        *)
LEMMA BoughtIs ==
    ASSUME NEW call \in CallsOfProduce
    PROVE  /\ Bought(call) \in Books
           /\ Bought(call).base = [call.tree.base EXCEPT ![call.item] = @ + Lack(call)]
           /\ Bought(call).crafts = call.tree.crafts
           /\ Bought(call).left = Spent(call).left
  <1>1. call.tree \in Books /\ call.item \in Things /\ Spent(call) \in Books /\ Lack(call) \in Nat
        /\ Spent(call).base = call.tree.base /\ Spent(call).crafts = call.tree.crafts
    BY CallParts, SpentIs
  <1>2. call.tree.base \in [Things -> Nat]
    BY <1>1, BookParts
  <1>3. [call.tree.base EXCEPT ![call.item] = @ + Lack(call)] \in [Things -> Nat]
    BY <1>1, <1>2
  <1>. QED BY <1>1, <1>3 DEF Bought, Books

(* What is short is crafted, and what is over is left.                       *)
LEMMA BegunIs ==
    ASSUME RulesOK, NEW call \in CallsOfProduce, rules[call.item] # Raw
    PROVE  /\ Begun(call) \in Books /\ Times(call) \in Nat
           /\ Begun(call).base = call.tree.base
           /\ Begun(call).crafts = [call.tree.crafts EXCEPT ![call.item] = @ + Times(call)]
           /\ Begun(call).left =
                 [Spent(call).left EXCEPT
                    ![call.item] = @ + (Times(call) * rules[call.item].each - Lack(call))]
           /\ Times(call) * rules[call.item].each - Lack(call) \in Nat
           /\ Times(call) * rules[call.item].each - Lack(call) < rules[call.item].each
  <1>1. /\ call.tree \in Books /\ call.item \in Things /\ Spent(call) \in Books
        /\ Lack(call) \in Nat
        /\ Spent(call).base = call.tree.base /\ Spent(call).crafts = call.tree.crafts
    BY CallParts, SpentIs
  <1>2. rules[call.item].each \in Nat \ {0}
    BY <1>1, RuleParts DEF RulesOK
  <1>. DEFINE over == Times(call) * rules[call.item].each - Lack(call)
  <1>3. Times(call) \in Nat /\ over \in Nat /\ over < rules[call.item].each
    BY <1>1, <1>2, CraftsEnough DEF Times
  <1>4. /\ Begun(call) = [Spent(call) EXCEPT !.left[call.item] = @ + over,
                                             !.crafts[call.item] = @ + Times(call)]
    BY DEF Begun
  <1>. HIDE DEF over
  <1>5. Spent(call).left \in [Things -> Nat] /\ call.tree.crafts \in [Things -> Nat]
    BY <1>1, BookParts
  <1>6. /\ [Spent(call).left EXCEPT ![call.item] = @ + over] \in [Things -> Nat]
        /\ [call.tree.crafts EXCEPT ![call.item] = @ + Times(call)] \in [Things -> Nat]
    BY <1>1, <1>3, <1>5
  <1>7. /\ Begun(call) \in Books /\ Begun(call).base = call.tree.base
        /\ Begun(call).crafts = [call.tree.crafts EXCEPT ![call.item] = @ + Times(call)]
        /\ Begun(call).left = [Spent(call).left EXCEPT ![call.item] = @ + over]
    <2>. DEFINE mid == [Spent(call) EXCEPT !.left[call.item] = @ + over]
    <2>1. /\ mid \in Books /\ mid.base = call.tree.base /\ mid.crafts = call.tree.crafts
          /\ mid.left = [Spent(call).left EXCEPT ![call.item] = @ + over]
      BY <1>1, <1>6 DEF Books
    <2>2. Begun(call) = [mid EXCEPT !.crafts[call.item] = @ + Times(call)]
      BY <1>4
    <2>. HIDE DEF mid
    <2>. QED BY <1>1, <1>6, <2>1, <2>2 DEF Books
  <1>8. /\ Times(call) * rules[call.item].each - Lack(call) \in Nat
        /\ Times(call) * rules[call.item].each - Lack(call) < rules[call.item].each
    BY <1>3 DEF over
  <1>9. Begun(call).left = [Spent(call).left EXCEPT
                              ![call.item] = @ + (Times(call) * rules[call.item].each - Lack(call))]
    BY <1>7, Zenon DEF over
  <1>. QED BY <1>3, <1>7, <1>8, <1>9, Zenon

(* What a call leaves is one of the three. *)
LEMMA BillIs ==
    ASSUME NEW call, NEW room, NEW deeper
    PROVE  Bill(call, room, deeper) =
              IF Lack(call) = 0 THEN Spent(call)
              ELSE IF rules[call.item] = Raw \/ room = 0 \/ call.item \in call.ancestry
                THEN Bought(call)
              ELSE Ingredients(Begun(call), rules[call.item].needs, Times(call),
                               call.ancestry \cup {call.item}, deeper)
  BY Zenon DEF Bill, Lack, Use, Spent, Bought, Begun, Times

(* What a call leaves are books, whatever the calls below it leave. *)
LEMMA BillTyped ==
    ASSUME RulesOK, NEW call \in CallsOfProduce, NEW room,
           NEW deeper, room # 0 => deeper \in [CallsOfProduce -> Books]
    PROVE  Bill(call, room, deeper) \in Books
  <1>. DEFINE I == Ingredients(Begun(call), rules[call.item].needs, Times(call),
                               call.ancestry \cup {call.item}, deeper)
  <1>1. ASSUME rules[call.item] # Raw, room # 0  PROVE I \in Books
    <2>. DEFINE needs == rules[call.item].needs
    <2>1. /\ Begun(call) \in Books /\ Times(call) \in Nat /\ needs \in Seq(Needs)
          /\ call.ancestry \cup {call.item} \in SUBSET Things
          /\ deeper \in [CallsOfProduce -> Books] /\ Len(needs) \in Nat
      <3>1. call.item \in Things /\ call.ancestry \in SUBSET Things
        BY CallParts
      <3>2. rules[call.item] \in Rules
        BY <3>1 DEF RulesOK
      <3>3. needs \in Seq(Needs)
        BY <3>2, RuleParts
      <3>4. Begun(call) \in Books /\ Times(call) \in Nat
        BY <1>1, BegunIs
      <3>5. Len(needs) \in Nat
        BY <3>3
      <3>. QED BY <1>1, <3>1, <3>3, <3>4, <3>5
    <2>2. \E f : Serial(Begun(call), needs, Times(call), call.ancestry \cup {call.item}, deeper, f)
      BY <2>1, IngredientsMade
    <2>. QED BY <2>1, <2>2, Numbered DEF Serial
  <1>. HIDE DEF I
  <1>2. Spent(call) \in Books /\ Bought(call) \in Books
    BY SpentIs, BoughtIs
  <1>. QED BY <1>1, <1>2, BillIs DEF I

(* A call of produce pays what it was called for when the calls below it do. *)
LEMMA BillPaid ==
    ASSUME RulesOK, NEW call \in CallsOfProduce, NEW room, NEW deeper, room # 0 => Honest(deeper),
           Frugal(call.tree), target \in call.ancestry
    PROVE  Pays(call, Bill(call, room, deeper))
  <1>. DEFINE tree == call.tree
              item == call.item
              over == Times(call) * rules[item].each - Lack(call)
  <1>1. /\ tree \in Books /\ item \in Things /\ call.qty \in Nat
        /\ call.ancestry \in SUBSET Things /\ call.ancestry \cup {item} \in SUBSET Things
        /\ Use(call) \in Nat /\ Use(call) <= tree.left[item] /\ Lack(call) \in Nat
        /\ Lack(call) # 0 => Use(call) = tree.left[item]
        /\ call.qty = Lack(call) + Use(call)
    <2>1. tree \in Books /\ item \in Things /\ call.qty \in Nat /\ call.ancestry \in SUBSET Things
      BY CallParts
    <2>2. /\ Use(call) \in Nat /\ Use(call) <= tree.left[item] /\ Lack(call) \in Nat
          /\ Lack(call) # 0 => Use(call) = tree.left[item]
      BY SpentIs
    <2>3. call.qty = Lack(call) + Use(call)
      BY <2>1, <2>2 DEF Lack
    <2>. QED BY <2>1, <2>2, <2>3
  <1>2. /\ Spent(call) \in Books /\ Spent(call).base = tree.base /\ Spent(call).crafts = tree.crafts
        /\ \A i \in Things :
               Spent(call).left[i] = tree.left[i] - (IF i = item THEN Use(call) ELSE 0)
    <2>1. Spent(call).left = [tree.left EXCEPT ![item] = @ - Use(call)]
      BY SpentIs
    <2>2. tree.left \in [Things -> Nat]
      BY <1>1, BookParts
    <2>. QED BY <1>1, <2>1, <2>2, SpentIs
  <1>3. \A i \in Things : /\ tree.left[i] \in Nat /\ tree.base[i] \in Nat /\ tree.crafts[i] \in Nat
                          /\ Used(tree, i) \in Nat /\ Crafted(tree, i) \in Nat
                          /\ rules[i].each \in Nat
    BY <1>1, BookParts, UsedMore, OwedInt, RuleParts DEF RulesOK
  <1>4. Frugal(Spent(call))
    <2>. SUFFICES ASSUME NEW i \in Things, Spent(call).left[i] > 0
                  PROVE  Spent(call).left[i] < rules[i].each
      BY DEF Frugal
    <2>1. tree.left[i] > 0 /\ Spent(call).left[i] <= tree.left[i]
      BY <1>1, <1>2, <1>3
    <2>2. tree.left[i] < rules[i].each
      BY <2>1 DEF Frugal
    <2>3. Spent(call).left[i] \in Nat
      BY <1>2, BookParts
    <2>. QED BY <1>3, <2>1, <2>2, <2>3
  <1>5. CASE Lack(call) = 0
    <2>1. \A i \in Things :
              Used(Spent(call), i) = Used(tree, i) /\ Crafted(Spent(call), i) = Crafted(tree, i)
      BY <1>1, <1>2, UsedMore DEF Crafted
    <2>2. ASSUME NEW i \in Things
          PROVE  Owed(Spent(call), i) = Owed(tree, i) - (IF i = item THEN call.qty ELSE 0)
      BY <1>1, <1>2, <1>3, <1>5, <2>1 DEF Owed
    <2>3. Bill(call, room, deeper) = Spent(call)
      BY <1>5, BillIs
    <2>. QED BY <1>2, <1>4, <2>2, <2>3 DEF Pays
  <1>6. CASE Lack(call) # 0 /\ (rules[item] = Raw \/ room = 0 \/ item \in call.ancestry)
    <2>1. /\ Bought(call) \in Books /\ Bought(call).crafts = tree.crafts
          /\ Bought(call).left = Spent(call).left
          /\ \A i \in Things :
                 Bought(call).base[i] = tree.base[i] + (IF i = item THEN Lack(call) ELSE 0)
      <3>1. /\ Bought(call).base = [tree.base EXCEPT ![item] = @ + Lack(call)]
            /\ tree.base \in [Things -> Nat]
        BY <1>1, BoughtIs, BookParts
      <3>. QED BY <1>1, <3>1, BoughtIs
    <2>2. \A i \in Things :
              Used(Bought(call), i) = Used(tree, i) /\ Crafted(Bought(call), i) = Crafted(tree, i)
      BY <1>1, <2>1, UsedMore DEF Crafted
    <2>3. ASSUME NEW i \in Things
          PROVE  Owed(Bought(call), i) = Owed(tree, i) - (IF i = item THEN call.qty ELSE 0)
      BY <1>1, <1>2, <1>3, <2>1, <2>2 DEF Owed
    <2>4. Frugal(Bought(call))
      BY <1>4, <2>1 DEF Frugal
    <2>5. Bill(call, room, deeper) = Bought(call)
      BY <1>6, BillIs
    <2>. QED BY <2>1, <2>3, <2>4, <2>5 DEF Pays
  <1>7. CASE Lack(call) # 0 /\ ~(rules[item] = Raw \/ room = 0 \/ item \in call.ancestry)
    <2>. DEFINE b == Begun(call)
                r == Ingredients(b, rules[item].needs, Times(call), call.ancestry \cup {item}, deeper)
    <2>1. /\ b \in Books /\ Times(call) \in Nat /\ b.base = tree.base
          /\ b.crafts = [tree.crafts EXCEPT ![item] = @ + Times(call)]
          /\ b.left = [Spent(call).left EXCEPT ![item] = @ + over]
          /\ over \in Nat /\ over < rules[item].each
      BY <1>7, BegunIs
    <2>2. Spent(call).left \in [Things -> Nat] /\ tree.crafts \in [Things -> Nat]
      BY <1>1, <1>2, BookParts
    <2>. HIDE DEF b
    <2>3. /\ \A i \in Things : b.left[i] = IF i = item THEN over ELSE tree.left[i]
          /\ \A i \in Things : b.crafts[i] = tree.crafts[i] + (IF i = item THEN Times(call) ELSE 0)
      <3>1. Spent(call).left[item] = 0
        BY <1>1, <1>2, <1>3, <1>7
      <3>. HIDE DEF over
      <3>2. \A i \in Things : i # item => Spent(call).left[i] = tree.left[i]
        BY <1>2, <1>3
      <3>. QED BY <1>3, <2>1, <2>2, <3>1, <3>2
    <2>4. Frugal(b)
      <3>. HIDE DEF over
      <3>. QED BY <2>1, <2>3 DEF Frugal
    <2>5. ASSUME NEW i \in Things
          PROVE  Owed(b, i) = Owed(tree, i) - (IF i = item THEN call.qty ELSE 0)
                              + Times(call) * Per(rules[item], i)
      <3>. DEFINE more == Times(call) * Per(rules[item], i)
      <3>1. Used(b, i) = Used(tree, i) + more /\ more \in Nat
        <4>1. Per(rules[item], i) \in Nat
          BY <1>1, RuleParts DEF RulesOK
        <4>. QED BY <1>1, <2>1, <4>1, UsedMore
      <3>2. item # target
        BY <1>7
      <3>. HIDE DEF more
      <3>3. ASSUME i = item  PROVE Owed(b, i) = Owed(tree, i) - call.qty + more
        <4>1. Crafted(b, i) = Crafted(tree, i) + Times(call) * rules[item].each
          <5>1. b.crafts[i] = tree.crafts[i] + Times(call) /\ tree.crafts[i] \in Nat
            BY <1>3, <2>3, <3>3
          <5>2. (tree.crafts[i] + Times(call)) * rules[item].each =
                   tree.crafts[i] * rules[item].each + Times(call) * rules[item].each
            BY <1>1, <1>3, <2>1, <5>1
          <5>. QED BY <3>2, <3>3, <5>1, <5>2 DEF Crafted
        <4>2. Times(call) * rules[item].each \in Nat
          BY <1>1, <1>3, <2>1
        <4>3. b.left[i] = over /\ tree.left[i] = Use(call) /\ b.base[i] = tree.base[i]
          BY <1>1, <1>7, <2>1, <2>3, <3>3
        <4>. DEFINE p == Times(call) * rules[item].each
        <4>4. p \in Nat /\ over = p - Lack(call) /\ Crafted(b, i) = Crafted(tree, i) + p
          BY <4>1, <4>2
        <4>. HIDE DEF p, over
        <4>5. /\ tree.base[i] \in Nat /\ Used(tree, i) \in Nat /\ Crafted(tree, i) \in Nat
          BY <1>3
        <4>6. Owed(tree, i) = Used(tree, i) + Use(call) - (tree.base[i] + Crafted(tree, i))
          BY <4>3 DEF Owed
        <4>7. Owed(b, i) = Used(tree, i) + more + (p - Lack(call))
                           - (tree.base[i] + (Crafted(tree, i) + p))
          BY <3>1, <4>3, <4>4 DEF Owed
        <4>. QED BY <1>1, <3>1, <4>4, <4>5, <4>6, <4>7
      <3>4. ASSUME i # item  PROVE Owed(b, i) = Owed(tree, i) + more
        <4>1. /\ Crafted(b, i) = Crafted(tree, i) /\ b.left[i] = tree.left[i]
              /\ b.base[i] = tree.base[i]
          BY <1>3, <2>1, <2>3, <3>4 DEF Crafted
        <4>2. /\ tree.base[i] \in Nat /\ Used(tree, i) \in Nat /\ Crafted(tree, i) \in Nat
              /\ tree.left[i] \in Nat
          BY <1>3
        <4>3. Owed(tree, i) = Used(tree, i) + tree.left[i] - (tree.base[i] + Crafted(tree, i))
          BY DEF Owed
        <4>4. Owed(b, i) = Used(tree, i) + more + tree.left[i] - (tree.base[i] + Crafted(tree, i))
          BY <3>1, <4>1 DEF Owed
        <4>. QED BY <3>1, <4>2, <4>3, <4>4
      <3>5. Owed(tree, i) \in Int
        BY <1>1, OwedInt
      <3>. QED BY <3>3, <3>4, <3>5 DEF more
    <2>6. rules[item] \in Rules /\ target \in call.ancestry \cup {item} /\ Honest(deeper)
      BY <1>1, <1>7 DEF RulesOK
    <2>7. /\ r \in Books /\ Frugal(r)
          /\ \A i \in Things : Owed(r, i) = Owed(b, i) - Times(call) * Per(rules[item], i)
      <3>1. call.ancestry \cup {item} \in SUBSET Things
        BY <1>1
      <3>2. Settled(r, b, rules[item], Times(call))
        BY <2>1, <2>4, <2>6, <3>1, IngredientsPaid
      <3>. QED BY <3>2 DEF Settled
    <2>8. \A i \in Things : Owed(r, i) = Owed(tree, i) - (IF i = item THEN call.qty ELSE 0)
      <3>. SUFFICES ASSUME NEW i \in Things
                    PROVE  Owed(r, i) = Owed(tree, i) - (IF i = item THEN call.qty ELSE 0)
        OBVIOUS
      <3>. DEFINE more == Times(call) * Per(rules[item], i)
      <3>1. Per(rules[item], i) \in Nat /\ Owed(tree, i) \in Int
        BY <1>1, <2>6, RuleParts, OwedInt
      <3>2. more \in Nat
        BY <2>1, <3>1
      <3>3. Owed(r, i) = Owed(b, i) - more
            /\ Owed(b, i) = Owed(tree, i) - (IF i = item THEN call.qty ELSE 0) + more
        BY <2>5, <2>7
      <3>. HIDE DEF more, r
      <3>. QED BY <1>1, <3>1, <3>2, <3>3
    <2>9. Bill(call, room, deeper) = r
      BY <1>7, BillIs DEF b
    <2>. QED BY <2>7, <2>8, <2>9 DEF Pays
  <1>. QED BY <1>5, <1>6, <1>7

(* What produce can be: a call leaves books. *)
Producers == [CallsOfProduce -> Books]

(* f holds produce for each number of levels to the depth limit. *)
Levels(f) ==
    /\ f \in [0..MaxDepth -> Producers] /\ f[0] = Billing(0, <<>>)
    /\ Produce = f[MaxDepth]
    /\ \A n \in 0..MaxDepth - 1 :
          f[n + 1] = Billing(n + 1, f[n])

(* produce is built one level at a time. *)
LEMMA LevelsMade ==
    ASSUME RulesOK
    PROVE  \E f : Levels(f)
  <1>. DEFINE Do(a, n) == Billing(n, a)
              step == [n \in 1..MaxDepth |-> [a \in Producers |-> Do(a, n)]]
              Eq(h) == h = [n \in 0..MaxDepth |->
                                IF n = 0 THEN Billing(0, <<>>) ELSE Do(h[n - 1], n)]
              it == CHOOSE h : Eq(h)
  <1>1. /\ MaxDepth \in Nat /\ Billing(0, <<>>) \in Producers
        /\ \A n \in 1..MaxDepth : \A a \in Producers : Do(a, n) \in Producers
    <2>1. Billing(0, <<>>) \in Producers
      BY BillTyped DEF Billing, Producers
    <2>2. ASSUME NEW n \in 1..MaxDepth, NEW a \in Producers  PROVE Billing(n, a) \in Producers
      BY <2>2, BillTyped DEF Billing, Producers
    <2>. QED BY <2>1, <2>2, CostAssumption
  <1>2. step \in [1..MaxDepth -> [Producers -> Producers]]
    BY <1>1
  <1>3. PICK g : Made(g, MaxDepth, Producers, Billing(0, <<>>), step)
    <2>. HIDE DEF step
    <2>. QED BY <1>1, <1>2, Steps
  <1>4. /\ g \in [0..MaxDepth -> Producers] /\ g[0] = Billing(0, <<>>)
        /\ \A n \in 1..MaxDepth : g[n] = Do(g[n - 1], n)
    <2>1. /\ g \in [0..MaxDepth -> Producers] /\ g[0] = Billing(0, <<>>)
          /\ \A n \in 1..MaxDepth : g[n] = step[n][g[n - 1]]
      BY <1>3 DEF Made
    <2>2. \A n \in 1..MaxDepth : g[n - 1] \in Producers
      BY <1>1, <2>1, Numbered, Zenon
    <2>. QED BY <2>1, <2>2
  <1>. HIDE DEF step
  <1>5. Eq(g)
    <2>1. \A n \in 0..MaxDepth : g[n] = IF n = 0 THEN Billing(0, <<>>) ELSE Do(g[n - 1], n)
      BY <1>1, <1>4, Numbered, Zenon
    <2>. QED BY <1>4, <2>1, Zenon
  <1>6. Eq(it)
    <2>. HIDE DEF Eq
    <2>. QED BY <1>5, Zenon
  <1>7. Produce = it[MaxDepth]
    BY Zenon DEF Produce
  <1>8. \A h : Eq(h) => /\ h[0] = Billing(0, <<>>)
                        /\ \A n \in 0..MaxDepth - 1 : h[n + 1] = Do(h[n], n + 1)
    <2>. SUFFICES ASSUME NEW h, Eq(h)
                  PROVE  /\ h[0] = Billing(0, <<>>)
                         /\ \A n \in 0..MaxDepth - 1 : h[n + 1] = Do(h[n], n + 1)
      OBVIOUS
    <2>1. \A n \in 0..MaxDepth : h[n] = IF n = 0 THEN Billing(0, <<>>) ELSE Do(h[n - 1], n)
      BY Zenon
    <2>2. \A n \in 0..MaxDepth - 1 : h[n + 1] = Do(h[(n + 1) - 1], n + 1)
      BY <1>1, <2>1, Numbered, Zenon
    <2>. QED BY <1>1, <2>1, <2>2, Numbered, Zenon
  <1>. HIDE DEF it, Eq, Do
  <1>9. it[0] = Billing(0, <<>>) /\ g[0] = Billing(0, <<>>)
    BY <1>5, <1>6, <1>8, Zenon
  <1>10. /\ \A n \in 0..MaxDepth - 1 : it[n + 1] = Do(it[n], n + 1)
         /\ \A n \in 0..MaxDepth - 1 : g[n + 1] = Do(g[n], n + 1)
    BY <1>5, <1>6, <1>8, Zenon
  <1>11. Produce = g[MaxDepth]
    <2>1. \A n \in 0..MaxDepth - 1 : it[n] = g[n] => it[n + 1] = g[n + 1]
      BY <1>10, Zenon
    <2>2. it[0] = g[0] /\ MaxDepth \in Nat
      BY <1>1, <1>9, Zenon
    <2>3. \A n \in 0..MaxDepth : it[n] = g[n]
      BY <2>1, <2>2, Agree
    <2>4. it[MaxDepth] = g[MaxDepth]
      BY <2>2, <2>3, Numbered
    <2>. QED BY <1>7, <2>4, Zenon
  <1>12. Levels(g)
    BY <1>4, <1>9, <1>10, <1>11, Zenon DEF Levels, Do
  <1>. QED BY <1>12

(* Whatever is produced is paid for, at every level. *)
LEMMA ProduceHonest ==
    ASSUME RulesOK
    PROVE  Honest(Produce)
  <1>1. PICK f : /\ f \in [0..MaxDepth -> Producers] /\ f[0] = Billing(0, <<>>)
                 /\ Produce = f[MaxDepth]
                 /\ \A n \in 0..MaxDepth - 1 : f[n + 1] = Billing(n + 1, f[n])
    BY LevelsMade DEF Levels
  <1>2. MaxDepth \in Nat
    BY CostAssumption
  <1>. DEFINE P == {n \in 0..MaxDepth : Honest(f[n])}
  <1>3. ASSUME NEW room, NEW deeper, room # 0 => Honest(deeper), Billing(room, deeper) \in Producers
        PROVE  Honest(Billing(room, deeper))
    <2>. SUFFICES ASSUME NEW call \in CallsOfProduce, Frugal(call.tree), target \in call.ancestry
                  PROVE  Pays(call, Billing(room, deeper)[call])
      BY <1>3 DEF Honest, Producers
    <2>1. Billing(room, deeper)[call] = Bill(call, room, deeper)
      BY DEF Billing
    <2>2. Pays(call, Bill(call, room, deeper))
      BY <1>3, BillPaid
    <2>. QED BY <2>1, <2>2
  <1>4. 0 \in P
    <2>1. f[0] \in Producers /\ 0 \in 0..MaxDepth
      BY <1>1, <1>2, Numbered
    <2>2. Honest(Billing(0, <<>>))
      BY <1>1, <1>3, <2>1
    <2>. QED BY <1>1, <2>1, <2>2
  <1>5. ASSUME NEW n \in 0..MaxDepth - 1, n \in P  PROVE n + 1 \in P
    <2>1. n \in 0..MaxDepth /\ n + 1 \in 0..MaxDepth
      BY <1>2, Numbered
    <2>2. Honest(f[n]) /\ f[n + 1] = Billing(n + 1, f[n]) /\ f[n + 1] \in Producers
      BY <1>1, <1>5, <2>1
    <2>3. Honest(Billing(n + 1, f[n]))
      BY <1>3, <2>2
    <2>. QED BY <2>1, <2>2, <2>3
  <1>6. MaxDepth \in P
    <2>1. \A n \in 0..MaxDepth : n \in P
      <3>. HIDE DEF P
      <3>. QED BY <1>2, <1>4, <1>5, InductionUpTo
    <2>. QED BY <1>2, <2>1, Numbered
  <1>. QED BY <1>1, <1>6

(* Every question is asked of recipes and of files. *)
DeskInv ==
    /\ target \in Things
    /\ question = "tags" => tagFiles \in Seq(TagFiles)
    /\ question = "cost" => rules \in [Things -> Rules] /\ count \in Nat

(* The books balance at the end. *)
LEMMA BooksBalance == DeskInv => CostBalanced
  <1>. SUFFICES ASSUME DeskInv, question = "cost", NEW i \in Things
                PROVE  LET made == IF i = target THEN 0 ELSE CostBreakdown.crafts[i] * rules[i].each
                       IN  /\ CostBreakdown.base[i] + made = Used(CostBreakdown, i) + CostBreakdown.left[i]
                           /\ CostBreakdown.left[i] >= 0
                           /\ CostBreakdown.left[i] > 0 => CostBreakdown.left[i] < rules[i].each
    BY DEF CostBalanced
  <1>. DEFINE none == [j \in Things |-> 0]
              start == [base |-> none, left |-> none, crafts |-> [none EXCEPT ![target] = count],
                        truncated |-> FALSE]
              r == CostBreakdown
  <1>1. RulesOK /\ count \in Nat /\ target \in Things /\ rules[target] \in Rules
    BY DEF DeskInv, RulesOK
  <1>2. start \in Books
    BY <1>1 DEF Books
  <1>3. Frugal(start)
    BY DEF Frugal
  <1>4. r = Ingredients(start, rules[target].needs, count, {target}, Produce)
    BY DEF CostBreakdown
  <1>5. \A j \in Things : Owed(start, j) = count * Per(rules[target], j)
    <2>. SUFFICES ASSUME NEW j \in Things  PROVE Owed(start, j) = count * Per(rules[target], j)
      OBVIOUS
    <2>. DEFINE empty == [start EXCEPT !.crafts = none]
    <2>1. /\ empty \in Books /\ empty.crafts = none
          /\ start.crafts = [empty.crafts EXCEPT ![target] = @ + count]
      <3>1. none \in [Things -> Nat] /\ [none EXCEPT ![target] = count] \in [Things -> Nat]
        BY <1>1
      <3>2. [none EXCEPT ![target] = @ + count] = [none EXCEPT ![target] = count]
        BY <1>1
      <3>. HIDE DEF none
      <3>. QED BY <3>1, <3>2 DEF Books
    <2>2. Used(start, j) = Used(empty, j) + count * Per(rules[target], j)
      <3>. HIDE DEF start, empty
      <3>. QED BY <1>1, <1>2, <2>1, UsedMore
    <2>3. Per(rules[target], j) \in Nat
      BY <1>1, RuleParts
    <2>4. Used(empty, j) = 0
      <3>. DEFINE W == [k \in Things |-> empty.crafts[k] * Per(rules[k], j)]
                  Z == [k \in Things |-> 0 * Per(rules[k], j)]
      <3>1. Used(empty, j) = SumFunctionOnSet(W, Things)
        BY DEF Used
      <3>2. \A k \in Things : W[k] = 0
        <4>1. \A k \in Things : Per(rules[k], j) \in Nat /\ empty.crafts[k] = 0
          BY <1>1, <2>1, RuleParts DEF RulesOK
        <4>. HIDE DEF empty
        <4>. QED BY <4>1
      <3>. HIDE DEF W
      <3>. QED BY <3>1, <3>2, SumZero, CostAssumption
    <2>5. Crafted(start, j) = 0 /\ start.left[j] = 0 /\ start.base[j] = 0
      <3>1. start.left[j] = 0 /\ start.base[j] = 0 /\ (j # target => start.crafts[j] = 0)
        BY <1>1
      <3>2. rules[j].each \in Nat
        BY <1>1, RuleParts DEF RulesOK
      <3>. HIDE DEF start
      <3>. QED BY <3>1, <3>2 DEF Crafted
    <2>. HIDE DEF start, empty
    <2>6. count * Per(rules[target], j) \in Nat
      BY <1>1, <2>3
    <2>. QED BY <2>2, <2>4, <2>5, <2>6 DEF Owed
  <1>. HIDE DEF start
  <1>6. Settled(r, start, rules[target], count)
    <2>1. {target} \in SUBSET Things /\ target \in {target} /\ Honest(Produce)
      BY <1>1, ProduceHonest
    <2>. QED BY <1>1, <1>2, <1>3, <1>4, <2>1, IngredientsPaid
  <1>. HIDE DEF r
  <1>7. r \in Books /\ Frugal(r) /\ Owed(r, i) = 0
    <2>1. Per(rules[target], i) \in Nat
      BY <1>1, RuleParts
    <2>2. count * Per(rules[target], i) \in Nat
      BY <1>1, <2>1
    <2>. QED BY <1>5, <1>6, <2>2 DEF Settled
  <1>8. /\ Used(r, i) \in Nat /\ Crafted(r, i) \in Nat /\ r.left[i] \in Nat /\ r.base[i] \in Nat
    BY <1>1, <1>7, UsedMore, OwedInt, BookParts
  <1>9. r.base[i] + Crafted(r, i) = Used(r, i) + r.left[i]
    BY <1>7, <1>8 DEF Owed
  <1>. QED BY <1>7, <1>8, <1>9 DEF Crafted, Frugal, r

--------------------------------------------------------------------------------
(* What a tag stands for, for any tag files *)

(* f holds what there is after each element. *)
Joining(X, cur, more, f) ==
    /\ f \in [0..Len(more) -> Seq(X)] /\ f[0] = cur
    /\ Joined(cur, more) = f[Len(more)]
    /\ \A n \in 0..Len(more) - 1 :
          f[n + 1] = IF more[n + 1] \in Range(f[n]) THEN f[n] ELSE Append(f[n], more[n + 1])

(* The elements are joined one after the other. *)
LEMMA JoinedMade ==
    ASSUME NEW X,
           NEW cur \in Seq(X),
           NEW more \in Seq(X)
    PROVE  \E f : Joining(X, cur, more, f)
  <1>. DEFINE Do(a, n) == IF more[n] \in Range(a) THEN a ELSE Append(a, more[n])
              step == [n \in 1..Len(more) |-> [a \in Seq(X) |-> Do(a, n)]]
              Eq(h) == h = [n \in 0..Len(more) |->
                                IF n = 0 THEN cur ELSE Do(h[n - 1], n)]
              it == CHOOSE h : Eq(h)
  <1>1. /\ Len(more) \in Nat /\ cur \in Seq(X)
        /\ \A n \in 1..Len(more) : \A a \in Seq(X) : Do(a, n) \in Seq(X)
    <2>1. Len(more) \in Nat /\ \A n \in 1..Len(more) : more[n] \in X
      OBVIOUS
    <2>2. \A n \in 1..Len(more) : \A a \in Seq(X) : Append(a, more[n]) \in Seq(X)
      BY <2>1
    <2>. QED BY <2>1, <2>2, Zenon
  <1>2. step \in [1..Len(more) -> [Seq(X) -> Seq(X)]]
    BY <1>1
  <1>3. PICK g : Made(g, Len(more), Seq(X), cur, step)
    <2>. HIDE DEF step
    <2>. QED BY <1>1, <1>2, Steps
  <1>4. /\ g \in [0..Len(more) -> Seq(X)] /\ g[0] = cur
        /\ \A n \in 1..Len(more) : g[n] = Do(g[n - 1], n)
    <2>1. /\ g \in [0..Len(more) -> Seq(X)] /\ g[0] = cur
          /\ \A n \in 1..Len(more) : g[n] = step[n][g[n - 1]]
      BY <1>3 DEF Made
    <2>2. \A n \in 1..Len(more) : g[n - 1] \in Seq(X)
      BY <1>1, <2>1, Numbered, Zenon
    <2>. QED BY <2>1, <2>2
  <1>. HIDE DEF step
  <1>5. Eq(g)
    <2>1. \A n \in 0..Len(more) : g[n] = IF n = 0 THEN cur ELSE Do(g[n - 1], n)
      BY <1>1, <1>4, Numbered, Zenon
    <2>. QED BY <1>4, <2>1, Zenon
  <1>6. Eq(it)
    <2>. HIDE DEF Eq
    <2>. QED BY <1>5, Zenon
  <1>7. Joined(cur, more) = it[Len(more)]
    BY Zenon DEF Joined
  <1>8. \A h : Eq(h) => /\ h[0] = cur
                        /\ \A n \in 0..Len(more) - 1 : h[n + 1] = Do(h[n], n + 1)
    <2>. SUFFICES ASSUME NEW h, Eq(h)
                  PROVE  /\ h[0] = cur
                         /\ \A n \in 0..Len(more) - 1 : h[n + 1] = Do(h[n], n + 1)
      OBVIOUS
    <2>1. \A n \in 0..Len(more) : h[n] = IF n = 0 THEN cur ELSE Do(h[n - 1], n)
      BY Zenon
    <2>2. \A n \in 0..Len(more) - 1 : h[n + 1] = Do(h[(n + 1) - 1], n + 1)
      BY <1>1, <2>1, Numbered, Zenon
    <2>. QED BY <1>1, <2>1, <2>2, Numbered, Zenon
  <1>. HIDE DEF it, Eq, Do
  <1>9. it[0] = cur /\ g[0] = cur
    BY <1>5, <1>6, <1>8, Zenon
  <1>10. /\ \A n \in 0..Len(more) - 1 : it[n + 1] = Do(it[n], n + 1)
         /\ \A n \in 0..Len(more) - 1 : g[n + 1] = Do(g[n], n + 1)
    BY <1>5, <1>6, <1>8, Zenon
  <1>11. Joined(cur, more) = g[Len(more)]
    <2>1. \A n \in 0..Len(more) - 1 : it[n] = g[n] => it[n + 1] = g[n + 1]
      BY <1>10, Zenon
    <2>2. it[0] = g[0] /\ Len(more) \in Nat
      BY <1>1, <1>9, Zenon
    <2>3. \A n \in 0..Len(more) : it[n] = g[n]
      BY <2>1, <2>2, Agree
    <2>4. it[Len(more)] = g[Len(more)]
      BY <2>2, <2>3, Numbered
    <2>. QED BY <1>7, <2>4, Zenon
  <1>12. Joining(X, cur, more, g)
    BY <1>4, <1>9, <1>10, <1>11, Zenon DEF Joining, Do
  <1>. QED BY <1>12

(* Both sequences are in the joined one, and nothing else, and each once if   *)
(* the first has each once.                                                 *)
LEMMA JoinedIs ==
    ASSUME NEW X, NEW cur \in Seq(X), NEW more \in Seq(X)
    PROVE  /\ Joined(cur, more) \in Seq(X)
           /\ Range(Joined(cur, more)) = Range(cur) \cup Range(more)
           /\ IsInjective(cur) => IsInjective(Joined(cur, more))
  <1>. DEFINE N == Len(more)
  <1>1. PICK f : /\ f \in [0..N -> Seq(X)] /\ f[0] = cur /\ Joined(cur, more) = f[N]
                 /\ \A n \in 0..N - 1 :
                       f[n + 1] = IF more[n + 1] \in Range(f[n]) THEN f[n] ELSE Append(f[n], more[n + 1])
    <2>1. \E f : Joining(X, cur, more, f)
      BY JoinedMade
    <2>. QED BY <2>1 DEF Joining
  <1>2. N \in Nat /\ DOMAIN more = 1..N /\ \A n \in 1..N : more[n] \in X
    OBVIOUS
  <1>. HIDE DEF N
  <1>. DEFINE Good(n) == /\ Range(f[n]) = Range(cur) \cup {more[i] : i \in 1..n}
                         /\ IsInjective(cur) => IsInjective(f[n])
              P == {n \in 0..N : Good(n)}
  <1>3. Good(0)
    BY <1>1
  <1>4. ASSUME NEW n \in 0..N - 1, Good(n)  PROVE Good(n + 1)
    <2>1. n \in 0..N /\ n + 1 \in 1..N /\ n \in Nat /\ 1..n + 1 = 1..n \cup {n + 1}
      BY <1>2
    <2>2. f[n] \in Seq(X) /\ more[n + 1] \in X
      BY <1>1, <1>2, <2>1
    <2>3. {more[i] : i \in 1..n + 1} = {more[i] : i \in 1..n} \cup {more[n + 1]}
      BY <2>1
    <2>4. CASE more[n + 1] \in Range(f[n])
      <3>1. f[n + 1] = f[n]
        BY <1>1, <2>4
      <3>. QED BY <1>4, <2>3, <2>4, <3>1
    <2>5. CASE more[n + 1] \notin Range(f[n])
      <3>1. f[n + 1] = Append(f[n], more[n + 1])
        BY <1>1, <2>5
      <3>. DEFINE l == Len(f[n])
      <3>2. /\ l \in Nat /\ DOMAIN f[n] = 1..l /\ DOMAIN f[n + 1] = 1..l + 1
            /\ \A i \in 1..l : f[n + 1][i] = f[n][i]
            /\ f[n + 1][l + 1] = more[n + 1]
        BY <2>2, <3>1, AppendProperties
      <3>. HIDE DEF l
      <3>3. 1..l + 1 = 1..l \cup {l + 1}
        BY <3>2
      <3>4. Range(f[n + 1]) = Range(f[n]) \cup {more[n + 1]}
        BY <3>2, <3>3 DEF Range
      <3>5. IsInjective(f[n]) => IsInjective(f[n + 1])
        <4>. SUFFICES ASSUME IsInjective(f[n]), NEW a \in 1..l + 1, NEW b \in 1..l + 1,
                             f[n + 1][a] = f[n + 1][b]
                      PROVE  a = b
          BY <3>2 DEF IsInjective
        <4>1. \A i \in 1..l : f[n][i] \in Range(f[n])
          BY <3>2 DEF Range
        <4>2. \A i, j \in 1..l : f[n][i] = f[n][j] => i = j
          BY <3>2 DEF IsInjective
        <4>3. CASE a \in 1..l /\ b \in 1..l
          BY <3>2, <4>2, <4>3
        <4>4. CASE a \notin 1..l \/ b \notin 1..l
          <5>1. (a = l + 1 \/ a \in 1..l) /\ (b = l + 1 \/ b \in 1..l)
            BY <3>3
          <5>. QED BY <2>5, <3>2, <4>1, <4>4, <5>1
        <4>. QED BY <4>3, <4>4
      <3>. QED BY <1>4, <2>3, <3>4, <3>5
    <2>. QED BY <2>4, <2>5
  <1>5. Good(N)
    <2>. HIDE DEF Good
    <2>1. 0 \in P /\ \A n \in 0..N - 1 : n \in P => n + 1 \in P
      BY <1>2, <1>3, <1>4, Numbered
    <2>2. \A n \in 0..N : n \in P
      <3>. HIDE DEF P
      <3>. QED BY <1>2, <2>1, InductionUpTo
    <2>. QED BY <1>2, <2>2, Numbered
  <1>6. Range(more) = {more[i] : i \in 1..N} /\ f[N] \in Seq(X)
    BY <1>1, <1>2, Numbered DEF Range
  <1>. QED BY <1>1, <1>5, <1>6

(* The entries of the tags. *)
Entries == Tags \cup Things
Lists == [Tags -> Seq(Entries)]
Nested == [Walks \X Tags -> Walks]

(* A file says what its tag lists, after what it had unless it is replaced. *)
LEMMA Merged ==
    ASSUME NEW a \in Lists, NEW file \in TagFiles
    PROVE  /\ Merge(a, file) \in Lists /\ file.tag \in Tags
           /\ \A t \in Tags : Range(Merge(a, file)[t]) =
                  IF t # file.tag THEN Range(a[t])
                  ELSE (IF file.replace THEN {} ELSE Range(a[t])) \cup Range(file.entries)
           /\ \A t \in Tags : IsInjective(a[t]) => IsInjective(Merge(a, file)[t])
  <1>1. file.tag \in Tags /\ file.entries \in Seq(Entries)
    BY CostAssumption DEF Entries
  <1>. DEFINE had == IF file.replace THEN <<>> ELSE a[file.tag]
              has == Joined(had, file.entries)
  <1>2. a[file.tag] \in Seq(Entries)
    BY <1>1 DEF Lists
  <1>3. had \in Seq(Entries) /\ Range(had) = IF file.replace THEN {} ELSE Range(a[file.tag])
    <2>1. <<>> \in Seq(Entries) /\ Range(<<>>) = {}
      BY DEF Range
    <2>. QED BY <1>2, <2>1
  <1>4. IsInjective(a[file.tag]) => IsInjective(had)
    <2>1. IsInjective(<<>>)
      BY DEF IsInjective
    <2>. QED BY <2>1
  <1>. HIDE DEF had
  <1>5. /\ has \in Seq(Entries) /\ Range(has) = Range(had) \cup Range(file.entries)
        /\ IsInjective(had) => IsInjective(has)
    BY <1>1, <1>3, JoinedIs
  <1>6. Merge(a, file) = [a EXCEPT ![file.tag] = has]
    BY DEF Merge, had
  <1>. HIDE DEF has
  <1>7. \A t \in Tags : Merge(a, file)[t] = IF t = file.tag THEN has ELSE a[t]
    BY <1>6 DEF Lists
  <1>8. Merge(a, file) \in Lists
    BY <1>5, <1>6 DEF Lists
  <1>. QED BY <1>1, <1>3, <1>4, <1>5, <1>7, <1>8

(* f holds the tags after each file. *)
Merging(f) ==
    /\ f \in [0..Len(tagFiles) -> Lists] /\ f[0] = [t \in Tags |-> <<>>]
    /\ TagMap = f[Len(tagFiles)]
    /\ \A n \in 0..Len(tagFiles) - 1 :
          f[n + 1] = Merge(f[n], tagFiles[n + 1])

(* The files are merged one after the other. *)
LEMMA TagMapMade ==
    ASSUME tagFiles \in Seq(TagFiles)
    PROVE  \E f : Merging(f)
  <1>. DEFINE Do(a, n) == Merge(a, tagFiles[n])
              step == [n \in 1..Len(tagFiles) |-> [a \in Lists |-> Do(a, n)]]
              Eq(h) == h = [n \in 0..Len(tagFiles) |->
                                IF n = 0 THEN [t \in Tags |-> <<>>] ELSE Do(h[n - 1], n)]
              it == CHOOSE h : Eq(h)
  <1>1. /\ Len(tagFiles) \in Nat /\ [t \in Tags |-> <<>>] \in Lists
        /\ \A n \in 1..Len(tagFiles) : \A a \in Lists : Do(a, n) \in Lists
    <2>1. Len(tagFiles) \in Nat /\ \A n \in 1..Len(tagFiles) : tagFiles[n] \in TagFiles
      OBVIOUS
    <2>2. \A n \in 1..Len(tagFiles) : \A a \in Lists : Merge(a, tagFiles[n]) \in Lists
      BY <2>1, Merged
    <2>3. [t \in Tags |-> <<>>] \in Lists
      BY DEF Lists
    <2>. QED BY <2>1, <2>2, <2>3, Zenon
  <1>2. step \in [1..Len(tagFiles) -> [Lists -> Lists]]
    BY <1>1
  <1>3. PICK g : Made(g, Len(tagFiles), Lists, [t \in Tags |-> <<>>], step)
    <2>. HIDE DEF step
    <2>. QED BY <1>1, <1>2, Steps
  <1>4. /\ g \in [0..Len(tagFiles) -> Lists] /\ g[0] = [t \in Tags |-> <<>>]
        /\ \A n \in 1..Len(tagFiles) : g[n] = Do(g[n - 1], n)
    <2>1. /\ g \in [0..Len(tagFiles) -> Lists] /\ g[0] = [t \in Tags |-> <<>>]
          /\ \A n \in 1..Len(tagFiles) : g[n] = step[n][g[n - 1]]
      BY <1>3 DEF Made
    <2>2. \A n \in 1..Len(tagFiles) : g[n - 1] \in Lists
      BY <1>1, <2>1, Numbered, Zenon
    <2>. QED BY <2>1, <2>2
  <1>. HIDE DEF step
  <1>5. Eq(g)
    <2>1. \A n \in 0..Len(tagFiles) :
              g[n] = IF n = 0 THEN [t \in Tags |-> <<>>] ELSE Do(g[n - 1], n)
      BY <1>1, <1>4, Numbered, Zenon
    <2>. QED BY <1>4, <2>1, Zenon
  <1>6. Eq(it)
    <2>. HIDE DEF Eq
    <2>. QED BY <1>5, Zenon
  <1>7. TagMap = it[Len(tagFiles)]
    BY Zenon DEF TagMap
  <1>8. \A h : Eq(h) => /\ h[0] = [t \in Tags |-> <<>>]
                        /\ \A n \in 0..Len(tagFiles) - 1 : h[n + 1] = Do(h[n], n + 1)
    <2>. SUFFICES ASSUME NEW h, Eq(h)
                  PROVE  /\ h[0] = [t \in Tags |-> <<>>]
                         /\ \A n \in 0..Len(tagFiles) - 1 : h[n + 1] = Do(h[n], n + 1)
      OBVIOUS
    <2>1. \A n \in 0..Len(tagFiles) :
              h[n] = IF n = 0 THEN [t \in Tags |-> <<>>] ELSE Do(h[n - 1], n)
      BY Zenon
    <2>2. \A n \in 0..Len(tagFiles) - 1 : h[n + 1] = Do(h[(n + 1) - 1], n + 1)
      BY <1>1, <2>1, Numbered, Zenon
    <2>. QED BY <1>1, <2>1, <2>2, Numbered, Zenon
  <1>. HIDE DEF it, Eq, Do
  <1>9. it[0] = [t \in Tags |-> <<>>] /\ g[0] = [t \in Tags |-> <<>>]
    BY <1>5, <1>6, <1>8, Zenon
  <1>10. /\ \A n \in 0..Len(tagFiles) - 1 : it[n + 1] = Do(it[n], n + 1)
         /\ \A n \in 0..Len(tagFiles) - 1 : g[n + 1] = Do(g[n], n + 1)
    BY <1>5, <1>6, <1>8, Zenon
  <1>11. TagMap = g[Len(tagFiles)]
    <2>1. \A n \in 0..Len(tagFiles) - 1 : it[n] = g[n] => it[n + 1] = g[n + 1]
      BY <1>10, Zenon
    <2>2. it[0] = g[0] /\ Len(tagFiles) \in Nat
      BY <1>1, <1>9, Zenon
    <2>3. \A n \in 0..Len(tagFiles) : it[n] = g[n]
      BY <2>1, <2>2, Agree
    <2>4. it[Len(tagFiles)] = g[Len(tagFiles)]
      BY <2>2, <2>3, Numbered
    <2>. QED BY <1>7, <2>4, Zenon
  <1>12. Merging(g)
    BY <1>4, <1>9, <1>10, <1>11, Zenon DEF Merging, Do
  <1>. QED BY <1>12

(* The first n files say x of a tag: one of them lists it, and none of them     *)
(* that comes later replaces the tag.                                       *)
Lasts(t, k, n) == \A j \in 1..n : j > k /\ tagFiles[j].tag = t => ~tagFiles[j].replace
Says(x, t, n) == \E k \in 1..n : /\ tagFiles[k].tag = t /\ Lasts(t, k, n)
                                 /\ x \in Range(tagFiles[k].entries)

(* What one more file says. *)
LEMMA SaysOneMore ==
    ASSUME NEW t, NEW x, NEW n \in Nat
    PROVE  Says(x, t, n + 1) <=>
               IF t # tagFiles[n + 1].tag THEN Says(x, t, n)
               ELSE \/ ~tagFiles[n + 1].replace /\ Says(x, t, n)
                    \/ x \in Range(tagFiles[n + 1].entries)
  <1>1. 1..n + 1 = 1..n \cup {n + 1} /\ n + 1 \in 1..n + 1
    OBVIOUS
  <1>2. \A k \in 1..n : k \in 1..n + 1 /\ n + 1 > k /\ n + 1 # k
    OBVIOUS
  <1>3. \A k \in 1..n : Lasts(t, k, n + 1) <=>
            (Lasts(t, k, n) /\ (tagFiles[n + 1].tag = t => ~tagFiles[n + 1].replace))
    BY <1>1, <1>2, Zenon DEF Lasts
  <1>4. Lasts(t, n + 1, n + 1)
    BY DEF Lasts
  <1>5. Says(x, t, n + 1) <=>
            \/ \E k \in 1..n : /\ tagFiles[k].tag = t /\ Lasts(t, k, n + 1)
                               /\ x \in Range(tagFiles[k].entries)
            \/ tagFiles[n + 1].tag = t /\ x \in Range(tagFiles[n + 1].entries)
    BY <1>1, <1>4, Zenon DEF Says
  <1>6. (\E k \in 1..n : /\ tagFiles[k].tag = t /\ Lasts(t, k, n + 1)
                         /\ x \in Range(tagFiles[k].entries))
        <=> (Says(x, t, n) /\ (tagFiles[n + 1].tag = t => ~tagFiles[n + 1].replace))
    BY <1>3, Zenon DEF Says
  <1>. QED BY <1>5, <1>6

(* What the merged files say of a tag is what those that count say. *)
LEMMA MergedIsDirect ==
    ASSUME tagFiles \in Seq(TagFiles)
    PROVE  TagMap \in Lists /\ \A t \in Tags : Range(TagMap[t]) = Direct(t)
  <1>. DEFINE N == Len(tagFiles)
  <1>1. PICK f : /\ f \in [0..N -> Lists] /\ f[0] = [t \in Tags |-> <<>>] /\ TagMap = f[N]
                 /\ \A n \in 0..N - 1 : f[n + 1] = Merge(f[n], tagFiles[n + 1])
    <2>1. \E f : Merging(f)
      BY TagMapMade
    <2>. QED BY <2>1 DEF Merging
  <1>2. N \in Nat /\ DOMAIN tagFiles = 1..N /\ \A n \in 1..N : tagFiles[n] \in TagFiles
    OBVIOUS
  <1>. HIDE DEF N
  <1>. DEFINE Good(n) == \A t \in Tags : \A x : x \in Range(f[n][t]) <=> Says(x, t, n)
              P == {n \in 0..N : Good(n)}
  <1>3. Good(0)
    <2>1. 1..0 = {} /\ Range(<<>>) = {}
      BY DEF Range
    <2>2. \A t \in Tags : f[0][t] = <<>>
      BY <1>1
    <2>. QED BY <2>1, <2>2 DEF Says
  <1>4. ASSUME NEW n \in 0..N - 1, Good(n)  PROVE Good(n + 1)
    <2>1. n \in Nat /\ n \in 0..N /\ n + 1 \in 1..N
      BY <1>2, Numbered
    <2>. DEFINE file == tagFiles[n + 1]
    <2>2. f[n] \in Lists /\ file \in TagFiles /\ f[n + 1] = Merge(f[n], file)
      BY <1>1, <1>2, <2>1
    <2>3. \A t \in Tags : Range(f[n + 1][t]) =
              IF t # file.tag THEN Range(f[n][t])
              ELSE (IF file.replace THEN {} ELSE Range(f[n][t])) \cup Range(file.entries)
      <3>. HIDE DEF file
      <3>1. \A t \in Tags : Range(Merge(f[n], file)[t]) =
                IF t # file.tag THEN Range(f[n][t])
                ELSE (IF file.replace THEN {} ELSE Range(f[n][t])) \cup Range(file.entries)
        <4>. DEFINE a == f[n]
        <4>1. a \in Lists
          BY <2>2
        <4>. HIDE DEF a
        <4>2. \A t \in Tags : Range(Merge(a, file)[t]) =
                IF t # file.tag THEN Range(a[t])
                ELSE (IF file.replace THEN {} ELSE Range(a[t])) \cup Range(file.entries)
          BY <2>2, <4>1, Merged
        <4>. QED BY <4>2 DEF a
      <3>. QED BY <2>2, <3>1, Zenon
    <2>. SUFFICES ASSUME NEW t \in Tags, NEW x
                  PROVE  x \in Range(f[n + 1][t]) <=> Says(x, t, n + 1)
      OBVIOUS
    <2>4. Says(x, t, n + 1) <=>
               IF t # file.tag THEN Says(x, t, n)
               ELSE (~file.replace /\ Says(x, t, n)) \/ x \in Range(file.entries)
      BY <2>1, SaysOneMore
    <2>5. x \in Range(f[n][t]) <=> Says(x, t, n)
      BY <1>4
    <2>. HIDE DEF file
    <2>. QED BY <2>3, <2>4, <2>5
  <1>5. Good(N)
    <2>. HIDE DEF Good
    <2>1. 0 \in P /\ \A n \in 0..N - 1 : n \in P => n + 1 \in P
      BY <1>2, <1>3, <1>4, Numbered
    <2>2. \A n \in 0..N : n \in P
      <3>. HIDE DEF P
      <3>. QED BY <1>2, <2>1, InductionUpTo
    <2>. QED BY <1>2, <2>2, Numbered
  <1>6. \A t \in Tags : \A x : x \in Direct(t) <=> Says(x, t, N)
    <2>. SUFFICES ASSUME NEW t \in Tags, NEW x
                  PROVE  x \in Direct(t) <=> Says(x, t, N)
      OBVIOUS
    <2>1. \A k \in 1..N : tagFiles[k].tag = t => (Counts(k) <=> Lasts(t, k, N))
      BY <1>2, Zenon DEF Counts, Lasts
    <2>2. x \in Direct(t) <=> \E k \in 1..N : /\ tagFiles[k].tag = t /\ Counts(k)
                                              /\ x \in Range(tagFiles[k].entries)
      BY <1>2, Zenon DEF Direct
    <2>. QED BY <2>1, <2>2, Zenon DEF Says
  <1>7. TagMap \in Lists
    BY <1>1, <1>2, Numbered
  <1>. QED BY <1>1, <1>5, <1>6, <1>7

(* f holds the walk after each entry. *)
Visiting(tags, w, t, nested, f) ==
    /\ f \in [0..Len(tags[t]) -> Walks] /\ f[0] = [w EXCEPT !.seen = @ \cup {t}]
    /\ Visit(tags, w, t, nested) = f[Len(tags[t])]
    /\ \A n \in 0..Len(tags[t]) - 1 :
          f[n + 1] = IF tags[t][n + 1] \in Tags THEN nested[<<f[n], tags[t][n + 1]>>]
                     ELSE [f[n] EXCEPT !.out = Joined(@, <<tags[t][n + 1]>>)]

(* The entries are taken one after the other. *)
LEMMA VisitMade ==
    ASSUME NEW tags \in Lists,
           NEW w \in Walks,
           NEW t \in Tags,
           t \notin w.seen,
           NEW nested \in Nested
    PROVE  \E f : Visiting(tags, w, t, nested, f)
  <1>. DEFINE Do(a, n) == IF tags[t][n] \in Tags THEN nested[<<a, tags[t][n]>>]
                          ELSE [a EXCEPT !.out = Joined(@, <<tags[t][n]>>)]
              step == [n \in 1..Len(tags[t]) |-> [a \in Walks |-> Do(a, n)]]
              Eq(h) == h = [n \in 0..Len(tags[t]) |->
                                IF n = 0 THEN [w EXCEPT !.seen = @ \cup {t}] ELSE Do(h[n - 1], n)]
              it == CHOOSE h : Eq(h)
  <1>1. /\ Len(tags[t]) \in Nat /\ [w EXCEPT !.seen = @ \cup {t}] \in Walks
        /\ \A n \in 1..Len(tags[t]) : \A a \in Walks : Do(a, n) \in Walks
    <2>1. tags[t] \in Seq(Entries)
      BY DEF Lists
    <2>2. Len(tags[t]) \in Nat /\ \A n \in 1..Len(tags[t]) : tags[t][n] \in Entries
      BY <2>1
    <2>3. [w EXCEPT !.seen = @ \cup {t}] \in Walks
      BY DEF Walks
    <2>4. ASSUME NEW a \in Walks, NEW e \in Entries
          PROVE  (IF e \in Tags THEN nested[<<a, e>>] ELSE [a EXCEPT !.out = Joined(@, <<e>>)]) \in Walks
      <3>1. CASE e \in Tags
        BY <3>1 DEF Nested
      <3>2. CASE e \notin Tags
        <4>1. a.out \in Seq(Things) /\ <<e>> \in Seq(Things)
          BY <3>2 DEF Walks, Entries
        <4>2. Joined(a.out, <<e>>) \in Seq(Things)
          BY <4>1, JoinedIs
        <4>. QED BY <3>2, <4>2 DEF Walks
      <3>. QED BY <3>1, <3>2
    <2>. QED BY <2>2, <2>3, <2>4, Zenon
  <1>2. step \in [1..Len(tags[t]) -> [Walks -> Walks]]
    BY <1>1
  <1>3. PICK g : Made(g, Len(tags[t]), Walks, [w EXCEPT !.seen = @ \cup {t}], step)
    <2>. HIDE DEF step
    <2>. QED BY <1>1, <1>2, Steps
  <1>4. /\ g \in [0..Len(tags[t]) -> Walks] /\ g[0] = [w EXCEPT !.seen = @ \cup {t}]
        /\ \A n \in 1..Len(tags[t]) : g[n] = Do(g[n - 1], n)
    <2>1. /\ g \in [0..Len(tags[t]) -> Walks] /\ g[0] = [w EXCEPT !.seen = @ \cup {t}]
          /\ \A n \in 1..Len(tags[t]) : g[n] = step[n][g[n - 1]]
      BY <1>3 DEF Made
    <2>2. \A n \in 1..Len(tags[t]) : g[n - 1] \in Walks
      BY <1>1, <2>1, Numbered, Zenon
    <2>. QED BY <2>1, <2>2
  <1>. HIDE DEF step
  <1>5. Eq(g)
    <2>1. \A n \in 0..Len(tags[t]) :
              g[n] = IF n = 0 THEN [w EXCEPT !.seen = @ \cup {t}] ELSE Do(g[n - 1], n)
      BY <1>1, <1>4, Numbered, Zenon
    <2>. QED BY <1>4, <2>1, Zenon
  <1>6. Eq(it)
    <2>. HIDE DEF Eq
    <2>. QED BY <1>5, Zenon
  <1>7. Visit(tags, w, t, nested) = it[Len(tags[t])]
    BY Zenon DEF Visit
  <1>8. \A h : Eq(h) => /\ h[0] = [w EXCEPT !.seen = @ \cup {t}]
                        /\ \A n \in 0..Len(tags[t]) - 1 : h[n + 1] = Do(h[n], n + 1)
    <2>. SUFFICES ASSUME NEW h, Eq(h)
                  PROVE  /\ h[0] = [w EXCEPT !.seen = @ \cup {t}]
                         /\ \A n \in 0..Len(tags[t]) - 1 : h[n + 1] = Do(h[n], n + 1)
      OBVIOUS
    <2>1. \A n \in 0..Len(tags[t]) :
              h[n] = IF n = 0 THEN [w EXCEPT !.seen = @ \cup {t}] ELSE Do(h[n - 1], n)
      BY Zenon
    <2>2. \A n \in 0..Len(tags[t]) - 1 : h[n + 1] = Do(h[(n + 1) - 1], n + 1)
      BY <1>1, <2>1, Numbered, Zenon
    <2>. QED BY <1>1, <2>1, <2>2, Numbered, Zenon
  <1>. HIDE DEF it, Eq, Do
  <1>9. it[0] = [w EXCEPT !.seen = @ \cup {t}] /\ g[0] = [w EXCEPT !.seen = @ \cup {t}]
    BY <1>5, <1>6, <1>8, Zenon
  <1>10. /\ \A n \in 0..Len(tags[t]) - 1 : it[n + 1] = Do(it[n], n + 1)
         /\ \A n \in 0..Len(tags[t]) - 1 : g[n + 1] = Do(g[n], n + 1)
    BY <1>5, <1>6, <1>8, Zenon
  <1>11. Visit(tags, w, t, nested) = g[Len(tags[t])]
    <2>1. \A n \in 0..Len(tags[t]) - 1 : it[n] = g[n] => it[n + 1] = g[n + 1]
      BY <1>10, Zenon
    <2>2. it[0] = g[0] /\ Len(tags[t]) \in Nat
      BY <1>1, <1>9, Zenon
    <2>3. \A n \in 0..Len(tags[t]) : it[n] = g[n]
      BY <2>1, <2>2, Agree
    <2>4. it[Len(tags[t])] = g[Len(tags[t])]
      BY <2>2, <2>3, Numbered
    <2>. QED BY <1>7, <2>4, Zenon
  <1>12. Visiting(tags, w, t, nested, g)
    BY <1>4, <1>9, <1>10, <1>11, Zenon DEF Visiting, Do
  <1>. QED BY <1>12

(* A walk through a tag that was seen changes nothing. *)
LEMMA VisitSeen ==
    ASSUME NEW tags, NEW w, NEW t \in w.seen, NEW nested
    PROVE  Visit(tags, w, t, nested) = w
  BY Zenon DEF Visit

(* A walk leaves a walk. *)
LEMMA VisitTyped ==
    ASSUME NEW tags \in Lists, NEW w \in Walks, NEW t \in Tags, NEW nested \in Nested
    PROVE  Visit(tags, w, t, nested) \in Walks
  <1>1. ASSUME t \in w.seen  PROVE Visit(tags, w, t, nested) \in Walks
    BY <1>1, VisitSeen
  <1>2. ASSUME t \notin w.seen  PROVE Visit(tags, w, t, nested) \in Walks
    <2>1. PICK f : Visiting(tags, w, t, nested, f)
      BY <1>2, VisitMade
    <2>2. tags[t] \in Seq(Entries)
      BY DEF Lists
    <2>3. Len(tags[t]) \in 0..Len(tags[t])
      BY <2>2
    <2>. QED BY <2>1, <2>3 DEF Visiting
  <1>. QED BY <1>1, <1>2

(* f holds the walk for each depth it can be nested to. *)
Nesting(tags, f) ==
    /\ f \in [0..Cardinality(Tags) -> Nested] /\ f[0] = [visit \in Walks \X Tags |-> visit[1]]
    /\ Walk(tags) = f[Cardinality(Tags)]
    /\ \A n \in 0..Cardinality(Tags) - 1 :
          f[n + 1] = [visit \in Walks \X Tags |-> Visit(tags, visit[1], visit[2], f[n])]

(* The walk is nested one deeper at a time. *)
LEMMA WalkMade ==
    ASSUME NEW tags \in Lists
    PROVE  \E f : Nesting(tags, f)
  <1>. DEFINE Do(a, n) == [visit \in Walks \X Tags |-> Visit(tags, visit[1], visit[2], a)]
              step == [n \in 1..Cardinality(Tags) |-> [a \in Nested |-> Do(a, n)]]
              Eq(h) == h = [n \in 0..Cardinality(Tags) |->
                                IF n = 0 THEN [visit \in Walks \X Tags |-> visit[1]]
                                ELSE Do(h[n - 1], n)]
              it == CHOOSE h : Eq(h)
  <1>1. /\ Cardinality(Tags) \in Nat /\ [visit \in Walks \X Tags |-> visit[1]] \in Nested
        /\ \A n \in 1..Cardinality(Tags) : \A a \in Nested : Do(a, n) \in Nested
    <2>1. Cardinality(Tags) \in Nat
      BY CostAssumption, FS_CardinalityType
    <2>2. [visit \in Walks \X Tags |-> visit[1]] \in Nested
      BY DEF Nested
    <2>3. ASSUME NEW a \in Nested
          PROVE  [visit \in Walks \X Tags |-> Visit(tags, visit[1], visit[2], a)] \in Nested
      <3>1. \A visit \in Walks \X Tags : visit[1] \in Walks /\ visit[2] \in Tags
        OBVIOUS
      <3>2. \A visit \in Walks \X Tags : Visit(tags, visit[1], visit[2], a) \in Walks
        BY <2>3, <3>1, VisitTyped
      <3>. QED BY <3>2 DEF Nested
    <2>. QED BY <2>1, <2>2, <2>3
  <1>2. step \in [1..Cardinality(Tags) -> [Nested -> Nested]]
    BY <1>1
  <1>3. PICK g : Made(g, Cardinality(Tags), Nested, [visit \in Walks \X Tags |-> visit[1]], step)
    <2>. HIDE DEF step
    <2>. QED BY <1>1, <1>2, Steps
  <1>4. /\ g \in [0..Cardinality(Tags) -> Nested] /\ g[0] = [visit \in Walks \X Tags |-> visit[1]]
        /\ \A n \in 1..Cardinality(Tags) : g[n] = Do(g[n - 1], n)
    <2>1. /\ g \in [0..Cardinality(Tags) -> Nested] /\ g[0] = [visit \in Walks \X Tags |-> visit[1]]
          /\ \A n \in 1..Cardinality(Tags) : g[n] = step[n][g[n - 1]]
      BY <1>3 DEF Made
    <2>2. \A n \in 1..Cardinality(Tags) : g[n - 1] \in Nested
      BY <1>1, <2>1, Numbered, Zenon
    <2>. QED BY <2>1, <2>2
  <1>. HIDE DEF step
  <1>5. Eq(g)
    <2>1. \A n \in 0..Cardinality(Tags) :
              g[n] = IF n = 0 THEN [visit \in Walks \X Tags |-> visit[1]] ELSE Do(g[n - 1], n)
      BY <1>1, <1>4, Numbered, Zenon
    <2>. QED BY <1>4, <2>1, Zenon
  <1>6. Eq(it)
    <2>. HIDE DEF Eq
    <2>. QED BY <1>5, Zenon
  <1>7. Walk(tags) = it[Cardinality(Tags)]
    BY Zenon DEF Walk
  <1>8. \A h : Eq(h) => /\ h[0] = [visit \in Walks \X Tags |-> visit[1]]
                        /\ \A n \in 0..Cardinality(Tags) - 1 : h[n + 1] = Do(h[n], n + 1)
    <2>. SUFFICES ASSUME NEW h, Eq(h)
                  PROVE  /\ h[0] = [visit \in Walks \X Tags |-> visit[1]]
                         /\ \A n \in 0..Cardinality(Tags) - 1 : h[n + 1] = Do(h[n], n + 1)
      OBVIOUS
    <2>1. \A n \in 0..Cardinality(Tags) :
              h[n] = IF n = 0 THEN [visit \in Walks \X Tags |-> visit[1]] ELSE Do(h[n - 1], n)
      BY Zenon
    <2>2. \A n \in 0..Cardinality(Tags) - 1 : h[n + 1] = Do(h[(n + 1) - 1], n + 1)
      BY <1>1, <2>1, Numbered, Zenon
    <2>3. 0 \in 0..Cardinality(Tags)
          /\ \A n \in 0..Cardinality(Tags) - 1 : (n + 1) - 1 = n
      BY <1>1, Numbered, Zenon
    <2>4. h[0] = [visit \in Walks \X Tags |-> visit[1]]
      BY <2>1, <2>3, Zenon
    <2>. HIDE DEF Do
    <2>5. \A n \in 0..Cardinality(Tags) - 1 : h[n + 1] = Do(h[n], n + 1)
      BY <2>2, <2>3, Zenon
    <2>. QED BY <2>4, <2>5
  <1>. HIDE DEF it, Eq, Do
  <1>9. /\ it[0] = [visit \in Walks \X Tags |-> visit[1]]
        /\ g[0] = [visit \in Walks \X Tags |-> visit[1]]
    BY <1>5, <1>6, <1>8, Zenon
  <1>10. /\ \A n \in 0..Cardinality(Tags) - 1 : it[n + 1] = Do(it[n], n + 1)
         /\ \A n \in 0..Cardinality(Tags) - 1 : g[n + 1] = Do(g[n], n + 1)
    BY <1>5, <1>6, <1>8, Zenon
  <1>11. Walk(tags) = g[Cardinality(Tags)]
    <2>1. \A n \in 0..Cardinality(Tags) - 1 : it[n] = g[n] => it[n + 1] = g[n + 1]
      BY <1>10, Zenon
    <2>2. it[0] = g[0] /\ Cardinality(Tags) \in Nat
      BY <1>1, <1>9, Zenon
    <2>3. \A n \in 0..Cardinality(Tags) : it[n] = g[n]
      BY <2>1, <2>2, Agree
    <2>4. it[Cardinality(Tags)] = g[Cardinality(Tags)]
      BY <2>2, <2>3, Numbered
    <2>. QED BY <1>7, <2>4, Zenon
  <1>12. Nesting(tags, g)
    BY <1>4, <1>9, <1>10, <1>11, Zenon DEF Nesting, Do
  <1>. QED BY <1>12

(* Tags closed under what they list, and the items they list. *)
LeadsIn(tags, S) == \A u \in S : Range(tags[u]) \cap Tags \subseteq S
Listed(tags, S) == (UNION {Range(tags[u]) : u \in S}) \ Tags

(* r comes of a walk through t that began as w: it has all of w and t, each    *)
(* item once, all that the newly seen tags list, and nothing that is not to be *)
(* reached from t.                                                          *)
Within(tags, w, t, r) ==
    /\ r \in Walks /\ w.seen \cup {t} \subseteq r.seen /\ Range(w.out) \subseteq Range(r.out)
    /\ IsInjective(w.out) => IsInjective(r.out)
    /\ \A S \in SUBSET Tags : t \in S /\ LeadsIn(tags, S) =>
          r.seen \subseteq w.seen \cup S /\ Range(r.out) \subseteq Range(w.out) \cup Listed(tags, S)
Walked(tags, w, t, r) ==
    /\ Within(tags, w, t, r)
    /\ \A u \in r.seen \ w.seen : Range(tags[u]) \subseteq r.seen \cup Range(r.out)

(* The same when k entries of t have been taken. *)
Midway(tags, w, t, k, r) ==
    /\ Within(tags, w, t, r)
    /\ \A u \in r.seen \ (w.seen \cup {t}) : Range(tags[u]) \subseteq r.seen \cup Range(r.out)
    /\ \A i \in 1..k : tags[t][i] \in r.seen \cup Range(r.out)

(* The walk is right wherever at most n tags were not seen. *)
Complete(tags, n, nested) ==
    /\ nested \in Nested
    /\ \A w \in Walks, t \in Tags :
          Cardinality(Tags \ w.seen) <= n => Walked(tags, w, t, nested[<<w, t>>])

(* A tag that was seen. *)
LEMMA SeenIsWalked ==
    ASSUME NEW tags \in Lists, NEW w \in Walks, NEW t \in w.seen
    PROVE  Walked(tags, w, t, w)
  BY DEF Walked, Within

(* One more entry that is a tag. *)
LEMMA TagEntry ==
    ASSUME NEW tags \in Lists, NEW w \in Walks, NEW t \in Tags, NEW k \in Nat, NEW a, NEW b,
           Midway(tags, w, t, k, a), tags[t][k + 1] \in Tags, tags[t][k + 1] \in Range(tags[t]),
           Walked(tags, a, tags[t][k + 1], b)
    PROVE  Midway(tags, w, t, k + 1, b)
  <1>. DEFINE e == tags[t][k + 1]
  <1>1. /\ a.seen \subseteq b.seen /\ e \in b.seen /\ b \in Walks
        /\ Range(a.out) \subseteq Range(b.out) /\ w.seen \cup {t} \subseteq a.seen
        /\ Range(w.out) \subseteq Range(a.out)
    BY DEF Midway, Walked, Within
  <1>2. \A S \in SUBSET Tags : t \in S /\ LeadsIn(tags, S) => e \in S
    BY DEF LeadsIn
  <1>3. ASSUME NEW S \in SUBSET Tags, t \in S, LeadsIn(tags, S)
        PROVE  /\ b.seen \subseteq w.seen \cup S
               /\ Range(b.out) \subseteq Range(w.out) \cup Listed(tags, S)
    <2>1. a.seen \subseteq w.seen \cup S /\ Range(a.out) \subseteq Range(w.out) \cup Listed(tags, S)
      BY <1>3, Zenon DEF Midway, Within
    <2>2. e \in S
      BY <1>2, <1>3
    <2>3. b.seen \subseteq a.seen \cup S /\ Range(b.out) \subseteq Range(a.out) \cup Listed(tags, S)
      BY <1>3, <2>2, Zenon DEF Walked, Within
    <2>. QED BY <2>1, <2>3
  <1>4. IsInjective(w.out) => IsInjective(b.out)
    BY Zenon DEF Midway, Walked, Within
  <1>5. Within(tags, w, t, b)
    <2>1. w.seen \cup {t} \subseteq b.seen /\ Range(w.out) \subseteq Range(b.out)
      BY <1>1
    <2>. QED BY <1>1, <1>3, <1>4, <2>1, Zenon DEF Within
  <1>6. ASSUME NEW u \in b.seen \ (w.seen \cup {t})
        PROVE  Range(tags[u]) \subseteq b.seen \cup Range(b.out)
    <2>1. CASE u \in a.seen
      <3>1. Range(tags[u]) \subseteq a.seen \cup Range(a.out)
        BY <1>6, <2>1, Zenon DEF Midway
      <3>. QED BY <1>1, <3>1
    <2>2. CASE u \notin a.seen
      BY <1>6, <2>2, Zenon DEF Walked
    <2>. QED BY <2>1, <2>2
  <1>7. ASSUME NEW i \in 1..k + 1
        PROVE  tags[t][i] \in b.seen \cup Range(b.out)
    <2>1. CASE i \in 1..k
      <3>1. tags[t][i] \in a.seen \cup Range(a.out)
        BY <2>1, Zenon DEF Midway
      <3>. QED BY <1>1, <3>1
    <2>2. CASE i \notin 1..k
      <3>1. i = k + 1
        BY <2>2
      <3>. QED BY <1>1, <3>1
    <2>. QED BY <2>1, <2>2
  <1>. QED BY <1>5, <1>6, <1>7, Zenon DEF Midway

(* One more entry that is an item. *)
LEMMA ItemEntry ==
    ASSUME NEW tags \in Lists, NEW w \in Walks, NEW t \in Tags, NEW k \in Nat, NEW a,
           Midway(tags, w, t, k, a), tags[t][k + 1] \in Things, tags[t][k + 1] \in Range(tags[t])
    PROVE  Midway(tags, w, t, k + 1, [a EXCEPT !.out = Joined(@, <<tags[t][k + 1]>>)])
  <1>. DEFINE e == tags[t][k + 1]
              b == [a EXCEPT !.out = Joined(@, <<e>>)]
  <1>1. /\ a \in Walks /\ w.seen \cup {t} \subseteq a.seen /\ Range(w.out) \subseteq Range(a.out)
    BY DEF Midway, Within
  <1>2. a.out \in Seq(Things) /\ <<e>> \in Seq(Things) /\ Range(<<e>>) = {e} /\ e \notin Tags
    BY <1>1, CostAssumption DEF Walks, Range
  <1>. HIDE DEF e
  <1>3. /\ b \in Walks /\ b.seen = a.seen /\ Range(b.out) = Range(a.out) \cup {e}
        /\ IsInjective(a.out) => IsInjective(b.out)
    <2>1. /\ Joined(a.out, <<e>>) \in Seq(Things)
          /\ Range(Joined(a.out, <<e>>)) = Range(a.out) \cup Range(<<e>>)
          /\ IsInjective(a.out) => IsInjective(Joined(a.out, <<e>>))
      BY <1>2, JoinedIs
    <2>2. b \in Walks /\ b.seen = a.seen /\ b.out = Joined(a.out, <<e>>)
      BY <1>1, <2>1 DEF Walks
    <2>. QED BY <1>2, <2>1, <2>2
  <1>. HIDE DEF b
  <1>4. ASSUME NEW S \in SUBSET Tags, t \in S, LeadsIn(tags, S)
        PROVE  /\ b.seen \subseteq w.seen \cup S
               /\ Range(b.out) \subseteq Range(w.out) \cup Listed(tags, S)
    <2>1. a.seen \subseteq w.seen \cup S /\ Range(a.out) \subseteq Range(w.out) \cup Listed(tags, S)
      BY <1>4, Zenon DEF Midway, Within
    <2>2. e \in Listed(tags, S)
      <3>1. e \in Range(tags[t])
        BY DEF e
      <3>2. e \in UNION {Range(tags[u]) : u \in S}
        BY <1>4, <3>1, Zenon
      <3>. QED BY <1>2, <3>2, Zenon DEF Listed
    <2>. QED BY <1>3, <2>1, <2>2
  <1>5. Within(tags, w, t, b)
    <2>1. w.seen \cup {t} \subseteq b.seen /\ Range(w.out) \subseteq Range(b.out)
      BY <1>1, <1>3
    <2>2. IsInjective(w.out) => IsInjective(b.out)
      BY <1>3, Zenon DEF Midway, Within
    <2>. QED BY <1>3, <1>4, <2>1, <2>2, Zenon DEF Within
  <1>6. ASSUME NEW u \in b.seen \ (w.seen \cup {t})
        PROVE  Range(tags[u]) \subseteq b.seen \cup Range(b.out)
    <2>1. Range(tags[u]) \subseteq a.seen \cup Range(a.out)
      BY <1>3, <1>6, Zenon DEF Midway
    <2>. QED BY <1>3, <2>1
  <1>7. ASSUME NEW i \in 1..k + 1
        PROVE  tags[t][i] \in b.seen \cup Range(b.out)
    <2>1. CASE i \in 1..k
      <3>1. tags[t][i] \in a.seen \cup Range(a.out)
        BY <2>1, Zenon DEF Midway
      <3>. QED BY <1>3, <3>1
    <2>2. CASE i \notin 1..k
      <3>1. i = k + 1
        BY <2>2
      <3>. QED BY <1>3, <3>1 DEF e
    <2>. QED BY <2>1, <2>2
  <1>8. Midway(tags, w, t, k + 1, b)
    BY <1>5, <1>6, <1>7, Zenon DEF Midway
  <1>. QED BY <1>8 DEF b, e

(* A walk through a tag that was not seen is right if those it nests are. *)
LEMMA VisitWalked ==
    ASSUME NEW tags \in Lists, NEW w \in Walks, NEW t \in Tags, t \notin w.seen,
           NEW n \in Nat, Cardinality(Tags \ w.seen) <= n + 1,
           NEW nested, Complete(tags, n, nested)
    PROVE  Walked(tags, w, t, Visit(tags, w, t, nested))
  <1>. DEFINE N == Len(tags[t])
              start == [w EXCEPT !.seen = @ \cup {t}]
  <1>1. tags[t] \in Seq(Entries)
    BY DEF Lists
  <1>2. N \in Nat /\ DOMAIN tags[t] = 1..N /\ \A k \in 1..N : tags[t][k] \in Entries
    BY <1>1
  <1>3. \A k \in 1..N : tags[t][k] \in Range(tags[t])
    BY <1>2 DEF Range
  <1>4. Range(tags[t]) = {tags[t][k] : k \in 1..N}
    BY <1>2 DEF Range
  <1>5. PICK f : /\ f \in [0..N -> Walks] /\ f[0] = start /\ Visit(tags, w, t, nested) = f[N]
                 /\ \A k \in 0..N - 1 :
                       f[k + 1] = IF tags[t][k + 1] \in Tags THEN nested[<<f[k], tags[t][k + 1]>>]
                                  ELSE [f[k] EXCEPT !.out = Joined(@, <<tags[t][k + 1]>>)]
    <2>1. nested \in Nested
      BY DEF Complete
    <2>2. \E f : Visiting(tags, w, t, nested, f)
      BY <2>1, VisitMade
    <2>. QED BY <2>2, Zenon DEF Visiting
  <1>. HIDE DEF N
  <1>. DEFINE P == {k \in 0..N : Midway(tags, w, t, k, f[k])}
  <1>6. Midway(tags, w, t, 0, f[0])
    <2>1. /\ start \in Walks /\ start.seen = w.seen \cup {t} /\ start.out = w.out
      BY DEF Walks
    <2>. HIDE DEF start
    <2>2. Within(tags, w, t, start)
      BY <2>1 DEF Within
    <2>3. 1..0 = {}
      OBVIOUS
    <2>4. Midway(tags, w, t, 0, start)
      BY <2>1, <2>2, <2>3 DEF Midway
    <2>. QED BY <1>5, <2>4
  <1>7. ASSUME NEW k \in 0..N - 1, Midway(tags, w, t, k, f[k])
        PROVE  Midway(tags, w, t, k + 1, f[k + 1])
    <2>. DEFINE e == tags[t][k + 1]
                a == f[k]
    <2>1. k \in Nat /\ k \in 0..N /\ k + 1 \in 1..N
      BY <1>2, Numbered
    <2>2. e \in Entries /\ e \in Range(tags[t])
      BY <1>2, <1>3, <2>1
    <2>3. a \in Walks /\ w.seen \cup {t} \subseteq a.seen
      BY <1>7 DEF Midway, Within
    <2>4. ASSUME e \in Tags  PROVE Midway(tags, w, t, k + 1, f[k + 1])
      <3>1. f[k + 1] = nested[<<a, e>>]
        BY <1>5, <2>4
      <3>2. Cardinality(Tags \ a.seen) <= n
        <4>. DEFINE U == Tags \ w.seen
        <4>. HIDE DEF a
        <4>1. IsFiniteSet(U) /\ t \in U
          BY CostAssumption, FS_Subset
        <4>2. IsFiniteSet(U \ {t}) /\ Tags \ a.seen \subseteq U \ {t}
          BY <2>3, <4>1, FS_Subset
        <4>3. Cardinality(U \ {t}) = Cardinality(U) - 1
          BY <4>1, FS_RemoveElement, Zenon
        <4>4. Cardinality(Tags \ a.seen) <= Cardinality(U \ {t})
          BY <4>2, FS_Subset
        <4>5. /\ Cardinality(U) \in Nat /\ Cardinality(U \ {t}) \in Nat
              /\ Cardinality(Tags \ a.seen) \in Nat
          BY <4>1, <4>2, FS_Subset, FS_CardinalityType
        <4>. DEFINE c == Cardinality(U)
                    d == Cardinality(U \ {t})
                    g == Cardinality(Tags \ a.seen)
        <4>6. c <= n + 1 /\ d = c - 1 /\ g <= d /\ c \in Nat /\ d \in Nat /\ g \in Nat
          BY <4>3, <4>4, <4>5
        <4>. HIDE DEF c, d, g, U
        <4>7. g <= n
          BY <4>6
        <4>. QED BY <4>7 DEF g
      <3>3. Walked(tags, a, e, nested[<<a, e>>])
        BY <2>3, <2>4, <3>2, Zenon DEF Complete
      <3>4. Midway(tags, w, t, k + 1, nested[<<a, e>>])
        BY <1>7, <2>1, <2>2, <2>4, <3>3, TagEntry
      <3>. QED BY <3>1, <3>4
    <2>5. ASSUME e \notin Tags  PROVE Midway(tags, w, t, k + 1, f[k + 1])
      <3>1. f[k + 1] = [a EXCEPT !.out = Joined(@, <<e>>)]
        BY <1>5, <2>5, Zenon
      <3>2. e \in Things
        BY <2>2, <2>5 DEF Entries
      <3>3. Midway(tags, w, t, k + 1, [a EXCEPT !.out = Joined(@, <<e>>)])
        BY <1>7, <2>1, <2>2, <3>2, ItemEntry
      <3>. QED BY <3>1, <3>3
    <2>. QED BY <2>4, <2>5
  <1>8. Midway(tags, w, t, N, f[N])
    <2>1. 0 \in P /\ \A k \in 0..N - 1 : k \in P => k + 1 \in P
      BY <1>2, <1>6, <1>7, Numbered
    <2>2. \A k \in 0..N : k \in P
      <3>. HIDE DEF P
      <3>. QED BY <1>2, <2>1, InductionUpTo
    <2>. QED BY <1>2, <2>2, Numbered
  <1>. DEFINE r == f[N]
  <1>9. Within(tags, w, t, r)
    BY <1>8 DEF Midway
  <1>10. Range(tags[t]) \subseteq r.seen \cup Range(r.out)
    <2>1. \A k \in 1..N : tags[t][k] \in r.seen \cup Range(r.out)
      BY <1>8 DEF Midway
    <2>. HIDE DEF r
    <2>. QED BY <1>4, <2>1
  <1>11. \A u \in r.seen \ w.seen : Range(tags[u]) \subseteq r.seen \cup Range(r.out)
    <2>1. \A u \in r.seen \ (w.seen \cup {t}) : Range(tags[u]) \subseteq r.seen \cup Range(r.out)
      BY <1>8 DEF Midway
    <2>. HIDE DEF r
    <2>. QED BY <1>10, <2>1
  <1>12. Walked(tags, w, t, r)
    BY <1>9, <1>11 DEF Walked
  <1>. QED BY <1>5, <1>12

(* A walk that can be nested as often as there are tags is right.            *)
LEMMA WalkComplete ==
    ASSUME NEW tags \in Lists
    PROVE  Complete(tags, Cardinality(Tags), Walk(tags))
  <1>. DEFINE C == Cardinality(Tags)
  <1>1. C \in Nat /\ \A w \in Walks : IsFiniteSet(Tags \ w.seen)
    BY CostAssumption, FS_CardinalityType, FS_Subset
  <1>2. PICK f : Nesting(tags, f)
    BY WalkMade
  <1>6. /\ f \in [0..C -> Nested] /\ f[0] = [visit \in Walks \X Tags |-> visit[1]]
        /\ Walk(tags) = f[C]
        /\ \A n \in 0..C - 1 :
              f[n + 1] = [visit \in Walks \X Tags |-> Visit(tags, visit[1], visit[2], f[n])]
    BY <1>2 DEF Nesting
  <1>. HIDE DEF C
  <1>. DEFINE P == {n \in 0..C : Complete(tags, n, f[n])}
  <1>3. 0 \in P
    <2>1. f[0] \in Nested /\ 0 \in 0..C
      BY <1>1, <1>6, Numbered
    <2>2. ASSUME NEW w \in Walks, NEW t \in Tags, Cardinality(Tags \ w.seen) <= 0
          PROVE  Walked(tags, w, t, f[0][<<w, t>>])
      <3>1. Tags \ w.seen = {}
        <4>. DEFINE U == Tags \ w.seen
        <4>1. IsFiniteSet(U)
          BY <1>1
        <4>2. Cardinality(U) \in Nat
          BY <4>1, FS_CardinalityType
        <4>3. Cardinality(U) = 0
          BY <2>2, <4>2
        <4>. HIDE DEF U
        <4>4. U = {}
          BY <4>1, <4>3, FS_EmptySet
        <4>. QED BY <4>4 DEF U
      <3>2. t \in w.seen
        BY <3>1
      <3>3. f[0][<<w, t>>] = w
        BY <1>6
      <3>. QED BY <3>2, <3>3, SeenIsWalked
    <2>. QED BY <2>1, <2>2, Zenon DEF Complete
  <1>4. ASSUME NEW n \in 0..C - 1, n \in P  PROVE n + 1 \in P
    <2>1. n \in Nat /\ n + 1 \in 0..C /\ Complete(tags, n, f[n]) /\ f[n + 1] \in Nested
      BY <1>1, <1>6, <1>4, Numbered
    <2>. DEFINE nested == f[n]
    <2>2. f[n + 1] = [visit \in Walks \X Tags |-> Visit(tags, visit[1], visit[2], nested)]
      BY <1>6, Zenon
    <2>3. Complete(tags, n, nested)
      BY <2>1
    <2>. HIDE DEF nested
    <2>4. ASSUME NEW w \in Walks, NEW t \in Tags, Cardinality(Tags \ w.seen) <= n + 1
          PROVE  Walked(tags, w, t, f[n + 1][<<w, t>>])
      <3>1. f[n + 1][<<w, t>>] = Visit(tags, w, t, nested)
        BY <2>2
      <3>2. ASSUME t \in w.seen  PROVE Walked(tags, w, t, Visit(tags, w, t, nested))
        BY <3>2, VisitSeen, SeenIsWalked
      <3>3. ASSUME t \notin w.seen  PROVE Walked(tags, w, t, Visit(tags, w, t, nested))
        BY <2>1, <2>3, <2>4, <3>3, VisitWalked
      <3>. QED BY <3>1, <3>2, <3>3
    <2>5. Complete(tags, n + 1, f[n + 1])
      BY <2>1, <2>4, Zenon DEF Complete
    <2>. QED BY <2>1, <2>5
  <1>5. C \in P
    <2>1. \A n \in 0..C : n \in P
      <3>. HIDE DEF P
      <3>. QED BY <1>1, <1>3, <1>4, InductionUpTo
    <2>. QED BY <1>1, <2>1, Numbered
  <1>. QED BY <1>6, <1>5 DEF C

(* A tag stands for the items of the tags that can be reached from it.        *)
LEMMA ResolvedIsReached ==
    ASSUME tagFiles \in Seq(TagFiles), NEW t \in Tags
    PROVE  /\ Range(ResolveTag(TagMap, t)) = (UNION {Direct(u) : u \in Reach(t)}) \ Tags
           /\ IsInjective(ResolveTag(TagMap, t))
  <1>. DEFINE start == [out |-> <<>>, seen |-> {}]
              tags == TagMap
              r == Walk(tags)[<<start, t>>]
  <1>1. tags \in Lists /\ \A u \in Tags : Range(tags[u]) = Direct(u)
    BY MergedIsDirect
  <1>2. start \in Walks /\ Range(start.out) = {} /\ start.seen = {} /\ IsInjective(start.out)
    BY DEF Walks, Range, IsInjective
  <1>3. Cardinality(Tags \ start.seen) <= Cardinality(Tags)
    BY CostAssumption, FS_CardinalityType
  <1>. HIDE DEF tags, start
  <1>4. Walked(tags, start, t, r)
    <2>1. Complete(tags, Cardinality(Tags), Walk(tags))
      BY <1>1, WalkComplete
    <2>. QED BY <1>2, <1>3, <2>1 DEF Complete
  <1>5. r.out = ResolveTag(TagMap, t)
    BY DEF ResolveTag, r, tags, start
  <1>. HIDE DEF r
  <1>6. /\ r \in Walks /\ t \in r.seen /\ IsInjective(r.out)
        /\ \A u \in r.seen : Range(tags[u]) \subseteq r.seen \cup Range(r.out)
        /\ \A S \in SUBSET Tags : t \in S /\ LeadsIn(tags, S) =>
              r.seen \subseteq S /\ Range(r.out) \subseteq Listed(tags, S)
    <2>1. r \in Walks /\ t \in r.seen /\ IsInjective(r.out)
      BY <1>2, <1>4 DEF Walked, Within
    <2>2. \A u \in r.seen : Range(tags[u]) \subseteq r.seen \cup Range(r.out)
      BY <1>2, <1>4 DEF Walked
    <2>3. ASSUME NEW S \in SUBSET Tags, t \in S, LeadsIn(tags, S)
          PROVE  r.seen \subseteq S /\ Range(r.out) \subseteq Listed(tags, S)
      <3>1. /\ r.seen \subseteq start.seen \cup S
            /\ Range(r.out) \subseteq Range(start.out) \cup Listed(tags, S)
        BY <1>4, <2>3, Zenon DEF Walked, Within
      <3>. QED BY <1>2, <3>1
    <2>. QED BY <2>1, <2>2, <2>3, Zenon
  <1>7. r.seen \subseteq Tags /\ Range(r.out) \cap Tags = {}
    <2>1. r.seen \subseteq Tags /\ r.out \in Seq(Things)
      BY <1>6 DEF Walks
    <2>2. Range(r.out) \subseteq Things
      BY <2>1 DEF Range
    <2>. QED BY <2>1, <2>2, CostAssumption
  <1>8. \A S \in SUBSET Tags : LeadsIn(tags, S) <=> LeadsInto(S)
    BY <1>1 DEF LeadsIn, LeadsInto
  <1>9. LeadsIn(tags, r.seen)
    BY <1>6, <1>7 DEF LeadsIn
  <1>10. Reach(t) = r.seen
    <2>1. Reach(t) \subseteq r.seen
      BY <1>6, <1>7, <1>8, <1>9 DEF Reach
    <2>2. r.seen \subseteq Reach(t)
      BY <1>6, <1>7, <1>8 DEF Reach
    <2>. QED BY <2>1, <2>2
  <1>11. Listed(tags, r.seen) = (UNION {Direct(u) : u \in r.seen}) \ Tags
    BY <1>1, <1>7 DEF Listed
  <1>12. Range(r.out) \subseteq Listed(tags, r.seen)
    BY <1>6, <1>7, <1>9
  <1>13. Listed(tags, r.seen) \subseteq Range(r.out)
    <2>. SUFFICES ASSUME NEW x \in Listed(tags, r.seen)  PROVE x \in Range(r.out)
      OBVIOUS
    <2>1. x \notin Tags /\ \E u \in r.seen : x \in Range(tags[u])
      BY Zenon DEF Listed
    <2>2. x \in r.seen \cup Range(r.out)
      BY <1>6, <2>1, Zenon
    <2>. QED BY <1>7, <2>1, <2>2
  <1>14. Range(r.out) = (UNION {Direct(u) : u \in Reach(t)}) \ Tags
    BY <1>10, <1>11, <1>12, <1>13
  <1>. QED BY <1>5, <1>6, <1>14

(* Every question is one of files or of recipes, and stays as it was asked.   *)
LEMMA Asked == CostSpec => []DeskInv
  <1>1. CostInit => DeskInv
    <2>. SUFFICES ASSUME CostInit  PROVE DeskInv
      OBVIOUS
    <2>. PICK some \in Things :
           \/ /\ question = "tags" /\ tagFiles \in BoundedSeq(TagFiles, MaxTagFiles)
              /\ rules = [i \in Things |-> Raw] /\ target = some /\ count = 1
           \/ /\ question = "cost" /\ rules \in [Things -> Rules] /\ target = some
              /\ rules[some] # Raw
              /\ count \in Amounts /\ tagFiles = <<>>
      BY DEF CostInit
    <2>1. ASSUME tagFiles \in BoundedSeq(TagFiles, MaxTagFiles)
          PROVE  tagFiles \in Seq(TagFiles)
      <3>1. PICK n \in 0..MaxTagFiles : tagFiles \in [1..n -> TagFiles]
        BY <2>1 DEF BoundedSeq, SeqOf
      <3>2. n \in Nat
        OBVIOUS
      <3>. QED BY <3>1, <3>2, SeqDef
    <2>. QED BY <2>1, CostAssumption DEF DeskInv
  <1>2. DeskInv /\ [FALSE]_desk => DeskInv'
    BY DEF DeskInv, desk
  <1>. QED BY <1>1, <1>2, PTL DEF CostSpec

(* Whatever the files, in whatever order, however their tags nest and however  *)
(* they go round: a tag stands for the items that can be reached from it       *)
(* through the files that count, each once (crafting.py:533-583).            *)
THEOREM TagsAreWhatFilesSay == CostSpec => []TagsMeanTheirFiles
  <1>1. DeskInv => TagsMeanTheirFiles
    BY ResolvedIsReached DEF DeskInv, TagsMeanTheirFiles
  <1>. QED BY <1>1, Asked, PTL

(* Whatever the recipes, in cycles and at any depth limit, and whatever the    *)
(* number of crafts asked for: what is bought and crafted of each item is what *)
(* is used and left of it, and less than one craft of it is left             *)
(* (crafting.py:919-993).                                                   *)
THEOREM BooksAlwaysBalance == CostSpec => []CostBalanced
  <1>. QED BY BooksBalance, Asked, PTL

================================================================================
