------------------------------- MODULE DataTheorems -------------------------------
(***************************************************************************)
(* Facts about data that the proofs share.  The library's induction          *)
(* theorems quantify over a predicate; here a predicate is the set of what    *)
(* has it, so that induction is a fact of first-order logic.                 *)
(***************************************************************************)
EXTENDS Integers, Sequences, FiniteSetsExt, Functions, WellFoundedInduction, FiniteSetTheorems,
        TLAPS

(* A set of numbers that is not empty has a least one. *)
LEMMA LeastNumber ==
    ASSUME NEW S \in SUBSET Nat, S # {}
    PROVE  \E n \in S : \A m \in S : n <= m
  <1>1. PICK n \in S : \A m \in S : ~(<<m, n>> \in OpToRel(<, Nat))
    BY NatLessThanWellFounded, WFMin, Zenon
  <1>2. \A m \in S : ~(m < n)
    BY <1>1 DEF OpToRel
  <1>. QED BY <1>2

(* What holds of 0, and of each number if of the one before, holds of all. *)
LEMMA Induction ==
    ASSUME NEW S, 0 \in S, \A n \in Nat : n \in S => n + 1 \in S
    PROVE  \A n \in Nat : n \in S
  <1>. DEFINE out == {n \in Nat : n \notin S}
  <1>. SUFFICES ASSUME out # {} PROVE FALSE
    OBVIOUS
  <1>1. PICK n \in out : \A m \in out : n <= m
    BY LeastNumber
  <1>2. n # 0 /\ n - 1 \in Nat
    BY <1>1
  <1>3. n - 1 \in S
    BY <1>1, <1>2
  <1>. QED BY <1>1, <1>2, <1>3

(* The same up to a bound. *)
LEMMA InductionUpTo ==
    ASSUME NEW N \in Nat, NEW S, 0 \in S, \A n \in 0..N - 1 : n \in S => n + 1 \in S
    PROVE  \A n \in 0..N : n \in S
  <1>. DEFINE T == {n \in Nat : n <= N => n \in S}
  <1>1. 0 \in T /\ \A n \in Nat : n \in T => n + 1 \in T
    OBVIOUS
  <1>2. \A n \in Nat : n \in T
    <2>. HIDE DEF T
    <2>. QED BY <1>1, Induction
  <1>. QED BY <1>2

(* What holds of no elements, and with one more if without it, holds of a      *)
(* finite set.                                                             *)
LEMMA SetInduction ==
    ASSUME NEW A, IsFiniteSet(A), NEW P, {} \in P,
           \A T \in SUBSET A : \A x \in A \ T : T \in P => T \cup {x} \in P
    PROVE  A \in P
  <1>. DEFINE S == {n \in Nat : \A T \in SUBSET A : Cardinality(T) = n => T \in P}
  <1>1. \A T \in SUBSET A : IsFiniteSet(T) /\ Cardinality(T) \in Nat
    BY FS_Subset, FS_CardinalityType
  <1>2. 0 \in S
    BY <1>1, FS_EmptySet
  <1>3. ASSUME NEW n \in Nat, n \in S PROVE n + 1 \in S
    <2>1. SUFFICES ASSUME NEW T \in SUBSET A, Cardinality(T) = n + 1 PROVE T \in P
      OBVIOUS
    <2>2. T # {}
      <3>1. Cardinality({}) = 0
        BY FS_EmptySet
      <3>2. n + 1 # 0
        OBVIOUS
      <3>. QED BY <2>1, <3>1, <3>2
    <2>3. PICK x \in T : TRUE
      BY <2>2
    <2>4. Cardinality(T \ {x}) = n
      <3>1. IsFiniteSet(T)
        BY <1>1
      <3>2. Cardinality(T \ {x}) = Cardinality(T) - 1
        BY <2>3, <3>1, FS_RemoveElement, Zenon
      <3>. HIDE DEF S
      <3>. QED BY <2>1, <3>2
    <2>5. T \ {x} \in P
      BY <1>3, <2>4
    <2>6. T = (T \ {x}) \cup {x}
      BY <2>3
    <2>. QED BY <2>3, <2>5, <2>6
  <1>4. \A n \in Nat : n \in S
    <2>. HIDE DEF S
    <2>. QED BY <1>2, <1>3, Induction
  <1>. QED BY <1>1, <1>4

--------------------------------------------------------------------------------

(* A value of D made in N steps, each from the one before, and all of them. *)
Made(g, N, D, base, step) ==
    g \in [0..N -> D] /\ g[0] = base /\ \A n \in 1..N : g[n] = step[n][g[n - 1]]

(* There is one. *)
LEMMA Steps ==
    ASSUME NEW N \in Nat, NEW D, NEW base \in D, NEW step \in [1..N -> [D -> D]]
    PROVE  \E g : Made(g, N, D, base, step)
  <1>. DEFINE Is(g, k) == g[0] = base /\ \A n \in 1..k : g[n] = step[n][g[n - 1]]
              S == {k \in 0..N : \E g \in [0..k -> D] : Is(g, k)}
  <1>1. 0 \in S
    <2>1. [i \in 0..0 |-> base] \in [0..0 -> D] /\ Is([i \in 0..0 |-> base], 0)
      OBVIOUS
    <2>2. 0 \in 0..N
      OBVIOUS
    <2>. HIDE DEF Is
    <2>. QED BY <2>1, <2>2
  <1>2. ASSUME NEW k \in 0..N - 1, k \in S PROVE k + 1 \in S
    <2>1. PICK g \in [0..k -> D] : Is(g, k)
      BY <1>2
    <2>. DEFINE h == [n \in 0..k + 1 |-> IF n <= k THEN g[n] ELSE step[k + 1][g[k]]]
    <2>2. g[k] \in D /\ k + 1 \in 1..N
      BY <2>1
    <2>3. step[k + 1][g[k]] \in D
      BY <2>2
    <2>4. h \in [0..k + 1 -> D]
      BY <2>3
    <2>5. h[0] = base
      BY <2>1
    <2>6. ASSUME NEW n \in 1..k + 1 PROVE h[n] = step[n][h[n - 1]]
      <3>1. CASE n <= k
        BY <2>1, <3>1
      <3>2. CASE n = k + 1
        BY <3>2
      <3>. QED BY <3>1, <3>2
    <2>7. Is(h, k + 1)
      BY <2>5, <2>6
    <2>. HIDE DEF h, Is
    <2>. QED BY <2>4, <2>7
  <1>3. \A k \in 0..N : k \in S
    <2>. HIDE DEF S
    <2>. QED BY <1>1, <1>2, InductionUpTo
  <1>. QED BY <1>3 DEF Made

(* The steps and their numbers. *)
LEMMA Numbered ==
    ASSUME NEW N \in Nat
    PROVE  /\ \A n \in 0..N - 1 : /\ n \in Nat /\ n \in 0..N /\ n + 1 \in 0..N /\ n + 1 \in 1..N
                                 /\ n + 1 # 0 /\ (n + 1) - 1 = n
           /\ \A n \in 1..N : n \in 0..N /\ n - 1 \in 0..N /\ n # 0
           /\ \A n \in 0..N : n = 0 \/ n \in 1..N
           /\ 0 \in 0..N /\ N \in 0..N
  OBVIOUS

(* Who begins alike and goes on alike is alike. *)
LEMMA Agree ==
    ASSUME NEW N \in Nat, NEW g, NEW h, g[0] = h[0],
           \A n \in 0..N - 1 : g[n] = h[n] => g[n + 1] = h[n + 1]
    PROVE  \A n \in 0..N : g[n] = h[n]
  <1>. DEFINE S == {n \in 0..N : g[n] = h[n]}
  <1>1. 0 \in S /\ \A n \in 0..N - 1 : n \in S => n + 1 \in S
    BY Numbered
  <1>2. \A n \in 0..N : n \in S
    <2>. HIDE DEF S
    <2>. QED BY <1>1, InductionUpTo
  <1>. QED BY <1>2

--------------------------------------------------------------------------------
(* Sums over finite sets.  SumFunctionOnSet adds in an order that CHOOSE        *)
(* picks; Adds says of g that it holds the sums of all subsets.               *)

One(s) == CHOOSE x \in s : TRUE
Adds(g, f, S) ==
    g = [s \in SUBSET S |-> IF s = {} THEN 0 ELSE f[One(s)] + g[s \ {One(s)}]]
Whole(f, S) == IsFiniteSet(S) /\ \A x \in S : f[x] \in Int

(* What is chosen of a set is in it, and without it the set is smaller. *)
LEMMA Chosen ==
    ASSUME NEW s, IsFiniteSet(s), s # {}
    PROVE  /\ One(s) \in s /\ IsFiniteSet(s \ {One(s)})
           /\ Cardinality(s \ {One(s)}) = Cardinality(s) - 1
  <1>1. One(s) \in s  BY DEF One
  <1>2. IsFiniteSet(s \ {One(s)})  BY FS_Subset
  <1>3. Cardinality(s \ {One(s)}) = Cardinality(s) - 1  BY <1>1, FS_RemoveElement, Zenon
  <1>. QED BY <1>1, <1>2, <1>3

(* There are such sums. *)
LEMMA SumsExist ==
    ASSUME NEW f, NEW S, Whole(f, S)
    PROVE  \E g \in [SUBSET S -> Int] : Adds(g, f, S)
  <1>. DEFINE Small(n) == {s \in SUBSET S : Cardinality(s) <= n}
              Is(g, n) == /\ g \in [Small(n) -> Int]
                          /\ \A s \in Small(n) :
                                g[s] = IF s = {} THEN 0 ELSE f[One(s)] + g[s \ {One(s)}]
              N == {n \in Nat : \E g : Is(g, n)}
  <1>1. \A s \in SUBSET S : IsFiniteSet(s) /\ Cardinality(s) \in Nat
    BY FS_Subset, FS_CardinalityType DEF Whole
  <1>2. \A s \in SUBSET S : Cardinality(s) = 0 <=> s = {}
    BY <1>1, FS_EmptySet
  <1>3. 0 \in N
    <2>1. Small(0) = {{}}  BY <1>1, <1>2
    <2>2. Is([s \in Small(0) |-> 0], 0)  BY <2>1
    <2>. HIDE DEF Is
    <2>. QED BY <2>2
  <1>4. ASSUME NEW n \in Nat, n \in N PROVE n + 1 \in N
    <2>1. PICK g : Is(g, n)  BY <1>4
    <2>. DEFINE h == [s \in Small(n + 1) |-> IF s = {} THEN 0
                                             ELSE f[One(s)] + g[s \ {One(s)}]]
    <2>2. ASSUME NEW s \in Small(n + 1), s # {}
          PROVE  One(s) \in S /\ s \ {One(s)} \in Small(n) /\ s \ {One(s)} \in Small(n + 1)
      <3>1. IsFiniteSet(s) /\ Cardinality(s) \in Nat  BY <1>1
      <3>2. One(s) \in s /\ Cardinality(s \ {One(s)}) = Cardinality(s) - 1
        BY <2>2, <3>1, Chosen
      <3>. QED BY <3>1, <3>2
    <2>3. h \in [Small(n + 1) -> Int]
      BY <2>1, <2>2 DEF Whole
    <2>4. ASSUME NEW s \in Small(n + 1), s \in Small(n) PROVE h[s] = g[s]
      BY <2>1, <2>4
    <2>5. ASSUME NEW s \in Small(n + 1)
          PROVE  h[s] = IF s = {} THEN 0 ELSE f[One(s)] + h[s \ {One(s)}]
      <3>1. CASE s = {}  BY <3>1
      <3>2. CASE s # {}
        <4>1. h[s \ {One(s)}] = g[s \ {One(s)}]  BY <2>2, <2>4, <3>2
        <4>2. h[s] = f[One(s)] + g[s \ {One(s)}]  BY <3>2
        <4>. HIDE DEF h
        <4>. QED BY <3>2, <4>1, <4>2
      <3>. QED BY <3>1, <3>2
    <2>6. Is(h, n + 1)
      <3>. HIDE DEF h
      <3>. QED BY <2>3, <2>5
    <2>. HIDE DEF Is, h
    <2>. QED BY <2>6
  <1>5. \A n \in Nat : n \in N
    <2>. HIDE DEF N
    <2>. QED BY <1>3, <1>4, Induction
  <1>6. Cardinality(S) \in Nat  BY <1>1
  <1>7. PICK g : Is(g, Cardinality(S))  BY <1>5, <1>6
  <1>8. Small(Cardinality(S)) = SUBSET S
    BY FS_Subset DEF Whole
  <1>9. g \in [SUBSET S -> Int] /\ Adds(g, f, S)
    <2>1. g \in [SUBSET S -> Int]  BY <1>7, <1>8
    <2>2. \A s \in SUBSET S : g[s] = IF s = {} THEN 0 ELSE f[One(s)] + g[s \ {One(s)}]
      BY <1>7, <1>8
    <2>. HIDE DEF Is, Small
    <2>. QED BY <2>1, <2>2 DEF Adds
  <1>. QED BY <1>9


(* Two that hold the sums agree, as far as both go. *)
LEMMA SumsUnique ==
    ASSUME NEW f, NEW S, Whole(f, S), NEW T \in SUBSET S, NEW g, Adds(g, f, S), NEW h, Adds(h, f, T)
    PROVE  \A s \in SUBSET T : g[s] = h[s]
  <1>. DEFINE N == {n \in Nat : \A s \in SUBSET T : Cardinality(s) = n => g[s] = h[s]}
  <1>1. \A s \in SUBSET T : IsFiniteSet(s) /\ Cardinality(s) \in Nat
    BY FS_Subset, FS_CardinalityType DEF Whole
  <1>2. \A s \in SUBSET T :
            /\ g[s] = IF s = {} THEN 0 ELSE f[One(s)] + g[s \ {One(s)}]
            /\ h[s] = IF s = {} THEN 0 ELSE f[One(s)] + h[s \ {One(s)}]
    BY DEF Adds
  <1>3. 0 \in N
    BY <1>1, <1>2, FS_EmptySet
  <1>4. ASSUME NEW n \in Nat, n \in N PROVE n + 1 \in N
    <2>1. SUFFICES ASSUME NEW s \in SUBSET T, Cardinality(s) = n + 1 PROVE g[s] = h[s]
      OBVIOUS
    <2>2. s # {}
      <3>1. Cardinality({}) = 0  BY FS_EmptySet
      <3>2. n + 1 # 0  OBVIOUS
      <3>. QED BY <2>1, <3>1, <3>2
    <2>3. Cardinality(s \ {One(s)}) = n
      <3>1. Cardinality(s \ {One(s)}) = Cardinality(s) - 1  BY <1>1, <2>2, Chosen
      <3>. HIDE DEF N
      <3>. QED BY <2>1, <3>1
    <2>4. g[s \ {One(s)}] = h[s \ {One(s)}]  BY <1>4, <2>3
    <2>. QED BY <1>2, <2>2, <2>4
  <1>5. \A n \in Nat : n \in N
    <2>. HIDE DEF N
    <2>. QED BY <1>3, <1>4, Induction
  <1>. QED BY <1>1, <1>5

(* The sum is what such a function holds. *)
LEMMA SumIs ==
    ASSUME NEW f, NEW S, Whole(f, S), NEW g, Adds(g, f, S)
    PROVE  SumFunctionOnSet(f, S) = g[S]
  <1>. DEFINE Eq(h) == h = [s \in SUBSET S |-> IF s = {} THEN 0
                               ELSE LET x == CHOOSE x \in s : TRUE IN f[x] + h[s \ {x}]]
              iter == CHOOSE h : Eq(h)
  <1>1. Eq(g)  BY DEF Adds, One
  <1>2. Eq(iter)
    <2>. HIDE DEF Eq
    <2>. QED BY <1>1, Zenon
  <1>3. SumFunctionOnSet(f, S) = iter[S]
    BY Zenon DEF SumFunctionOnSet, FoldFunctionOnSet, MapThenFoldSet
  <1>4. Adds(iter, f, S)
    <2>1. iter = [s \in SUBSET S |-> IF s = {} THEN 0
                               ELSE LET x == CHOOSE x \in s : TRUE IN f[x] + iter[s \ {x}]]
      BY <1>2
    <2>. HIDE DEF iter
    <2>. QED BY <2>1 DEF Adds, One
  <1>5. iter[S] = g[S]
    <2>. HIDE DEF iter
    <2>. QED BY <1>4, SumsUnique
  <1>. QED BY <1>3, <1>5


(* One function holds the sums of all subsets. *)
LEMMA SumsHeld ==
    ASSUME NEW f, NEW S, Whole(f, S)
    PROVE  \E g \in [SUBSET S -> Int] :
              /\ Adds(g, f, S)
              /\ \A T \in SUBSET S : SumFunctionOnSet(f, T) = g[T]
  <1>1. PICK g \in [SUBSET S -> Int] : Adds(g, f, S)  BY SumsExist
  <1>2. ASSUME NEW T \in SUBSET S PROVE SumFunctionOnSet(f, T) = g[T]
    <2>1. Whole(f, T)  BY FS_Subset DEF Whole
    <2>2. PICK h : Adds(h, f, T)  BY <2>1, SumsExist
    <2>3. SumFunctionOnSet(f, T) = h[T]  BY <2>1, <2>2, SumIs
    <2>4. \A s \in SUBSET T : g[s] = h[s]
      <3>. HIDE DEF Whole, Adds
      <3>. QED BY <1>1, <2>2, SumsUnique
    <2>5. g[T] = h[T]  BY <2>4
    <2>. QED BY <2>3, <2>5
  <1>. QED BY <1>1, <1>2

(* A sum is a number; nothing adds up to zero; and any element may be the one  *)
(* that is added last.                                                      *)
LEMMA SumNothing ==
    ASSUME NEW f
    PROVE  SumFunctionOnSet(f, {}) = 0
  <1>1. Whole(f, {})  BY FS_EmptySet DEF Whole
  <1>2. PICK g \in [SUBSET {} -> Int] : Adds(g, f, {}) /\ SumFunctionOnSet(f, {}) = g[{}]
    BY <1>1, SumsHeld
  <1>. QED BY <1>2 DEF Adds

LEMMA SumInt ==
    ASSUME NEW f, NEW S, Whole(f, S)
    PROVE  SumFunctionOnSet(f, S) \in Int
  <1>1. PICK g \in [SUBSET S -> Int] :
              /\ Adds(g, f, S)
              /\ \A T \in SUBSET S : SumFunctionOnSet(f, T) = g[T]
    BY SumsHeld
  <1>. QED BY <1>1

LEMMA SumRemove ==
    ASSUME NEW f, NEW S, Whole(f, S), NEW y \in S
    PROVE  SumFunctionOnSet(f, S) = f[y] + SumFunctionOnSet(f, S \ {y})
  <1>1. PICK g \in [SUBSET S -> Int] :
              /\ Adds(g, f, S)
              /\ \A T \in SUBSET S : SumFunctionOnSet(f, T) = g[T]
    BY SumsHeld
  <1>. DEFINE N == {n \in Nat : \A s \in SUBSET S : \A x \in s :
                        Cardinality(s) = n => g[s] = f[x] + g[s \ {x}]}
  <1>2. \A s \in SUBSET S : IsFiniteSet(s) /\ Cardinality(s) \in Nat
    BY FS_Subset, FS_CardinalityType DEF Whole
  <1>3. \A s \in SUBSET S : s # {} => One(s) \in s /\ g[s] = f[One(s)] + g[s \ {One(s)}]
    BY <1>1, <1>2, Chosen DEF Adds
  <1>4. 0 \in N
    BY <1>2, FS_EmptySet
  <1>5. ASSUME NEW n \in Nat, n \in N PROVE n + 1 \in N
    <2>1. SUFFICES ASSUME NEW s \in SUBSET S, NEW x \in s, Cardinality(s) = n + 1
                   PROVE  g[s] = f[x] + g[s \ {x}]
      OBVIOUS
    <2>. DEFINE c == One(s)
    <2>2. c \in s /\ g[s] = f[c] + g[s \ {c}]  BY <1>3
    <2>3. CASE x = c  BY <2>2, <2>3
    <2>4. CASE x # c
      <3>1. Cardinality(s \ {c}) = n /\ Cardinality(s \ {x}) = n
        <4>1. /\ Cardinality(s \ {c}) = Cardinality(s) - 1
              /\ Cardinality(s \ {x}) = Cardinality(s) - 1
          BY <1>2, <2>2, FS_RemoveElement, Zenon
        <4>. HIDE DEF N, c
        <4>. QED BY <2>1, <4>1
      <3>2. x \in s \ {c} /\ c \in s \ {x} /\ (s \ {c}) \ {x} = (s \ {x}) \ {c}
        BY <2>2, <2>4
      <3>3. g[s \ {c}] = f[x] + g[(s \ {x}) \ {c}]  BY <1>5, <3>1, <3>2
      <3>4. g[s \ {x}] = f[c] + g[(s \ {x}) \ {c}]  BY <1>5, <3>1, <3>2
      <3>5. f[x] \in Int /\ f[c] \in Int /\ g[(s \ {x}) \ {c}] \in Int
        BY <1>1, <2>2 DEF Whole
      <3>. DEFINE k == g[(s \ {x}) \ {c}]
      <3>6. g[s] = f[c] + (f[x] + k)  BY <2>2, <3>3, Zenon
      <3>7. g[s \ {x}] = f[c] + k  BY <3>4
      <3>8. f[c] + (f[x] + k) = f[x] + (f[c] + k)
        <4>. HIDE DEF N, c, k
        <4>. QED BY <3>5 DEF k
      <3>. QED BY <3>6, <3>7, <3>8, Zenon
    <2>. QED BY <2>3, <2>4
  <1>6. \A n \in Nat : n \in N
    <2>. HIDE DEF N
    <2>. QED BY <1>4, <1>5, Induction
  <1>7. g[S] = f[y] + g[S \ {y}]
    BY <1>2, <1>6
  <1>. QED BY <1>1, <1>7

(* Functions that agree have the same sum; what is less adds up to less. *)
LEMMA SumSame ==
    ASSUME NEW f, NEW h, NEW S, Whole(f, S), \A x \in S : f[x] = h[x]
    PROVE  SumFunctionOnSet(f, S) = SumFunctionOnSet(h, S)
  <1>. DEFINE P == {T \in SUBSET S : SumFunctionOnSet(f, T) = SumFunctionOnSet(h, T)}
  <1>1. {} \in P  BY SumNothing
  <1>2. ASSUME NEW T \in SUBSET S, NEW x \in S \ T, T \in P PROVE T \cup {x} \in P
    <2>. DEFINE U == T \cup {x}
    <2>1. Whole(f, U) /\ Whole(h, U) /\ x \in U /\ U \ {x} = T /\ U \in SUBSET S
      BY FS_Subset DEF Whole
    <2>2. SumFunctionOnSet(f, U) = f[x] + SumFunctionOnSet(f, T)
      <3>. HIDE DEF U
      <3>. QED BY <2>1, SumRemove
    <2>3. SumFunctionOnSet(h, U) = h[x] + SumFunctionOnSet(h, T)
      <3>. HIDE DEF U
      <3>. QED BY <2>1, SumRemove
    <2>. QED BY <1>2, <2>1, <2>2, <2>3
  <1>3. S \in P
    <2>. HIDE DEF P
    <2>. QED BY <1>1, <1>2, SetInduction DEF Whole
  <1>. QED BY <1>3

LEMMA SumLess ==
    ASSUME NEW f, NEW h, NEW S, Whole(f, S), Whole(h, S), \A x \in S : f[x] <= h[x]
    PROVE  SumFunctionOnSet(f, S) <= SumFunctionOnSet(h, S)
  <1>. DEFINE P == {T \in SUBSET S : SumFunctionOnSet(f, T) <= SumFunctionOnSet(h, T)}
  <1>1. {} \in P  BY SumNothing
  <1>2. ASSUME NEW T \in SUBSET S, NEW x \in S \ T, T \in P PROVE T \cup {x} \in P
    <2>. DEFINE U == T \cup {x}
    <2>1. Whole(f, U) /\ Whole(h, U) /\ x \in U /\ U \ {x} = T /\ U \in SUBSET S
      BY FS_Subset DEF Whole
    <2>2. SumFunctionOnSet(f, U) = f[x] + SumFunctionOnSet(f, T)
      <3>. HIDE DEF U
      <3>. QED BY <2>1, SumRemove
    <2>3. SumFunctionOnSet(h, U) = h[x] + SumFunctionOnSet(h, T)
      <3>. HIDE DEF U
      <3>. QED BY <2>1, SumRemove
    <2>4. /\ SumFunctionOnSet(f, T) \in Int /\ SumFunctionOnSet(h, T) \in Int
          /\ f[x] \in Int /\ h[x] \in Int /\ f[x] <= h[x]
      BY FS_Subset, SumInt DEF Whole
    <2>5. SumFunctionOnSet(f, T) <= SumFunctionOnSet(h, T)
      BY <1>2
    <2>. HIDE DEF P
    <2>6. SumFunctionOnSet(f, U) <= SumFunctionOnSet(h, U)
      BY <2>2, <2>3, <2>4, <2>5
    <2>. QED BY <2>1, <2>6 DEF P
  <1>3. S \in P
    <2>. HIDE DEF P
    <2>. QED BY <1>1, <1>2, SetInduction DEF Whole
  <1>. QED BY <1>3

(* Numbers that are not negative have such a sum. *)
LEMMA SumNat ==
    ASSUME NEW f, NEW S, IsFiniteSet(S), \A x \in S : f[x] \in Nat
    PROVE  SumFunctionOnSet(f, S) \in Nat
  <1>. DEFINE P == {T \in SUBSET S : SumFunctionOnSet(f, T) \in Nat}
  <1>1. {} \in P  BY SumNothing
  <1>2. ASSUME NEW T \in SUBSET S, NEW x \in S \ T, T \in P PROVE T \cup {x} \in P
    <2>. DEFINE U == T \cup {x}
    <2>1. Whole(f, U) /\ x \in U /\ U \ {x} = T /\ U \in SUBSET S
      BY FS_Subset DEF Whole
    <2>2. SumFunctionOnSet(f, U) = f[x] + SumFunctionOnSet(f, T)
      <3>. HIDE DEF U
      <3>. QED BY <2>1, SumRemove
    <2>. QED BY <1>2, <2>1, <2>2
  <1>3. S \in P
    <2>. HIDE DEF P
    <2>. QED BY <1>1, <1>2, SetInduction
  <1>. QED BY <1>3


--------------------------------------------------------------------------------
(* Arithmetic *)

(* The least of a set of numbers is in it, and is the least. *)
LEMMA MinIsLeast ==
    ASSUME NEW S \in SUBSET Nat, S # {}
    PROVE  Min(S) \in S /\ \A m \in S : Min(S) <= m
  <1>1. PICK n \in S : \A m \in S : n <= m  BY LeastNumber
  <1>. QED BY <1>1 DEF Min

(* How often a number goes into another. *)
LEMMA Division ==
    ASSUME NEW p \in Nat \ {0}, NEW x \in Nat
    PROVE  /\ x \div p \in Nat /\ p * (x \div p) <= x
           /\ \A n \in Nat : n <= x \div p <=> p * n <= x
           /\ (p * x) \div p = x
  <1>1. x = p * (x \div p) + (x % p) /\ x % p \in 0..p - 1 /\ x \div p \in Int
    OBVIOUS
  <1>. DEFINE q == x \div p
              m == x % p
  <1>2. q \in Int /\ m \in 0..p - 1 /\ x = p * q + m
    BY <1>1
  <1>. HIDE DEF q, m
  <1>3. q >= 0
    <2>. SUFFICES ASSUME q <= -1 PROVE FALSE
      BY <1>2
    <2>1. p * q <= p * (-1)
      BY <1>2
    <2>. QED BY <1>2, <2>1
  <1>4. p * q <= x
    BY <1>2
  <1>5. ASSUME NEW n \in Nat PROVE n <= q <=> p * n <= x
    <2>1. CASE n <= q
      <3>1. p * n <= p * q
        BY <1>2, <2>1
      <3>. QED BY <1>4, <2>1, <3>1, <1>2
    <2>2. CASE n >= q + 1
      <3>1. p * n >= p * (q + 1)
        BY <1>2, <2>2
      <3>2. p * (q + 1) = p * q + p
        BY <1>2
      <3>. QED BY <1>2, <2>2, <3>1, <3>2
    <2>. QED BY <1>2, <2>1, <2>2
  <1>6. (p * x) \div p = x
    OBVIOUS
  <1>. QED BY <1>2, <1>3, <1>4, <1>5, <1>6 DEF q


(* A factor that is not zero may be left out. *)
LEMMA Cancelled ==
    ASSUME NEW p \in Nat \ {0}, NEW x \in Nat, NEW y \in Nat, p * x <= p * y
    PROVE  x <= y
  <1>1. p * y \in Nat  OBVIOUS
  <1>2. x <= (p * y) \div p <=> p * x <= p * y  BY <1>1, Division
  <1>3. (p * y) \div p = y  BY Division
  <1>. QED BY <1>2, <1>3


(* The same with something in between. *)
LEMMA Squeezed ==
    ASSUME NEW p \in Nat \ {0}, NEW x \in Nat, NEW y \in Nat, NEW z \in Nat, p * x <= z, z <= p * y
    PROVE  x <= y
  <1>1. p * x \in Nat /\ p * y \in Nat  OBVIOUS
  <1>2. p * x <= p * y  BY <1>1
  <1>. QED BY <1>2, Cancelled

(* More times is more. *)
LEMMA Scaled ==
    ASSUME NEW p \in Nat, NEW x \in Nat, NEW y \in Nat, x <= y
    PROVE  p * x <= p * y
  OBVIOUS


--------------------------------------------------------------------------------
(* Recursion over finite sets *)

(* What holds of a set if it does without one of its elements, and of the        *)
(* empty set, holds of every subset of a finite set.                         *)
LEMMA ShrinkInduction ==
    ASSUME NEW A, IsFiniteSet(A), NEW P, {} \in P,
           \A T \in SUBSET A : T # {} /\ (\E x \in T : T \ {x} \in P) => T \in P
    PROVE  \A T \in SUBSET A : T \in P
  <1>. DEFINE N == {n \in Nat : \A T \in SUBSET A : Cardinality(T) = n => T \in P}
  <1>1. \A T \in SUBSET A : IsFiniteSet(T) /\ Cardinality(T) \in Nat
    BY FS_Subset, FS_CardinalityType
  <1>2. 0 \in N
    BY <1>1, FS_EmptySet
  <1>3. ASSUME NEW n \in Nat, n \in N PROVE n + 1 \in N
    <2>1. SUFFICES ASSUME NEW T \in SUBSET A, Cardinality(T) = n + 1 PROVE T \in P
      OBVIOUS
    <2>2. T # {}
      <3>1. Cardinality({}) = 0 /\ n + 1 # 0  BY FS_EmptySet
      <3>. QED BY <2>1, <3>1
    <2>3. PICK x \in T : TRUE  BY <2>2
    <2>4. Cardinality(T \ {x}) = n
      <3>1. IsFiniteSet(T)  BY <1>1
      <3>2. Cardinality(T \ {x}) = Cardinality(T) - 1  BY <2>3, <3>1, FS_RemoveElement, Zenon
      <3>. HIDE DEF N
      <3>. QED BY <2>1, <3>2
    <2>5. T \ {x} \in P  BY <1>3, <2>4
    <2>. QED BY <2>2, <2>3, <2>5
  <1>4. \A n \in Nat : n \in N
    <2>. HIDE DEF N
    <2>. QED BY <1>2, <1>3, Induction
  <1>. QED BY <1>1, <1>4

(* Nothing adds up to nothing. *)
LEMMA SumZero ==
    ASSUME NEW f, NEW S, IsFiniteSet(S), \A x \in S : f[x] = 0
    PROVE  SumFunctionOnSet(f, S) = 0
  <1>. DEFINE P == {T \in SUBSET S : SumFunctionOnSet(f, T) = 0}
  <1>1. {} \in P
    BY SumNothing
  <1>2. ASSUME NEW T \in SUBSET S, T # {}, \E x \in T : T \ {x} \in P  PROVE T \in P
    <2>1. PICK x \in T : SumFunctionOnSet(f, T \ {x}) = 0
      BY <1>2
    <2>2. Whole(f, T)
      BY FS_Subset DEF Whole
    <2>3. SumFunctionOnSet(f, T) = f[x] + SumFunctionOnSet(f, T \ {x})
      BY <2>2, SumRemove
    <2>4. f[x] = 0
      OBVIOUS
    <2>. QED BY <2>1, <2>3, <2>4
  <1>3. \A T \in SUBSET S : T \in P
    <2>. HIDE DEF P
    <2>. QED BY <1>1, <1>2, ShrinkInduction
  <1>4. S \in P
    BY <1>3
  <1>. QED BY <1>4

(* Of finitely many things with numbers one has the greatest. *)
LEMMA Greatest ==
    ASSUME NEW S, IsFiniteSet(S), S # {}, NEW w \in [S -> Nat]
    PROVE  \E e \in S : \A f \in S : w[f] <= w[e]
  <1>. DEFINE P == {T \in SUBSET S : T # {} => \E e \in T : \A f \in T : w[f] <= w[e]}
  <1>1. {} \in P  OBVIOUS
  <1>2. ASSUME NEW T \in SUBSET S, NEW x \in S \ T, T \in P PROVE T \cup {x} \in P
    <2>1. CASE T = {}  BY <2>1
    <2>2. CASE T # {}
      <3>1. PICK e \in T : \A f \in T : w[f] <= w[e]  BY <1>2, <2>2
      <3>2. w[e] \in Nat /\ w[x] \in Nat /\ \A f \in T : w[f] \in Nat  OBVIOUS
      <3>3. CASE w[x] <= w[e]  BY <3>1, <3>2, <3>3
      <3>4. CASE ~(w[x] <= w[e])
        <4>1. \A f \in T \cup {x} : w[f] <= w[x]  BY <3>1, <3>2, <3>4
        <4>. QED BY <4>1
      <3>. QED BY <3>3, <3>4
    <2>. QED BY <2>1, <2>2
  <1>3. S \in P
    <2>. HIDE DEF P
    <2>. QED BY <1>1, <1>2, SetInduction
  <1>. QED BY <1>3

(* g is what a fold over the subsets of S computes, that takes out `one` of a   *)
(* set, and adds it by its `step` to the result for the rest.                *)
Folds(g, S, base, one, step) ==
    g = [s \in SUBSET S |-> IF s = {} THEN base ELSE step[one[s]][g[s \ {one[s]}]]]

(* There is such a function. *)
LEMMA FoldsExist ==
    ASSUME NEW S, IsFiniteSet(S), NEW D, NEW base \in D, NEW one, NEW step \in [S -> [D -> D]],
           \A s \in SUBSET S : s # {} => one[s] \in s
    PROVE  \E g \in [SUBSET S -> D] : Folds(g, S, base, one, step)
  <1>. DEFINE Small(n) == {s \in SUBSET S : Cardinality(s) <= n}
              Is(g, n) == /\ g \in [Small(n) -> D]
                          /\ \A s \in Small(n) :
                                g[s] = IF s = {} THEN base ELSE step[one[s]][g[s \ {one[s]}]]
              N == {n \in Nat : \E g : Is(g, n)}
  <1>1. \A s \in SUBSET S : IsFiniteSet(s) /\ Cardinality(s) \in Nat
    BY FS_Subset, FS_CardinalityType
  <1>2. \A s \in SUBSET S : Cardinality(s) = 0 <=> s = {}
    BY <1>1, FS_EmptySet
  <1>3. 0 \in N
    <2>1. Small(0) = {{}}  BY <1>1, <1>2
    <2>2. Is([s \in Small(0) |-> base], 0)  BY <2>1
    <2>. HIDE DEF Is
    <2>. QED BY <2>2
  <1>4. ASSUME NEW n \in Nat, n \in N PROVE n + 1 \in N
    <2>1. PICK g : Is(g, n)  BY <1>4
    <2>. DEFINE h == [s \in Small(n + 1) |-> IF s = {} THEN base
                                             ELSE step[one[s]][g[s \ {one[s]}]]]
    <2>2. ASSUME NEW s \in Small(n + 1), s # {}
          PROVE  one[s] \in S /\ s \ {one[s]} \in Small(n) /\ s \ {one[s]} \in Small(n + 1)
      <3>1. IsFiniteSet(s) /\ Cardinality(s) \in Nat /\ one[s] \in s  BY <1>1, <2>2
      <3>2. Cardinality(s \ {one[s]}) = Cardinality(s) - 1
        BY <3>1, FS_RemoveElement, Zenon
      <3>. QED BY <3>1, <3>2
    <2>3. h \in [Small(n + 1) -> D]
      <3>1. SUFFICES ASSUME NEW s \in Small(n + 1) PROVE h[s] \in D
        OBVIOUS
      <3>2. CASE s = {}  BY <3>2
      <3>3. CASE s # {}
        <4>1. one[s] \in S /\ g[s \ {one[s]}] \in D  BY <2>1, <2>2, <3>3
        <4>2. step[one[s]][g[s \ {one[s]}]] \in D  BY <4>1
        <4>. QED BY <3>3, <4>2
      <3>. QED BY <3>2, <3>3
    <2>4. ASSUME NEW s \in Small(n + 1), s \in Small(n) PROVE h[s] = g[s]
      BY <2>1, <2>4
    <2>5. ASSUME NEW s \in Small(n + 1)
          PROVE  h[s] = IF s = {} THEN base ELSE step[one[s]][h[s \ {one[s]}]]
      <3>1. CASE s = {}  BY <3>1
      <3>2. CASE s # {}
        <4>1. h[s \ {one[s]}] = g[s \ {one[s]}]  BY <2>2, <2>4, <3>2
        <4>2. h[s] = step[one[s]][g[s \ {one[s]}]]  BY <3>2
        <4>. HIDE DEF h
        <4>. QED BY <3>2, <4>1, <4>2
      <3>. QED BY <3>1, <3>2
    <2>6. Is(h, n + 1)
      <3>. HIDE DEF h
      <3>. QED BY <2>3, <2>5
    <2>. HIDE DEF Is, h
    <2>. QED BY <2>6
  <1>5. \A n \in Nat : n \in N
    <2>. HIDE DEF N
    <2>. QED BY <1>3, <1>4, Induction
  <1>6. Cardinality(S) \in Nat  BY <1>1
  <1>7. PICK g : Is(g, Cardinality(S))  BY <1>5, <1>6
  <1>8. Small(Cardinality(S)) = SUBSET S
    BY FS_Subset
  <1>9. g \in [SUBSET S -> D]  BY <1>7, <1>8
  <1>10. \A s \in SUBSET S : g[s] = IF s = {} THEN base ELSE step[one[s]][g[s \ {one[s]}]]
    BY <1>7, <1>8
  <1>11. Folds(g, S, base, one, step)
    <2>. HIDE DEF Is, Small
    <2>. QED BY <1>9, <1>10 DEF Folds
  <1>. QED BY <1>9, <1>11

================================================================================
