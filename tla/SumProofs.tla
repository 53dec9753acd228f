------------------------------ MODULE SumProofs ------------------------------
(***************************************************************************)
(* Lemmas about SumFunctionOnSet, the sum of a column over a finite set of *)
(* rows: its type, and what adding, removing and changing a row does to    *)
(* it.                                                                     *)
(*                                                                         *)
(* The induction theorems of the library take a predicate as parameter.    *)
(* Here a predicate on the subsets of a set is the set of the subsets that *)
(* satisfy it, and induction is the least element of a well-founded order. *)
(***************************************************************************)
EXTENDS Functions, Integers, FiniteSetTheorems, TLAPS

(* Induction on finite sets: a set C of subsets of S contains all of them  *)
(* if it contains every one whose proper subsets it contains.              *)
LEMMA SmallerFirst ==
  ASSUME NEW S, IsFiniteSet(S),
         NEW C,
         \A T \in SUBSET S : (\A U \in SUBSET T : U # T => U \in C) => T \in C
  PROVE  \A T \in SUBSET S : T \in C
<1> DEFINE Bad == {T \in SUBSET S : T \notin C}
<1>1. SUFFICES ASSUME Bad # {} PROVE FALSE
  OBVIOUS
<1>2. Bad \subseteq FiniteSubsetsOf(S)
  BY FS_Subset DEF FiniteSubsetsOf
<1>3. \E T \in Bad : \A U \in Bad : <<U, T>> \notin StrictSubsetOrdering(S)
  <2> HIDE DEF Bad
  <2> QED
    BY <1>1, <1>2, WFMin, FS_StrictSubsetOrderingWellFounded
<1>4. PICK T \in Bad : \A U \in Bad : <<U, T>> \notin StrictSubsetOrdering(S)
  BY <1>3
<1>5. ASSUME NEW U \in SUBSET T, U # T PROVE U \in C
  BY <1>4, <1>5 DEF StrictSubsetOrdering
<1> QED
  BY <1>4, <1>5

-----------------------------------------------------------------------------

(* The element whose value is added last.                                  *)
Chosen(S) == CHOOSE x \in S : TRUE

(* g gives the sums of f over all subsets of S.                            *)
Sums(f, g, S) ==
  g = [T \in SUBSET S |->
         IF T = {} THEN 0 ELSE f[Chosen(T)] + g[T \ {Chosen(T)}]]

(* The recursive function SumFunctionOnSet is defined by.                  *)
Unfolded(f, S) == CHOOSE g : Sums(f, g, S)

(* SumFunctionOnSet without its folds.                                     *)
LEMMA Unfolding ==
  ASSUME NEW f, NEW S PROVE SumFunctionOnSet(f, S) = Unfolded(f, S)[S]
BY DEF SumFunctionOnSet, FoldFunctionOnSet, MapThenFoldSet, Unfolded, Sums,
       Chosen

(* What remains of a set without its chosen element is smaller.            *)
LEMMA RestSmaller ==
  ASSUME NEW S, S # {}
  PROVE  Chosen(S) \in S /\ S \ {Chosen(S)} \in SUBSET S /\ S \ {Chosen(S)} # S
BY DEF Chosen

(* Sums over the subsets of T do not depend on the set T is a part of.     *)
LEMMA SumsAgree ==
  ASSUME NEW f, NEW S, IsFiniteSet(S), NEW T \in SUBSET S,
         NEW g, Sums(f, g, S), NEW h, Sums(f, h, T)
  PROVE  \A U \in SUBSET T : g[U] = h[U]
<1> DEFINE C == {U \in SUBSET T : g[U] = h[U]}
<1>1. ASSUME NEW U \in SUBSET T, \A V \in SUBSET U : V # U => V \in C
      PROVE  U \in C
  <2>1. CASE U = {}
    BY <2>1 DEF Sums
  <2>2. CASE U # {}
    <3>1. g[U \ {Chosen(U)}] = h[U \ {Chosen(U)}]
      BY <1>1, <2>2, RestSmaller
    <3>2. g[U] = f[Chosen(U)] + g[U \ {Chosen(U)}]
      BY <2>2 DEF Sums
    <3>3. h[U] = f[Chosen(U)] + h[U \ {Chosen(U)}]
      BY <2>2 DEF Sums
    <3> QED
      BY <3>1, <3>2, <3>3
  <2> QED
    BY <2>1, <2>2
<1>2. IsFiniteSet(T)
  BY FS_Subset
<1> HIDE DEF C
<1>3. \A U \in SUBSET T : U \in C
  BY <1>1, <1>2, SmallerFirst
<1> QED
  BY <1>3 DEF C

(* The recursion has a solution.                                           *)
LEMMA SumsExist ==
  ASSUME NEW f, NEW S, IsFiniteSet(S) PROVE Sums(f, Unfolded(f, S), S)
<1> DEFINE C == {T \in SUBSET S : \E g : Sums(f, g, T)}
           u(T) == Unfolded(f, T)[T]
<1>1. ASSUME NEW T \in SUBSET S, \A U \in SUBSET T : U # T => U \in C
      PROVE  T \in C
  <2> DEFINE value(U) == IF U = {} THEN 0 ELSE f[Chosen(U)] + u(U \ {Chosen(U)})
             g == [U \in SUBSET T |-> value(U)]
  <2>1. ASSUME NEW U \in SUBSET T, U # T PROVE Sums(f, Unfolded(f, U), U)
    BY <1>1, <2>1 DEF Unfolded
  <2>2. ASSUME NEW U \in SUBSET T, U # T PROVE u(U) = value(U)
    <3>1. Sums(f, Unfolded(f, U), U)
      BY <2>1, <2>2
    <3>2. CASE U = {}
      BY <3>1, <3>2 DEF Sums
    <3>3. CASE U # {}
      <4> DEFINE V == U \ {Chosen(U)}
      <4>1. V \in SUBSET U /\ V \in SUBSET T /\ V # T /\ IsFiniteSet(U)
        BY <3>3, RestSmaller, FS_Subset
      <4>2. Sums(f, Unfolded(f, V), V)
        BY <2>1, <4>1
      <4> HIDE DEF V
      <4>3. Unfolded(f, U)[V] = Unfolded(f, V)[V]
        BY <3>1, <4>1, <4>2, SumsAgree
      <4>4. Unfolded(f, U)[U] = f[Chosen(U)] + Unfolded(f, U)[V]
        BY <3>1, <3>3 DEF Sums, V
      <4> QED
        BY <3>3, <4>3, <4>4 DEF V
    <3> QED
      BY <3>2, <3>3
  <2>3. ASSUME NEW U \in SUBSET T, U # {}
        PROVE  g[U \ {Chosen(U)}] = u(U \ {Chosen(U)})
    <3> DEFINE V == U \ {Chosen(U)}
    <3>1. V \in SUBSET T /\ V # T
      BY <2>3, RestSmaller
    <3> HIDE DEF V
    <3>2. u(V) = value(V)
      BY <2>2, <3>1
    <3>3. g[V] = value(V)
      BY <3>1
    <3> QED
      BY <3>2, <3>3 DEF V
  <2>4. Sums(f, g, T)
    <3> HIDE DEF u
    <3>1. \A U \in SUBSET T :
            value(U) = IF U = {} THEN 0 ELSE f[Chosen(U)] + g[U \ {Chosen(U)}]
      BY <2>3
    <3> HIDE DEF value
    <3>2. g = [U \in SUBSET T |->
                 IF U = {} THEN 0 ELSE f[Chosen(U)] + g[U \ {Chosen(U)}]]
      BY <3>1
    <3> QED
      BY <3>2, Zenon DEF Sums
  <2> QED
    BY <2>4
<1> HIDE DEF C
<1>2. S \in C
  BY <1>1, SmallerFirst
<1>3. \E g : Sums(f, g, S)
  BY <1>2 DEF C
<1> QED
  BY <1>3 DEF Unfolded

-----------------------------------------------------------------------------

(* No rows add up to nothing.                                              *)
LEMMA SumEmpty == ASSUME NEW f PROVE SumFunctionOnSet(f, {}) = 0
<1>1. Sums(f, Unfolded(f, {}), {})
  BY FS_EmptySet, SumsExist
<1>2. Unfolded(f, {})[{}] = 0
  BY <1>1 DEF Sums
<1> QED
  BY <1>2, Unfolding

(* The recursion itself.                                                   *)
LEMMA SumChosen ==
  ASSUME NEW f, NEW S, IsFiniteSet(S), S # {}
  PROVE  SumFunctionOnSet(f, S)
           = f[Chosen(S)] + SumFunctionOnSet(f, S \ {Chosen(S)})
<1> DEFINE T == S \ {Chosen(S)}
<1>1. T \in SUBSET S /\ IsFiniteSet(T)
  BY RestSmaller, FS_Subset
<1>2. Sums(f, Unfolded(f, S), S) /\ Sums(f, Unfolded(f, T), T)
  BY <1>1, SumsExist
<1> HIDE DEF T
<1>3. Unfolded(f, S)[T] = Unfolded(f, T)[T]
  BY <1>1, <1>2, SumsAgree
<1>4. Unfolded(f, S)[S] = f[Chosen(S)] + Unfolded(f, S)[T]
  BY <1>2 DEF Sums, T
<1> QED
  BY <1>3, <1>4, Unfolding DEF T

(* A sum of integers is an integer, a sum of naturals a natural.           *)
LEMMA SumType ==
  ASSUME NEW f, NEW S, IsFiniteSet(S), NEW N \in {Nat, Int},
         \A x \in S : f[x] \in N
  PROVE  SumFunctionOnSet(f, S) \in N
<1> DEFINE C == {T \in SUBSET S : SumFunctionOnSet(f, T) \in N}
<1>1. ASSUME NEW T \in SUBSET S, \A U \in SUBSET T : U # T => U \in C
      PROVE  T \in C
  <2>1. CASE T = {}
    BY <2>1, SumEmpty
  <2>2. CASE T # {}
    <3>1. SumFunctionOnSet(f, T \ {Chosen(T)}) \in N /\ f[Chosen(T)] \in N
      BY <1>1, <2>2, RestSmaller
    <3>2. SumFunctionOnSet(f, T)
            = f[Chosen(T)] + SumFunctionOnSet(f, T \ {Chosen(T)})
      BY <2>2, SumChosen, FS_Subset
    <3> QED
      BY <3>1, <3>2
  <2> QED
    BY <2>1, <2>2
<1> HIDE DEF C
<1>2. S \in C
  BY <1>1, SmallerFirst
<1> QED
  BY <1>2 DEF C

(* Only the values of the rows summed up matter.                           *)
LEMMA SumSame ==
  ASSUME NEW S, IsFiniteSet(S), NEW f, NEW g, \A x \in S : f[x] = g[x]
  PROVE  SumFunctionOnSet(f, S) = SumFunctionOnSet(g, S)
<1> DEFINE C == {T \in SUBSET S : SumFunctionOnSet(f, T) = SumFunctionOnSet(g, T)}
<1>1. ASSUME NEW T \in SUBSET S, \A U \in SUBSET T : U # T => U \in C
      PROVE  T \in C
  <2>1. CASE T = {}
    BY <2>1, SumEmpty
  <2>2. CASE T # {}
    <3> DEFINE R == T \ {Chosen(T)}
    <3>1. SumFunctionOnSet(f, R) = SumFunctionOnSet(g, R) /\ f[Chosen(T)] = g[Chosen(T)]
      BY <1>1, <2>2, RestSmaller
    <3>2. /\ SumFunctionOnSet(f, T) = f[Chosen(T)] + SumFunctionOnSet(f, R)
          /\ SumFunctionOnSet(g, T) = g[Chosen(T)] + SumFunctionOnSet(g, R)
      BY <2>2, SumChosen, FS_Subset
    <3> QED
      BY <3>1, <3>2
  <2> QED
    BY <2>1, <2>2
<1> HIDE DEF C
<1>2. S \in C
  BY <1>1, SmallerFirst
<1> QED
  BY <1>2 DEF C

(* Any row may be the last one added: the order does not matter.           *)
LEMMA SumRemove ==
  ASSUME NEW f, NEW S, IsFiniteSet(S), \A x \in S : f[x] \in Int, NEW y \in S
  PROVE  SumFunctionOnSet(f, S) = f[y] + SumFunctionOnSet(f, S \ {y})
<1> DEFINE C == {T \in SUBSET S : \A x \in T :
                   SumFunctionOnSet(f, T) = f[x] + SumFunctionOnSet(f, T \ {x})}
<1>1. ASSUME NEW T \in SUBSET S, \A U \in SUBSET T : U # T => U \in C,
             NEW x \in T
      PROVE  SumFunctionOnSet(f, T) = f[x] + SumFunctionOnSet(f, T \ {x})
  <2> DEFINE c == Chosen(T)
  <2>1. /\ c \in T /\ IsFiniteSet(T) /\ IsFiniteSet(T \ {x})
        /\ T \ {c} \in SUBSET T /\ T \ {c} # T /\ T \ {x} \in SUBSET T /\ T \ {x} # T
    BY RestSmaller, FS_Subset
  <2>2. SumFunctionOnSet(f, T) = f[c] + SumFunctionOnSet(f, T \ {c})
    BY SumChosen, <2>1
  <2>3. ASSUME c # x
        PROVE  SumFunctionOnSet(f, T) = f[x] + SumFunctionOnSet(f, T \ {x})
    <3> DEFINE R == (T \ {c}) \ {x}
    <3>1. R = (T \ {x}) \ {c} /\ R \in SUBSET S
      OBVIOUS
    <3> HIDE DEF c
    <3>2. SumFunctionOnSet(f, T \ {c}) = f[x] + SumFunctionOnSet(f, R)
      BY <1>1, <2>1, <2>3
    <3>3. SumFunctionOnSet(f, T \ {x}) = f[c] + SumFunctionOnSet(f, R)
      BY <1>1, <2>1, <2>3, <3>1
    <3>4. f[c] \in Int /\ f[x] \in Int /\ SumFunctionOnSet(f, R) \in Int
      BY <2>1, <3>1, SumType, FS_Subset
    <3> HIDE DEF R
    <3> QED
      BY <2>2, <3>2, <3>3, <3>4
  <2> QED
    BY <2>2, <2>3
<1>2. ASSUME NEW T \in SUBSET S, \A U \in SUBSET T : U # T => U \in C
      PROVE  T \in C
  BY <1>1, <1>2
<1> HIDE DEF C
<1>3. S \in C
  BY <1>2, SmallerFirst
<1> QED
  BY <1>3 DEF C

(* A new row adds its value, if the others keep theirs.                    *)
LEMMA SumAdd ==
  ASSUME NEW f, NEW g, NEW S, IsFiniteSet(S), NEW y, y \notin S, g[y] \in Int,
         \A x \in S : f[x] \in Int /\ g[x] = f[x]
  PROVE  SumFunctionOnSet(g, S \cup {y}) = g[y] + SumFunctionOnSet(f, S)
<1>1. IsFiniteSet(S \cup {y}) /\ (S \cup {y}) \ {y} = S
  BY FS_AddElement
<1>2. SumFunctionOnSet(g, S \cup {y}) = g[y] + SumFunctionOnSet(g, S)
  BY <1>1, SumRemove
<1> QED
  BY <1>2, SumSame
==============================================================================
