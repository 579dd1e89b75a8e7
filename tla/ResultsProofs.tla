----------------------------- MODULE ResultsProofs -----------------------------
(***************************************************************************)
(* Proofs about Results, for every log, definition and scoring: the head   *)
(* of a band's file claims what a robot counts in its lines, and panel,    *)
(* statistics, scoreboard and files give one log one result.               *)
(*                                                                         *)
(* Nothing has to be kept for it but that the rows are contacts with       *)
(* stations of the contest (ResInv): each reader adds up the same rows,    *)
(* parted in another way.  So the first half is about adding up: the sum   *)
(* over a set does not depend on the order, the sums of groups (bands,     *)
(* hours, gaps between QSOs) are the sum of the whole, and a list by time, *)
(* number or distance has each row once.  The second half shows each       *)
(* reader to be such a parting: a valid row has one band that is listed,   *)
(* one hour that is shown and one line of the file of its band, and the    *)
(* first row that counts with a square is the one line with its N.         *)
(***************************************************************************)
EXTENDS Results, SequenceTheorems, FunctionTheorems, FiniteSetTheorems, TLAPS

-----------------------------------------------------------------------------
(* Least elements *)

\* Some number of a set of numbers is the least.
LEMMA LeastExists ==
    ASSUME NEW S \in SUBSET Nat, S # {}
    PROVE  \E n \in S : \A m \in S : n <= m
<1> DEFINE T == {0..m : m \in S}
<1>1. T \subseteq FiniteSubsetsOf(Nat) /\ T # {}
  <2>1. \A m \in S : 0..m \subseteq Nat /\ IsFiniteSet(0..m)
    BY FS_Interval
  <2> QED BY <2>1 DEF FiniteSubsetsOf
<1>2. PICK U \in T : \A V \in T : <<V, U>> \notin StrictSubsetOrdering(Nat)
  <2>1. IsWellFoundedOn(StrictSubsetOrdering(Nat), FiniteSubsetsOf(Nat))
    BY FS_StrictSubsetOrderingWellFounded
  <2> HIDE DEF T
  <2> QED BY <1>1, <2>1, WFMin
<1>3. PICK n \in S : U = 0..n
  OBVIOUS
<1>4. ASSUME NEW m \in S, m < n PROVE FALSE
  <2>1. 0..m \subseteq 0..n /\ 0..m # 0..n
    <3>1. n \in 0..n /\ n \notin 0..m
      BY <1>4
    <3>2. \A k \in 0..m : k \in 0..n
      BY <1>4
    <3> QED BY <3>1, <3>2
  <2>2. 0..m \in T /\ 0..m \in SUBSET Nat /\ U \in SUBSET Nat
    BY <1>3
  <2>3. <<0..m, U>> \in StrictSubsetOrdering(Nat)
    BY <2>1, <2>2, <1>3 DEF StrictSubsetOrdering
  <2> QED BY <2>2, <2>3, <1>2
<1> QED BY <1>4

\* Of some finite sets one has none of the others inside it.
LEMMA SmallestExists ==
    ASSUME NEW S, IsFiniteSet(S), NEW C \in SUBSET SUBSET S, C # {}
    PROVE  \E T \in C : \A U \in C : U \subseteq T => U = T
<1> DEFINE Sizes == {Cardinality(T) : T \in C}
<1>1. \A T \in C : IsFiniteSet(T) /\ Cardinality(T) \in Nat
  BY FS_Subset, FS_CardinalityType
<1>2. PICK n \in Sizes : \A m \in Sizes : n <= m
  <2>1. Sizes \in SUBSET Nat /\ Sizes # {}
    BY <1>1
  <2> HIDE DEF Sizes
  <2> QED
    BY <2>1, LeastExists
<1>3. PICK T \in C : n = Cardinality(T)
  BY <1>2
<1>4. ASSUME NEW U \in C, U \subseteq T
      PROVE  U = T
  <2>1. Cardinality(T) <= Cardinality(U)
    BY <1>2, <1>3
  <2>2. U # T => Cardinality(U) <= Cardinality(T) /\ Cardinality(U) # Cardinality(T)
    BY <1>1, <1>4, FS_Subset
  <2> QED
    BY <1>1, <2>1, <2>2
<1> QED
  BY <1>3, <1>4

-----------------------------------------------------------------------------
(* Sums over finite sets *)

IsSum(g, f, S) ==
    g = [s \in SUBSET S |-> IF s = {} THEN 0
                            ELSE LET x == CHOOSE x \in s : TRUE IN f[x] + g[s \ {x}]]
SumOf(f, S) == CHOOSE g : IsSum(g, f, S)
OneOf(s) == CHOOSE x \in s : TRUE

\* SumFunctionOnSet() adds up like this.
LEMMA SumIs == \A f, S : SumFunctionOnSet(f, S) = SumOf(f, S)[S]
  BY Zenon DEF SumFunctionOnSet, FoldFunctionOnSet, MapThenFoldSet, IsSum, SumOf

\* A sum takes its elements one after another.
LEMMA SumUnfolds ==
    ASSUME NEW g, NEW f, NEW S, IsSum(g, f, S)
    PROVE  \A s \in SUBSET S : g[s] = IF s = {} THEN 0 ELSE f[OneOf(s)] + g[s \ {OneOf(s)}]
<1>1. g = [s \in SUBSET S |-> IF s = {} THEN 0 ELSE f[OneOf(s)] + g[s \ {OneOf(s)}]]
  BY Zenon DEF IsSum, OneOf
<1> QED
  BY <1>1, Zenon

\* Two such sums agree where both are defined.
LEMMA SumsAgree ==
    ASSUME NEW g, NEW h, NEW f, NEW S, NEW T \in SUBSET S, IsFiniteSet(T), IsSum(g, f, S), IsSum(h, f, T)
    PROVE  \A s \in SUBSET T : g[s] = h[s]
<1> DEFINE C == {s \in SUBSET T : g[s] # h[s]}
<1>1. SUFFICES ASSUME C # {} PROVE FALSE
  OBVIOUS
<1>2. PICK s \in C : \A u \in C : u \subseteq s => u = s
  <2>1. C \in SUBSET SUBSET T
    OBVIOUS
  <2> HIDE DEF C
  <2> QED
    BY <1>1, <2>1, SmallestExists
<1>3. s \in SUBSET T /\ s \in SUBSET S /\ g[s] # h[s]
  OBVIOUS
<1>4. s # {}
  BY <1>3, SumUnfolds
<1>5. OneOf(s) \in s
  BY <1>4 DEF OneOf
<1> DEFINE u == s \ {OneOf(s)}
<1>6. u \in SUBSET T /\ u \subseteq s /\ u # s
  BY <1>3, <1>5
<1>7. g[u] = h[u]
  BY <1>2, <1>6
<1>8. g[s] = f[OneOf(s)] + g[u] /\ h[s] = f[OneOf(s)] + h[u]
  BY <1>3, <1>4, SumUnfolds, Zenon
<1> QED
  BY <1>3, <1>7, <1>8

\* There is such a sum over every finite set.
LEMMA SumExists ==
    ASSUME NEW f, NEW S, IsFiniteSet(S)
    PROVE  IsSum(SumOf(f, S), f, S)
<1> DEFINE C == {T \in SUBSET S : ~ \E g : IsSum(g, f, T)}
<1>1. ASSUME NEW T \in SUBSET S, T \notin C
      PROVE  IsSum(SumOf(f, T), f, T)
  <2>1. \E g : IsSum(g, f, T)
    BY <1>1
  <2> QED
    BY <2>1, Zenon DEF SumOf
<1>2. SUFFICES ASSUME C # {} PROVE FALSE
  BY <1>1
<1>3. PICK T \in C : \A U \in C : U \subseteq T => U = T
  <2>1. C \in SUBSET SUBSET S
    OBVIOUS
  <2> HIDE DEF C
  <2> QED
    BY <1>2, <2>1, SmallestExists
<1>4. T \in SUBSET S /\ ~ \E g : IsSum(g, f, T)
  OBVIOUS
<1>5. \A U \in SUBSET T : U # T => IsSum(SumOf(f, U), f, U) /\ IsFiniteSet(U) /\ U \in SUBSET S
  <2>1. \A U \in SUBSET T : IsFiniteSet(U)
    BY <1>4, FS_Subset
  <2> QED
    BY <1>1, <1>3, <1>4, <2>1
<1> HIDE DEF C
<1> DEFINE g == [s \in SUBSET T |-> IF s = {} THEN 0
                                    ELSE f[OneOf(s)] + SumOf(f, s \ {OneOf(s)})[s \ {OneOf(s)}]]
<1>6. ASSUME NEW u \in SUBSET T, u # T
      PROVE  g[u] = SumOf(f, u)[u]
  <2>1. CASE u = {}
    <3>1. SumOf(f, u)[u] = 0
      BY <1>5, <1>6, <2>1, SumUnfolds
    <3> QED
      BY <2>1, <3>1
  <2>2. CASE u # {}
    <3> DEFINE v == u \ {OneOf(u)}
    <3>1. OneOf(u) \in u
      BY <2>2 DEF OneOf
    <3>2. v \in SUBSET T /\ v # T /\ v \in SUBSET u
      BY <3>1, <1>6
    <3>3. IsSum(SumOf(f, u), f, u) /\ IsSum(SumOf(f, v), f, v) /\ IsFiniteSet(v)
      BY <1>5, <1>6, <3>2
    <3>4. SumOf(f, u)[v] = SumOf(f, v)[v]
      BY <3>2, <3>3, SumsAgree
    <3>5. SumOf(f, u)[u] = f[OneOf(u)] + SumOf(f, u)[v]
      BY <2>2, <3>3, SumUnfolds, Zenon
    <3>6. g[u] = f[OneOf(u)] + SumOf(f, v)[v]
      BY <2>2, <1>6, Zenon
    <3> QED
      BY <3>4, <3>5, <3>6
  <2> QED
    BY <2>1, <2>2
<1>7. ASSUME NEW s \in SUBSET T, s # {}
      PROVE  g[s] = f[OneOf(s)] + g[s \ {OneOf(s)}]
  <2> DEFINE u == s \ {OneOf(s)}
  <2>1. OneOf(s) \in s
    BY <1>7 DEF OneOf
  <2>2. u \in SUBSET T /\ u # T
    BY <2>1
  <2>3. g[u] = SumOf(f, u)[u]
    BY <1>6, <2>2
  <2>4. g[s] = f[OneOf(s)] + SumOf(f, u)[u]
    BY <1>7, Zenon
  <2> QED
    BY <2>3, <2>4
<1>8. g[{}] = 0
  OBVIOUS
<1>9. DOMAIN g = SUBSET T /\ g = [s \in DOMAIN g |-> g[s]]
  BY Zenon
<1> HIDE DEF g
<1>10. g = [s \in SUBSET T |-> IF s = {} THEN 0 ELSE f[OneOf(s)] + g[s \ {OneOf(s)}]]
  BY <1>7, <1>8, <1>9, Zenon
<1>11. IsSum(g, f, T)
  BY <1>10, Zenon DEF IsSum, OneOf
<1> QED
  BY <1>4, <1>11

\* Nothing sums up to zero.
LEMMA SumOfNothing == \A f : SumFunctionOnSet(f, {}) = 0
<1> SUFFICES ASSUME NEW f PROVE SumFunctionOnSet(f, {}) = 0
  OBVIOUS
<1>1. IsSum(SumOf(f, {}), f, {})
  BY FS_EmptySet, SumExists
<1> QED
  BY <1>1, SumIs, SumUnfolds

\* One element, and the sum of the others.
LEMMA SumOfFirst ==
    ASSUME NEW f, NEW S, IsFiniteSet(S), S # {}
    PROVE  SumFunctionOnSet(f, S) = f[OneOf(S)] + SumFunctionOnSet(f, S \ {OneOf(S)})
<1> DEFINE T == S \ {OneOf(S)}
<1>1. T \in SUBSET S /\ IsFiniteSet(T)
  BY FS_Subset
<1>2. IsSum(SumOf(f, S), f, S) /\ IsSum(SumOf(f, T), f, T)
  BY <1>1, SumExists
<1>3. SumOf(f, S)[T] = SumOf(f, T)[T]
  BY <1>1, <1>2, SumsAgree
<1>4. SumOf(f, S)[S] = f[OneOf(S)] + SumOf(f, S)[T]
  BY <1>2, SumUnfolds, Zenon
<1> QED
  BY <1>3, <1>4, SumIs, Zenon

\* A sum of numbers is a number.
LEMMA SumIsNumber ==
    ASSUME NEW f, NEW S, IsFiniteSet(S), \A x \in S : f[x] \in Int
    PROVE  SumFunctionOnSet(f, S) \in Int
<1> DEFINE C == {T \in SUBSET S : SumFunctionOnSet(f, T) \notin Int}
<1>1. SUFFICES ASSUME C # {} PROVE FALSE
  OBVIOUS
<1>2. PICK T \in C : \A U \in C : U \subseteq T => U = T
  <2>1. C \in SUBSET SUBSET S
    OBVIOUS
  <2> HIDE DEF C
  <2> QED
    BY <1>1, <2>1, SmallestExists
<1>3. T \in SUBSET S /\ SumFunctionOnSet(f, T) \notin Int /\ IsFiniteSet(T)
  BY FS_Subset
<1>4. T # {}
  BY <1>3, SumOfNothing
<1> DEFINE U == T \ {OneOf(T)}
<1>5. OneOf(T) \in T /\ U \in SUBSET S /\ U \subseteq T /\ U # T
  BY <1>3, <1>4 DEF OneOf
<1>6. SumFunctionOnSet(f, U) \in Int
  BY <1>2, <1>5
<1>7. SumFunctionOnSet(f, T) = f[OneOf(T)] + SumFunctionOnSet(f, U)
  BY <1>3, <1>4, SumOfFirst
<1> QED
  BY <1>3, <1>5, <1>6, <1>7

\* Whichever element is taken first: otherwise there were a smallest set where
\* it matters, and the sum without both elements would not be the one number.
LEMMA SumWithout ==
    ASSUME NEW f, NEW S, IsFiniteSet(S), \A x \in S : f[x] \in Int, NEW y \in S
    PROVE  SumFunctionOnSet(f, S) = f[y] + SumFunctionOnSet(f, S \ {y})
<1> DEFINE C == {T \in SUBSET S : \E x \in T : SumFunctionOnSet(f, T) # f[x] + SumFunctionOnSet(f, T \ {x})}
<1>1. SUFFICES ASSUME C # {} PROVE FALSE
  <2>1. S \notin C => \A x \in S : SumFunctionOnSet(f, S) = f[x] + SumFunctionOnSet(f, S \ {x})
    OBVIOUS
  <2> QED
    BY <2>1
<1>2. PICK T \in C : \A U \in C : U \subseteq T => U = T
  <2>1. C \in SUBSET SUBSET S
    OBVIOUS
  <2> HIDE DEF C
  <2> QED
    BY <1>1, <2>1, SmallestExists
<1>3. PICK x \in T : SumFunctionOnSet(f, T) # f[x] + SumFunctionOnSet(f, T \ {x})
  BY <1>2
<1>4. T \in SUBSET S /\ T # {} /\ IsFiniteSet(T)
  BY <1>2, <1>3, FS_Subset
<1> DEFINE c == OneOf(T)
<1>5. c \in T /\ SumFunctionOnSet(f, T) = f[c] + SumFunctionOnSet(f, T \ {c})
  BY <1>4, SumOfFirst DEF OneOf
<1> HIDE DEF c
<1>6. c # x
  BY <1>3, <1>5
<1>7. ASSUME NEW U \in SUBSET T, U # T, NEW z \in U
      PROVE  SumFunctionOnSet(f, U) = f[z] + SumFunctionOnSet(f, U \ {z})
  <2>1. U \notin C /\ U \in SUBSET S
    BY <1>2, <1>4, <1>7
  <2> QED
    BY <2>1
<1>8. SumFunctionOnSet(f, T \ {c}) = f[x] + SumFunctionOnSet(f, (T \ {c}) \ {x})
  <2>1. T \ {c} \in SUBSET T /\ T \ {c} # T /\ x \in T \ {c}
    BY <1>5, <1>6
  <2> HIDE DEF C
  <2> QED
    BY <1>7, <2>1
<1>9. SumFunctionOnSet(f, T \ {x}) = f[c] + SumFunctionOnSet(f, (T \ {x}) \ {c})
  <2>1. T \ {x} \in SUBSET T /\ T \ {x} # T /\ c \in T \ {x}
    BY <1>5, <1>6
  <2> HIDE DEF C
  <2> QED
    BY <1>7, <2>1
<1>10. (T \ {x}) \ {c} = (T \ {c}) \ {x}
  OBVIOUS
<1>11. SumFunctionOnSet(f, (T \ {c}) \ {x}) \in Int
  <2>1. IsFiniteSet((T \ {c}) \ {x}) /\ \A z \in (T \ {c}) \ {x} : f[z] \in Int
    <3>1. (T \ {c}) \ {x} \in SUBSET T
      OBVIOUS
    <3> QED
      BY <1>4, <3>1, FS_Subset
  <2> QED
    BY <2>1, SumIsNumber
<1>12. f[c] \in Int /\ f[x] \in Int
  BY <1>4, <1>5
<1> DEFINE w == SumFunctionOnSet(f, (T \ {c}) \ {x})
           all == SumFunctionOnSet(f, T)
           without == SumFunctionOnSet(f, T \ {x})
<1>13. w \in Int /\ all = f[c] + (f[x] + w) /\ without = f[c] + w /\ all # f[x] + without
  BY <1>3, <1>5, <1>8, <1>9, <1>10, <1>11, Zenon
<1> HIDE DEF C, w, all, without
<1> QED
  BY <1>12, <1>13

\* Sums of the same numbers are the same.
LEMMA SumsOfSame ==
    ASSUME NEW f, NEW g, NEW S, IsFiniteSet(S), \A x \in S : f[x] = g[x]
    PROVE  SumFunctionOnSet(f, S) = SumFunctionOnSet(g, S)
<1> DEFINE C == {T \in SUBSET S : SumFunctionOnSet(f, T) # SumFunctionOnSet(g, T)}
<1>1. SUFFICES ASSUME C # {} PROVE FALSE
  OBVIOUS
<1>2. PICK T \in C : \A U \in C : U \subseteq T => U = T
  <2>1. C \in SUBSET SUBSET S
    OBVIOUS
  <2> HIDE DEF C
  <2> QED
    BY <1>1, <2>1, SmallestExists
<1>3. T \in SUBSET S /\ SumFunctionOnSet(f, T) # SumFunctionOnSet(g, T) /\ IsFiniteSet(T)
  BY FS_Subset
<1>4. T # {}
  BY <1>3, SumOfNothing
<1> DEFINE U == T \ {OneOf(T)}
<1>5. OneOf(T) \in T /\ U \in SUBSET S /\ U \subseteq T /\ U # T
  BY <1>3, <1>4 DEF OneOf
<1>6. SumFunctionOnSet(f, U) = SumFunctionOnSet(g, U)
  BY <1>2, <1>5
<1>7. /\ SumFunctionOnSet(f, T) = f[OneOf(T)] + SumFunctionOnSet(f, U)
      /\ SumFunctionOnSet(g, T) = g[OneOf(T)] + SumFunctionOnSet(g, U)
  BY <1>3, <1>4, SumOfFirst, Zenon
<1>8. f[OneOf(T)] = g[OneOf(T)]
  BY <1>3, <1>5
<1> QED
  BY <1>3, <1>6, <1>7, <1>8, Zenon

\* The sum over two sets without a common element is the sum of both sums.
LEMMA SumOfUnion ==
    ASSUME NEW f, NEW S, NEW R, IsFiniteSet(S), IsFiniteSet(R), S \cap R = {}, \A x \in S \cup R : f[x] \in Int
    PROVE  SumFunctionOnSet(f, S \cup R) = SumFunctionOnSet(f, S) + SumFunctionOnSet(f, R)
<1> DEFINE C == {T \in SUBSET R : SumFunctionOnSet(f, S \cup T) # SumFunctionOnSet(f, S) + SumFunctionOnSet(f, T)}
<1>1. SUFFICES ASSUME C # {} PROVE FALSE
  OBVIOUS
<1>2. PICK T \in C : \A U \in C : U \subseteq T => U = T
  <2>1. C \in SUBSET SUBSET R
    OBVIOUS
  <2> HIDE DEF C
  <2> QED
    BY <1>1, <2>1, SmallestExists
<1>3. T \in SUBSET R /\ SumFunctionOnSet(f, S \cup T) # SumFunctionOnSet(f, S) + SumFunctionOnSet(f, T)
  OBVIOUS
<1>4. IsFiniteSet(T) /\ IsFiniteSet(S \cup T)
  BY <1>3, FS_Subset, FS_Union
<1>5. SumFunctionOnSet(f, S) \in Int
  BY SumIsNumber
<1>6. CASE T = {}
  <2>1. S \cup T = S /\ SumFunctionOnSet(f, T) = 0
    BY <1>6, SumOfNothing
  <2> QED
    BY <1>3, <1>5, <2>1
<1>7. CASE T # {}
  <2>1. PICK y \in T : TRUE
    BY <1>7
  <2> DEFINE U == T \ {y}
  <2>2. U \in SUBSET R /\ U \subseteq T /\ U # T /\ IsFiniteSet(U)
    BY <1>3, <1>4, FS_Subset
  <2>3. SumFunctionOnSet(f, S \cup U) = SumFunctionOnSet(f, S) + SumFunctionOnSet(f, U)
    BY <1>2, <2>2
  <2>4. SumFunctionOnSet(f, T) = f[y] + SumFunctionOnSet(f, U)
    BY <1>3, <1>4, SumWithout
  <2>5. SumFunctionOnSet(f, S \cup T) = f[y] + SumFunctionOnSet(f, (S \cup T) \ {y})
    <3>1. y \in S \cup T /\ \A x \in S \cup T : f[x] \in Int
      BY <1>3
    <3> HIDE DEF C
    <3> QED
      BY <1>4, <3>1, SumWithout
  <2>6. (S \cup T) \ {y} = S \cup U
    BY <1>3
  <2>7. SumFunctionOnSet(f, U) \in Int /\ f[y] \in Int
    BY <1>3, <2>2, SumIsNumber
  <2> DEFINE s == SumFunctionOnSet(f, S)
             u == SumFunctionOnSet(f, U)
             t == SumFunctionOnSet(f, T)
             st == SumFunctionOnSet(f, S \cup T)
  <2>8. s \in Int /\ u \in Int /\ t = f[y] + u /\ st = f[y] + (s + u) /\ st # s + t
    BY <1>3, <1>5, <2>3, <2>4, <2>5, <2>6, <2>7, Zenon
  <2> HIDE DEF s, u, t, st
  <2> QED
    BY <2>7, <2>8
<1> QED
  BY <1>6, <1>7

\* What adds nothing can be left out.
LEMMA SumOfNoughts ==
    ASSUME NEW f, NEW S, IsFiniteSet(S), \A x \in S : f[x] = 0
    PROVE  SumFunctionOnSet(f, S) = 0
<1> DEFINE C == {T \in SUBSET S : SumFunctionOnSet(f, T) # 0}
<1>1. SUFFICES ASSUME C # {} PROVE FALSE
  OBVIOUS
<1>2. PICK T \in C : \A U \in C : U \subseteq T => U = T
  <2>1. C \in SUBSET SUBSET S
    OBVIOUS
  <2> HIDE DEF C
  <2> QED
    BY <1>1, <2>1, SmallestExists
<1>3. T \in SUBSET S /\ SumFunctionOnSet(f, T) # 0 /\ IsFiniteSet(T)
  BY FS_Subset
<1>4. T # {}
  BY <1>3, SumOfNothing
<1> DEFINE U == T \ {OneOf(T)}
<1>5. OneOf(T) \in T /\ U \in SUBSET S /\ U \subseteq T /\ U # T
  BY <1>3, <1>4 DEF OneOf
<1>6. SumFunctionOnSet(f, U) = 0
  BY <1>2, <1>5
<1>7. SumFunctionOnSet(f, T) = f[OneOf(T)] + SumFunctionOnSet(f, U)
  BY <1>3, <1>4, SumOfFirst
<1> QED
  BY <1>3, <1>5, <1>6, <1>7

\* What adds nothing can be left out of a sum.
LEMMA SumOfPart ==
    ASSUME NEW f, NEW S, NEW R \in SUBSET S, IsFiniteSet(S), \A x \in S : f[x] \in Int, \A x \in S \ R : f[x] = 0
    PROVE  SumFunctionOnSet(f, S) = SumFunctionOnSet(f, R)
<1>1. IsFiniteSet(R) /\ IsFiniteSet(S \ R) /\ S = R \cup (S \ R) /\ R \cap (S \ R) = {}
  BY FS_Subset
<1>2. SumFunctionOnSet(f, S \ R) = 0
  BY <1>1, SumOfNoughts
<1>3. SumFunctionOnSet(f, R \cup (S \ R)) = SumFunctionOnSet(f, R) + SumFunctionOnSet(f, S \ R)
  BY <1>1, SumOfUnion
<1>4. SumFunctionOnSet(f, R) \in Int
  BY <1>1, SumIsNumber
<1> DEFINE r == SumFunctionOnSet(f, R)
<1>5. SumFunctionOnSet(f, S) = r + 0 /\ r \in Int
  BY <1>1, <1>2, <1>3, <1>4, Zenon
<1>6. r + 0 = r
  BY <1>5
<1> QED
  BY <1>5, <1>6, Zenon

\* Ones are counted.
LEMMA SumOfOnes ==
    ASSUME NEW f, NEW S, IsFiniteSet(S), \A x \in S : f[x] = 1
    PROVE  SumFunctionOnSet(f, S) = Cardinality(S)
<1> DEFINE C == {T \in SUBSET S : SumFunctionOnSet(f, T) # Cardinality(T)}
<1>1. SUFFICES ASSUME C # {} PROVE FALSE
  OBVIOUS
<1>2. PICK T \in C : \A U \in C : U \subseteq T => U = T
  <2>1. C \in SUBSET SUBSET S
    OBVIOUS
  <2> HIDE DEF C
  <2> QED
    BY <1>1, <2>1, SmallestExists
<1>3. T \in SUBSET S /\ SumFunctionOnSet(f, T) # Cardinality(T) /\ IsFiniteSet(T)
  BY FS_Subset
<1>4. T # {}
  BY <1>3, SumOfNothing, FS_EmptySet
<1> DEFINE c == OneOf(T)
           U == T \ {c}
<1>5. c \in T /\ U \in SUBSET S /\ U \subseteq T /\ U # T
  BY <1>3, <1>4 DEF OneOf
<1>6. SumFunctionOnSet(f, U) = Cardinality(U)
  BY <1>2, <1>5
<1>7. SumFunctionOnSet(f, T) = f[c] + SumFunctionOnSet(f, U)
  BY <1>3, <1>4, SumOfFirst
<1>8. Cardinality(U) = Cardinality(T) - 1 /\ Cardinality(T) \in Nat
  BY <1>3, <1>5, FS_RemoveElement, FS_CardinalityType
<1> QED
  BY <1>3, <1>5, <1>6, <1>7, <1>8

\* What a function makes of a finite set is finite.
LEMMA ImageIsFinite ==
    ASSUME NEW S, IsFiniteSet(S), NEW h
    PROVE  IsFiniteSet({h[x] : x \in S}) /\ Cardinality({h[x] : x \in S}) <= Cardinality(S)
<1> DEFINE T == {h[x] : x \in S}
           k == [x \in S |-> h[x]]
<1>1. k \in Surjection(S, T)
  BY DEF Surjection
<1> HIDE DEF T, k
<1>2. IsFiniteSet(T) /\ Cardinality(T) <= Cardinality(S)
  BY <1>1, FS_Surjection
<1> QED
  BY <1>2 DEF T

\* Two sets whose elements answer to each other are equally large.
LEMMA OneForOne ==
    ASSUME NEW S, NEW R, NEW h, \A x \in S : h[x] \in R, \A x, y \in S : h[x] = h[y] => x = y,
           \A y \in R : \E x \in S : h[x] = y
    PROVE  /\ [x \in S |-> h[x]] \in Bijection(S, R)
           /\ IsFiniteSet(S) => IsFiniteSet(R) /\ Cardinality(R) = Cardinality(S)
<1> DEFINE k == [x \in S |-> h[x]]
<1>1. k \in Bijection(S, R)
  BY DEF Bijection, Injection, Surjection, IsInjective
<1> HIDE DEF k
<1>2. ExistsBijection(S, R)
  BY <1>1 DEF ExistsBijection
<1>3. IsFiniteSet(S) => IsFiniteSet(R) /\ Cardinality(R) = Cardinality(S)
  BY <1>2, FS_Bijection
<1> QED
  BY <1>1, <1>3 DEF k

\* The same numbers under other names.
LEMMA SumRenamed ==
    ASSUME NEW S, NEW R, IsFiniteSet(S), NEW h \in Bijection(S, R), NEW f, NEW g,
           \A x \in R : f[x] \in Int, \A x \in S : g[x] = f[h[x]]
    PROVE  SumFunctionOnSet(g, S) = SumFunctionOnSet(f, R)
<1> DEFINE Im(T) == {h[x] : x \in T}
           C == {T \in SUBSET S : SumFunctionOnSet(g, T) # SumFunctionOnSet(f, Im(T))}
<1>0. /\ \A x \in S : h[x] \in R
      /\ \A x, y \in S : h[x] = h[y] => x = y
      /\ \A y \in R : \E x \in S : h[x] = y
  BY Fun_BijectionProperties, Zenon DEF Bijection, Injection, Surjection, IsInjective
<1>1. SUFFICES ASSUME C # {} PROVE FALSE
  <2>1. Im(S) = R
    BY <1>0
  <2> QED
    BY <2>1
<1>2. PICK T \in C : \A U \in C : U \subseteq T => U = T
  <2>1. C \in SUBSET SUBSET S
    OBVIOUS
  <2> HIDE DEF C
  <2> QED
    BY <1>1, <2>1, SmallestExists
<1>3. T \in SUBSET S /\ SumFunctionOnSet(g, T) # SumFunctionOnSet(f, Im(T))
  OBVIOUS
<1>4. T # {}
  <2>1. Im({}) = {}
    OBVIOUS
  <2> QED
    BY <1>3, <2>1, SumOfNothing
<1> DEFINE c == OneOf(T)
           U == T \ {c}
<1>5. c \in T /\ U \in SUBSET S /\ U \subseteq T /\ U # T
  BY <1>3, <1>4 DEF OneOf
<1>6. SumFunctionOnSet(g, U) = SumFunctionOnSet(f, Im(U))
  BY <1>2, <1>5
<1>7. IsFiniteSet(T)
  BY <1>3, FS_Subset
<1>8. SumFunctionOnSet(g, T) = g[c] + SumFunctionOnSet(g, U)
  BY <1>7, <1>4, SumOfFirst
<1> HIDE DEF C, c
<1>9. Im(T) \ {h[c]} = Im(U) /\ h[c] \in Im(T)
  BY <1>0, <1>3, <1>5
<1>10. IsFiniteSet(Im(T)) /\ \A y \in Im(T) : f[y] \in Int
  <2>1. IsFiniteSet({h[x] : x \in T})
    BY <1>7, ImageIsFinite
  <2> QED
    BY <1>0, <1>3, <2>1
<1>11. SumFunctionOnSet(f, Im(T)) = f[h[c]] + SumFunctionOnSet(f, Im(T) \ {h[c]})
  <2> HIDE DEF Im
  <2> QED
    BY <1>9, <1>10, SumWithout
<1>12. g[c] = f[h[c]]
  BY <1>3, <1>5
<1> HIDE DEF Im
<1> QED
  BY <1>3, <1>6, <1>8, <1>9, <1>11, <1>12

\* The sum of the sums of the groups is the sum of all.
LEMMA SumOfGroups ==
    ASSUME NEW S, IsFiniteSet(S), NEW I, IsFiniteSet(I), NEW k, \A x \in S : k[x] \in I,
           NEW f, \A x \in S : f[x] \in Int,
           NEW in, \A i \in I : in[i] = {x \in S : k[x] = i},
           NEW g, \A i \in I : g[i] = SumFunctionOnSet(f, in[i])
    PROVE  SumFunctionOnSet(g, I) = SumFunctionOnSet(f, S)
<1> DEFINE Of(J) == {x \in S : k[x] \in J}
           C == {J \in SUBSET I : SumFunctionOnSet(g, J) # SumFunctionOnSet(f, Of(J))}
<1>1. SUFFICES ASSUME C # {} PROVE FALSE
  <2>1. Of(I) = S
    OBVIOUS
  <2> QED
    BY <2>1
<1>2. PICK J \in C : \A K \in C : K \subseteq J => K = J
  <2>1. C \in SUBSET SUBSET I
    OBVIOUS
  <2> HIDE DEF C
  <2> QED
    BY <1>1, <2>1, SmallestExists
<1>3. J \in SUBSET I /\ SumFunctionOnSet(g, J) # SumFunctionOnSet(f, Of(J))
  OBVIOUS
<1>4. J # {}
  <2>1. Of({}) = {}
    OBVIOUS
  <2> QED
    BY <1>3, <2>1, SumOfNothing
<1> DEFINE i == OneOf(J)
           K == J \ {i}
           Group == {x \in S : k[x] = i}
<1>5. i \in J /\ K \in SUBSET I /\ K \subseteq J /\ K # J
  BY <1>3, <1>4 DEF OneOf
<1>6. SumFunctionOnSet(g, K) = SumFunctionOnSet(f, Of(K))
  BY <1>2, <1>5
<1>7. IsFiniteSet(J) /\ IsFiniteSet(Of(K)) /\ IsFiniteSet(Group)
  <2>1. Of(K) \in SUBSET S /\ Group \in SUBSET S
    OBVIOUS
  <2> HIDE DEF Of, Group
  <2> QED
    BY <1>3, <2>1, FS_Subset
<1>8. SumFunctionOnSet(g, J) = g[i] + SumFunctionOnSet(g, K)
  BY <1>7, <1>4, SumOfFirst
<1>9. g[i] = SumFunctionOnSet(f, Group)
  <2>1. i \in I /\ in[i] = Group
    BY <1>3, <1>5
  <2> HIDE DEF i, Group
  <2> QED
    BY <2>1
<1>10. Of(J) = Group \cup Of(K) /\ Group \cap Of(K) = {} /\ \A x \in Group \cup Of(K) : f[x] \in Int
  BY <1>5
<1> HIDE DEF C, i, K, Group, Of
<1>11. SumFunctionOnSet(f, Group \cup Of(K)) = SumFunctionOnSet(f, Group) + SumFunctionOnSet(f, Of(K))
  BY <1>7, <1>10, SumOfUnion
<1> QED
  BY <1>3, <1>6, <1>8, <1>9, <1>10, <1>11, Zenon

\* What lies between the first and the last is the sum of the gaps.
LEMMA SumOfGaps ==
    ASSUME NEW n \in Nat, NEW t, \A i \in 1..(n + 1) : t[i] \in Int,
           NEW gap, \A i \in 1..n : gap[i] = t[i + 1] - t[i]
    PROVE  SumFunctionOnSet(gap, 1..n) = t[n + 1] - t[1]
<1> DEFINE C == {m \in 0..n : SumFunctionOnSet(gap, 1..m) # t[m + 1] - t[1]}
<1>1. SUFFICES ASSUME C # {} PROVE FALSE
  <2>1. n \in 0..n
    OBVIOUS
  <2> QED
    BY <2>1
<1>2. PICK m \in C : \A k \in C : m <= k
  <2>1. C \in SUBSET Nat
    OBVIOUS
  <2> HIDE DEF C
  <2> QED
    BY <1>1, <2>1, LeastExists
<1>3. m \in 0..n /\ SumFunctionOnSet(gap, 1..m) # t[m + 1] - t[1]
  OBVIOUS
<1>4. m # 0
  <2>1. SUFFICES ASSUME m = 0 PROVE FALSE
    OBVIOUS
  <2>2. 1..m = {} /\ m + 1 = 1 /\ t[1] \in Int
    BY <2>1
  <2>3. t[1] - t[1] = 0
    BY <2>2
  <2>4. SumFunctionOnSet(gap, 1..m) = 0
    BY <2>2, SumOfNothing, Zenon
  <2>5. t[m + 1] - t[1] = 0
    BY <2>2, <2>3
  <2> QED
    BY <1>3, <2>4, <2>5, Zenon
<1>5. m \in 1..n /\ m - 1 \in 0..n /\ (m - 1) + 1 = m /\ m + 1 \in 1..(n + 1) /\ m \in 1..(n + 1) /\ 1 \in 1..(n + 1)
  BY <1>3, <1>4
<1> DEFINE was == SumFunctionOnSet(gap, 1..(m - 1))
           is == SumFunctionOnSet(gap, 1..m)
<1>6. was = t[m] - t[1]
  <2>1. m - 1 \notin C
    BY <1>2, <1>5
  <2>2. SumFunctionOnSet(gap, 1..(m - 1)) = t[(m - 1) + 1] - t[1]
    BY <1>5, <2>1
  <2> QED
    BY <1>5, <2>2, Zenon
<1>7. is = gap[m] + was
  <2> HIDE DEF C
  <2> DEFINE all == 1..m
             most == 1..(m - 1)
  <2>1. IsFiniteSet(all)
    BY <1>5, FS_Interval
  <2>2. all \ {m} = most /\ m \in all
    BY <1>5
  <2>3. \A i \in all : gap[i] \in Int
    BY <1>5
  <2> HIDE DEF all, most
  <2>4. SumFunctionOnSet(gap, all) = gap[m] + SumFunctionOnSet(gap, all \ {m})
    BY <2>1, <2>2, <2>3, SumWithout
  <2>5. SumFunctionOnSet(gap, all) = gap[m] + SumFunctionOnSet(gap, most)
    BY <2>2, <2>4
  <2> QED
    BY <2>5 DEF all, most
<1>8. gap[m] = t[m + 1] - t[m] /\ t[m + 1] \in Int /\ t[m] \in Int /\ t[1] \in Int
  BY <1>5
<1>9. is # t[m + 1] - t[1]
  BY <1>3
<1> HIDE DEF C, was, is
<1> QED
  BY <1>6, <1>7, <1>8, <1>9

-----------------------------------------------------------------------------
(* Lists in an order *)

Ahead(S, R, i) == {j \in S : <<j, i>> \in R}

EachHasItsPlace(S, R) ==
    /\ Cardinality(S) \in Nat
    /\ \A i \in S : Cardinality(Ahead(S, R, i)) \in Nat /\ Cardinality(Ahead(S, R, i)) + 1 \in 1..Cardinality(S)
    /\ \A i, j \in S : Cardinality(Ahead(S, R, i)) = Cardinality(Ahead(S, R, j)) => i = j
    /\ \A m \in 1..Cardinality(S) : \E i \in S : Cardinality(Ahead(S, R, i)) = m - 1

\* Of a finite set in some order one stands at each place, and all have a place.
LEMMA PlacesAreTaken ==
    ASSUME NEW S, IsFiniteSet(S), NEW R,
           \A i \in S : <<i, i>> \notin R,
           \A i, j, k \in S : <<i, j>> \in R /\ <<j, k>> \in R => <<i, k>> \in R,
           \A i, j \in S : i = j \/ <<i, j>> \in R \/ <<j, i>> \in R
    PROVE  EachHasItsPlace(S, R)
<1> DEFINE Before(i) == {j \in S : <<j, i>> \in R}
           c == Cardinality(S)
           Place == [i \in S |-> Cardinality(Before(i)) + 1]
<1>1. IsFiniteSet(S) /\ c \in Nat
  BY FS_CardinalityType
<1>2. ASSUME NEW i \in S
      PROVE  IsFiniteSet(Before(i)) /\ Cardinality(Before(i)) \in Nat /\ Cardinality(Before(i)) < c
  <2>1. Before(i) \subseteq S /\ i \notin Before(i)
    OBVIOUS
  <2>2. IsFiniteSet(Before(i)) /\ Cardinality(Before(i)) \in Nat /\ Cardinality(Before(i)) <= c
    BY <1>1, <2>1, FS_Subset, FS_CardinalityType
  <2>3. Cardinality(Before(i)) # c
    BY <1>1, <2>1, FS_Subset
  <2> QED
    BY <1>1, <2>2, <2>3
<1>3. ASSUME NEW i \in S, NEW j \in S, <<i, j>> \in R
      PROVE  Cardinality(Before(i)) < Cardinality(Before(j))
  <2>1. Before(i) \subseteq Before(j) /\ i \in Before(j) /\ i \notin Before(i)
    BY <1>3
  <2>2. Cardinality(Before(i)) <= Cardinality(Before(j)) /\ Cardinality(Before(i)) # Cardinality(Before(j))
    <3>1. IsFiniteSet(Before(j)) /\ Before(i) \in SUBSET Before(j) /\ Before(i) # Before(j)
      BY <1>2, <2>1
    <3> HIDE DEF Before
    <3> QED
      BY <3>1, FS_Subset
  <2>3. Cardinality(Before(i)) \in Nat /\ Cardinality(Before(j)) \in Nat
    BY <1>2
  <2> HIDE DEF Before
  <2> QED
    BY <2>2, <2>3
<1> HIDE DEF Before
<1>4. \A i, j \in S : Cardinality(Before(i)) = Cardinality(Before(j)) => i = j
  <2> SUFFICES ASSUME NEW i \in S, NEW j \in S, Cardinality(Before(i)) = Cardinality(Before(j))
               PROVE  i = j
    OBVIOUS
  <2>1. <<i, j>> \notin R /\ <<j, i>> \notin R
    BY <1>2, <1>3
  <2> QED
    BY <2>1
<1>5. \A i \in S : Place[i] \in 1..c
  BY <1>1, <1>2
<1>6. Place \in Injection(S, 1..c)
  <2>1. Place \in [S -> 1..c]
    BY <1>5
  <2>2. \A i, j \in S : Place[i] = Place[j] => i = j
    BY <1>2, <1>4
  <2> HIDE DEF Place
  <2> QED
    BY <2>1, <2>2 DEF Injection, IsInjective
<1>7. Place \in Surjection(S, 1..c)
  <2>1. IsFiniteSet(1..c) /\ Cardinality(1..c) = c
    BY <1>1, FS_Interval
  <2> HIDE DEF Place
  <2> QED
    BY <1>1, <1>6, <2>1, FS_Injection
<1>8. \A m \in 1..c : \E i \in S : Place[i] = m
  <2> HIDE DEF Place
  <2> QED
    BY <1>7, Fun_SurjectionProperties DEF Surjection
<1>9. \A m \in 1..c : \E i \in S : Cardinality(Before(i)) = m - 1
  BY <1>2, <1>8
<1>10. \A i \in S : Cardinality(Before(i)) \in Nat /\ Cardinality(Before(i)) + 1 \in 1..c
  BY <1>2, <1>5
<1> QED
  BY <1>1, <1>4, <1>9, <1>10 DEF Before, Ahead, EachHasItsPlace

\* A list of just the elements of a set, each once, in an order.
Lists(list, S, R) ==
    /\ Cardinality(S) \in Nat /\ IsFiniteSet(S)
    /\ list \in Seq(S) /\ Len(list) = Cardinality(S) /\ DOMAIN list = 1..Cardinality(S)
    /\ \A n \in 1..Cardinality(S) : list[n] \in S
    /\ \A m, n \in 1..Cardinality(S) : list[m] = list[n] => m = n
    /\ \A i \in S : \E n \in 1..Cardinality(S) : list[n] = i
    /\ \A m, n \in 1..Cardinality(S) : m < n => <<list[m], list[n]>> \in R

\* A row of elements is a sequence of them.
LEMMA RowIsSeq ==
    ASSUME NEW S, NEW c \in Nat, NEW list \in [1..c -> S]
    PROVE  list \in Seq(S) /\ Len(list) = c
  OBVIOUS

\* Whoever stands at the place that the number of those before says, stands right.
LEMMA PlacedRight ==
    ASSUME NEW S, IsFiniteSet(S), NEW R, EachHasItsPlace(S, R),
           \A i, j, k \in S : <<i, j>> \in R /\ <<j, k>> \in R => <<i, k>> \in R,
           \A i \in S : <<i, i>> \notin R,
           \A i, j \in S : i = j \/ <<i, j>> \in R \/ <<j, i>> \in R,
           NEW list, list = [n \in 1..Cardinality(S) |-> list[n]],
           \A n \in 1..Cardinality(S) : list[n] \in S /\ Cardinality(Ahead(S, R, list[n])) = n - 1
    PROVE  Lists(list, S, R)
<1> DEFINE c == Cardinality(S)
           Before(i) == Cardinality(Ahead(S, R, i))
<1>1. /\ c \in Nat
      /\ \A i \in S : Before(i) \in Nat /\ Before(i) + 1 \in 1..c
      /\ \A i, j \in S : Before(i) = Before(j) => i = j
  BY Zenon DEF EachHasItsPlace
<1>2. ASSUME NEW i \in S, NEW j \in S, <<i, j>> \in R
      PROVE  Before(i) < Before(j)
  <2>1. Ahead(S, R, i) \subseteq Ahead(S, R, j) /\ i \in Ahead(S, R, j) /\ i \notin Ahead(S, R, i)
    BY <1>2 DEF Ahead
  <2>2. Ahead(S, R, j) \subseteq S
    BY DEF Ahead
  <2>3. IsFiniteSet(Ahead(S, R, j))
    BY <2>2, FS_Subset
  <2>4. Before(i) <= Before(j) /\ Before(i) # Before(j)
    BY <2>1, <2>3, FS_Subset
  <2> QED
    BY <1>1, <2>4
<1>3. list = [n \in 1..c |-> list[n]]
  OBVIOUS
<1>4. \A n \in 1..c : list[n] \in S /\ Before(list[n]) = n - 1
  OBVIOUS
<1> HIDE DEF Before
<1>5. DOMAIN list = 1..c
  BY <1>3
<1>6. \A m, n \in 1..c : list[m] = list[n] => m = n
  BY <1>1, <1>4
<1>7. ASSUME NEW i \in S
      PROVE  \E n \in 1..c : list[n] = i
  <2>1. Before(i) + 1 \in 1..c /\ Before(i) \in Nat
    BY <1>1
  <2>2. list[Before(i) + 1] \in S /\ Before(list[Before(i) + 1]) = (Before(i) + 1) - 1
    BY <1>4, <2>1
  <2>3. list[Before(i) + 1] = i
    BY <1>1, <2>1, <2>2
  <2> QED
    BY <2>1, <2>3
<1>8. ASSUME NEW m \in 1..c, NEW n \in 1..c, m < n
      PROVE  <<list[m], list[n]>> \in R
  <2>1. list[m] \in S /\ list[n] \in S /\ Before(list[m]) = m - 1 /\ Before(list[n]) = n - 1
    BY <1>4
  <2>2. list[m] # list[n]
    BY <1>1, <1>6, <1>8
  <2>3. ~ <<list[n], list[m]>> \in R
    BY <1>1, <1>2, <1>8, <2>1
  <2> QED
    BY <2>1, <2>2, <2>3
<1> HIDE DEF c
<1>9. list \in Seq(S) /\ Len(list) = c
  <2>1. list \in [1..c -> S]
    <3>1. \A n \in 1..c : list[n] \in S
      BY <1>4
    <3>2. [n \in 1..c |-> list[n]] \in [1..c -> S]
      BY <3>1
    <3> QED
      BY <1>3, <3>2, Zenon
  <2> QED
    BY <1>1, <2>1, RowIsSeq
<1> QED
  BY <1>1, <1>4, <1>5, <1>6, <1>7, <1>8, <1>9 DEF Lists, c

Lesser(S) == {p \in S \X S : p[1] < p[2]}

\* By number.
LEMMA ByIdLists ==
    ASSUME NEW S \in SUBSET Nat, IsFiniteSet(S)
    PROVE  Lists(ById(S), S, Lesser(S))
<1>1. \A i, j \in S : <<i, j>> \in Lesser(S) <=> i < j
  BY DEF Lesser
<1>2. /\ \A i \in S : <<i, i>> \notin Lesser(S)
      /\ \A i, j, k \in S : <<i, j>> \in Lesser(S) /\ <<j, k>> \in Lesser(S) => <<i, k>> \in Lesser(S)
      /\ \A i, j \in S : i = j \/ <<i, j>> \in Lesser(S) \/ <<j, i>> \in Lesser(S)
  BY <1>1
<1>3. EachHasItsPlace(S, Lesser(S))
  BY <1>2, PlacesAreTaken
<1>4. \A i \in S : Ahead(S, Lesser(S), i) = {j \in S : j < i}
  BY <1>1 DEF Ahead
<1>5. \A m \in 1..Cardinality(S) : \E i \in S : Cardinality({j \in S : j < i}) = m - 1
  BY <1>3, <1>4 DEF EachHasItsPlace
<1>6. ById(S) = [n \in 1..Cardinality(S) |-> CHOOSE i \in S : Cardinality({j \in S : j < i}) = n - 1]
  BY Zenon DEF ById, InOrder
<1>7. \A n \in 1..Cardinality(S) : ById(S)[n] \in S /\ Cardinality({j \in S : j < ById(S)[n]}) = n - 1
  BY <1>5, <1>6, Zenon
<1>8. \A n \in 1..Cardinality(S) : ById(S)[n] \in S /\ Cardinality(Ahead(S, Lesser(S), ById(S)[n])) = n - 1
  BY <1>4, <1>7
<1>9. ById(S) = [n \in 1..Cardinality(S) |-> ById(S)[n]]
  BY <1>6, Zenon
<1> QED
  BY <1>2, <1>3, <1>8, <1>9, PlacedRight

-----------------------------------------------------------------------------
(* The rows of the log *)

ResRow(s, t, out) ==
    [call |-> s.call, square |-> s.square, six |-> s.six, km |-> s.km, serial |-> s.serial, band |-> s.band,
     time |-> t, invalid |-> out]
ResRows == {ResRow(s, t, out) : s \in ResStations, t \in ResTimes, out \in BOOLEAN}
ResInv == resLog \in Seq(ResRows) /\ Len(resLog) <= ResMaxQsos

\* A row's fields.
LEMMA ResRowHas ==
    ASSUME NEW s, NEW t, NEW out, NEW now
    PROVE  /\ ResRow(s, t, out).time = t /\ ResRow(s, t, out).invalid = out
           /\ [ResRow(s, t, out) EXCEPT !.invalid = now] = ResRow(s, t, now)
           /\ \A f \in {"call", "square", "six", "km", "serial", "band"} : ResRow(s, t, out)[f] = s[f]
  BY DEF ResRow

\* A row has the time it was logged at, and is struck out or not.
LEMMA ResRowIs ==
    ASSUME ResultsAssumption, NEW row \in ResRows
    PROVE  /\ row.time \in ResTimes /\ row.time \in Nat /\ row.invalid \in BOOLEAN
           /\ [row EXCEPT !.invalid = ~@] \in ResRows
           /\ \E s \in ResStations : \A f \in DOMAIN s : row[f] = s[f]
<1>1. PICK s \in ResStations, t \in ResTimes, out \in BOOLEAN : row = ResRow(s, t, out)
  BY DEF ResRows
<1>2. ResTimes \subseteq Nat /\ DOMAIN s = {"call", "square", "six", "km", "serial", "band"}
  BY DEF ResultsAssumption
<1>3. row.time = t /\ row.invalid = out /\ \A f \in DOMAIN s : row[f] = s[f]
  BY <1>1, <1>2, ResRowHas
<1>4. PICK now \in BOOLEAN : now = ~out
  OBVIOUS
<1>5. [row EXCEPT !.invalid = now] \in ResRows
  BY <1>1, ResRowHas DEF ResRows
<1>6. (~row.invalid) = now
  BY <1>3, <1>4
<1>7. [row EXCEPT !.invalid = ~@] \in ResRows
  BY <1>5, <1>6, Zenon
<1> QED
  BY <1>2, <1>3, <1>7

\* What the invariant says of the rows, one by one.
LEMMA ResRowsAre ==
    ASSUME ResultsAssumption, ResInv
    PROVE  /\ Len(resLog) \in Nat /\ ResIds = 1..Len(resLog)
           /\ \A i \in ResIds : resLog[i] \in ResRows /\ resLog[i].time \in Nat /\ resLog[i].invalid \in BOOLEAN
<1>1. Len(resLog) \in Nat /\ ResIds = 1..Len(resLog) /\ \A i \in ResIds : resLog[i] \in ResRows
  BY LenProperties, ElementOfSeq DEF ResInv, ResIds
<1> QED
  BY <1>1, ResRowIs

\* One row more, with its station's words.
LEMMA LoggedRow ==
    ASSUME ResultsAssumption, ResInv, NEW s \in ResStations, NEW t \in ResTimes, ResLogged(s, t)
    PROVE  /\ Len(resLog) < ResMaxQsos /\ resLog' \in Seq(ResRows)
           /\ Len(resLog') = Len(resLog) + 1 /\ ResIds' = 1..(Len(resLog) + 1)
           /\ resLog'[Len(resLog) + 1] \in ResRows /\ resLog'[Len(resLog) + 1].invalid = FALSE
           /\ \A i \in 1..Len(resLog) : resLog'[i] = resLog[i]
<1> PICK no \in BOOLEAN : no = FALSE
  OBVIOUS
<1>1. resLog' = Append(resLog, ResRow(s, t, no)) /\ Len(resLog) < ResMaxQsos
  BY Zenon DEF ResLogged, ResRow
<1>2. ResRow(s, t, no) \in ResRows /\ ResRow(s, t, no).invalid = no
  BY ResRowHas DEF ResRows
<1>3. resLog \in Seq(ResRows)
  BY DEF ResInv
<1>4. resLog' \in Seq(ResRows) /\ Len(resLog') = Len(resLog) + 1
      /\ resLog'[Len(resLog) + 1] = ResRow(s, t, no)
      /\ \A i \in 1..Len(resLog) : resLog'[i] = resLog[i]
  BY <1>1, <1>2, <1>3, AppendProperties, LenProperties
<1>5. DOMAIN resLog' = 1..(Len(resLog) + 1)
  BY <1>4, LenProperties
<1> QED
  BY <1>1, <1>2, <1>4, <1>5 DEF ResIds

\* A row struck out, or taken back in, is the same contact.
LEMMA StruckRow ==
    ASSUME ResultsAssumption, ResInv, NEW i \in ResIds, ResMarkedInvalid(i)
    PROVE  resLog' \in Seq(ResRows) /\ Len(resLog') = Len(resLog)
<1>1. resLog' = [resLog EXCEPT ![i] = [resLog[i] EXCEPT !.invalid = ~@]]
  BY DEF ResMarkedInvalid
<1>2. [resLog[i] EXCEPT !.invalid = ~@] \in ResRows
  BY ResRowsAre, ResRowIs
<1> QED
  BY <1>1, <1>2, ExceptSeq DEF ResInv, ResIds

\* Every step.
LEMMA ResStep ==
    ASSUME ResultsAssumption, ResInv, [ResNext]_resLog
    PROVE  ResInv'
<1>1. CASE \E s \in ResStations, t \in ResTimes : ResLogged(s, t)
  <2>1. resLog' \in Seq(ResRows) /\ Len(resLog') = Len(resLog) + 1 /\ Len(resLog) < ResMaxQsos
    BY <1>1, LoggedRow
  <2>2. Len(resLog) \in Nat /\ ResMaxQsos \in Nat
    BY ResRowsAre DEF ResultsAssumption
  <2> QED
    BY <2>1, <2>2 DEF ResInv
<1>2. CASE \E i \in ResIds : ResMarkedInvalid(i)
  BY <1>2, StruckRow DEF ResInv
<1>3. CASE UNCHANGED resLog
  BY <1>3 DEF ResInv
<1> QED
  BY <1>1, <1>2, <1>3 DEF ResNext

\* The empty log.
LEMMA ResStarts == ASSUME ResultsAssumption, ResInit PROVE ResInv
<1>1. resLog \in Seq(ResRows) /\ Len(resLog) = 0 /\ ResMaxQsos \in Nat
  BY EmptySeq DEF ResInit, ResultsAssumption
<1> QED
  BY <1>1 DEF ResInv

\* The invariant has the types.
LEMMA ResShows == ASSUME ResultsAssumption, ResInv PROVE ResTypeOK
<1>1. \A i \in ResIds : resLog[i] \in ResRows
  BY ResRowsAre
<1> QED
  BY <1>1, ResRowIs DEF ResTypeOK, ResInv

-----------------------------------------------------------------------------
(* Rows and their points *)

\* What the readers take from a row.
LEMMA RowsHave ==
    ASSUME ResultsAssumption, ResInv
    PROVE  \A i \in ResIds :
              /\ resLog[i].time \in Nat /\ resLog[i].invalid \in BOOLEAN /\ resLog[i].six \in BOOLEAN
              /\ resLog[i].serial \in BOOLEAN /\ resLog[i].km \in Nat
<1> SUFFICES ASSUME NEW i \in ResIds
             PROVE  /\ resLog[i].time \in Nat /\ resLog[i].invalid \in BOOLEAN /\ resLog[i].six \in BOOLEAN
                    /\ resLog[i].serial \in BOOLEAN /\ resLog[i].km \in Nat
  OBVIOUS
<1>1. resLog[i] \in ResRows /\ resLog[i].time \in Nat /\ resLog[i].invalid \in BOOLEAN
  BY ResRowsAre
<1>2. PICK s \in ResStations : \A f \in DOMAIN s : resLog[i][f] = s[f]
  BY <1>1, ResRowIs
<1>3. /\ DOMAIN s = {"call", "square", "six", "km", "serial", "band"}
      /\ s.km \in Nat /\ s.six \in BOOLEAN /\ s.serial \in BOOLEAN
  BY DEF ResultsAssumption
<1>4. resLog[i].km = s.km /\ resLog[i].six = s.six /\ resLog[i].serial = s.serial
  BY <1>2, <1>3
<1> QED
  BY <1>1, <1>3, <1>4

\* The sets of rows are finite.
LEMMA RowsAreFinite ==
    ASSUME ResultsAssumption, ResInv
    PROVE  /\ IsFiniteSet(ResIds) /\ ResIds \in SUBSET Nat /\ ValidRows \in SUBSET ResIds /\ Counting \in SUBSET ValidRows
           /\ \A S \in SUBSET ResIds : IsFiniteSet(S) /\ Cardinality(S) \in Nat
<1>1. ResIds = 1..Len(resLog) /\ Len(resLog) \in Nat
  BY ResRowsAre
<1>2. IsFiniteSet(ResIds)
  BY <1>1, FS_Interval
<1>3. \A S \in SUBSET ResIds : IsFiniteSet(S) /\ Cardinality(S) \in Nat
  BY <1>2, FS_Subset, FS_CardinalityType
<1> QED
  BY <1>1, <1>2, <1>3 DEF ValidRows, Counting

\* Distances and points are numbers, and no points go to a row that does not count.
LEMMA PointsAre ==
    ASSUME ResultsAssumption, ResInv
    PROVE  /\ \A i \in ResIds : QsoDistanceKm(i) \in Int /\ QsoDistancePoints(i) \in Nat
           /\ \A i \in ResIds : Points[i] \in Nat /\ Points[i] \in Int /\ Points[i] = QsoPoints(i)
           /\ \A i \in ResIds \ Counting : Points[i] = 0
<1>1. ASSUME NEW i \in ResIds
      PROVE  QsoDistanceKm(i) \in Int /\ QsoDistancePoints(i) \in Nat
  <2>1. resLog[i].six \in BOOLEAN /\ resLog[i].km \in Nat
    BY RowsHave
  <2>2. QsoDistanceKm(i) \in Int
    BY <2>1 DEF QsoDistanceKm
  <2>3. QsoDistanceKm(i) >= 0 => QsoDistanceKm(i) + 1 \in Nat
    BY <2>2
  <2>4. (QsoDistancePoints(i) = QsoDistanceKm(i) + 1 /\ QsoDistanceKm(i) >= 0) \/ QsoDistancePoints(i) = 0
    BY Zenon DEF QsoDistancePoints
  <2> QED
    BY <2>2, <2>3, <2>4
<1>2. ASSUME NEW i \in ResIds
      PROVE  Points[i] = QsoPoints(i) /\ QsoPoints(i) \in Nat /\ (i \notin Counting => QsoPoints(i) = 0)
  <2>1. Points[i] = QsoPoints(i)
    BY Zenon DEF Points
  <2>2. QsoPoints(i) \in {0, 1, QsoDistancePoints(i)} /\ (i \notin Counting => QsoPoints(i) = 0)
    BY DEF QsoPoints
  <2> QED
    BY <1>1, <2>1, <2>2
<1> QED
  BY <1>1, <1>2

-----------------------------------------------------------------------------
(* The rows by time *)

Earlier(S) == {p \in S \X S : ByTime(p[1], p[2])}

\* The list by time has each row once, the earlier one first.
LEMMA InTimeOrderLists ==
    ASSUME ResultsAssumption, ResInv, NEW S \in SUBSET ResIds
    PROVE  Lists(InTimeOrder(S), S, Earlier(S))
<1>0. IsFiniteSet(S) /\ (\A i \in S : i \in Nat /\ resLog[i].time \in Nat)
  BY RowsAreFinite, RowsHave
<1>1. \A i, j \in S : <<i, j>> \in Earlier(S) <=> ByTime(i, j)
  BY DEF Earlier
<1>2. \A i, j \in S : ByTime(i, j) <=> resLog[i].time < resLog[j].time \/ (resLog[i].time = resLog[j].time /\ i < j)
  BY DEF ByTime
<1>3. \A i \in S : <<i, i>> \notin Earlier(S)
  BY <1>0, <1>1, <1>2
<1>4. \A i, j, k \in S : <<i, j>> \in Earlier(S) /\ <<j, k>> \in Earlier(S) => <<i, k>> \in Earlier(S)
  BY <1>0, <1>1, <1>2
<1>5. \A i, j \in S : i = j \/ <<i, j>> \in Earlier(S) \/ <<j, i>> \in Earlier(S)
  <2>1. SUFFICES ASSUME NEW i \in S, NEW j \in S
                 PROVE  i = j \/ ByTime(i, j) \/ ByTime(j, i)
    BY <1>1
  <2>2. i \in Nat /\ j \in Nat /\ resLog[i].time \in Nat /\ resLog[j].time \in Nat
    BY <1>0
  <2> QED
    BY <2>2, <1>2
<1>6. EachHasItsPlace(S, Earlier(S))
  BY <1>0, <1>3, <1>4, <1>5, PlacesAreTaken
<1>7. \A i \in S : Ahead(S, Earlier(S), i) = {j \in S : ByTime(j, i)}
  BY <1>1 DEF Ahead
<1>8. \A m \in 1..Cardinality(S) : \E i \in S : Cardinality({j \in S : ByTime(j, i)}) = m - 1
  BY <1>6, <1>7 DEF EachHasItsPlace
<1>9. InTimeOrder(S) = [n \in 1..Cardinality(S) |-> CHOOSE i \in S : Cardinality({j \in S : ByTime(j, i)}) = n - 1]
  BY Zenon DEF InTimeOrder, InOrder
<1>10. \A n \in 1..Cardinality(S) : InTimeOrder(S)[n] \in S /\ Cardinality({j \in S : ByTime(j, InTimeOrder(S)[n])}) = n - 1
  BY <1>8, <1>9, Zenon
<1>11. \A n \in 1..Cardinality(S) : InTimeOrder(S)[n] \in S /\ Cardinality(Ahead(S, Earlier(S), InTimeOrder(S)[n])) = n - 1
  BY <1>7, <1>10
<1>12. InTimeOrder(S) = [n \in 1..Cardinality(S) |-> InTimeOrder(S)[n]]
  BY <1>9, Zenon
<1> QED
  BY <1>0, <1>3, <1>4, <1>5, <1>6, <1>11, <1>12, PlacedRight

\* A list of rows has just these rows.
LEMMA ListHas == ASSUME NEW list, NEW S, NEW R, Lists(list, S, R) PROVE ToSet(list) = S
  BY DEF ToSet, Lists

\* What the score of a list comes from.
LEMMA ScoreIs ==
    ASSUME NEW list, NEW S, NEW R, Lists(list, S, R)
    PROVE  /\ ScoreOf(list).qsos = Cardinality(S \cap Counting)
           /\ ScoreOf(list).dupes = Cardinality((S \cap ValidRows) \ Counting)
           /\ ScoreOf(list).points = SumFunctionOnSet(Points, S)
           /\ ScoreOf(list).squares = Cardinality({resLog[i].square : i \in S \cap Counting} \ {""})
           /\ ScoreOf(list).odx = Odx(list)
<1>1. ToSet(list) = S
  BY ListHas
<1> DEFINE q == Cardinality(S \cap Counting)
           d == Cardinality((S \cap ValidRows) \ Counting)
           p == SumFunctionOnSet(Points, S)
           s == Cardinality({resLog[i].square : i \in S \cap Counting} \ {""})
           o == Odx(list)
<1>2. ScoreOf(list) = [qsos |-> q, dupes |-> d, points |-> p, squares |-> s, odx |-> o]
  BY <1>1, Zenon DEF ScoreOf
<1> HIDE DEF q, d, p, s, o
<1>3. /\ ScoreOf(list).qsos = q /\ ScoreOf(list).dupes = d /\ ScoreOf(list).points = p
      /\ ScoreOf(list).squares = s /\ ScoreOf(list).odx = o
  BY <1>2
<1> QED
  BY <1>3 DEF q, d, p, s, o

-----------------------------------------------------------------------------
(* The file of a band *)

\* The least number of a set is one of it.
LEMMA MinIsLeast ==
    ASSUME NEW S \in SUBSET Nat, S # {}
    PROVE  Min(S) \in S /\ \A i \in S : Min(S) <= i
<1>1. \E n \in S : \A m \in S : n <= m
  BY LeastExists
<1>2. Min(S) = CHOOSE n \in S : \A m \in S : n <= m
  BY Zenon DEF Min
<1> QED
  BY <1>1, <1>2, Zenon

\* Of some values the greatest is taken somewhere.
LEMMA GreatestExists ==
    ASSUME NEW S, IsFiniteSet(S), S # {}, NEW h, \A x \in S : h[x] \in Int
    PROVE  \E x \in S : \A y \in S : h[y] <= h[x]
<1> DEFINE C == {T \in SUBSET S : T # {} /\ ~ \E x \in T : \A y \in T : h[y] <= h[x]}
<1>1. SUFFICES ASSUME C # {} PROVE FALSE
  <2>1. S \notin C => \E x \in S : \A y \in S : h[y] <= h[x]
    OBVIOUS
  <2> QED
    BY <2>1
<1>2. PICK T \in C : \A U \in C : U \subseteq T => U = T
  <2>1. C \in SUBSET SUBSET S
    OBVIOUS
  <2> HIDE DEF C
  <2> QED
    BY <1>1, <2>1, SmallestExists
<1>3. T \in SUBSET S /\ T # {} /\ ~ \E x \in T : \A y \in T : h[y] <= h[x]
  OBVIOUS
<1>4. PICK c \in T : TRUE
  BY <1>3
<1> DEFINE U == T \ {c}
<1>5. U \in SUBSET S /\ U \subseteq T /\ U # T
  BY <1>3
<1>6. U # {} => \E x \in U : \A y \in U : h[y] <= h[x]
  BY <1>2, <1>5
<1>7. CASE U = {}
  <2>1. \A y \in T : y = c
    BY <1>7
  <2> QED
    BY <1>3, <2>1
<1>8. CASE U # {}
  <2>1. PICK x \in U : \A y \in U : h[y] <= h[x]
    BY <1>6, <1>8
  <2>2. h[x] \in Int /\ h[c] \in Int /\ \A y \in U : h[y] \in Int
    BY <1>3, <1>5
  <2>3. CASE h[c] <= h[x]
    <3>1. \A y \in T : h[y] <= h[x]
      BY <2>1, <2>3
    <3> QED
      BY <1>3, <3>1
  <2>4. CASE h[x] < h[c]
    <3>1. \A y \in T : h[y] <= h[c]
      BY <2>1, <2>2, <2>4
    <3> QED
      BY <1>3, <3>1
  <2> QED
    BY <2>2, <2>3, <2>4
<1> QED
  BY <1>7, <1>8

\* Nothing that counts is farther than the ODX.
LEMMA OdxIsFarthest ==
    ASSUME ResultsAssumption, ResInv, NEW S \in SUBSET ResIds, NEW R, NEW list, Lists(list, S, R), Odx(list) # 0
    PROVE  \A i \in S \cap Counting : QsoDistanceKm(i) <= QsoDistanceKm(Odx(list))
<1> DEFINE km == [n \in DOMAIN list |-> QsoDistanceKm(list[n])]
           known == {n \in DOMAIN list : list[n] \in Counting /\ km[n] >= 0}
           farthest == {n \in known : \A m \in known : km[m] <= km[n]}
<1>0. /\ Cardinality(S) \in Nat /\ DOMAIN list = 1..Cardinality(S) /\ \A n \in DOMAIN list : list[n] \in S
      /\ \A i \in S : \E n \in DOMAIN list : list[n] = i
  BY DEF Lists
<1>1. \A n \in DOMAIN list : km[n] \in Int /\ km[n] = QsoDistanceKm(list[n])
  BY <1>0, PointsAre
<1> HIDE DEF km
<1>2. Odx(list) = IF known = {} THEN 0 ELSE list[Min(farthest)]
  BY <1>1, Zenon DEF Odx, km
<1>3. known # {}
  BY <1>2
<1>4. IsFiniteSet(known) /\ known \in SUBSET Nat /\ known \subseteq DOMAIN list
  <2>1. IsFiniteSet(DOMAIN list)
    BY <1>0, FS_Interval
  <2>2. known \subseteq DOMAIN list
    OBVIOUS
  <2> HIDE DEF known
  <2> QED
    BY <1>0, <2>1, <2>2, FS_Subset
<1>5. farthest # {} /\ farthest \in SUBSET Nat
  <2>1. \A n \in known : km[n] \in Int
    BY <1>1
  <2>2. \E n \in known : \A m \in known : km[m] <= km[n]
    <3> HIDE DEF known
    <3> QED
      BY <1>3, <1>4, <2>1, GreatestExists
  <2> QED
    BY <1>4, <2>2
<1> DEFINE best == Min(farthest)
<1>6. best \in farthest
  <2> HIDE DEF farthest
  <2> QED
    BY <1>5, MinIsLeast
<1>7. Odx(list) = list[best] /\ best \in known /\ \A m \in known : km[m] <= km[best]
  BY <1>2, <1>3, <1>6
<1> HIDE DEF best
<1>8. QsoDistanceKm(Odx(list)) = km[best] /\ km[best] \in Int /\ km[best] >= 0
  BY <1>1, <1>7
<1>9. ASSUME NEW i \in S \cap Counting
      PROVE  QsoDistanceKm(i) <= km[best]
  <2>1. PICK n \in DOMAIN list : list[n] = i
    BY <1>0
  <2>2. km[n] = QsoDistanceKm(i) /\ km[n] \in Int
    BY <1>1, <2>1
  <2>3. km[n] >= 0 => n \in known
    BY <2>1
  <2> QED
    BY <1>7, <1>8, <2>2, <2>3
<1> QED
  BY <1>8, <1>9

\* As EdiLine() has it: the line of a counting row brings a new square.
BringsNew(S, i) ==
    /\ ~IsDupeRow(i) /\ resLog[i].square # ""
    /\ resLog[i].square \notin {resLog[j].square : j \in {j \in S : ByTime(j, i) /\ ~IsDupeRow(j)}}

\* The lines of a file are the rows of the band by time.
LEMMA EdiFileHas ==
    ASSUME ResultsAssumption, ResInv, NEW b
    PROVE  LET S == OnBand(ValidRows, b)
               order == InTimeOrder(S)
               file == EdiFile(b)
           IN  /\ S \in SUBSET ResIds /\ Lists(order, S, Earlier(S))
               /\ file.claimed = ScoreOf(order) /\ file.records = Cardinality(S)
               /\ DOMAIN file.lines = 1..Cardinality(S)
               /\ \A n \in 1..Cardinality(S) :
                     /\ file.lines[n].row = order[n] /\ file.lines[n].points = QsoPoints(order[n])
                     /\ file.lines[n].dupe <=> IsDupeRow(order[n])
                     /\ file.lines[n].new <=> BringsNew(S, order[n])
<1> DEFINE S == OnBand(ValidRows, b)
           order == InTimeOrder(S)
           file == EdiFile(b)
           lines == [n \in DOMAIN order |-> EdiLine(S, order[n])]
<1>1. S \in SUBSET ResIds
  BY RowsAreFinite DEF OnBand
<1>2. Lists(order, S, Earlier(S))
  <2> HIDE DEF S
  <2> QED
    BY <1>1, InTimeOrderLists
<1>3. Len(order) = Cardinality(S) /\ DOMAIN order = 1..Cardinality(S)
  BY <1>2, Zenon DEF Lists
<1>4. file = [claimed |-> ScoreOf(order), records |-> Len(order), lines |-> lines]
  BY Zenon DEF EdiFile
<1> HIDE DEF file, lines
<1>5. file.claimed = ScoreOf(order) /\ file.records = Len(order) /\ file.lines = lines
  <2> HIDE DEF order
  <2> QED
    BY <1>4
<1>6. DOMAIN lines = 1..Cardinality(S) /\ \A n \in 1..Cardinality(S) : lines[n] = EdiLine(S, order[n])
  BY <1>3, Zenon DEF lines
<1>7. ASSUME NEW i
      PROVE  /\ EdiLine(S, i).row = i /\ EdiLine(S, i).points = QsoPoints(i)
             /\ EdiLine(S, i).dupe <=> IsDupeRow(i)
             /\ EdiLine(S, i).new <=> BringsNew(S, i)
  <2> HIDE DEF S
  <2>1. PICK d \in BOOLEAN : d = IsDupeRow(i)
    BY DEF IsDupeRow
  <2>2. PICK w \in BOOLEAN : w = BringsNew(S, i)
    BY DEF BringsNew
  <2>3. EdiLine(S, i) = [row |-> i, points |-> QsoPoints(i), dupe |-> IsDupeRow(i), new |-> BringsNew(S, i)]
    BY Zenon DEF EdiLine, BringsNew
  <2>4. EdiLine(S, i) = [row |-> i, points |-> QsoPoints(i), dupe |-> d, new |-> w]
    BY <2>1, <2>2, <2>3, Zenon
  <2> DEFINE line == EdiLine(S, i)
  <2> HIDE DEF line
  <2>5. line = [row |-> i, points |-> QsoPoints(i), dupe |-> d, new |-> w]
    BY <2>4, Zenon DEF line
  <2>6. line.row = i /\ line.points = QsoPoints(i) /\ line.dupe = d /\ line.new = w
    BY <2>5
  <2> QED
    BY <2>1, <2>2, <2>6, Zenon DEF line
<1>8. ASSUME NEW n \in 1..Cardinality(S)
      PROVE  /\ file.lines[n].row = order[n] /\ file.lines[n].points = QsoPoints(order[n])
             /\ file.lines[n].dupe <=> IsDupeRow(order[n])
             /\ file.lines[n].new <=> BringsNew(S, order[n])
  <2>1. file.lines[n] = EdiLine(S, order[n])
    BY <1>5, <1>6, Zenon
  <2> QED
    BY <1>7, <2>1, Zenon
<1> QED
  BY <1>1, <1>2, <1>3, <1>5, <1>6, <1>8, Zenon DEF file

\* A list, as a one-to-one answer of places to elements.
LEMMA ListIsBijection ==
    ASSUME NEW list, NEW S, NEW R, Lists(list, S, R)
    PROVE  list \in Bijection(1..Cardinality(S), S)
<1>1. [n \in 1..Cardinality(S) |-> list[n]] \in Bijection(1..Cardinality(S), S)
  <2> DEFINE I == 1..Cardinality(S)
  <2>1. (\A n \in I : list[n] \in S) /\ (\A m, n \in I : list[m] = list[n] => m = n)
          /\ (\A y \in S : \E n \in I : list[n] = y)
    BY Zenon DEF Lists
  <2> HIDE DEF I
  <2>2. [n \in I |-> list[n]] \in Bijection(I, S)
    BY <2>1, OneForOne
  <2> QED
    BY <2>2 DEF I
<1>2. list \in [1..Cardinality(S) -> S]
  <2>1. list \in Seq(S) /\ Len(list) = Cardinality(S)
    BY DEF Lists
  <2> QED
    BY <2>1, LenProperties
<1>3. list = [n \in 1..Cardinality(S) |-> list[n]]
  BY <1>2
<1> QED
  BY <1>1, <1>3, Zenon

\* As many places as elements of one kind.
LEMMA PlacesOf ==
    ASSUME NEW list, NEW S, NEW R, Lists(list, S, R), NEW T \in SUBSET S
    PROVE  Cardinality({n \in 1..Cardinality(S) : list[n] \in T}) = Cardinality(T)
<1> DEFINE N == {n \in 1..Cardinality(S) : list[n] \in T}
<1>1. /\ \A n \in N : list[n] \in T
      /\ \A m, n \in N : list[m] = list[n] => m = n
      /\ \A y \in T : \E n \in N : list[n] = y
  BY DEF Lists
<1>2. IsFiniteSet(N)
  <2>1. IsFiniteSet(1..Cardinality(S)) /\ N \subseteq 1..Cardinality(S)
    BY FS_Interval DEF Lists
  <2> HIDE DEF N
  <2> QED
    BY <2>1, FS_Subset
<1> HIDE DEF N
<1>3. Cardinality(T) = Cardinality(N)
  BY <1>1, <1>2, OneForOne
<1> QED
  BY <1>3 DEF N

\* Nobody is before himself, nor two before each other.
LEMMA TimeIsOneWay ==
    ASSUME ResultsAssumption, ResInv, NEW i \in ResIds, NEW j \in ResIds, ByTime(i, j)
    PROVE  ~ ByTime(j, i) /\ i # j
<1>1. i \in Nat /\ j \in Nat /\ resLog[i].time \in Nat /\ resLog[j].time \in Nat
  BY RowsHave, RowsAreFinite
<1> QED
  BY <1>1 DEF ByTime

\* A row that is valid counts unless it is a dupe.
LEMMA ValidCounts == \A i \in ValidRows : i \in Counting <=> ~IsDupeRow(i)
  BY Zenon DEF Counting

\* One line with an N for each square.
LEMMA SquaresAreNew ==
    ASSUME ResultsAssumption, ResInv, NEW S \in SUBSET ValidRows, NEW order, Lists(order, S, Earlier(S))
    PROVE  Cardinality({n \in 1..Cardinality(S) : BringsNew(S, order[n])})
             = Cardinality({resLog[i].square : i \in S \cap Counting} \ {""})
<1> DEFINE c == Cardinality(S)
           N == {n \in 1..c : BringsNew(S, order[n])}
           Q == {resLog[i].square : i \in S \cap Counting} \ {""}
           square == [n \in N |-> resLog[order[n]].square]
<1>0. /\ c \in Nat /\ \A n \in 1..c : order[n] \in S
      /\ \A i \in S : \E n \in 1..c : order[n] = i
      /\ \A m, n \in 1..c : m < n => ByTime(order[m], order[n])
  BY DEF Lists, Earlier
<1>1. S \subseteq ResIds /\ \A i \in S : i \in Counting <=> ~IsDupeRow(i)
  BY RowsAreFinite, ValidCounts
<1>2. \A n \in 1..c : n \in Nat
  BY <1>0
<1>3. \A m, n \in 1..c : n <= m /\ n # m => n < m
  BY <1>2
<1> HIDE DEF c
<1>4. \A n \in N : square[n] = resLog[order[n]].square /\ n \in 1..c /\ order[n] \in S /\ BringsNew(S, order[n])
  BY <1>0
<1>5. ASSUME NEW n \in N
      PROVE  square[n] \in Q
  <2>1. order[n] \in S /\ order[n] \in Counting /\ resLog[order[n]].square # ""
    BY <1>1, <1>4, Zenon DEF BringsNew
  <2> QED
    BY <1>4, <2>1
<1>6. ASSUME NEW m \in N, NEW n \in N, m < n, square[m] = square[n]
      PROVE  FALSE
  <2> DEFINE i == order[m]
             j == order[n]
  <2>1. ByTime(i, j) /\ i \in S
    BY <1>0, <1>4, <1>6
  <2>2. ~IsDupeRow(i)
    BY <1>4, Zenon DEF BringsNew
  <2>3. resLog[i].square = resLog[j].square
    BY <1>4, <1>6
  <2>4. resLog[j].square \notin {resLog[k].square : k \in {k \in S : ByTime(k, j) /\ ~IsDupeRow(k)}}
    BY <1>4, Zenon DEF BringsNew
  <2> HIDE DEF i, j
  <2>5. i \in {k \in S : ByTime(k, j) /\ ~IsDupeRow(k)}
    BY <2>1, <2>2
  <2> QED
    BY <2>3, <2>4, <2>5
<1>7. \A m, n \in N : square[m] = square[n] => m = n
  <2> SUFFICES ASSUME NEW m \in N, NEW n \in N, square[m] = square[n], m # n
               PROVE  FALSE
    OBVIOUS
  <2>1. m \in Nat /\ n \in Nat
    BY <1>0, <1>4
  <2>2. m < n \/ n < m
    BY <2>1
  <2> HIDE DEF N, square
  <2> QED
    BY <1>6, <2>2
<1>8. ASSUME NEW q \in Q
      PROVE  \E n \in N : square[n] = q
  <2> DEFINE P == {n \in 1..c : order[n] \in Counting /\ resLog[order[n]].square = q}
  <2>1. PICK i \in S \cap Counting : resLog[i].square = q /\ q # ""
    OBVIOUS
  <2>2. P # {} /\ P \in SUBSET Nat
    <3>1. PICK n \in 1..c : order[n] = i
      BY <1>0, <2>1
    <3>2. n \in P
      BY <2>1, <3>1
    <3>3. P \in SUBSET Nat
      BY <1>2, Zenon
    <3> QED
      BY <3>2, <3>3
  <2>3. PICK n \in P : \A m \in P : n <= m
    <3> HIDE DEF P
    <3> QED
      BY <2>2, LeastExists
  <2> DEFINE first == order[n]
  <2>4. n \in 1..c /\ first \in S /\ first \in Counting /\ resLog[first].square = q
    BY <1>0, <2>3
  <2>5. ASSUME NEW j \in S, ByTime(j, first), ~IsDupeRow(j), resLog[j].square = q
        PROVE  FALSE
    <3>1. PICK m \in 1..c : order[m] = j
      BY <1>0
    <3>2. m \in P
      BY <1>1, <2>5, <3>1
    <3>3. n <= m
      BY <2>3, <3>2
    <3>4. j # first /\ ~ByTime(first, j)
      BY <1>1, <2>4, <2>5, TimeIsOneWay
    <3>5. n # m
      BY <3>1, <3>4
    <3>6. n < m
      BY <1>3, <2>4, <3>3, <3>5, Zenon
    <3> QED
      BY <1>0, <2>4, <3>1, <3>4, <3>6
  <2>6. BringsNew(S, first)
    <3>1. ~IsDupeRow(first)
      BY <1>1, <2>4
    <3>2. resLog[first].square \notin {resLog[j].square : j \in {j \in S : ByTime(j, first) /\ ~IsDupeRow(j)}}
      <4> HIDE DEF first
      <4> QED
        BY <2>4, <2>5
    <3> QED
      BY <2>1, <2>4, <3>1, <3>2, Zenon DEF BringsNew
  <2>7. n \in N
    BY <2>4, <2>6
  <2> QED
    BY <2>4, <2>7
<1>9. IsFiniteSet(N)
  <2>1. IsFiniteSet(1..c) /\ N \subseteq 1..c
    BY <1>0, FS_Interval
  <2> HIDE DEF N
  <2> QED
    BY <2>1, FS_Subset
<1> HIDE DEF N, Q, square
<1>10. Cardinality(Q) = Cardinality(N)
  BY <1>5, <1>7, <1>8, <1>9, OneForOne
<1> QED
  BY <1>10 DEF c, N, Q

\* The head of each band's file.
LEMMA ClaimsAreRight == ASSUME ResultsAssumption, ResInv PROVE ClaimsMatchLines
<1> SUFFICES ASSUME NEW b
             PROVE  LET file == EdiFile(b)
                        lines == DOMAIN file.lines
                        counted == {n \in lines : ~file.lines[n].dupe}
                    IN  /\ file.records = Cardinality(OnBand(ValidRows, b))
                        /\ file.claimed.qsos = Cardinality(counted)
                        /\ file.claimed.points = SumFunction([n \in lines |-> file.lines[n].points])
                        /\ file.claimed.squares = Cardinality({n \in lines : file.lines[n].new})
                        /\ \A n \in lines : file.lines[n].dupe => file.lines[n].points = 0
                        /\ file.claimed.odx # 0 =>
                              \A n \in counted : QsoDistanceKm(file.lines[n].row) <= QsoDistanceKm(file.claimed.odx)
  BY Zenon DEF ClaimsMatchLines
<1> DEFINE S == OnBand(ValidRows, b)
           order == InTimeOrder(S)
           file == EdiFile(b)
           lines == DOMAIN file.lines
           c == Cardinality(S)
           counted == {n \in lines : ~file.lines[n].dupe}
           points == [n \in lines |-> file.lines[n].points]
           newOnes == {n \in lines : file.lines[n].new}
<1>1. /\ S \in SUBSET ResIds /\ Lists(order, S, Earlier(S))
      /\ file.claimed = ScoreOf(order) /\ file.records = Cardinality(S)
      /\ lines = 1..c
      /\ \A n \in 1..c :
            /\ file.lines[n].row = order[n] /\ file.lines[n].points = QsoPoints(order[n])
            /\ file.lines[n].dupe <=> IsDupeRow(order[n])
            /\ file.lines[n].new <=> BringsNew(S, order[n])
  BY EdiFileHas, Zenon
<1>2. S \in SUBSET ValidRows
  BY DEF OnBand
<1> HIDE DEF S, order, file
<1>3. /\ c \in Nat /\ (\A n \in 1..c : order[n] \in S) /\ \A i \in S : i \in Counting <=> ~IsDupeRow(i)
  BY <1>1, <1>2, ValidCounts DEF Lists
<1>4. /\ file.claimed.qsos = Cardinality(S \cap Counting)
      /\ file.claimed.points = SumFunctionOnSet(Points, S)
      /\ file.claimed.squares = Cardinality({resLog[i].square : i \in S \cap Counting} \ {""})
      /\ file.claimed.odx = Odx(order)
  BY <1>1, ScoreIs, Zenon
<1> HIDE DEF c, lines
<1>5. counted = {n \in 1..c : order[n] \in S \cap Counting}
  <2>1. \A n \in 1..c : ~file.lines[n].dupe <=> order[n] \in S \cap Counting
    BY <1>1, <1>3, Zenon
  <2> QED
    BY <1>1, <2>1, Zenon
<1>6. Cardinality(counted) = Cardinality(S \cap Counting)
  BY <1>1, <1>5, PlacesOf DEF c
<1>7. file.claimed.points = SumFunction(points)
  <2>1. \A n \in 1..c : points[n] = Points[order[n]]
    <3> SUFFICES ASSUME NEW n \in 1..c PROVE points[n] = Points[order[n]]
      OBVIOUS
    <3>1. points[n] = QsoPoints(order[n])
      BY <1>1, Zenon
    <3>2. order[n] \in ResIds
      BY <1>1, <1>3
    <3> QED
      BY <3>1, <3>2, PointsAre, Zenon
  <2>2. order \in Bijection(1..c, S)
    BY <1>1, ListIsBijection DEF c
  <2>3. IsFiniteSet(1..c) /\ \A i \in S : Points[i] \in Int
    BY <1>1, <1>3, PointsAre, FS_Interval
  <2> DEFINE I == 1..c
  <2>4. DOMAIN points = I
    BY <1>1
  <2> HIDE DEF points, I
  <2>6. (\A n \in I : points[n] = Points[order[n]]) /\ order \in Bijection(I, S) /\ IsFiniteSet(I)
    BY <2>1, <2>2, <2>3, Zenon DEF I
  <2>5. SumFunctionOnSet(points, I) = SumFunctionOnSet(Points, S)
    <3> HIDE DEF counted, newOnes
    <3> QED
      BY <2>3, <2>6, SumRenamed
  <2> QED
    BY <1>4, <2>4, <2>5, Zenon DEF SumFunction
<1>8. file.claimed.squares = Cardinality(newOnes)
  <2>1. newOnes = {n \in 1..c : BringsNew(S, order[n])}
    BY <1>1, Zenon
  <2>2. Cardinality({n \in 1..c : BringsNew(S, order[n])}) = Cardinality({resLog[i].square : i \in S \cap Counting} \ {""})
    BY <1>1, <1>2, SquaresAreNew DEF c
  <2> QED
    BY <1>4, <2>1, <2>2, Zenon
<1>9. ASSUME NEW n \in lines, file.lines[n].dupe
      PROVE  file.lines[n].points = 0
  <2>1. n \in 1..c /\ IsDupeRow(order[n]) /\ file.lines[n].points = QsoPoints(order[n])
    BY <1>1, <1>9, Zenon
  <2>2. order[n] \notin Counting
    BY <1>3, <2>1
  <2>3. QsoPoints(order[n]) = 0
    BY <2>2, Zenon DEF QsoPoints
  <2> QED
    BY <2>1, <2>3, Zenon
<1>10. ASSUME file.claimed.odx # 0, NEW n \in counted
       PROVE  QsoDistanceKm(file.lines[n].row) <= QsoDistanceKm(file.claimed.odx)
  <2>1. Odx(order) # 0
    BY <1>4, <1>10
  <2>2. n \in 1..c /\ order[n] \in S \cap Counting
    BY <1>5
  <2>3. QsoDistanceKm(order[n]) <= QsoDistanceKm(Odx(order))
    BY <1>1, <2>1, <2>2, OdxIsFarthest
  <2>4. file.lines[n].row = order[n] /\ file.claimed.odx = Odx(order)
    BY <1>1, <1>4, <2>2, Zenon
  <2> QED
    BY <2>3, <2>4, Zenon
<1>11. file.records = Cardinality(S) /\ file.claimed.qsos = Cardinality(counted)
  BY <1>1, <1>4, <1>6, Zenon
<1> HIDE DEF counted, points, newOnes
<1> QED
  BY <1>7, <1>8, <1>9, <1>10, <1>11, Zenon DEF S, file, lines, counted, points, newOnes

-----------------------------------------------------------------------------
(* The bands *)

\* The sum of the sizes of the groups is the size of the whole.
LEMMA SizesOfGroups ==
    ASSUME NEW S, IsFiniteSet(S), NEW I, IsFiniteSet(I), NEW k, \A x \in S : k[x] \in I,
           NEW in, \A i \in I : in[i] = {x \in S : k[x] = i},
           NEW g, \A i \in I : g[i] = Cardinality(in[i])
    PROVE  SumFunctionOnSet(g, I) = Cardinality(S)
<1> DEFINE ones == [x \in S |-> 1]
<1>1. \A x \in S : ones[x] = 1 /\ ones[x] \in Int
  OBVIOUS
<1> HIDE DEF ones
<1>2. \A i \in I : g[i] = SumFunctionOnSet(ones, in[i])
  <2> SUFFICES ASSUME NEW i \in I PROVE g[i] = SumFunctionOnSet(ones, in[i])
    OBVIOUS
  <2>1. in[i] \subseteq S
    OBVIOUS
  <2>2. IsFiniteSet(in[i]) /\ (\A x \in in[i] : ones[x] = 1) /\ g[i] = Cardinality(in[i])
    BY <1>1, <2>1, FS_Subset
  <2> QED
    BY <2>2, SumOfOnes
<1>3. SumFunctionOnSet(g, I) = SumFunctionOnSet(ones, S)
  BY <1>1, <1>2, SumOfGroups
<1> QED
  BY <1>1, <1>3, SumOfOnes

\* Each band stands once in the list, and every row's is in it.
LEMMA BandsAre ==
    ASSUME ResultsAssumption, ResInv
    PROVE  /\ IsFiniteSet(DOMAIN ScoredBands)
           /\ \A m, n \in DOMAIN ScoredBands : ScoredBands[m] = ScoredBands[n] => m = n
           /\ \A i \in ValidRows : \E n \in DOMAIN ScoredBands : ScoredBands[n] = resLog[i].band
<1> DEFINE log == ById(ValidRows)
           logged == [n \in DOMAIN log |-> resLog[log[n]].band]
           all == ResBands \o logged
           places == {n \in DOMAIN all : \A m \in 1..(n - 1) : all[m] # all[n]}
           first == ById(places)
           c == Cardinality(ValidRows)
           T == STRING \cup {resLog[i].band : i \in ValidRows}
<1>1. ValidRows \in SUBSET Nat /\ IsFiniteSet(ValidRows)
  BY RowsAreFinite
<1>2. Lists(log, ValidRows, Lesser(ValidRows))
  BY <1>1, ByIdLists
<1>3. /\ c \in Nat /\ DOMAIN log = 1..c /\ (\A n \in 1..c : log[n] \in ValidRows)
      /\ \A i \in ValidRows : \E n \in 1..c : log[n] = i
  BY <1>2 DEF Lists
<1> HIDE DEF log, c
<1>4. logged \in Seq(T) /\ Len(logged) = c /\ \A n \in 1..c : logged[n] = resLog[log[n]].band
  <2>1. \A n \in 1..c : resLog[log[n]].band \in T
    BY <1>3
  <2>2. logged = [n \in 1..c |-> resLog[log[n]].band]
    BY <1>3, Zenon
  <2> HIDE DEF T
  <2>3. logged \in [1..c -> T]
    BY <2>1, <2>2
  <2> HIDE DEF logged
  <2> QED
    BY <1>3, <2>2, <2>3, RowIsSeq
<1>5. ResBands \in Seq(T) /\ Len(ResBands) \in Nat
  <2>1. ResBands \in Seq(STRING) /\ STRING \subseteq T
    BY DEF ResultsAssumption
  <2> HIDE DEF T
  <2> QED
    BY <2>1, SeqMonotonic, LenProperties
<1> DEFINE r == Len(ResBands)
<1> HIDE DEF logged, T
<1>6. all \in Seq(T) /\ Len(all) = r + c /\ DOMAIN all = 1..(r + c) /\ \A n \in 1..c : all[r + n] = logged[n]
  <2>1. all \in Seq(T) /\ Len(all) = r + c
        /\ \A i \in 1..(r + c) : all[i] = IF i <= r THEN ResBands[i] ELSE logged[i - r]
    BY <1>4, <1>5, ConcatProperties
  <2>2. DOMAIN all = 1..(r + c)
    BY <2>1, LenProperties
  <2>3. ASSUME NEW n \in 1..c
        PROVE  all[r + n] = logged[n]
    <3>1. r + n \in 1..(r + c) /\ ~ (r + n <= r) /\ (r + n) - r = n
      BY <1>3, <1>5
    <3> QED
      BY <2>1, <3>1
  <2> QED
    BY <2>1, <2>2, <2>3
<1>7. r \in Nat /\ c \in Nat
  BY <1>3, <1>5
<1> HIDE DEF all, r
<1>8. places \in SUBSET Nat /\ IsFiniteSet(places) /\ \A n \in places : n \in 1..(r + c)
  <2>1. places \subseteq 1..(r + c)
    BY <1>6
  <2>2. 1..(r + c) \subseteq Nat /\ IsFiniteSet(1..(r + c))
    BY <1>7, FS_Interval
  <2> HIDE DEF places
  <2> QED
    BY <2>1, <2>2, FS_Subset
<1>9. Lists(first, places, Lesser(places))
  <2> HIDE DEF places
  <2> QED
    BY <1>8, ByIdLists
<1>10. ScoredBands = [n \in DOMAIN first |-> all[first[n]]]
  BY Zenon DEF ScoredBands, all, logged, log
<1> DEFINE k == Cardinality(places)
<1>11. /\ k \in Nat /\ DOMAIN first = 1..k /\ (\A n \in 1..k : first[n] \in places)
       /\ (\A n, m \in 1..k : first[n] = first[m] => n = m)
       /\ \A p \in places : \E n \in 1..k : first[n] = p
  <2> HIDE DEF places, first
  <2> QED
    BY <1>9 DEF Lists
<1> HIDE DEF first, k
<1>12. ASSUME NEW p \in places, NEW q \in places, all[p] = all[q], p < q
       PROVE  FALSE
  <2>1. p \in Nat /\ q \in Nat /\ p \in 1..(r + c)
    BY <1>8
  <2>2. p \in 1..(q - 1)
    BY <1>12, <2>1
  <2> QED
    BY <1>12, <2>2
<1>13. \A p, q \in places : all[p] = all[q] => p = q
  <2> SUFFICES ASSUME NEW p \in places, NEW q \in places, all[p] = all[q] PROVE p = q
    OBVIOUS
  <2>1. p \in Nat /\ q \in Nat
    BY <1>8
  <2> HIDE DEF places
  <2> QED
    BY <1>12, <2>1
<1>14. \A m, n \in 1..k : all[first[m]] = all[first[n]] => m = n
  <2> HIDE DEF places
  <2> QED
    BY <1>11, <1>13
<1>15. ASSUME NEW i \in ValidRows
       PROVE  \E n \in 1..k : all[first[n]] = resLog[i].band
  <2> DEFINE P == {n \in 1..(r + c) : all[n] = resLog[i].band}
  <2>1. PICK n \in 1..c : log[n] = i
    BY <1>3
  <2>2. all[r + n] = resLog[i].band
    BY <1>4, <1>6, <2>1
  <2>3. r + n \in 1..(r + c)
    BY <1>7
  <2>4. P # {} /\ P \in SUBSET Nat
    BY <2>2, <2>3
  <2>5. PICK p \in P : \A m \in P : p <= m
    <3> HIDE DEF P
    <3> QED
      BY <2>4, LeastExists
  <2>6. p \in 1..(r + c) /\ all[p] = resLog[i].band
    BY <2>5
  <2>7. ASSUME NEW m \in 1..(p - 1) PROVE all[m] # all[p]
    <3>1. m \in 1..(r + c) /\ ~ (p <= m)
      BY <1>7, <2>6
    <3>2. m \notin P
      BY <2>5, <3>1
    <3> QED
      BY <2>6, <3>1, <3>2
  <2>8. p \in places
    BY <1>6, <2>6, <2>7
  <2> HIDE DEF places, P
  <2>9. PICK m \in 1..k : first[m] = p
    BY <1>11, <2>8
  <2> QED
    BY <2>6, <2>9
<1>16. DOMAIN ScoredBands = 1..k /\ \A n \in 1..k : ScoredBands[n] = all[first[n]]
  BY <1>10, <1>11
<1>17. IsFiniteSet(1..k)
  BY <1>11, FS_Interval
<1> HIDE DEF places
<1> QED
  BY <1>14, <1>15, <1>16, <1>17

\* The number a band has in the list.
BandOf(i) == CHOOSE n \in DOMAIN ScoredBands : ScoredBands[n] = resLog[i].band

\* Rows whose band is listed fall into groups, one for each listed band.
LEMMA BandGroups ==
    ASSUME ResultsAssumption, ResInv,
           NEW X \in SUBSET ResIds, \A i \in X : \E n \in DOMAIN ScoredBands : ScoredBands[n] = resLog[i].band
    PROVE  \A i \in X : /\ BandOf(i) \in DOMAIN ScoredBands
                        /\ \A n \in DOMAIN ScoredBands : BandOf(i) = n <=> resLog[i].band = ScoredBands[n]
<1> SUFFICES ASSUME NEW i \in X
             PROVE  /\ BandOf(i) \in DOMAIN ScoredBands
                    /\ \A n \in DOMAIN ScoredBands : BandOf(i) = n <=> resLog[i].band = ScoredBands[n]
  OBVIOUS
<1>1. BandOf(i) \in DOMAIN ScoredBands /\ ScoredBands[BandOf(i)] = resLog[i].band
  BY Zenon DEF BandOf
<1>2. \A m, n \in DOMAIN ScoredBands : ScoredBands[m] = ScoredBands[n] => m = n
  BY BandsAre
<1> QED
  BY <1>1, <1>2, Zenon

\* The points of the bands are the points of the log.
LEMMA PointsByBand ==
    ASSUME ResultsAssumption, ResInv,
           NEW g, \A n \in DOMAIN ScoredBands : g[n] = SumFunctionOnSet(Points, OnBand(ResIds, ScoredBands[n]))
    PROVE  SumFunctionOnSet(g, DOMAIN ScoredBands) = SumFunctionOnSet(Points, ResIds)
<1> DEFINE bands == DOMAIN ScoredBands
           X == {i \in ResIds : \E n \in bands : ScoredBands[n] = resLog[i].band}
           k == [i \in X |-> BandOf(i)]
           in == [n \in bands |-> OnBand(ResIds, ScoredBands[n])]
<1>1. X \in SUBSET ResIds /\ \A i \in X : \E n \in bands : ScoredBands[n] = resLog[i].band
  OBVIOUS
<1>2. \A i \in X : BandOf(i) \in bands /\ \A n \in bands : BandOf(i) = n <=> resLog[i].band = ScoredBands[n]
  <2> HIDE DEF X
  <2> QED
    BY <1>1, BandGroups
<1>3. \A i \in X : k[i] = BandOf(i) /\ k[i] \in bands
  BY <1>2
<1>4. \A n \in bands : in[n] = {x \in X : k[x] = n}
  <2> SUFFICES ASSUME NEW n \in bands PROVE in[n] = {x \in X : k[x] = n}
    OBVIOUS
  <2>1. in[n] = {i \in ResIds : resLog[i].band = ScoredBands[n]}
    BY DEF OnBand
  <2>2. \A i \in ResIds : resLog[i].band = ScoredBands[n] <=> i \in X /\ k[i] = n
    <3> SUFFICES ASSUME NEW i \in ResIds PROVE resLog[i].band = ScoredBands[n] <=> i \in X /\ k[i] = n
      OBVIOUS
    <3>1. resLog[i].band = ScoredBands[n] => i \in X
      OBVIOUS
    <3>2. i \in X => k[i] = BandOf(i)
      BY <1>3
    <3>3. i \in X => (BandOf(i) = n <=> resLog[i].band = ScoredBands[n])
      BY <1>2
    <3> HIDE DEF X, k
    <3> QED
      BY <3>1, <3>2, <3>3
  <2> HIDE DEF X, k, in
  <2> QED
    BY <1>1, <2>1, <2>2
<1>5. \A n \in bands : g[n] = SumFunctionOnSet(Points, in[n])
  OBVIOUS
<1>6. IsFiniteSet(bands) /\ IsFiniteSet(X) /\ \A x \in X : Points[x] \in Int
  <2> HIDE DEF X
  <2> QED
    BY <1>1, BandsAre, RowsAreFinite, PointsAre
<1>7. \A i \in ResIds \ X : Points[i] = 0
  <2>1. ASSUME NEW i \in ResIds, i \in Counting PROVE i \in X
    <3>1. i \in ValidRows
      BY <2>1, RowsAreFinite
    <3> QED
      BY <3>1, BandsAre
  <2> HIDE DEF X
  <2> QED
    BY <2>1, PointsAre
<1> HIDE DEF X, k, in, bands
<1>8. SumFunctionOnSet(g, bands) = SumFunctionOnSet(Points, X)
  BY <1>3, <1>4, <1>5, <1>6, SumOfGroups
<1>9. SumFunctionOnSet(Points, ResIds) = SumFunctionOnSet(Points, X)
  BY <1>1, <1>7, SumOfPart, RowsAreFinite, PointsAre
<1> QED
  BY <1>8, <1>9 DEF bands

\* The QSOs of the bands are the QSOs of the log.
LEMMA QsosByBand ==
    ASSUME ResultsAssumption, ResInv,
           NEW g, \A n \in DOMAIN ScoredBands : g[n] = Cardinality(OnBand(Counting, ScoredBands[n]))
    PROVE  SumFunctionOnSet(g, DOMAIN ScoredBands) = Cardinality(Counting)
<1> DEFINE bands == DOMAIN ScoredBands
           k == [i \in Counting |-> BandOf(i)]
           in == [n \in bands |-> OnBand(Counting, ScoredBands[n])]
<1>1. Counting \in SUBSET ResIds /\ \A i \in Counting : \E n \in bands : ScoredBands[n] = resLog[i].band
  <2>1. \A i \in Counting : i \in ValidRows
    BY RowsAreFinite
  <2>2. \A i \in ValidRows : \E n \in bands : ScoredBands[n] = resLog[i].band
    BY BandsAre
  <2> QED
    BY <2>1, <2>2, RowsAreFinite
<1>2. \A i \in Counting : BandOf(i) \in bands /\ \A n \in bands : BandOf(i) = n <=> resLog[i].band = ScoredBands[n]
  BY <1>1, BandGroups
<1>3. \A i \in Counting : k[i] = BandOf(i) /\ k[i] \in bands
  BY <1>2
<1>4. \A n \in bands : in[n] = {x \in Counting : k[x] = n}
  <2> SUFFICES ASSUME NEW n \in bands PROVE in[n] = {x \in Counting : k[x] = n}
    OBVIOUS
  <2>1. in[n] = {i \in Counting : resLog[i].band = ScoredBands[n]}
    BY DEF OnBand
  <2>2. \A i \in Counting : resLog[i].band = ScoredBands[n] <=> k[i] = n
    <3> SUFFICES ASSUME NEW i \in Counting PROVE resLog[i].band = ScoredBands[n] <=> k[i] = n
      OBVIOUS
    <3>1. k[i] = BandOf(i)
      BY <1>3
    <3>2. BandOf(i) = n <=> resLog[i].band = ScoredBands[n]
      BY <1>2
    <3> HIDE DEF k
    <3> QED
      BY <3>1, <3>2
  <2> HIDE DEF k, in
  <2> QED
    BY <2>1, <2>2
<1>5. \A n \in bands : g[n] = Cardinality(in[n])
  OBVIOUS
<1>6. IsFiniteSet(bands) /\ IsFiniteSet(Counting)
  BY <1>1, BandsAre, RowsAreFinite
<1> HIDE DEF k, in, bands
<1>7. SumFunctionOnSet(g, bands) = Cardinality(Counting)
  BY <1>3, <1>4, <1>5, <1>6, SizesOfGroups
<1> QED
  BY <1>7 DEF bands

-----------------------------------------------------------------------------
(* The score of the log, of a band and of its file *)

\* The score of the log: what counts, what is a dupe, the points of all.
LEMMA ContestScoreIs ==
    ASSUME ResultsAssumption, ResInv
    PROVE  /\ ContestScore.qsos = Cardinality(Counting)
           /\ ContestScore.dupes = Cardinality(ValidRows \ Counting)
           /\ ContestScore.points = SumFunctionOnSet(Points, ResIds)
<1>1. Lists(ById(ResIds), ResIds, Lesser(ResIds))
  BY RowsAreFinite, ByIdLists
<1>2. ResIds \cap Counting = Counting /\ (ResIds \cap ValidRows) \ Counting = ValidRows \ Counting
  BY RowsAreFinite
<1> QED
  BY <1>1, <1>2, ScoreIs DEF ContestScore

\* The score of a band is that of its rows.
LEMMA BandScoreIs ==
    ASSUME ResultsAssumption, ResInv
    PROVE  \A n \in DOMAIN ScoredBands :
              /\ BandScores[n].points = SumFunctionOnSet(Points, OnBand(ResIds, ScoredBands[n]))
              /\ BandScores[n].qsos = Cardinality(OnBand(Counting, ScoredBands[n]))
              /\ BandScores[n].squares = Cardinality({resLog[i].square : i \in OnBand(Counting, ScoredBands[n])} \ {""})
<1> SUFFICES ASSUME NEW n \in DOMAIN ScoredBands
             PROVE  /\ BandScores[n].points = SumFunctionOnSet(Points, OnBand(ResIds, ScoredBands[n]))
                    /\ BandScores[n].qsos = Cardinality(OnBand(Counting, ScoredBands[n]))
                    /\ BandScores[n].squares = Cardinality({resLog[i].square : i \in OnBand(Counting, ScoredBands[n])} \ {""})
  OBVIOUS
<1> DEFINE S == OnBand(ResIds, ScoredBands[n])
<1>1. BandScores[n] = ScoreOf(ById(S))
  BY Zenon DEF BandScores
<1>2. S \in SUBSET ResIds
  BY DEF OnBand
<1>3. Lists(ById(S), S, Lesser(S))
  <2>1. S \in SUBSET Nat /\ IsFiniteSet(S)
    BY <1>2, RowsAreFinite
  <2> HIDE DEF S
  <2> QED
    BY <2>1, ByIdLists
<1>4. S \cap Counting = OnBand(Counting, ScoredBands[n])
  BY RowsAreFinite DEF OnBand
<1> HIDE DEF S
<1>5. /\ ScoreOf(ById(S)).qsos = Cardinality(S \cap Counting)
      /\ ScoreOf(ById(S)).points = SumFunctionOnSet(Points, S)
      /\ ScoreOf(ById(S)).squares = Cardinality({resLog[i].square : i \in S \cap Counting} \ {""})
  BY <1>3, ScoreIs, Zenon
<1> QED
  BY <1>1, <1>4, <1>5, Zenon DEF S

\* The head of a band's file claims the same, from the valid rows by time.
LEMMA FileScoreIs ==
    ASSUME ResultsAssumption, ResInv, NEW b
    PROVE  /\ EdiFile(b).claimed.points = SumFunctionOnSet(Points, OnBand(ResIds, b))
           /\ EdiFile(b).claimed.qsos = Cardinality(OnBand(Counting, b))
           /\ EdiFile(b).claimed.squares = Cardinality({resLog[i].square : i \in OnBand(Counting, b)} \ {""})
<1> DEFINE S == OnBand(ValidRows, b)
           all == OnBand(ResIds, b)
           order == InTimeOrder(S)
<1>1. Lists(order, S, Earlier(S)) /\ EdiFile(b).claimed = ScoreOf(order)
  BY EdiFileHas, Zenon
<1>2. S \cap Counting = OnBand(Counting, b) /\ S \in SUBSET all /\ all \in SUBSET ResIds
        /\ (\A i \in all \ S : i \notin Counting)
  BY RowsAreFinite DEF OnBand
<1> HIDE DEF S, order, all
<1>3. /\ ScoreOf(order).qsos = Cardinality(S \cap Counting)
      /\ ScoreOf(order).points = SumFunctionOnSet(Points, S)
      /\ ScoreOf(order).squares = Cardinality({resLog[i].square : i \in S \cap Counting} \ {""})
  BY <1>1, ScoreIs, Zenon
<1>4. SumFunctionOnSet(Points, all) = SumFunctionOnSet(Points, S)
  <2>1. IsFiniteSet(all) /\ (\A i \in all : Points[i] \in Int) /\ \A i \in all \ S : Points[i] = 0
    BY <1>2, RowsAreFinite, PointsAre
  <2> QED
    BY <1>2, <2>1, SumOfPart
<1> QED
  BY <1>1, <1>2, <1>3, <1>4, Zenon DEF all

-----------------------------------------------------------------------------
(* The hours *)

HourOf(i) == resLog[i].time \div Hour
InHour(h) == {i \in Counting : resLog[i].time \div Hour = h}
HoursListed ==
    LET hours == {resLog[i].time \div Hour : i \in Counting}
    IN  IF hours = {} THEN {} ELSE IF Max(hours) - Min(hours) <= 48 THEN Min(hours)..Max(hours) ELSE hours

\* The greatest number of a finite set is one of it.
LEMMA MaxIsGreatest ==
    ASSUME NEW S \in SUBSET Nat, S # {}, IsFiniteSet(S)
    PROVE  Max(S) \in S /\ \A i \in S : Max(S) >= i
<1> DEFINE h == [x \in S |-> x]
<1>1. \A x \in S : h[x] \in Int /\ h[x] = x
  OBVIOUS
<1> HIDE DEF h
<1>2. \E x \in S : \A y \in S : h[y] <= h[x]
  BY <1>1, GreatestExists
<1>3. \E x \in S : \A y \in S : x >= y
  BY <1>1, <1>2
<1>4. Max(S) = CHOOSE x \in S : \A y \in S : x >= y
  BY Zenon DEF Max
<1> QED
  BY <1>3, <1>4, Zenon

\* Every hour with a QSO that counts is listed.
LEMMA HoursAre ==
    ASSUME ResultsAssumption, ResInv
    PROVE  /\ IsFiniteSet(HoursListed) /\ HoursListed \in SUBSET Nat
           /\ \A i \in Counting : HourOf(i) \in HoursListed
<1> DEFINE hours == {resLog[i].time \div Hour : i \in Counting}
           at == [i \in Counting |-> resLog[i].time \div Hour]
<1>1. \A i \in Counting : resLog[i].time \div Hour \in Nat
  <2>1. \A i \in Counting : resLog[i].time \in Nat
    BY RowsHave, RowsAreFinite
  <2> QED
    BY <2>1 DEF Hour
<1>2. hours \in SUBSET Nat
  BY <1>1
<1>3. IsFiniteSet(hours)
  <2>1. IsFiniteSet({at[i] : i \in Counting})
    <3> HIDE DEF at
    <3> QED
      BY ImageIsFinite, RowsAreFinite
  <2>2. hours = {at[i] : i \in Counting}
    OBVIOUS
  <2> QED
    BY <2>1, <2>2
<1>4. \A i \in Counting : HourOf(i) \in hours
  BY DEF HourOf
<1>5. HoursListed = IF hours = {} THEN {} ELSE IF Max(hours) - Min(hours) <= 48 THEN Min(hours)..Max(hours) ELSE hours
  BY Zenon DEF HoursListed
<1> HIDE DEF hours
<1>6. CASE hours = {}
  BY <1>4, <1>5, <1>6, FS_EmptySet
<1>7. CASE hours # {}
  <2> DEFINE lo == Min(hours)
             hi == Max(hours)
  <2>1. lo \in Nat /\ hi \in Nat /\ \A h \in hours : h \in Nat /\ lo <= h /\ h <= hi
    <3>1. lo \in hours /\ \A h \in hours : lo <= h
      BY <1>2, <1>7, MinIsLeast
    <3>2. hi \in hours /\ \A h \in hours : hi >= h
      BY <1>2, <1>3, <1>7, MaxIsGreatest
    <3> QED
      BY <1>2, <3>1, <3>2
  <2>2. HoursListed = lo..hi \/ HoursListed = hours
    BY <1>5, <1>7
  <2> HIDE DEF lo, hi
  <2>3. IsFiniteSet(lo..hi) /\ lo..hi \in SUBSET Nat /\ \A h \in hours : h \in lo..hi
    BY <2>1, FS_Interval
  <2> QED
    BY <1>2, <1>3, <1>4, <2>2, <2>3
<1> QED
  BY <1>6, <1>7

\* A row of the table of hours.
LEMMA HourRowsAre ==
    ASSUME ResultsAssumption, ResInv
    PROVE  LET order == ById(HoursListed)
               c == Cardinality(HoursListed)
           IN  /\ Lists(order, HoursListed, Lesser(HoursListed)) /\ DOMAIN HourRows = 1..c
               /\ \A n \in 1..c : /\ HourRows[n].qsos = Cardinality(InHour(order[n]))
                                  /\ HourRows[n].points = SumFunctionOnSet(Points, InHour(order[n]))
<1> DEFINE order == ById(HoursListed)
           c == Cardinality(HoursListed)
           row == [n \in 1..c |-> [hour |-> order[n], qsos |-> Cardinality(InHour(order[n])),
                                   points |-> SumFunctionOnSet(Points, InHour(order[n]))]]
<1>1. Lists(order, HoursListed, Lesser(HoursListed))
  BY HoursAre, ByIdLists
<1>2. HourRows = row
  BY Zenon DEF HourRows, HoursListed, InHour, ById
<1>3. ASSUME NEW n \in 1..c
      PROVE  HourRows[n].qsos = Cardinality(InHour(order[n])) /\ HourRows[n].points
              = SumFunctionOnSet(Points, InHour(order[n]))
  <2> DEFINE q == Cardinality(InHour(order[n]))
             p == SumFunctionOnSet(Points, InHour(order[n]))
             h == order[n]
  <2>1. HourRows[n] = [hour |-> h, qsos |-> q, points |-> p]
    BY <1>2, Zenon
  <2> HIDE DEF q, p, h
  <2>2. HourRows[n].qsos = q /\ HourRows[n].points = p
    BY <2>1
  <2> QED
    BY <2>2 DEF q, p
<1>4. DOMAIN HourRows = 1..c
  BY <1>2, Zenon
<1> QED
  BY <1>1, <1>3, <1>4, Zenon

\* The rows of the hours add up to the score.
LEMMA HoursAddUp ==
    ASSUME ResultsAssumption, ResInv,
           NEW q, \A n \in DOMAIN HourRows : q[n] = HourRows[n].qsos,
           NEW p, \A n \in DOMAIN HourRows : p[n] = HourRows[n].points
    PROVE  /\ SumFunctionOnSet(q, DOMAIN HourRows) = Cardinality(Counting)
           /\ SumFunctionOnSet(p, DOMAIN HourRows) = SumFunctionOnSet(Points, ResIds)
<1> DEFINE I == DOMAIN HourRows
           order == ById(HoursListed)
           c == Cardinality(HoursListed)
           k == [i \in Counting |-> CHOOSE n \in I : order[n] = HourOf(i)]
           in == [n \in I |-> InHour(order[n])]
<1>1. /\ c \in Nat /\ I = 1..c
      /\ (\A n, m \in I : order[n] = order[m] => n = m)
      /\ (\A h \in HoursListed : \E n \in I : order[n] = h)
      /\ \A n \in I : HourRows[n].qsos = Cardinality(InHour(order[n])) /\ HourRows[n].points
              = SumFunctionOnSet(Points, InHour(order[n]))
  BY HourRowsAre, Zenon DEF Lists
<1> HIDE DEF order, I, c
<1>2. \A i \in Counting : \E n \in I : order[n] = HourOf(i)
  BY <1>1, HoursAre
<1>3. \A i \in Counting : k[i] \in I /\ order[k[i]] = HourOf(i)
  BY <1>2, Zenon
<1> HIDE DEF k
<1>4. \A n \in I : in[n] = {i \in Counting : k[i] = n}
  <2> SUFFICES ASSUME NEW n \in I PROVE in[n] = {i \in Counting : k[i] = n}
    OBVIOUS
  <2>1. in[n] = {i \in Counting : HourOf(i) = order[n]}
    BY DEF InHour, HourOf
  <2>2. \A i \in Counting : HourOf(i) = order[n] <=> k[i] = n
    BY <1>1, <1>3
  <2> HIDE DEF in
  <2> QED
    BY <2>1, <2>2
<1>5. \A n \in I : q[n] = Cardinality(in[n]) /\ p[n] = SumFunctionOnSet(Points, in[n])
  <2> SUFFICES ASSUME NEW n \in I PROVE q[n] = Cardinality(in[n]) /\ p[n] = SumFunctionOnSet(Points, in[n])
    OBVIOUS
  <2>1. q[n] = HourRows[n].qsos
    BY Zenon DEF I
  <2>2. p[n] = HourRows[n].points
    BY Zenon DEF I
  <2>3. in[n] = InHour(order[n])
    BY Zenon
  <2>4. HourRows[n].qsos = Cardinality(InHour(order[n]))
    BY <1>1, Zenon
  <2>5. HourRows[n].points = SumFunctionOnSet(Points, InHour(order[n]))
    BY <1>1, Zenon
  <2> HIDE DEF in
  <2> QED
    BY <2>1, <2>2, <2>3, <2>4, <2>5, Zenon
<1>6. IsFiniteSet(I) /\ IsFiniteSet(Counting) /\ Counting \in SUBSET ResIds /\ IsFiniteSet(ResIds)
  <2>1. c \in Nat /\ I = 1..c
    BY <1>1
  <2>2. IsFiniteSet(1..c)
    BY <2>1, FS_Interval
  <2>3. IsFiniteSet(I)
    BY <2>1, <2>2
  <2> QED
    BY <2>3, RowsAreFinite
<1> HIDE DEF in
<1>7. SumFunctionOnSet(q, I) = Cardinality(Counting)
  BY <1>3, <1>4, <1>5, <1>6, SizesOfGroups
<1>8. (\A i \in ResIds : Points[i] \in Int) /\ (\A i \in Counting : Points[i] \in Int)
        /\ \A i \in ResIds \ Counting : Points[i] = 0
  BY <1>6, PointsAre
<1>9. SumFunctionOnSet(p, I) = SumFunctionOnSet(Points, Counting)
  BY <1>3, <1>4, <1>5, <1>6, <1>8, SumOfGroups
<1>10. SumFunctionOnSet(Points, ResIds) = SumFunctionOnSet(Points, Counting)
  BY <1>6, <1>8, SumOfPart
<1> QED
  BY <1>7, <1>9, <1>10 DEF I

\* No hour has more QSOs than the one shown as the best.
LEMMA BestHourIsBest ==
    ASSUME ResultsAssumption, ResInv
    PROVE  \A n \in DOMAIN HourRows : HourRows[n].qsos <= BestHour.qsos
<1> SUFFICES ASSUME NEW n \in DOMAIN HourRows PROVE HourRows[n].qsos <= BestHour.qsos
  OBVIOUS
<1> DEFINE I == DOMAIN HourRows
           q == [m \in I |-> HourRows[m].qsos]
           busiest == {m \in I : \A k \in I : q[k] <= q[m]}
<1>1. Cardinality(HoursListed) \in Nat /\ I = 1..Cardinality(HoursListed)
      /\ \A m \in I : HourRows[m].qsos = Cardinality(InHour(ById(HoursListed)[m]))
  BY HourRowsAre, Zenon DEF Lists
<1>2. \A m \in I : q[m] = HourRows[m].qsos /\ q[m] \in Nat
  <2>1. \A h : InHour(h) \in SUBSET ResIds
    BY RowsAreFinite DEF InHour
  <2>2. \A h : Cardinality(InHour(h)) \in Nat
    BY <2>1, RowsAreFinite
  <2>3. \A m \in I : q[m] = HourRows[m].qsos
    OBVIOUS
  <2> HIDE DEF q, I
  <2> QED
    BY <1>1, <2>2, <2>3, Zenon
<1>3. HourRows # <<>>
  <2>1. DOMAIN HourRows # DOMAIN <<>>
    OBVIOUS
  <2> QED
    BY <2>1
<1> HIDE DEF q
<1>4. BestHour = HourRows[Min(busiest)]
  <2>1. busiest = {m \in DOMAIN HourRows : \A k \in DOMAIN HourRows : HourRows[k].qsos <= HourRows[m].qsos}
    BY <1>2, Zenon
  <2> HIDE DEF busiest
  <2> QED
    BY <1>3, <2>1, Zenon DEF BestHour
<1>5. busiest # {} /\ busiest \in SUBSET Nat
  <2>1. IsFiniteSet(I) /\ I # {} /\ I \in SUBSET Nat
    <3> DEFINE c == Cardinality(HoursListed)
    <3>1. c \in Nat /\ I = 1..c
      BY <1>1
    <3> HIDE DEF c
    <3>2. IsFiniteSet(1..c)
      BY <3>1, FS_Interval
    <3>3. n \in I
      OBVIOUS
    <3> HIDE DEF I
    <3>4. \A j \in 1..c : j \in Nat
      BY <3>1
    <3> QED
      BY <3>1, <3>2, <3>3, <3>4
  <2>2. \A m \in I : q[m] \in Int
    BY <1>2
  <2>3. \E m \in I : \A k \in I : q[k] <= q[m]
    <3> HIDE DEF I
    <3> QED
      BY <2>1, <2>2, GreatestExists
  <2> HIDE DEF I
  <2> QED
    BY <2>1, <2>3
<1>6. Min(busiest) \in busiest
  <2> HIDE DEF busiest
  <2> QED
    BY <1>5, MinIsLeast
<1> DEFINE m == Min(busiest)
<1>7. m \in I /\ \A k \in I : q[k] <= q[m]
  BY <1>6
<1> HIDE DEF m
<1>8. q[n] <= q[m] /\ q[n] = HourRows[n].qsos /\ q[m] = HourRows[m].qsos
  BY <1>2, <1>7
<1> QED
  BY <1>4, <1>8, Zenon DEF m

-----------------------------------------------------------------------------
(* The longest distances *)

WithDistance == {i \in Counting : QsoDistancePoints(i) > 0}
FartherThan(i, j) == \/ QsoDistancePoints(i) > QsoDistancePoints(j)
                     \/ QsoDistancePoints(i) = QsoDistancePoints(j) /\ ByTime(i, j)
Farther == {p \in WithDistance \X WithDistance : FartherThan(p[1], p[2])}
ByDistance == [n \in 1..Cardinality(WithDistance) |->
                 CHOOSE i \in WithDistance : Cardinality({j \in WithDistance : FartherThan(j, i)}) = n - 1]

\* The list of the longest is the beginning of the one by distance.
LEMMA LongestIs == \A max : LongestList(max) = SubSeq(ByDistance, 1, Min({max, Len(ByDistance)}))
  BY Zenon DEF LongestList, InOrder, ByDistance, WithDistance, FartherThan

\* The rows with a distance in their order.
LEMMA ByDistanceLists ==
    ASSUME ResultsAssumption, ResInv
    PROVE  Lists(ByDistance, WithDistance, Farther)
<1> DEFINE S == WithDistance
           R == Farther
<1>0. S \in SUBSET Counting /\ IsFiniteSet(S) /\ \A i \in S : i \in Nat /\ resLog[i].time \in Nat
        /\ QsoDistancePoints(i) \in Nat
  <2>1. S \in SUBSET Counting
    BY DEF WithDistance
  <2>2. S \in SUBSET ResIds
    BY <2>1, RowsAreFinite
  <2> HIDE DEF S
  <2> QED
    BY <2>1, <2>2, RowsAreFinite, RowsHave, PointsAre
<1>1. \A i, j \in S : <<i, j>> \in R <=> FartherThan(i, j)
  BY DEF Farther
<1>2. \A i, j \in S : FartherThan(i, j) <=>
         \/ QsoDistancePoints(i) > QsoDistancePoints(j)
         \/ QsoDistancePoints(i) = QsoDistancePoints(j)
            /\ (resLog[i].time < resLog[j].time \/ (resLog[i].time = resLog[j].time /\ i < j))
  BY DEF FartherThan, ByTime
<1> DEFINE d == [i \in S |-> QsoDistancePoints(i)]
           t == [i \in S |-> resLog[i].time]
<1>3. \A i \in S : i \in Nat /\ d[i] \in Nat /\ t[i] \in Nat
  BY <1>0
<1>4. \A i, j \in S : <<i, j>> \in R <=> d[i] > d[j] \/ (d[i] = d[j] /\ (t[i] < t[j] \/ (t[i] = t[j] /\ i < j)))
  <2> SUFFICES ASSUME NEW i \in S, NEW j \in S
               PROVE  <<i, j>> \in R <=> d[i] > d[j] \/ (d[i] = d[j] /\ (t[i] < t[j] \/ (t[i] = t[j] /\ i < j)))
    OBVIOUS
  <2>1. d[i] = QsoDistancePoints(i) /\ d[j] = QsoDistancePoints(j) /\ t[i] = resLog[i].time /\ t[j] = resLog[j].time
    OBVIOUS
  <2> HIDE DEF d, t, S, R
  <2> QED
    BY <1>1, <1>2, <2>1
<1> HIDE DEF S, R, d, t
<1>5. \A i \in S : <<i, i>> \notin R
  BY <1>3, <1>4
<1>6. \A i, j, k \in S : <<i, j>> \in R /\ <<j, k>> \in R => <<i, k>> \in R
  <2> SUFFICES ASSUME NEW i \in S, NEW j \in S, NEW k \in S, <<i, j>> \in R, <<j, k>> \in R PROVE <<i, k>> \in R
    OBVIOUS
  <2> QED
    BY <1>3, <1>4
<1>7. \A i, j \in S : i = j \/ <<i, j>> \in R \/ <<j, i>> \in R
  <2> SUFFICES ASSUME NEW i \in S, NEW j \in S PROVE i = j \/ <<i, j>> \in R \/ <<j, i>> \in R
    OBVIOUS
  <2> QED
    BY <1>3, <1>4
<1>8. EachHasItsPlace(S, R)
  BY <1>0, <1>5, <1>6, <1>7, PlacesAreTaken
<1>9. \A i \in S : Ahead(S, R, i) = {j \in S : FartherThan(j, i)}
  BY <1>1 DEF Ahead
<1>10. \A m \in 1..Cardinality(S) : \E i \in S : Cardinality({j \in S : FartherThan(j, i)}) = m - 1
  BY <1>8, <1>9 DEF EachHasItsPlace
<1>11. ByDistance = [n \in 1..Cardinality(S) |-> CHOOSE i \in S : Cardinality({j \in S : FartherThan(j, i)}) = n - 1]
  BY Zenon DEF ByDistance, S
<1>12. \A n \in 1..Cardinality(S) : ByDistance[n] \in S /\ Cardinality({j \in S : FartherThan(j, ByDistance[n])}) = n - 1
  BY <1>10, <1>11, Zenon
<1>13. \A n \in 1..Cardinality(S) : ByDistance[n] \in S /\ Cardinality(Ahead(S, R, ByDistance[n])) = n - 1
  BY <1>9, <1>12
<1>14. ByDistance = [n \in 1..Cardinality(S) |-> ByDistance[n]]
  <2> SUFFICES ASSUME NEW list, list = ByDistance PROVE list = [n \in 1..Cardinality(S) |-> list[n]]
    OBVIOUS
  <2>1. list = [n \in 1..Cardinality(S) |-> CHOOSE i \in S : Cardinality({j \in S : FartherThan(j, i)}) = n - 1]
    BY <1>11
  <2> QED
    BY <2>1, Zenon
<1>15. Lists(ByDistance, S, R)
  BY <1>0, <1>5, <1>6, <1>7, <1>8, <1>13, <1>14, PlacedRight
<1> QED
  BY <1>15 DEF S, R

\* Nothing left out of a list of the longest is farther than one in it.
LEMMA LongestAreLongest ==
    ASSUME ResultsAssumption, ResInv, NEW max \in Nat
    PROVE  \A n \in DOMAIN LongestList(max), i \in Counting \ ToSet(LongestList(max)) :
              QsoDistancePoints(i) <= QsoDistancePoints(LongestList(max)[n])
<1> DEFINE S == WithDistance
           all == ByDistance
           c == Cardinality(S)
           k == Min({max, Len(all)})
           list == LongestList(max)
<1> SUFFICES ASSUME NEW n \in DOMAIN list, NEW i \in Counting \ ToSet(list)
             PROVE  QsoDistancePoints(i) <= QsoDistancePoints(list[n])
  OBVIOUS
<1>1. /\ c \in Nat /\ all \in Seq(S) /\ Len(all) = c
      /\ (\A m \in 1..c : all[m] \in S)
      /\ (\A j \in S : \E m \in 1..c : all[m] = j)
      /\ \A m, l \in 1..c : m < l => FartherThan(all[m], all[l])
  <2>1. Lists(all, S, Farther)
    BY ByDistanceLists
  <2>2. \A m, l \in 1..c : m < l => <<all[m], all[l]>> \in Farther
    BY <2>1, Zenon DEF Lists
  <2>3. \A m, l \in 1..c : m < l => FartherThan(all[m], all[l])
    BY <2>2 DEF Farther
  <2> QED
    BY <2>1, <2>3, Zenon DEF Lists
<1>2. list = SubSeq(all, 1, k)
  BY LongestIs
<1>3. k \in 0..c
  <2>1. {max, Len(all)} \in SUBSET Nat /\ {max, Len(all)} # {}
    BY <1>1
  <2>2. k \in {max, Len(all)} /\ \A m \in {max, Len(all)} : k <= m
    BY <2>1, MinIsLeast
  <2> HIDE DEF k
  <2>3. k \in Nat /\ k <= c
    BY <1>1, <2>2
  <2> QED
    BY <1>1, <2>3
<1> HIDE DEF k, all, list, S, c
<1>4. DOMAIN list = 1..k /\ \A m \in 1..k : list[m] = all[m]
  BY <1>1, <1>2, <1>3
<1>5. \A j \in Counting : QsoDistancePoints(j) \in Nat
  BY RowsAreFinite, PointsAre
<1>6. n \in 1..c /\ list[n] = all[n] /\ all[n] \in Counting
  <2>1. n \in 1..c /\ list[n] = all[n]
    BY <1>1, <1>3, <1>4
  <2> QED
    BY <1>1, <2>1 DEF S, WithDistance
<1>7. QsoDistancePoints(i) \in Nat /\ QsoDistancePoints(all[n]) \in Nat
  BY <1>5, <1>6
<1>8. CASE i \in S
  <2>1. PICK m \in 1..c : all[m] = i
    BY <1>1, <1>8
  <2>2. m \notin 1..k
    <3>1. m \in 1..k => i \in ToSet(list)
      BY <1>4, <2>1 DEF ToSet
    <3> QED
      BY <3>1
  <2>3. n < m
    BY <1>1, <1>3, <1>4, <2>2
  <2>4. FartherThan(all[n], i)
    BY <1>1, <1>6, <2>1, <2>3
  <2> DEFINE a == QsoDistancePoints(i)
             b == QsoDistancePoints(all[n])
  <2>5. b > a \/ b = a
    BY <2>4 DEF FartherThan
  <2>6. a \in Nat /\ b \in Nat
    BY <1>7
  <2> HIDE DEF a, b
  <2>7. a <= b
    BY <2>5, <2>6
  <2> QED
    BY <1>6, <2>7 DEF a, b
<1>9. CASE i \notin S
  <2>1. ~(QsoDistancePoints(i) > 0)
    BY <1>9 DEF S, WithDistance
  <2> DEFINE a == QsoDistancePoints(i)
             b == QsoDistancePoints(all[n])
  <2>2. a \in Nat /\ b \in Nat /\ ~(a > 0)
    BY <1>7, <2>1
  <2> HIDE DEF a, b
  <2>3. a <= b
    BY <2>2
  <2> QED
    BY <1>6, <2>3 DEF a, b
<1> QED
  BY <1>8, <1>9

-----------------------------------------------------------------------------
(* The readers agree *)

\* What the rate panel and the Cabrillo file count, and the points the panel shows.
LEMMA RatePanelIs ==
    /\ RateBreakdown(0).total = Cardinality(ValidRows)
    /\ CabrilloFile.lines = InTimeOrder(ValidRows)
    /\ RatePanel(0, TRUE).points = ContestScore.points
<1>1. RateBreakdown(0).total = Cardinality(ValidRows)
  BY DEF RateBreakdown
<1>2. CabrilloFile.lines = InTimeOrder(ValidRows)
  BY DEF CabrilloFile
<1>3. RatePanel(0, TRUE).points = ContestScore.points
  <2> DEFINE p == ContestScore.points
  <2>1. (IF TRUE \/ ResScoring # "distance_km" THEN p ELSE 0) = p
    OBVIOUS
  <2> QED
    BY <2>1 DEF RatePanel
<1> QED
  BY <1>1, <1>2, <1>3

\* What the scoreboard's message says.
LEMMA MessageIs ==
    /\ ScoreMessage.totalQsos = ContestScore.qsos
    /\ DOMAIN ScoreMessage.qsos = DOMAIN ScoredBands
    /\ \A n \in DOMAIN ScoredBands : /\ ScoreMessage.qsos[n] = Cardinality(OnBand(Counting, ScoredBands[n]))
                                     /\ ScoreMessage.points[n] = BandScores[n].points
<1> DEFINE q == [n \in DOMAIN ScoredBands |-> Cardinality(OnBand(Counting, ScoredBands[n]))]
           p == [n \in DOMAIN ScoredBands |-> BandScores[n].points]
           t == ContestScore.qsos
           s == ContestScore.points
<1>1. ScoreMessage = [qsos |-> q, points |-> p, totalQsos |-> t, totalPoints |-> s]
  BY Zenon DEF ScoreMessage
<1> HIDE DEF q, p, t, s
<1>2. ScoreMessage.qsos = q /\ ScoreMessage.points = p /\ ScoreMessage.totalQsos = t
  BY <1>1
<1> QED
  BY <1>2, Zenon DEF q, p, t

\* The window of the multipliers shows what is needed.
LEMMA WindowShowsNeeded ==
    \A b \in ToSet(ResBands) : \A k : <<b, k>> \in DOMAIN MultiplierRows => MultiplierRows[<<b, k>>]
            = ~IsNeededMultiplier(b, k)
<1> SUFFICES ASSUME NEW b \in ToSet(ResBands), NEW k, <<b, k>> \in DOMAIN MultiplierRows
             PROVE  MultiplierRows[<<b, k>>] = ~IsNeededMultiplier(b, k)
  OBVIOUS
<1> DEFINE keys == UNION {WorkedMultipliers(d) : d \in ToSet(ResBands)}
<1>1. MultiplierRows = [p \in ToSet(ResBands) \X keys |-> p[2] \in WorkedMultipliers(p[1])]
  BY Zenon DEF MultiplierRows
<1>2. <<b, k>> \in ToSet(ResBands) \X keys
  BY <1>1, Zenon
<1>3. MultiplierRows[<<b, k>>] = (<<b, k>>[2] \in WorkedMultipliers(<<b, k>>[1]))
  BY <1>1, <1>2, Zenon
<1>4. <<b, k>>[1] = b /\ <<b, k>>[2] = k
  OBVIOUS
<1>5. k # ""
  <2>1. k \in keys
    BY <1>2
  <2> QED
    BY <2>1 DEF WorkedMultipliers
<1>6. MultiplierRows[<<b, k>>] = (k \in WorkedMultipliers(b))
  BY <1>3, <1>4, Zenon
<1>7. (~IsNeededMultiplier(b, k)) = (k \in WorkedMultipliers(b))
  <2>1. IsNeededMultiplier(b, k) = (k # "" /\ k \notin WorkedMultipliers(b))
    BY Zenon DEF IsNeededMultiplier
  <2>2. CASE k \in WorkedMultipliers(b)
    BY <2>1, <2>2, Zenon
  <2>3. CASE k \notin WorkedMultipliers(b)
    <3>1. IsNeededMultiplier(b, k)
      BY <1>5, <2>1, <2>3, Zenon
    <3>2. (~IsNeededMultiplier(b, k)) = FALSE
      BY <3>1, Zenon
    <3>3. (k \in WorkedMultipliers(b)) = FALSE
      BY <2>3
    <3> QED
      BY <3>2, <3>3, Zenon
  <2> QED
    BY <2>2, <2>3, Zenon
<1> QED
  BY <1>6, <1>7, Zenon

\* Time on the air and off it, from the first QSO to the last.
LEMMA AirTimeIs ==
    ASSUME ResultsAssumption, ResInv, Len(InTimeOrder(Counting)) > 1
    PROVE  LET order == InTimeOrder(Counting)
           IN  StatisticsShown.onAir + StatisticsShown.offAir = resLog[Last(order)].time - resLog[order[1]].time
<1> DEFINE order == InTimeOrder(Counting)
           c == Cardinality(Counting)
           t == [n \in 1..c |-> resLog[order[n]].time]
           gap == [n \in 1..(Len(order) - 1) |-> resLog[order[n + 1]].time - resLog[order[n]].time]
           breaks == {n \in DOMAIN gap : gap[n] >= 3}
           on == SumFunctionOnSet(gap, DOMAIN gap \ breaks)
           off == SumFunctionOnSet(gap, breaks)
<1>1. c \in Nat /\ Len(order) = c /\ (\A n \in 1..c : order[n] \in Counting) /\ c > 1
  <2>1. Lists(order, Counting, Earlier(Counting))
    BY RowsAreFinite, InTimeOrderLists
  <2> QED
    BY <2>1 DEF Lists
<1>2. AirTime.on = on /\ AirTime.off = off
  <2> DEFINE b == Cardinality(breaks)
  <2>1. AirTime = [on |-> on, off |-> off, breaks |-> b]
    BY Zenon DEF AirTime
  <2> HIDE DEF on, off, b
  <2> QED
    BY <2>1
<1>3. StatisticsShown.onAir = on /\ StatisticsShown.offAir = off
  <2>1. ContestScore.qsos > 1
    BY <1>1, ContestScoreIs
  <2> DEFINE yes == ContestScore.qsos > 1
             a == IF yes THEN AirTime.on ELSE -1
             d == IF yes THEN AirTime.off ELSE -1
  <2>2. StatisticsShown.onAir = a /\ StatisticsShown.offAir = d
    <3> DEFINE q == ContestScore.qsos
               p == ContestScore.points
               e == BestHour.qsos
               l == LongestList(10)
    <3>1. StatisticsShown = [qsos |-> q, points |-> p, best |-> e, onAir |-> a, offAir |-> d,
                             bands |-> BandScores, hours |-> HourRows, longest |-> l]
      BY Zenon DEF StatisticsShown
    <3> HIDE DEF q, p, e, a, d, l
    <3> QED
      BY <3>1
  <2>3. a = AirTime.on /\ d = AirTime.off
    <3>1. yes
      BY <2>1
    <3> HIDE DEF yes
    <3> QED
      BY <3>1, Zenon
  <2> HIDE DEF a, d, on, off
  <2> QED
    BY <1>2, <2>2, <2>3, Zenon
<1>4. \A n \in 1..c : t[n] \in Int /\ t[n] = resLog[order[n]].time
  <2>1. \A n \in 1..c : order[n] \in ResIds
    BY <1>1, RowsAreFinite
  <2> QED
    BY <2>1, RowsHave
<1>5. c - 1 \in Nat /\ (c - 1) + 1 = c /\ 1 \in 1..c /\ c \in 1..c
  BY <1>1
<1>6. \A n \in 1..(c - 1) : n \in 1..c /\ n + 1 \in 1..c
  BY <1>1
<1>7. DOMAIN gap = 1..(c - 1) /\ \A n \in 1..(c - 1) : gap[n] = t[n + 1] - t[n]
  <2> HIDE DEF order
  <2> QED
    BY <1>1, <1>4, <1>6
<1> HIDE DEF gap, t
<1>8. \A n \in 1..(c - 1) : gap[n] \in Int
  BY <1>4, <1>6, <1>7
<1>9. SumFunctionOnSet(gap, 1..(c - 1)) = t[c] - t[1]
  <2>1. \A n \in 1..((c - 1) + 1) : t[n] \in Int
    BY <1>4, <1>5
  <2>2. SumFunctionOnSet(gap, 1..(c - 1)) = t[(c - 1) + 1] - t[1]
    BY <1>5, <1>7, <2>1, SumOfGaps
  <2> QED
    BY <1>5, <2>2, Zenon
<1>10. on + off = SumFunctionOnSet(gap, 1..(c - 1))
  <2> DEFINE N == 1..(c - 1)
             run == N \ breaks
  <2>1. IsFiniteSet(N) /\ DOMAIN gap = N
    BY <1>5, <1>7, FS_Interval
  <2>2. breaks \in SUBSET N
    BY <2>1
  <2> HIDE DEF breaks
  <2>3. IsFiniteSet(run) /\ IsFiniteSet(breaks)
    BY <2>1, <2>2, FS_Subset
  <2>4. run \cap breaks = {} /\ run \cup breaks = N /\ \A n \in run \cup breaks : gap[n] \in Int
    BY <1>8, <2>2
  <2> HIDE DEF run
  <2>5. SumFunctionOnSet(gap, run \cup breaks) = SumFunctionOnSet(gap, run) + SumFunctionOnSet(gap, breaks)
    BY <2>3, <2>4, SumOfUnion
  <2>6. on = SumFunctionOnSet(gap, run)
    BY <2>1, Zenon DEF run
  <2>7. SumFunctionOnSet(gap, N) = SumFunctionOnSet(gap, run) + SumFunctionOnSet(gap, breaks)
    BY <2>4, <2>5
  <2> HIDE DEF N
  <2>8. SumFunctionOnSet(gap, N) = on + off
    BY <2>6, <2>7, Zenon
  <2> QED
    BY <2>8, Zenon DEF N
<1>11. Last(order) = order[c] /\ t[c] = resLog[order[c]].time /\ t[1] = resLog[order[1]].time
  <2>1. Last(order) = order[Len(order)]
    BY DEF Last
  <2> HIDE DEF order
  <2> QED
    BY <1>1, <1>4, <1>5, <2>1
<1> HIDE DEF on, off, order, c
<1>12. on + off = resLog[Last(order)].time - resLog[order[1]].time
  BY <1>9, <1>10, <1>11, Zenon
<1> QED
  BY <1>3, <1>12, Zenon DEF order

\* One log has one result.
LEMMA ResultIsOne == ASSUME ResultsAssumption, ResInv PROVE OneResult
<1> DEFINE bands == DOMAIN ScoredBands
           rows == HourRows
           order == InTimeOrder(Counting)
           pb == [n \in bands |-> BandScores[n].points]
           qb == [n \in bands |-> BandScores[n].qsos]
           ph == [n \in DOMAIN rows |-> rows[n].points]
           qh == [n \in DOMAIN rows |-> rows[n].qsos]
<1>0. \A f : SumFunction(f) = SumFunctionOnSet(f, DOMAIN f)
  BY Zenon DEF SumFunction
<1>1. ContestScore.points = SumFunction(pb)
  <2>1. \A n \in bands : pb[n] = SumFunctionOnSet(Points, OnBand(ResIds, ScoredBands[n]))
    BY BandScoreIs
  <2>2. DOMAIN pb = bands
    OBVIOUS
  <2> HIDE DEF pb
  <2> QED
    BY <1>0, <2>1, <2>2, PointsByBand, ContestScoreIs
<1>2. ContestScore.qsos = SumFunction(qb)
  <2>1. \A n \in bands : qb[n] = Cardinality(OnBand(Counting, ScoredBands[n]))
    BY BandScoreIs
  <2>2. DOMAIN qb = bands
    OBVIOUS
  <2> HIDE DEF qb
  <2> QED
    BY <1>0, <2>1, <2>2, QsosByBand, ContestScoreIs
<1>3. ContestScore.qsos + ContestScore.dupes = RateBreakdown(0).total
  <2>1. Counting \in SUBSET ValidRows /\ IsFiniteSet(ValidRows)
    BY RowsAreFinite
  <2> DEFINE rest == ValidRows \ Counting
  <2>2. IsFiniteSet(Counting) /\ IsFiniteSet(rest) /\ Counting \cap rest = {} /\ Counting \cup rest = ValidRows
    BY <2>1, FS_Subset
  <2> HIDE DEF rest
  <2>3. Cardinality(Counting \cup rest) = Cardinality(Counting) + Cardinality(rest) - Cardinality(Counting \cap rest)
    BY <2>2, FS_Union
  <2>4. Cardinality({}) = 0 /\ Cardinality(Counting) \in Nat /\ Cardinality(rest) \in Nat
    BY <2>2, FS_EmptySet, FS_CardinalityType
  <2> DEFINE x == Cardinality(Counting)
             y == Cardinality(rest)
             z == Cardinality(ValidRows)
  <2>5. z = x + y
    <3>1. z = x + y - 0 /\ x \in Nat /\ y \in Nat
      BY <2>2, <2>3, <2>4, Zenon
    <3> HIDE DEF x, y, z
    <3> QED
      BY <3>1
  <2>6. ContestScore.qsos = Cardinality(Counting) /\ ContestScore.dupes = Cardinality(rest)
    BY ContestScoreIs DEF rest
  <2> QED
    BY <2>5, <2>6, RatePanelIs
<1>4. Len(CabrilloFile.lines) = RateBreakdown(0).total
  <2>1. Lists(InTimeOrder(ValidRows), ValidRows, Earlier(ValidRows))
    BY RowsAreFinite, InTimeOrderLists
  <2>2. Len(InTimeOrder(ValidRows)) = Cardinality(ValidRows)
    BY <2>1 DEF Lists
  <2> QED
    BY <2>2, RatePanelIs
<1>5. ScoreMessage.totalQsos = SumFunction(ScoreMessage.qsos)
  <2> DEFINE q == ScoreMessage.qsos
  <2>1. DOMAIN q = bands /\ \A n \in bands : q[n] = Cardinality(OnBand(Counting, ScoredBands[n]))
    BY MessageIs
  <2> HIDE DEF q
  <2>2. SumFunctionOnSet(q, bands) = Cardinality(Counting)
    BY <2>1, QsosByBand
  <2>3. SumFunction(q) = Cardinality(Counting)
    BY <1>0, <2>1, <2>2
  <2> QED
    BY <2>3, MessageIs, ContestScoreIs DEF q
<1>6. \A n \in bands :
         LET file == EdiFile(ScoredBands[n]).claimed IN
         /\ file.points = ScoreMessage.points[n] /\ file.qsos = ScoreMessage.qsos[n]
         /\ file.squares = BandScores[n].squares
  <2> SUFFICES ASSUME NEW n \in bands
               PROVE  /\ EdiFile(ScoredBands[n]).claimed.points = ScoreMessage.points[n]
                      /\ EdiFile(ScoredBands[n]).claimed.qsos = ScoreMessage.qsos[n]
                      /\ EdiFile(ScoredBands[n]).claimed.squares = BandScores[n].squares
    OBVIOUS
  <2> DEFINE b == ScoredBands[n]
  <2>1. /\ EdiFile(b).claimed.points = SumFunctionOnSet(Points, OnBand(ResIds, b))
        /\ EdiFile(b).claimed.qsos = Cardinality(OnBand(Counting, b))
        /\ EdiFile(b).claimed.squares = Cardinality({resLog[i].square : i \in OnBand(Counting, b)} \ {""})
    BY FileScoreIs
  <2>2. /\ BandScores[n].points = SumFunctionOnSet(Points, OnBand(ResIds, b))
        /\ BandScores[n].squares = Cardinality({resLog[i].square : i \in OnBand(Counting, b)} \ {""})
    BY BandScoreIs, Zenon
  <2>3. ScoreMessage.qsos[n] = Cardinality(OnBand(Counting, b)) /\ ScoreMessage.points[n] = BandScores[n].points
    BY MessageIs, Zenon
  <2> QED
    BY <2>1, <2>2, <2>3, Zenon
<1>7. ContestScore.points = SumFunction(ph) /\ ContestScore.qsos = SumFunction(qh)
  <2>1. (\A n \in DOMAIN rows : ph[n] = rows[n].points) /\ (\A n \in DOMAIN rows : qh[n] = rows[n].qsos)
        /\ DOMAIN ph = DOMAIN rows /\ DOMAIN qh = DOMAIN rows
    BY Zenon
  <2> HIDE DEF ph, qh
  <2>2. SumFunctionOnSet(qh, DOMAIN rows) = Cardinality(Counting) /\ SumFunctionOnSet(ph, DOMAIN rows)
          = SumFunctionOnSet(Points, ResIds)
    BY <2>1, HoursAddUp
  <2>3. SumFunction(ph) = SumFunctionOnSet(ph, DOMAIN rows) /\ SumFunction(qh) = SumFunctionOnSet(qh, DOMAIN rows)
    BY <1>0, <2>1, Zenon
  <2> QED
    BY <2>2, <2>3, ContestScoreIs, Zenon
<1>8. \A n \in DOMAIN LongestList(2), i \in Counting \ ToSet(LongestList(2)) :
         QsoDistancePoints(i) <= QsoDistancePoints(LongestList(2)[n])
  <2>1. 2 \in Nat
    OBVIOUS
  <2> QED
    BY <2>1, LongestAreLongest
<1> HIDE DEF pb, qb, ph, qh, bands, rows, order
<1> QED
  BY <1>1, <1>2, <1>3, <1>4, <1>5, <1>6, <1>7, <1>8, RatePanelIs, BestHourIsBest, WindowShowsNeeded, AirTimeIs, Zenon
  DEF OneResult, pb, qb, ph, qh, bands, rows, order

-----------------------------------------------------------------------------
(* What is needed is new *)

\* The squares of a band's score.
SquaresOn(b) == {resLog[i].square : i \in OnBand(ResIds, b) \cap Counting} \ {""}

\* The score of a band counts its squares, before a step and after it.
LEMMA ScoreHasSquares ==
    ASSUME ResultsAssumption, ResInv, ResInv', NEW b
    PROVE  /\ ScoreOf(ById(OnBand(ResIds, b))).squares = Cardinality(SquaresOn(b))
           /\ ScoreOf(ById(OnBand(ResIds, b)))'.squares = Cardinality(SquaresOn(b))'
<1> DEFINE R == OnBand(ResIds, b)
<1>1. ToSet(ById(R)) = R
  <2>1. R \in SUBSET Nat /\ IsFiniteSet(R)
    <3>1. R \in SUBSET ResIds
      BY DEF OnBand
    <3> HIDE DEF R
    <3> QED
      BY <3>1, RowsAreFinite
  <2> HIDE DEF R
  <2> QED
    BY <2>1, ByIdLists, ListHas
<1>2. ToSet(ById(R')) = R'
  <2>1. Len(resLog') \in Nat /\ ResIds' = 1..Len(resLog')
    BY LenProperties DEF ResInv, ResIds
  <2> DEFINE I == 1..Len(resLog')
  <2>2. IsFiniteSet(I) /\ I \in SUBSET Nat
    BY <2>1, FS_Interval
  <2>3. R' \in SUBSET I
    BY <2>1 DEF OnBand
  <2> HIDE DEF R, I
  <2>4. R' \in SUBSET Nat /\ IsFiniteSet(R')
    BY <2>2, <2>3, FS_Subset
  <2> QED
    BY <2>4, ByIdLists, ListHas
<1>3. ScoreOf(ById(R)).squares = Cardinality({resLog[i].square : i \in ToSet(ById(R)) \cap Counting} \ {""})
  BY DEF ScoreOf
<1>4. ScoreOf(ById(R))'.squares = Cardinality({resLog'[i].square : i \in ToSet(ById(R')) \cap Counting'} \ {""})
  BY DEF ScoreOf
<1>5. {resLog[i].square : i \in R \cap Counting} \ {""} = SquaresOn(b)
  BY DEF SquaresOn
<1>6. {resLog'[i].square : i \in R' \cap Counting'} \ {""} = SquaresOn(b)'
  BY DEF SquaresOn
<1> QED
  BY <1>1, <1>2, <1>3, <1>4, <1>5, <1>6

\* A row worked last, no dupe, joins those that count, and changes none of them.
LEMMA LastRowCounts ==
    ASSUME ResultsAssumption, ResInv, NEW s \in ResStations, NEW t \in ResTimes, ResLogged(s, t),
           NEW n, n = Len(resLog) + 1, ~IsDupeRow(n)', \A j \in ResIds : resLog[j].time <= resLog'[n].time
    PROVE  Counting' = Counting \cup {n}
<1>1. /\ n \in Nat /\ ResIds = 1..(n - 1) /\ ResIds' = 1..n
      /\ resLog'[n] \in ResRows /\ resLog'[n].invalid = FALSE
      /\ \A i \in ResIds : resLog'[i] = resLog[i]
  <2>1. Len(resLog) \in Nat /\ ResIds = 1..Len(resLog)
    BY ResRowsAre
  <2>2. n \in Nat /\ n - 1 = Len(resLog)
    BY <2>1
  <2> QED
    BY <2>1, <2>2, LoggedRow
<1>2. \A i \in ResIds : resLog[i].time \in Nat
  BY ResRowsAre
<1>3. resLog'[n].time \in Nat
  BY <1>1, ResRowIs
<1>4. \A i, j \in ResIds : ByTime(i, j)' <=> ByTime(i, j)
  BY <1>1 DEF ByTime
<1>5. ASSUME NEW i \in ResIds
      PROVE  ~ByTime(n, i)'
  <2>1. i \in Nat /\ i < n
    BY <1>1
  <2>2. resLog[i].time <= resLog'[n].time /\ resLog[i].time \in Nat /\ resLog'[i] = resLog[i]
    BY <1>1, <1>2
  <2> QED
    BY <1>1, <1>3, <2>1, <2>2 DEF ByTime
<1>6. ASSUME NEW i \in ResIds
      PROVE  IsDupeRow(i)' <=> IsDupeRow(i)
  <2>1. \A j \in ResIds' : ByTime(j, i)' => j \in ResIds
    BY <1>1, <1>5
  <2>2. ResIds \subseteq ResIds'
    BY <1>1
  <2> QED
    BY <1>1, <1>4, <2>1, <2>2 DEF IsDupeRow
<1>7. ValidRows' = ValidRows \cup {n}
  BY <1>1 DEF ValidRows
<1>8. ValidRows \subseteq ResIds
  BY DEF ValidRows
<1> QED
  BY <1>6, <1>7, <1>8 DEF Counting

\* Its square, when needed, is one more in the score of its band.
LEMMA NeededIsNew ==
    ASSUME ResultsAssumption, ResInv, [ResNext]_resLog
    PROVE  NeededStepIsNew
<1> SUFFICES ASSUME NEW b \in ToSet(ResBands), NEW i \in 1..ResMaxQsos,
                    Len(resLog) < i, i <= Len(resLog'), ~IsDupeRow(i)', resLog'[i].band = b,
                    \A j \in ResIds : resLog[j].time <= resLog'[i].time,
                    IsNeededMultiplier(b, resLog'[i].square)
             PROVE  ScoreOf(ById(OnBand(ResIds, b)))'.squares = ScoreOf(ById(OnBand(ResIds, b))).squares + 1
  BY DEF NeededStepIsNew
<1>1. Len(resLog) \in Nat /\ i \in Nat /\ ResInv'
  <2>1. Len(resLog) \in Nat /\ ResMaxQsos \in Nat
    BY ResRowsAre DEF ResultsAssumption
  <2> QED
    BY <2>1, ResStep
<1>2. PICK s \in ResStations, t \in ResTimes : ResLogged(s, t)
  <2>1. CASE \E k \in ResIds : ResMarkedInvalid(k)
    <3>1. Len(resLog') = Len(resLog)
      BY <2>1, StruckRow
    <3> QED
      BY <1>1, <3>1
  <2>2. CASE UNCHANGED resLog
    BY <1>1, <2>2
  <2> QED
    BY <2>1, <2>2 DEF ResNext
<1>3. i = Len(resLog) + 1
  <2>1. Len(resLog') = Len(resLog) + 1
    BY <1>2, LoggedRow
  <2> QED
    BY <1>1, <2>1
<1>4. Counting' = Counting \cup {i}
  BY <1>2, <1>3, LastRowCounts
<1>5. /\ ResIds' = ResIds \cup {i} /\ ResIds = 1..Len(resLog) /\ i \notin ResIds
      /\ \A j \in ResIds : resLog'[j] = resLog[j]
  <2>1. ResIds = 1..Len(resLog) /\ ResIds' = 1..(Len(resLog) + 1) /\ \A j \in ResIds : resLog'[j] = resLog[j]
    BY <1>2, LoggedRow, ResRowsAre
  <2> QED
    BY <1>1, <1>3, <2>1
<1>6. OnBand(ResIds, b)' = OnBand(ResIds, b) \cup {i}
  BY <1>5 DEF OnBand
<1>7. SquaresOn(b)' = SquaresOn(b) \cup {resLog'[i].square}
  <2>1. resLog'[i].square # ""
    BY DEF IsNeededMultiplier
  <2>2. (OnBand(ResIds, b) \cap Counting)' = (OnBand(ResIds, b) \cap Counting) \cup {i}
    BY <1>4, <1>6
  <2> DEFINE rows == OnBand(ResIds, b) \cap Counting
  <2>3. \A j \in rows : resLog'[j] = resLog[j]
    BY <1>5 DEF OnBand
  <2>4. SquaresOn(b)' = {resLog'[j].square : j \in (rows \cup {i})} \ {""}
    BY <2>2 DEF SquaresOn
  <2>5. SquaresOn(b) = {resLog[j].square : j \in rows} \ {""}
    BY DEF SquaresOn
  <2> HIDE DEF rows
  <2>6. {resLog'[j].square : j \in (rows \cup {i})} = {resLog[j].square : j \in rows} \cup {resLog'[i].square}
    BY <2>3
  <2> QED
    BY <2>1, <2>4, <2>5, <2>6
<1>8. resLog'[i].square \notin SquaresOn(b)
  <2>1. OnBand(ResIds, b) \cap Counting \subseteq OnBand(ValidRows, b)
    BY DEF OnBand, Counting
  <2>2. SquaresOn(b) \subseteq WorkedMultipliers(b)
    BY <2>1 DEF SquaresOn, WorkedMultipliers
  <2> QED
    BY <2>2 DEF IsNeededMultiplier
<1>9. IsFiniteSet(SquaresOn(b))
  <2> DEFINE rows == OnBand(ResIds, b) \cap Counting
             f == [j \in rows |-> resLog[j].square]
             all == {f[j] : j \in rows}
  <2>1. rows \in SUBSET ResIds
    BY DEF OnBand
  <2>2. SquaresOn(b) = all \ {""}
    BY DEF SquaresOn
  <2> HIDE DEF rows, f
  <2>3. IsFiniteSet(all)
    BY <2>1, RowsAreFinite, ImageIsFinite
  <2> HIDE DEF all
  <2> QED
    BY <2>2, <2>3, FS_Subset
<1>10. Cardinality(SquaresOn(b))' = Cardinality(SquaresOn(b)) + 1
  BY <1>7, <1>8, <1>9, FS_AddElement
<1> QED
  BY <1>1, <1>10, ScoreHasSquares
================================================================================
