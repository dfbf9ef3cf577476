---------------------------- MODULE SumTheorems -----------------------------
(***************************************************************************)
(* Facts about sums over finite sets, for functions of integers.           *)
(*                                                                         *)
(* Induction over finite sets is argued by a smallest counterexample: of   *)
(* the subsets a fact fails of, one is minimal (MinimalSet); the fact      *)
(* holds of all its proper subsets, and therefore of itself.               *)
(***************************************************************************)
EXTENDS Sums, FiniteSetTheorems, TLAPS

(* The element MapThenSumSet takes out next, and the recursion it runs. *)
Pick(s) == CHOOSE x \in s : TRUE

Step(f, S, g) == [s \in SUBSET S |-> IF s = {} THEN 0 ELSE f[Pick(s)] + g[s \ {Pick(s)}]]

Iter(f, S) == CHOOSE g : g = Step(f, S, g)

(* Sum is the value, at the whole set, of the function its recursion        *)
(* defines.                                                                 *)
LEMMA SumIter == ASSUME NEW f, NEW S PROVE Sum(f, S) = Iter(f, S)[S]
BY DEF Sum, MapThenSumSet, MapThenFoldSet, Iter, Step, Pick

(* Pick takes an element of the set. *)
LEMMA PickIn == ASSUME NEW s, s # {} PROVE Pick(s) \in s
BY DEF Pick

(* Among any sets of elements of a finite set some are minimal: what stands *)
(* in for induction over finite sets below.                                 *)
LEMMA MinimalSet ==
  ASSUME NEW S, IsFiniteSet(S), NEW C, C \subseteq SUBSET S, C # {}
  PROVE  \E T \in C : \A U \in C : U \subseteq T => U = T
<1>1. /\ FiniteSubsetsOf(S) = SUBSET S
      /\ IsWellFoundedOn(StrictSubsetOrdering(S), FiniteSubsetsOf(S))
  BY FS_FiniteSubsetsOfFinite, FS_StrictSubsetOrderingWellFounded
<1>2. \E T \in C : \A U \in C : ~ (<<U, T>> \in StrictSubsetOrdering(S))
  BY <1>1, WFMin
<1>. QED
  BY <1>2 DEF StrictSubsetOrdering

(* The recursive equation of Sum. *)
Unfolds(f, T) ==
  Sum(f, T) = IF T = {} THEN 0 ELSE f[Pick(T)] + Sum(f, T \ {Pick(T)})

(* The equation holds of a set if it holds of all its proper subsets: until  *)
(* then it is not even known that the recursion defines a function.         *)
LEMMA UnfoldStep ==
  ASSUME NEW f, NEW T, IsFiniteSet(T),
         \A U \in SUBSET T : U # T => Unfolds(f, U)
  PROVE  Unfolds(f, T)
<1> DEFINE g == [s \in SUBSET T |->
                   IF s = {} THEN 0 ELSE f[Pick(s)] + Sum(f, s \ {Pick(s)})]
           h == Iter(f, T)
<1>1. ASSUME NEW U \in SUBSET T, U # T
      PROVE  g[U] = Sum(f, U)
  BY <1>1 DEF Unfolds
<1>2. g = Step(f, T, g)
  <2>1. ASSUME NEW s \in SUBSET T, s # {}
        PROVE  g[s \ {Pick(s)}] = Sum(f, s \ {Pick(s)})
    <3>1. s \ {Pick(s)} \in SUBSET T /\ s \ {Pick(s)} # T
      BY <2>1, PickIn
    <3>. QED  BY <3>1, <1>1
  <2>. HIDE DEF g
  <2>2. g = [s \in SUBSET T |->
               IF s = {} THEN 0 ELSE f[Pick(s)] + g[s \ {Pick(s)}]]
    BY <2>1 DEF g
  <2>. QED  BY <2>2 DEF Step
<1>3. h = Step(f, T, h)
  <2>. HIDE DEF g
  <2>. QED  BY <1>2 DEF Iter
<1>. HIDE DEF g, h
<1>4. ASSUME NEW s \in SUBSET T
      PROVE  h[s] = IF s = {} THEN 0 ELSE f[Pick(s)] + h[s \ {Pick(s)}]
  <2>1. h = [s1 \in SUBSET T |-> IF s1 = {} THEN 0 ELSE f[Pick(s1)] + h[s1 \ {Pick(s1)}]]
    BY <1>3 DEF Step
  <2>. DEFINE v(s1) == IF s1 = {} THEN 0 ELSE f[Pick(s1)] + h[s1 \ {Pick(s1)}]
  <2>2. h = [s1 \in SUBSET T |-> v(s1)]
    BY <2>1
  <2>. HIDE DEF v
  <2>3. h[s] = v(s)
    BY <2>2
  <2>. QED  BY <2>3 DEF v
<1>5. \A U \in SUBSET T : U # T => h[U] = Sum(f, U)
  <2>. DEFINE C == {U \in SUBSET T : U # T /\ h[U] # Sum(f, U)}
  <2>. SUFFICES ASSUME C # {} PROVE FALSE
    OBVIOUS
  <2>1. PICK W \in C : \A U \in C : U \subseteq W => U = W
    <3>1. C \subseteq SUBSET T
      OBVIOUS
    <3>. HIDE DEF C
    <3>. QED  BY <3>1, MinimalSet
  <2>2. W \in SUBSET T /\ W # T /\ h[W] # Sum(f, W)
    OBVIOUS
  <2>3. Sum(f, W) = IF W = {} THEN 0 ELSE f[Pick(W)] + Sum(f, W \ {Pick(W)})
    BY <2>2 DEF Unfolds
  <2>4. h[W] = IF W = {} THEN 0 ELSE f[Pick(W)] + h[W \ {Pick(W)}]
    BY <2>2, <1>4
  <2>5. W # {} => h[W \ {Pick(W)}] = Sum(f, W \ {Pick(W)})
    <3>1. W # {} => W \ {Pick(W)} \in SUBSET T /\ W \ {Pick(W)} # T
                    /\ W \ {Pick(W)} \subseteq W /\ W \ {Pick(W)} # W
      BY <2>2, PickIn
    <3>. QED  BY <3>1, <2>1
  <2>. QED  BY <2>2, <2>3, <2>4, <2>5
<1>6. T # {} => h[T \ {Pick(T)}] = Sum(f, T \ {Pick(T)})
  <2>1. T # {} => T \ {Pick(T)} \in SUBSET T /\ T \ {Pick(T)} # T
    BY PickIn
  <2>. QED  BY <2>1, <1>5
<1>7. h[T] = IF T = {} THEN 0 ELSE f[Pick(T)] + h[T \ {Pick(T)}]
  BY <1>4
<1>8. Sum(f, T) = h[T]
  BY SumIter DEF h
<1>. QED
  BY <1>6, <1>7, <1>8 DEF Unfolds

(* So it holds of every finite set. *)
LEMMA SumUnfolds ==
  ASSUME NEW f, NEW S, IsFiniteSet(S)
  PROVE  Unfolds(f, S)
<1>. DEFINE C == {T \in SUBSET S : ~Unfolds(f, T)}
<1>. SUFFICES ASSUME C # {} PROVE FALSE
  OBVIOUS
<1>1. PICK T \in C : \A U \in C : U \subseteq T => U = T
  <2>1. C \subseteq SUBSET S
    OBVIOUS
  <2>. HIDE DEF C
  <2>. QED  BY <2>1, MinimalSet
<1>2. IsFiniteSet(T)
  BY FS_Subset
<1>3. \A U \in SUBSET T : U # T => Unfolds(f, U)
  BY <1>1
<1>. QED
  BY <1>2, <1>3, UnfoldStep

(* A sum of nothing is zero. *)
LEMMA SumEmpty ==
  ASSUME NEW f
  PROVE  Sum(f, {}) = 0
BY SumUnfolds, FS_EmptySet DEF Unfolds

(* A sum of integers is an integer. *)
LEMMA SumInt ==
  ASSUME NEW f, NEW S, IsFiniteSet(S), \A x \in S : f[x] \in Int
  PROVE  Sum(f, S) \in Int
<1>. DEFINE C == {T \in SUBSET S : ~(Sum(f, T) \in Int)}
<1>. SUFFICES ASSUME C # {} PROVE FALSE
  OBVIOUS
<1>1. PICK T \in C : \A U \in C : U \subseteq T => U = T
  <2>1. C \subseteq SUBSET S
    OBVIOUS
  <2>. HIDE DEF C
  <2>. QED  BY <2>1, MinimalSet
<1>2. IsFiniteSet(T) /\ T \in SUBSET S /\ ~(Sum(f, T) \in Int)
  BY FS_Subset
<1>3. Unfolds(f, T)
  BY <1>2, SumUnfolds
<1>4. T # {}
  BY <1>2, SumEmpty
<1>5. T \ {Pick(T)} \in SUBSET S /\ T \ {Pick(T)} \subseteq T /\ T \ {Pick(T)} # T /\ Pick(T) \in S
  BY <1>2, <1>4, PickIn
<1>6. Sum(f, T \ {Pick(T)}) \in Int
  BY <1>1, <1>5
<1>. QED
  BY <1>2, <1>3, <1>4, <1>5, <1>6 DEF Unfolds

(* A sum of naturals is a natural. *)
LEMMA SumNat ==
  ASSUME NEW f, NEW S, IsFiniteSet(S), \A x \in S : f[x] \in Nat
  PROVE  Sum(f, S) \in Nat
<1>. DEFINE C == {T \in SUBSET S : ~(Sum(f, T) \in Nat)}
<1>. SUFFICES ASSUME C # {} PROVE FALSE
  OBVIOUS
<1>1. PICK T \in C : \A U \in C : U \subseteq T => U = T
  <2>1. C \subseteq SUBSET S
    OBVIOUS
  <2>. HIDE DEF C
  <2>. QED  BY <2>1, MinimalSet
<1>2. IsFiniteSet(T) /\ T \in SUBSET S /\ ~(Sum(f, T) \in Nat)
  BY FS_Subset
<1>3. Unfolds(f, T)
  BY <1>2, SumUnfolds
<1>4. T # {}
  BY <1>2, SumEmpty
<1>5. T \ {Pick(T)} \in SUBSET S /\ T \ {Pick(T)} \subseteq T /\ T \ {Pick(T)} # T /\ Pick(T) \in S
  BY <1>2, <1>4, PickIn
<1>6. Sum(f, T \ {Pick(T)}) \in Nat
  BY <1>1, <1>5
<1>. QED
  BY <1>2, <1>3, <1>4, <1>5, <1>6 DEF Unfolds

(* The sums of two functions that agree on a set are equal. *)
LEMMA SumSame ==
  ASSUME NEW f, NEW g, NEW S, IsFiniteSet(S), \A x \in S : f[x] = g[x]
  PROVE  Sum(f, S) = Sum(g, S)
<1>. DEFINE C == {T \in SUBSET S : ~(Sum(f, T) = Sum(g, T))}
<1>. SUFFICES ASSUME C # {} PROVE FALSE
  OBVIOUS
<1>1. PICK T \in C : \A U \in C : U \subseteq T => U = T
  <2>1. C \subseteq SUBSET S
    OBVIOUS
  <2>. HIDE DEF C
  <2>. QED  BY <2>1, MinimalSet
<1>2. IsFiniteSet(T) /\ T \in SUBSET S /\ Sum(f, T) # Sum(g, T)
  BY FS_Subset
<1>3. Unfolds(f, T) /\ Unfolds(g, T)
  BY <1>2, SumUnfolds
<1>4. T # {}
  BY <1>2, SumEmpty
<1>5. T \ {Pick(T)} \in SUBSET S /\ T \ {Pick(T)} \subseteq T /\ T \ {Pick(T)} # T /\ Pick(T) \in S
  BY <1>2, <1>4, PickIn
<1>6. Sum(f, T \ {Pick(T)}) = Sum(g, T \ {Pick(T)})
  BY <1>1, <1>5
<1>. QED
  BY <1>2, <1>3, <1>4, <1>5, <1>6 DEF Unfolds

(* Any element can be taken out of a sum first, not only the picked one. *)
LEMMA SumRemove ==
  ASSUME NEW f, NEW S, IsFiniteSet(S), \A x \in S : f[x] \in Int, NEW y \in S
  PROVE  Sum(f, S) = f[y] + Sum(f, S \ {y})
<1>. DEFINE Good(T) == \A x \in T : Sum(f, T) = f[x] + Sum(f, T \ {x})
            C == {T \in SUBSET S : ~Good(T)}
<1>. SUFFICES ASSUME C # {} PROVE FALSE
  OBVIOUS
<1>1. PICK T \in C : \A U \in C : U \subseteq T => U = T
  <2>1. C \subseteq SUBSET S
    OBVIOUS
  <2>. HIDE DEF C
  <2>. QED  BY <2>1, MinimalSet
<1>2. PICK x \in T : Sum(f, T) # f[x] + Sum(f, T \ {x})
  OBVIOUS
<1>. DEFINE c == Pick(T)
<1>3. c \in T /\ T \in SUBSET S
  BY PickIn
<1>. HIDE DEF c
<1>4. IsFiniteSet(T) /\ Sum(f, T) = f[c] + Sum(f, T \ {c})
  <2>1. IsFiniteSet(T)
    BY <1>3, FS_Subset
  <2>2. Unfolds(f, T)
    BY <2>1, SumUnfolds
  <2>. QED  BY <1>3, <2>1, <2>2 DEF Unfolds, c
<1>5. x # c
  BY <1>2, <1>4
<1>6. Good(T \ {c}) /\ Good(T \ {x})
  BY <1>1, <1>3
<1>7. /\ Sum(f, T \ {c}) = f[x] + Sum(f, (T \ {c}) \ {x})
      /\ Sum(f, T \ {x}) = f[c] + Sum(f, (T \ {x}) \ {c})
  BY <1>3, <1>5, <1>6
<1>8. (T \ {c}) \ {x} = (T \ {x}) \ {c}
  OBVIOUS
<1>9. IsFiniteSet((T \ {c}) \ {x}) /\ (T \ {c}) \ {x} \in SUBSET S
  BY <1>3, <1>4, FS_Subset
<1>10. Sum(f, (T \ {c}) \ {x}) \in Int
  BY <1>9, SumInt
<1>11. f[x] \in Int /\ f[c] \in Int
  BY <1>3
<1>12. Sum(f, T) = f[c] + (f[x] + Sum(f, (T \ {c}) \ {x}))
  BY <1>4, <1>7
<1>13. Sum(f, T \ {x}) = f[c] + Sum(f, (T \ {c}) \ {x})
  BY <1>7, <1>8
<1>14. Sum(f, T) = f[x] + Sum(f, T \ {x})
  BY <1>10, <1>11, <1>12, <1>13
<1>. QED
  BY <1>2, <1>14

(* A new element adds its value. *)
LEMMA SumAdd ==
  ASSUME NEW f, NEW S, IsFiniteSet(S), NEW y, y \notin S, \A x \in S \cup {y} : f[x] \in Int
  PROVE  Sum(f, S \cup {y}) = f[y] + Sum(f, S)
<1>1. IsFiniteSet(S \cup {y}) /\ (S \cup {y}) \ {y} = S /\ y \in S \cup {y}
  BY FS_AddElement
<1>2. Sum(f, S \cup {y}) = f[y] + Sum(f, (S \cup {y}) \ {y})
  BY <1>1, SumRemove
<1>. QED  BY <1>1, <1>2

(* A sum follows the change of one value. *)
LEMMA SumUpdate ==
  ASSUME NEW D, NEW f \in [D -> Int], NEW S \in SUBSET D, IsFiniteSet(S), NEW y \in D, NEW v \in Int
  PROVE  Sum([f EXCEPT ![y] = v], S) = Sum(f, S) + (IF y \in S THEN v - f[y] ELSE 0)
<1>. DEFINE g == [f EXCEPT ![y] = v]
<1>1. g \in [D -> Int] /\ g[y] = v /\ \A x \in D : x # y => g[x] = f[x]
  OBVIOUS
<1>. HIDE DEF g
<1>2. Sum(f, S) \in Int /\ Sum(f, S \ {y}) \in Int
  <2>1. IsFiniteSet(S \ {y})
    BY FS_RemoveElement
  <2>. QED  BY <2>1, SumInt
<1>3. CASE y \in S
  <2>1. Sum(f, S) = f[y] + Sum(f, S \ {y}) /\ Sum(g, S) = g[y] + Sum(g, S \ {y})
    BY <1>1, <1>3, SumRemove
  <2>2. Sum(g, S \ {y}) = Sum(f, S \ {y})
    <3>1. IsFiniteSet(S \ {y}) /\ \A x \in S \ {y} : g[x] = f[x]
      BY <1>1, FS_RemoveElement
    <3>. QED  BY <3>1, SumSame
  <2>3. Sum(g, S) = Sum(f, S) + (v - f[y])
    BY <1>1, <1>2, <2>1, <2>2
  <2>. QED  BY <1>3, <2>3 DEF g
<1>4. CASE y \notin S
  <2>1. \A x \in S : g[x] = f[x]
    BY <1>1, <1>4
  <2>2. Sum(g, S) = Sum(f, S)
    BY <2>1, SumSame
  <2>. QED  BY <1>2, <1>4, <2>2 DEF g
<1>. QED  BY <1>3, <1>4

(* A sum does not grow when no value does. *)
LEMMA SumMonotone ==
  ASSUME NEW f, NEW g, NEW S, IsFiniteSet(S),
         \A x \in S : f[x] \in Int /\ g[x] \in Int /\ f[x] <= g[x]
  PROVE  Sum(f, S) <= Sum(g, S)
<1>. DEFINE C == {T \in SUBSET S : ~(Sum(f, T) <= Sum(g, T))}
<1>. SUFFICES ASSUME C # {} PROVE FALSE
  OBVIOUS
<1>1. PICK T \in C : \A U \in C : U \subseteq T => U = T
  <2>1. C \subseteq SUBSET S
    OBVIOUS
  <2>. HIDE DEF C
  <2>. QED  BY <2>1, MinimalSet
<1>2. IsFiniteSet(T) /\ T \in SUBSET S /\ ~(Sum(f, T) <= Sum(g, T))
  BY FS_Subset
<1>3. Unfolds(f, T) /\ Unfolds(g, T)
  BY <1>2, SumUnfolds
<1>4. T # {}
  BY <1>2, SumEmpty
<1>. DEFINE c == Pick(T)
            R == T \ {c}
<1>5. R \in SUBSET S /\ R \subseteq T /\ R # T /\ c \in S
  BY <1>2, <1>4, PickIn
<1>6. Sum(f, R) <= Sum(g, R)
  BY <1>1, <1>5
<1>7. IsFiniteSet(R)
  BY <1>5, FS_Subset
<1>8. Sum(f, R) \in Int /\ Sum(g, R) \in Int
  BY <1>5, <1>7, SumInt
<1>9. Sum(f, T) = f[c] + Sum(f, R) /\ Sum(g, T) = g[c] + Sum(g, R)
  BY <1>3, <1>4 DEF Unfolds
<1>10. f[c] \in Int /\ g[c] \in Int /\ f[c] <= g[c]
  BY <1>5
<1>. HIDE DEF c, R, C
<1>11. Sum(f, T) <= Sum(g, T)
  BY <1>6, <1>8, <1>9, <1>10
<1>. QED
  BY <1>2, <1>11

(* The sum over two disjoint sets is the sum of their sums. *)
LEMMA SumDisjoint ==
  ASSUME NEW f, NEW A, NEW B, IsFiniteSet(A), IsFiniteSet(B), A \cap B = {},
         \A x \in A \cup B : f[x] \in Int
  PROVE  Sum(f, A \cup B) = Sum(f, A) + Sum(f, B)
<1>. DEFINE C == {T \in SUBSET A : ~(Sum(f, T \cup B) = Sum(f, T) + Sum(f, B))}
<1>. SUFFICES ASSUME C # {} PROVE FALSE
  OBVIOUS
<1>1. PICK T \in C : \A U \in C : U \subseteq T => U = T
  <2>1. C \subseteq SUBSET A
    OBVIOUS
  <2>. HIDE DEF C
  <2>. QED  BY <2>1, MinimalSet
<1>2. IsFiniteSet(T) /\ T \in SUBSET A /\ Sum(f, T \cup B) # Sum(f, T) + Sum(f, B)
  BY FS_Subset
<1>3. Sum(f, B) \in Int
  BY SumInt
<1>4. T # {}
  BY <1>2, <1>3, SumEmpty
<1>5. PICK y : y \in T
  BY <1>4
<1>. DEFINE R == T \ {y}
<1>6. R \in SUBSET A /\ R \subseteq T /\ R # T /\ y \in A /\ y \notin R \cup B
      /\ R \cup {y} = T /\ (R \cup B) \cup {y} = T \cup B
  BY <1>2, <1>5
<1>7. Sum(f, R \cup B) = Sum(f, R) + Sum(f, B)
  BY <1>1, <1>6
<1>8. IsFiniteSet(R) /\ IsFiniteSet(R \cup B)
  BY <1>6, FS_Subset, FS_Union
<1>. HIDE DEF C, R
<1>9. Sum(f, R) \in Int /\ f[y] \in Int
  BY <1>6, <1>8, SumInt
<1>10. Sum(f, R \cup {y}) = f[y] + Sum(f, R)
  BY <1>6, <1>8, SumAdd
<1>11. Sum(f, (R \cup B) \cup {y}) = f[y] + Sum(f, R \cup B)
  BY <1>6, <1>8, SumAdd
<1>12. Sum(f, T) = f[y] + Sum(f, R) /\ Sum(f, T \cup B) = f[y] + (Sum(f, R) + Sum(f, B))
  <2>1. R \cup {y} = T /\ (R \cup B) \cup {y} = T \cup B
    BY <1>6
  <2>. QED  BY <2>1, <1>7, <1>10, <1>11
<1>13. Sum(f, T \cup B) = Sum(f, T) + Sum(f, B)
  BY <1>3, <1>9, <1>12
<1>. QED
  BY <1>2, <1>13

(* A part of a sum of naturals is no more than the whole. *)
LEMMA SumSubset ==
  ASSUME NEW f, NEW S, IsFiniteSet(S), \A x \in S : f[x] \in Nat, NEW T \in SUBSET S
  PROVE  Sum(f, T) <= Sum(f, S)
<1>1. IsFiniteSet(T) /\ IsFiniteSet(S \ T) /\ T \cup (S \ T) = S /\ T \cap (S \ T) = {}
  BY FS_Subset
<1>2. Sum(f, T) \in Nat /\ Sum(f, S \ T) \in Nat
  BY <1>1, SumNat
<1>3. Sum(f, T \cup (S \ T)) = Sum(f, T) + Sum(f, S \ T)
  BY <1>1, SumDisjoint
<1>4. Sum(f, S) = Sum(f, T) + Sum(f, S \ T)
  <2>1. T \cup (S \ T) = S
    BY <1>1
  <2>. QED  BY <2>1, <1>3
<1>. QED  BY <1>2, <1>4

(* A sum may be taken group by group. *)
LEMMA SumGroups ==
  ASSUME NEW f, NEW S, IsFiniteSet(S), \A x \in S : f[x] \in Int,
         NEW G, IsFiniteSet(G), NEW h \in [S -> G]
  PROVE  Sum([k \in G |-> Sum(f, {x \in S : h[x] = k})], G) = Sum(f, S)
<1>. DEFINE Of(H) == {x \in S : h[x] \in H}
            part == [k \in G |-> Sum(f, {x \in S : h[x] = k})]
            C == {H \in SUBSET G : ~(Sum(part, H) = Sum(f, Of(H)))}
<1>0. Of(G) = S
  OBVIOUS
<1>. SUFFICES ASSUME C # {} PROVE FALSE
  BY <1>0
<1>1. PICK T \in C : \A U \in C : U \subseteq T => U = T
  <2>1. C \subseteq SUBSET G
    OBVIOUS
  <2>. HIDE DEF C
  <2>. QED  BY <2>1, MinimalSet
<1>2. T \in SUBSET G /\ Sum(part, T) # Sum(f, Of(T))
  OBVIOUS
<1>3. T # {}
  <2>1. Of({}) = {}
    OBVIOUS
  <2>. HIDE DEF part, Of
  <2>. QED  BY <1>2, <2>1, SumEmpty
<1>4. PICK k : k \in T
  BY <1>3
<1>. DEFINE R == T \ {k}
            K == {x \in S : h[x] = k}
<1>5. R \in SUBSET G /\ R \subseteq T /\ R # T /\ k \notin R /\ R \cup {k} = T
  BY <1>2, <1>4
<1>6. Sum(part, R) = Sum(f, Of(R))
  BY <1>1, <1>5
<1>7. /\ Of(R) \in SUBSET S /\ K \in SUBSET S
      /\ Of(R) \cap K = {} /\ Of(R) \cup K = Of(T)
  BY <1>5
<1>8. part[k] = Sum(f, K) /\ \A j \in T : part[j] \in Int
  <2>1. ASSUME NEW j \in T PROVE part[j] \in Int
    <3>1. IsFiniteSet({x \in S : h[x] = j})
      BY FS_Subset
    <3>2. Sum(f, {x \in S : h[x] = j}) \in Int
      BY <3>1, SumInt
    <3>. QED  BY <1>2, <3>2
  <2>. QED  BY <1>2, <1>4, <2>1
<1>9. IsFiniteSet(R) /\ IsFiniteSet(Of(R)) /\ IsFiniteSet(K)
  BY <1>5, <1>7, FS_Subset
<1>. HIDE DEF C, R, K, Of, part
<1>10. Sum(f, Of(R)) \in Int /\ Sum(f, K) \in Int
  BY <1>7, <1>9, SumInt
<1>11. Sum(part, R \cup {k}) = part[k] + Sum(part, R)
  BY <1>5, <1>8, <1>9, SumAdd
<1>12. Sum(f, Of(R) \cup K) = Sum(f, Of(R)) + Sum(f, K)
  BY <1>7, <1>9, SumDisjoint
<1>13. Sum(part, T) = Sum(f, K) + Sum(f, Of(R)) /\ Sum(f, Of(T)) = Sum(f, Of(R)) + Sum(f, K)
  <2>1. R \cup {k} = T
    BY <1>5
  <2>2. Of(R) \cup K = Of(T)
    BY <1>7
  <2>. QED  BY <2>1, <2>2, <1>6, <1>8, <1>11, <1>12
<1>14. Sum(part, T) = Sum(f, Of(T))
  BY <1>10, <1>13
<1>. QED
  BY <1>2, <1>14

(* Where no element grows by more than d in T and none at all elsewhere, the *)
(* sum grows by no more than d times the size of T.                          *)
LEMMA SumShift ==
  ASSUME NEW f, NEW g, NEW S, IsFiniteSet(S), NEW T, NEW d \in Int,
         \A x \in S : f[x] \in Int /\ g[x] \in Int /\ g[x] <= f[x] + (IF x \in T THEN d ELSE 0)
  PROVE  Sum(g, S) <= Sum(f, S) + d * Cardinality(T \cap S)
<1>. DEFINE Grow(U) == Sum(g, U) <= Sum(f, U) + d * Cardinality(T \cap U)
            C == {U \in SUBSET S : ~Grow(U)}
<1>. SUFFICES ASSUME C # {} PROVE FALSE
  OBVIOUS
<1>1. PICK U \in C : \A V \in C : V \subseteq U => V = U
  <2>1. C \subseteq SUBSET S
    OBVIOUS
  <2>. HIDE DEF C
  <2>. QED  BY <2>1, MinimalSet
<1>2. IsFiniteSet(U) /\ U \in SUBSET S /\ ~Grow(U)
  BY FS_Subset
<1>. HIDE DEF Grow
<1>3. U # {}
  <2>1. T \cap {} = {}
    OBVIOUS
  <2>2. Sum(g, {}) = 0 /\ Sum(f, {}) = 0 /\ Cardinality({}) = 0
    BY SumEmpty, FS_EmptySet
  <2>3. 0 <= 0 + d * 0
    OBVIOUS
  <2>4. Grow({})
    BY <2>1, <2>2, <2>3 DEF Grow
  <2>. QED  BY <1>2, <2>4
<1>4. PICK y : y \in U
  BY <1>3
<1>. DEFINE R == U \ {y}
            n == Cardinality(T \cap R)
<1>5. R \in SUBSET S /\ R \subseteq U /\ R # U /\ y \in S /\ y \notin R
  BY <1>2, <1>4
<1>6. Grow(R)
  BY <1>1, <1>5
<1>7. IsFiniteSet(R) /\ IsFiniteSet(T \cap R)
  <2>1. T \cap R \in SUBSET S
    BY <1>5
  <2>. QED  BY <1>5, <2>1, FS_Subset
<1>8. /\ Sum(f, U) = f[y] + Sum(f, R) /\ Sum(g, U) = g[y] + Sum(g, R)
      /\ \A x \in U : f[x] \in Int /\ g[x] \in Int
  <2>1. \A x \in U : f[x] \in Int /\ g[x] \in Int
    BY <1>2
  <2>. QED  BY <1>2, <1>4, <2>1, SumRemove
<1>9. Sum(f, R) \in Int /\ Sum(g, R) \in Int /\ n \in Nat
  BY <1>5, <1>7, SumInt, FS_CardinalityType
<1>10. Cardinality(T \cap U) = IF y \in T THEN n + 1 ELSE n
  <2>1. CASE y \in T
    <3>1. T \cap U = (T \cap R) \cup {y} /\ y \notin T \cap R
      BY <1>4, <2>1
    <3>. QED  BY <1>7, <2>1, <3>1, FS_AddElement
  <2>2. CASE y \notin T
    <3>1. T \cap U = T \cap R
      BY <2>2
    <3>. QED  BY <2>2, <3>1
  <2>. QED  BY <2>1, <2>2
<1>11. Sum(g, R) <= Sum(f, R) + d * n
  BY <1>6 DEF Grow
<1>12. f[y] \in Int /\ g[y] \in Int /\ g[y] <= f[y] + (IF y \in T THEN d ELSE 0)
  BY <1>5
<1>. HIDE DEF C, R, n
<1>13. d * n \in Int /\ d * (n + 1) = d * n + d
  BY <1>9
<1>14. Sum(g, U) <= Sum(f, U) + d * Cardinality(T \cap U)
  <2>1. CASE y \in T
    <3>1. Sum(g, U) <= Sum(f, U) + d * (n + 1)
      BY <1>8, <1>9, <1>11, <1>12, <1>13, <2>1
    <3>. QED  BY <1>10, <2>1, <3>1
  <2>2. CASE y \notin T
    <3>1. Sum(g, U) <= Sum(f, U) + d * n
      BY <1>8, <1>9, <1>11, <1>12, <1>13, <2>2
    <3>. QED  BY <1>10, <2>2, <3>1
  <2>. QED  BY <2>1, <2>2
<1>. QED
  BY <1>2, <1>14 DEF Grow

(* A sum of zeros is zero. *)
LEMMA SumZero ==
  ASSUME NEW f, NEW S, IsFiniteSet(S), \A x \in S : f[x] = 0
  PROVE  Sum(f, S) = 0
<1>. DEFINE C == {U \in SUBSET S : Sum(f, U) # 0}
<1>. SUFFICES ASSUME C # {} PROVE FALSE
  OBVIOUS
<1>1. PICK U \in C : \A V \in C : V \subseteq U => V = U
  <2>1. C \subseteq SUBSET S
    OBVIOUS
  <2>. HIDE DEF C
  <2>. QED  BY <2>1, MinimalSet
<1>2. IsFiniteSet(U) /\ U \in SUBSET S /\ Sum(f, U) # 0
  BY FS_Subset
<1>3. PICK y : y \in U
  BY <1>2, SumEmpty
<1>4. Sum(f, U \ {y}) = 0
  BY <1>1, <1>2, <1>3
<1>5. Sum(f, U) = f[y] + Sum(f, U \ {y}) /\ f[y] = 0
  <2>1. \A x \in U : f[x] \in Int
    BY <1>2
  <2>. QED  BY <1>2, <1>3, <2>1, SumRemove
<1>. QED
  BY <1>2, <1>4, <1>5
=============================================================================
