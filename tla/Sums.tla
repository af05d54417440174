-------------------------------- MODULE Sums --------------------------------
(***************************************************************************)
(* Lemmas about the sum of a function over a finite set: MapThenSumSet of  *)
(* FiniteSetsExt, which takes the elements one by one as CHOOSE finds them.*)
(* Every induction is on the smallest subset for which a claim would fail. *)
(***************************************************************************)
EXTENDS Integers, FiniteSetsExt, FiniteSetTheorems, TLAPS

Total(f, S) == MapThenSumSet(LAMBDA x : f[x], S)

pick(s) == CHOOSE x \in s : TRUE

(* The function by which MapThenSumSet computes sums over subsets of S.    *)
IsSum(it, f, S) ==
  it = [s \in SUBSET S |-> IF s = {} THEN 0 ELSE f[pick(s)] + it[s \ {pick(s)}]]

SumOf(f, S) == CHOOSE it : IsSum(it, f, S)

(* A total is the sum at the whole set.                                    *)
LEMMA TotalIsSum == ASSUME NEW f, NEW S PROVE Total(f, S) = SumOf(f, S)[S]
  BY DEF Total, MapThenSumSet, MapThenFoldSet, SumOf, IsSum, pick

(* A set that is not empty has a first element.                            *)
LEMMA Picked == ASSUME NEW S, S # {} PROVE pick(S) \in S
  BY DEF pick

(* A set of subsets of a finite set has one of which no proper subset is   *)
(* in it.                                                                  *)
LEMMA Smallest ==
  ASSUME NEW S, IsFiniteSet(S), NEW Bad, Bad \subseteq SUBSET S, Bad # {}
  PROVE  \E T \in Bad : \A U \in SUBSET T : U # T => U \notin Bad
<1>1. IsWellFoundedOn(StrictSubsetOrdering(S), SUBSET S)
  BY FS_StrictSubsetOrderingWellFounded, FS_FiniteSubsetsOfFinite
<1>2. PICK T \in Bad : \A U \in Bad : <<U, T>> \notin StrictSubsetOrdering(S)
  BY <1>1, WFMin
<1>3. ASSUME NEW U \in SUBSET T, U # T, U \in Bad PROVE FALSE
  BY <1>2, <1>3 DEF StrictSubsetOrdering
<1> QED
  BY <1>2, <1>3

(* What IsSum says of one subset.                                          *)
LEMMA SumAt ==
  ASSUME NEW it, NEW f, NEW S, IsSum(it, f, S), NEW s \in SUBSET S
  PROVE  it[s] = IF s = {} THEN 0 ELSE f[pick(s)] + it[s \ {pick(s)}]
  BY DEF IsSum

(* There is one such function for the values of f on S.                    *)
LEMMA SumsAgree ==
  ASSUME NEW S, IsFiniteSet(S), NEW f, NEW g, \A x \in S : f[x] = g[x],
         NEW a, NEW b, IsSum(a, f, S), IsSum(b, g, S)
  PROVE  \A s \in SUBSET S : a[s] = b[s]
<1> DEFINE Bad == {s \in SUBSET S : a[s] # b[s]}
<1>1. ASSUME Bad # {} PROVE FALSE
  <2>1. PICK T \in Bad : \A U \in SUBSET T : U # T => U \notin Bad
    BY <1>1, Smallest
  <2>2. T # {}
    BY <2>1, SumAt
  <2>3. pick(T) \in T /\ T \in SUBSET S
    BY <2>2, Picked
  <2>4. a[T \ {pick(T)}] = b[T \ {pick(T)}]
    BY <2>1, <2>3
  <2>5. /\ a[T] = f[pick(T)] + a[T \ {pick(T)}]
        /\ b[T] = g[pick(T)] + b[T \ {pick(T)}]
    BY <2>2, <2>3, SumAt
  <2> QED
    BY <2>1, <2>3, <2>4, <2>5
<1> QED
  BY <1>1

(* A sum restricted to fewer elements is a sum.                            *)
LEMMA SumRestricted ==
  ASSUME NEW it, NEW f, NEW S, IsSum(it, f, S), NEW T \in SUBSET S
  PROVE  IsSum([s \in SUBSET T |-> it[s]], f, T)
<1> DEFINE r == [s \in SUBSET T |-> it[s]]
<1>1. ASSUME NEW s \in SUBSET T
      PROVE  r[s] = IF s = {} THEN 0 ELSE f[pick(s)] + r[s \ {pick(s)}]
  <2>1. s \in SUBSET S /\ s \ {pick(s)} \in SUBSET T
    OBVIOUS
  <2> QED
    BY <2>1, SumAt
<1> QED
  BY <1>1 DEF IsSum

(* Every function on a finite set has a sum.                               *)
LEMMA SumExists ==
  ASSUME NEW S, IsFiniteSet(S), NEW f
  PROVE  \E it : IsSum(it, f, S)
<1> DEFINE Bad == {T \in SUBSET S : ~ \E it : IsSum(it, f, T)}
<1>0. /\ Bad \subseteq SUBSET S
      /\ \A T \in SUBSET S : T \in Bad <=> ~ \E it : IsSum(it, f, T)
  OBVIOUS
<1> HIDE DEF Bad
<1>1. ASSUME Bad # {} PROVE FALSE
  <2>1. PICK T \in Bad : \A U \in SUBSET T : U # T => U \notin Bad
    BY <1>0, <1>1, Smallest
  <2>2. IsFiniteSet(T) /\ T \subseteq S
    BY <1>0, <2>1, FS_Subset
  <2>3. \A U \in SUBSET T : U # T => IsSum(SumOf(f, U), f, U) /\ IsFiniteSet(U)
    <3>1. ASSUME NEW U \in SUBSET T, U # T PROVE \E it : IsSum(it, f, U)
      BY <1>0, <2>1, <2>2, <3>1
    <3> QED
      BY <2>2, <3>1, FS_Subset DEF SumOf
  <2> DEFINE Value(s) == IF s = {} THEN 0
                         ELSE f[pick(s)] + SumOf(f, s \ {pick(s)})[s \ {pick(s)}]
             g == [s \in SUBSET T |-> Value(s)]
  <2>4. ASSUME NEW U \in SUBSET T, U # T PROVE g[U] = SumOf(f, U)[U]
    <3>1. SumOf(f, U)[U] = IF U = {} THEN 0 ELSE f[pick(U)] + SumOf(f, U)[U \ {pick(U)}]
      BY <2>3, <2>4, SumAt
    <3>2. CASE U = {}
      BY <3>1, <3>2
    <3>3. CASE U # {}
      <4> DEFINE V == U \ {pick(U)}
      <4>1. V \in SUBSET U /\ V \in SUBSET T /\ V # T
        BY <2>4
      <4> HIDE DEF V
      <4>2. IsSum([s \in SUBSET V |-> SumOf(f, U)[s]], f, V)
        BY <2>3, <2>4, <4>1, SumRestricted
      <4>3. SumOf(f, U)[V] = SumOf(f, V)[V]
        <5>1. IsSum(SumOf(f, V), f, V) /\ IsFiniteSet(V)
          BY <2>3, <4>1
        <5> DEFINE r == [s \in SUBSET V |-> SumOf(f, U)[s]]
        <5>2. r[V] = SumOf(f, U)[V]
          OBVIOUS
        <5> HIDE DEF r
        <5>3. IsSum(r, f, V)
          BY <4>2 DEF r
        <5>4. r[V] = SumOf(f, V)[V]
          BY <5>1, <5>3, SumsAgree
        <5> QED
          BY <5>2, <5>4
      <4>4. g[U] = f[pick(U)] + SumOf(f, V)[V]
        BY <3>3 DEF V
      <4> QED
        BY <3>1, <3>3, <4>3, <4>4 DEF V
    <3> QED
      BY <3>2, <3>3
  <2>5. ASSUME NEW s \in SUBSET T
        PROVE  g[s] = IF s = {} THEN 0 ELSE f[pick(s)] + g[s \ {pick(s)}]
    <3>1. CASE s = {}
      BY <3>1
    <3>2. CASE s # {}
      <4>1. pick(s) \in s
        BY <3>2, Picked
      <4>2. s \ {pick(s)} \in SUBSET T /\ s \ {pick(s)} # T
        BY <4>1
      <4>3. g[s \ {pick(s)}] = SumOf(f, s \ {pick(s)})[s \ {pick(s)}]
        BY <2>4, <4>2
      <4> QED
        BY <3>2, <4>3
    <3> QED
      BY <3>1, <3>2
  <2>6. IsSum(g, f, T)
    BY <2>5 DEF IsSum
  <2> QED
    BY <1>0, <2>1, <2>6
<1> QED
  BY <1>0, <1>1

(* So the one that is chosen is a sum.                                     *)
LEMMA SumSound ==
  ASSUME NEW S, IsFiniteSet(S), NEW f
  PROVE  IsSum(SumOf(f, S), f, S)
  BY SumExists DEF SumOf

(* Functions that agree on S have the same sum.                            *)
LEMMA TotalSame ==
  ASSUME NEW S, IsFiniteSet(S), NEW f, NEW g, \A x \in S : f[x] = g[x]
  PROVE  Total(f, S) = Total(g, S)
<1>1. IsSum(SumOf(f, S), f, S) /\ IsSum(SumOf(g, S), g, S)
  BY SumSound
<1>2. SumOf(f, S)[S] = SumOf(g, S)[S]
  BY <1>1, SumsAgree
<1> QED
  BY <1>2, TotalIsSum

(* The sum of a set, at a subset, is the total of the subset.              *)
LEMMA TotalWithin ==
  ASSUME NEW S, IsFiniteSet(S), NEW f, NEW T \in SUBSET S
  PROVE  SumOf(f, S)[T] = Total(f, T)
<1>1. IsSum(SumOf(f, S), f, S) /\ IsSum(SumOf(f, T), f, T) /\ IsFiniteSet(T)
  BY SumSound, FS_Subset
<1> DEFINE r == [s \in SUBSET T |-> SumOf(f, S)[s]]
<1>2. r[T] = SumOf(f, S)[T]
  OBVIOUS
<1>3. IsSum(r, f, T)
  BY <1>1, SumRestricted
<1> HIDE DEF r
<1>4. r[T] = SumOf(f, T)[T]
  BY <1>1, <1>3, SumsAgree
<1> QED
  BY <1>2, <1>4, TotalIsSum

(* A total, one element at a time.                                         *)
LEMMA TotalStep ==
  ASSUME NEW S, IsFiniteSet(S), NEW f
  PROVE  /\ S = {} => Total(f, S) = 0
         /\ S # {} => pick(S) \in S /\ Total(f, S) = f[pick(S)] + Total(f, S \ {pick(S)})
<1>1. IsSum(SumOf(f, S), f, S) /\ S \in SUBSET S /\ S \ {pick(S)} \in SUBSET S
  BY SumSound
<1>2. SumOf(f, S)[S] = IF S = {} THEN 0 ELSE f[pick(S)] + SumOf(f, S)[S \ {pick(S)}]
  BY <1>1, SumAt
<1>3. SumOf(f, S)[S \ {pick(S)}] = Total(f, S \ {pick(S)})
  BY <1>1, TotalWithin
<1> QED
  BY <1>2, <1>3, TotalIsSum, Picked
-----------------------------------------------------------------------------
(* The sum is a number, and it does not matter which element comes first.  *)
LEMMA TotalInt ==
  ASSUME NEW S, IsFiniteSet(S), NEW f, \A x \in S : f[x] \in Int
  PROVE  Total(f, S) \in Int
<1> DEFINE Bad == {T \in SUBSET S : Total(f, T) \notin Int}
<1>0. Bad \subseteq SUBSET S /\ \A T \in SUBSET S : T \in Bad <=> Total(f, T) \notin Int
  OBVIOUS
<1> HIDE DEF Bad
<1>1. ASSUME Bad # {} PROVE FALSE
  <2>1. PICK T \in Bad : \A U \in SUBSET T : U # T => U \notin Bad
    BY <1>0, <1>1, Smallest
  <2>2. IsFiniteSet(T) /\ T \subseteq S
    BY <1>0, <2>1, FS_Subset
  <2>3. T # {}
    <3>1. T = {} => Total(f, T) = 0
      BY <2>2, TotalStep
    <3> QED
      BY <1>0, <2>1, <3>1
  <2>4. pick(T) \in T /\ Total(f, T) = f[pick(T)] + Total(f, T \ {pick(T)})
    BY <2>2, <2>3, TotalStep
  <2>5. Total(f, T \ {pick(T)}) \in Int
    BY <1>0, <2>1, <2>2, <2>4
  <2> QED
    BY <1>0, <2>1, <2>2, <2>4, <2>5
<1> QED
  BY <1>0, <1>1

(* Any element may be the one that is taken off.                           *)
LEMMA TotalRemove ==
  ASSUME NEW S, IsFiniteSet(S), NEW f, \A x \in S : f[x] \in Int, NEW e \in S
  PROVE  Total(f, S) = f[e] + Total(f, S \ {e})
<1> DEFINE Right(T) == \A x \in T : Total(f, T) = f[x] + Total(f, T \ {x})
           Bad == {T \in SUBSET S : ~Right(T)}
<1>0. Bad \subseteq SUBSET S /\ \A T \in SUBSET S : T \in Bad <=> ~Right(T)
  OBVIOUS
<1> HIDE DEF Bad
<1>1. ASSUME Bad # {} PROVE FALSE
  <2>1. PICK T \in Bad : \A U \in SUBSET T : U # T => U \notin Bad
    BY <1>0, <1>1, Smallest
  <2>2. IsFiniteSet(T) /\ T \subseteq S /\ \A U \in SUBSET T : IsFiniteSet(U)
    BY <1>0, <2>1, FS_Subset
  <2>3. ASSUME NEW x \in T PROVE Total(f, T) = f[x] + Total(f, T \ {x})
    <3> DEFINE p == pick(T)
    <3>1. p \in T /\ Total(f, T) = f[p] + Total(f, T \ {p})
      BY <2>2, TotalStep
    <3> HIDE DEF p
    <3>2. CASE p = x
      BY <3>1, <3>2
    <3>3. CASE p # x
      <4>1. /\ T \ {p} \in SUBSET T /\ T \ {p} # T /\ x \in T \ {p}
            /\ T \ {x} \in SUBSET T /\ T \ {x} # T /\ p \in T \ {x}
        BY <3>1, <3>3
      <4>2. Right(T \ {p}) /\ Right(T \ {x})
        BY <1>0, <2>1, <2>2, <4>1
      <4>3. /\ Total(f, T \ {p}) = f[x] + Total(f, (T \ {p}) \ {x})
            /\ Total(f, T \ {x}) = f[p] + Total(f, (T \ {x}) \ {p})
        BY <4>1, <4>2
      <4> DEFINE V == T \ {x, p}
      <4>4. (T \ {p}) \ {x} = V /\ (T \ {x}) \ {p} = V /\ V \in SUBSET T
        OBVIOUS
      <4> HIDE DEF V
      <4>5. \A y \in V : f[y] \in Int
        BY <2>2, <4>4
      <4>6. Total(f, V) \in Int /\ f[x] \in Int /\ f[p] \in Int
        BY <2>2, <3>1, <4>4, <4>5, TotalInt
      <4>7. Total(f, T \ {p}) = f[x] + Total(f, V) /\ Total(f, T \ {x}) = f[p] + Total(f, V)
        BY <4>3, <4>4
      <4> QED
        BY <3>1, <4>6, <4>7
    <3> QED
      BY <3>2, <3>3
  <2> QED
    BY <1>0, <2>1, <2>2, <2>3
<1> QED
  BY <1>0, <1>1

(* An element more adds what it counts for.                                *)
LEMMA TotalAdd ==
  ASSUME NEW S, IsFiniteSet(S), NEW f, NEW e, e \notin S,
         \A x \in S \cup {e} : f[x] \in Int
  PROVE  Total(f, S \cup {e}) = Total(f, S) + f[e]
<1>1. IsFiniteSet(S \cup {e}) /\ e \in S \cup {e} /\ (S \cup {e}) \ {e} = S
  BY FS_AddElement
<1>2. Total(f, S \cup {e}) = f[e] + Total(f, (S \cup {e}) \ {e})
  BY <1>1, TotalRemove
<1>3. \A x \in S : f[x] \in Int
  OBVIOUS
<1>4. Total(f, S) \in Int /\ f[e] \in Int
  BY <1>3, TotalInt
<1>5. Total(f, S \cup {e}) = f[e] + Total(f, S)
  BY <1>1, <1>2
<1> QED
  BY <1>4, <1>5

(* One value of f changes.                                                 *)
LEMMA TotalChanged ==
  ASSUME NEW S, IsFiniteSet(S), NEW f, NEW g, NEW e \in S,
         \A x \in S : f[x] \in Int /\ g[x] \in Int,
         \A x \in S \ {e} : g[x] = f[x]
  PROVE  Total(g, S) = Total(f, S) - f[e] + g[e]
<1>1. /\ Total(f, S) = f[e] + Total(f, S \ {e})
      /\ Total(g, S) = g[e] + Total(g, S \ {e})
  BY TotalRemove
<1>2. IsFiniteSet(S \ {e})
  BY FS_RemoveElement
<1>3. Total(f, S \ {e}) = Total(g, S \ {e}) /\ Total(f, S \ {e}) \in Int
  BY <1>2, TotalSame, TotalInt
<1> QED
  BY <1>1, <1>3

(* Natural numbers: the sum is one, and none exceeds it.                   *)
LEMMA TotalNat ==
  ASSUME NEW S, IsFiniteSet(S), NEW f, \A x \in S : f[x] \in Nat
  PROVE  Total(f, S) \in Nat /\ \A x \in S : f[x] <= Total(f, S)
<1> DEFINE Bad == {T \in SUBSET S : Total(f, T) \notin Nat}
<1>0. Bad \subseteq SUBSET S /\ \A T \in SUBSET S : T \in Bad <=> Total(f, T) \notin Nat
  OBVIOUS
<1> HIDE DEF Bad
<1>1. ASSUME Bad # {} PROVE FALSE
  <2>1. PICK T \in Bad : \A U \in SUBSET T : U # T => U \notin Bad
    BY <1>0, <1>1, Smallest
  <2>2. IsFiniteSet(T) /\ T \subseteq S
    BY <1>0, <2>1, FS_Subset
  <2>3. T # {}
    <3>1. T = {} => Total(f, T) = 0
      BY <2>2, TotalStep
    <3> QED
      BY <1>0, <2>1, <3>1
  <2>4. pick(T) \in T /\ Total(f, T) = f[pick(T)] + Total(f, T \ {pick(T)})
    BY <2>2, <2>3, TotalStep
  <2>5. Total(f, T \ {pick(T)}) \in Nat
    BY <1>0, <2>1, <2>2, <2>4
  <2> QED
    BY <1>0, <2>1, <2>2, <2>4, <2>5
<1>2. \A T \in SUBSET S : Total(f, T) \in Nat
  BY <1>0, <1>1
<1>3. ASSUME NEW x \in S PROVE f[x] <= Total(f, S)
  <2>1. Total(f, S) = f[x] + Total(f, S \ {x})
    BY TotalRemove
  <2>2. Total(f, S \ {x}) \in Nat /\ f[x] \in Nat
    BY <1>2
  <2> QED
    BY <2>1, <2>2
<1> QED
  BY <1>2, <1>3

(* Numbers of m at most.                                                   *)
LEMMA TotalAtMost ==
  ASSUME NEW S, IsFiniteSet(S), NEW f, NEW m \in Nat,
         \A x \in S : f[x] \in Nat /\ f[x] <= m
  PROVE  Total(f, S) <= Cardinality(S) * m
<1> DEFINE Few(T) == Total(f, T) <= Cardinality(T) * m
           Bad == {T \in SUBSET S : ~Few(T)}
<1>0. Bad \subseteq SUBSET S /\ \A T \in SUBSET S : T \in Bad <=> ~Few(T)
  OBVIOUS
<1> HIDE DEF Bad
<1>1. ASSUME Bad # {} PROVE FALSE
  <2>1. PICK T \in Bad : \A U \in SUBSET T : U # T => U \notin Bad
    BY <1>0, <1>1, Smallest
  <2>2. IsFiniteSet(T) /\ T \subseteq S
    BY <1>0, <2>1, FS_Subset
  <2>3. T # {}
    <3>1. ASSUME T = {} PROVE FALSE
      <4>1. Total(f, T) = 0 /\ Cardinality(T) = 0
        BY <2>2, <3>1, TotalStep, FS_EmptySet
      <4>2. Few(T)
        BY <4>1
      <4> QED
        BY <1>0, <2>1, <2>2, <4>2
    <3> QED
      BY <3>1
  <2> DEFINE p == pick(T)
             U == T \ {p}
  <2>4. p \in T /\ Total(f, T) = f[p] + Total(f, U)
    BY <2>2, <2>3, TotalStep
  <2>5. /\ U \in SUBSET T /\ U # T
        /\ IsFiniteSet(U) /\ Cardinality(U) = Cardinality(T) - 1
        /\ Cardinality(T) \in Nat /\ Cardinality(U) \in Nat
    BY <2>2, <2>4, FS_RemoveElement, FS_CardinalityType
  <2>6. Few(U)
    BY <1>0, <2>1, <2>2, <2>5
  <2>7. f[p] \in Nat /\ f[p] <= m /\ Total(f, U) \in Nat
    <3>1. \A x \in U : f[x] \in Nat
      BY <2>2, <2>5
    <3> QED
      BY <2>2, <2>4, <2>5, <3>1, TotalNat
  <2> HIDE DEF p, U
  <2>8. Cardinality(T) * m = Cardinality(U) * m + m
    BY <2>5
  <2>9. Cardinality(U) * m \in Nat
    BY <2>5
  <2>10. Few(T)
    BY <2>4, <2>6, <2>7, <2>8, <2>9
  <2> QED
    BY <1>0, <2>1, <2>2, <2>10
<1> QED
  BY <1>0, <1>1

(* The total of nothing is zero.                                           *)
LEMMA TotalOfNone == ASSUME NEW f PROVE Total(f, {}) = 0
  BY TotalStep, FS_EmptySet
=============================================================================
