---------------------------- MODULE Sums_proofs ----------------------------
(***************************************************************************)
(* Sums and extremes of finite sets of integers: what SumFunctionOnSet,    *)
(* Max and Min of the community modules compute.  The library's induction  *)
(* theorems take a predicate as their parameter; here induction is about   *)
(* a set, which contains 0 and the successors of its numbers.              *)
(***************************************************************************)
EXTENDS Integers, FiniteSetsExt, FiniteSetTheorems, WellFoundedInduction, TLAPS

LEMMA Induction ==
    ASSUME NEW I, 0 \in I, \A n \in Nat : n \in I => n + 1 \in I
    PROVE  Nat \subseteq I
<1> DEFINE Less == OpToRel(<, Nat)
           Out == Nat \ I
<1>1. SUFFICES ASSUME Out # {} PROVE FALSE
  BY DEF Out
<1>2. IsWellFoundedOn(Less, Nat)
  BY NatLessThanWellFounded
<1>3. \A m, n \in Nat : m < n => <<m, n>> \in Less
  BY DEF OpToRel
<1>4. Out \subseteq Nat
  OBVIOUS
<1> HIDE DEF Less, Out
<1>5. PICK n \in Out : \A m \in Out : <<m, n>> \notin Less
  BY <1>1, <1>2, <1>4, WFMin
<1>6. n \in Nat /\ n # 0 /\ n \notin I
  BY <1>5 DEF Out
<1>7. n - 1 \in Nat /\ n - 1 < n /\ n = (n - 1) + 1
  BY <1>6
<1>8. n - 1 \in I
  BY <1>3, <1>5, <1>6, <1>7 DEF Out
<1> QED BY <1>6, <1>7, <1>8

----------------------------------------------------------------------------
(* The recursive function that adds up.                                     *)

Chosen(s) == CHOOSE x \in s : TRUE
IsSum(sum, f, D) ==
    sum = [s \in D |-> IF s = {} THEN 0 ELSE f[Chosen(s)] + sum[s \ {Chosen(s)}]]

Small(S, n) == {s \in SUBSET S : Cardinality(s) <= n}

LEMMA Remaining ==
    ASSUME NEW S, IsFiniteSet(S), NEW s \in SUBSET S
    PROVE  /\ Cardinality(s) \in Nat /\ IsFiniteSet(s)
           /\ s # {} => /\ Chosen(s) \in s /\ Chosen(s) \notin s \ {Chosen(s)}
                        /\ s \ {Chosen(s)} \in SUBSET S
                        /\ Cardinality(s \ {Chosen(s)}) = Cardinality(s) - 1
                        /\ Cardinality(s) # 0
<1>1. IsFiniteSet(s)
  BY FS_Subset
<1>2. Cardinality(s) \in Nat
  BY <1>1, FS_CardinalityType
<1>3. ASSUME s # {} PROVE Chosen(s) \in s
  BY <1>3 DEF Chosen
<1>4. ASSUME s # {} PROVE Cardinality(s \ {Chosen(s)}) = Cardinality(s) - 1
  BY <1>1, <1>3, <1>4, FS_RemoveElement
<1>5. ASSUME s # {} PROVE Cardinality(s) # 0
  BY <1>1, <1>5, FS_EmptySet
<1> QED BY <1>1, <1>2, <1>3, <1>4, <1>5

LEMMA SumExists ==
    ASSUME NEW f, NEW S, IsFiniteSet(S)
    PROVE  \E sum : IsSum(sum, f, SUBSET S)
<1> DEFINE I == {n \in Nat : \E sum : IsSum(sum, f, Small(S, n))}
<1>1. 0 \in I
  <2> DEFINE sum == [s \in Small(S, 0) |-> 0]
  <2>1. ASSUME NEW s \in Small(S, 0) PROVE s = {}
    <3>1. s \in SUBSET S /\ Cardinality(s) <= 0
      BY DEF Small
    <3>2. Cardinality(s) \in Nat /\ (s # {} => Cardinality(s) # 0)
      BY <3>1, Remaining
    <3> QED BY <3>1, <3>2
  <2>2. IsSum(sum, f, Small(S, 0))
    BY <2>1 DEF IsSum
  <2> QED BY <2>2
<1>2. ASSUME NEW n \in Nat, n \in I PROVE n + 1 \in I
  <2>1. PICK sum : IsSum(sum, f, Small(S, n))
    BY <1>2
  <2> DEFINE next == [s \in Small(S, n + 1) |->
                         IF s = {} THEN 0
                         ELSE f[Chosen(s)] + sum[s \ {Chosen(s)}]]
  <2>2. \A s \in Small(S, n) : s \in Small(S, n + 1) /\ next[s] = sum[s]
    <3> TAKE s \in Small(S, n)
    <3>0. s \in SUBSET S /\ Cardinality(s) <= n
      BY DEF Small
    <3>1. s \in Small(S, n + 1)
      <4>1. Cardinality(s) \in Nat
        BY <3>0, Remaining
      <4> QED BY <3>0, <4>1 DEF Small
    <3>2. sum[s] = IF s = {} THEN 0 ELSE f[Chosen(s)] + sum[s \ {Chosen(s)}]
      BY <2>1 DEF IsSum
    <3> QED BY <3>1, <3>2
  <2>3. ASSUME NEW s \in Small(S, n + 1), s # {} PROVE s \ {Chosen(s)} \in Small(S, n)
    <3>1. s \in SUBSET S /\ Cardinality(s) <= n + 1
      BY DEF Small
    <3> QED BY <2>3, <3>1, Remaining DEF Small
  <2>4. \A s \in Small(S, n + 1) : s # {} => next[s \ {Chosen(s)}] = sum[s \ {Chosen(s)}]
    BY <2>2, <2>3
  <2>5. IsSum(next, f, Small(S, n + 1))
    BY <2>4, Zenon DEF IsSum
  <2> QED BY <2>5
<1>3. Cardinality(S) \in Nat
  BY FS_CardinalityType
<1>4. Cardinality(S) \in I
  <2> HIDE DEF I
  <2> QED BY <1>1, <1>2, <1>3, Induction
<1>5. Small(S, Cardinality(S)) = SUBSET S
  <2>1. \A s \in SUBSET S : Cardinality(s) <= Cardinality(S)
    BY FS_Subset
  <2> QED BY <2>1 DEF Small
<1> QED BY <1>4, <1>5

LEMMA SumIs ==
    ASSUME NEW f, NEW S, IsFiniteSet(S)
    PROVE  \E sum : IsSum(sum, f, SUBSET S) /\ SumFunctionOnSet(f, S) = sum[S]
<1> DEFINE sum0 == CHOOSE sum : IsSum(sum, f, SUBSET S)
<1>1. IsSum(sum0, f, SUBSET S)
  BY SumExists
<1>2. SumFunctionOnSet(f, S) = sum0[S]
  BY DEF SumFunctionOnSet, FoldFunctionOnSet, MapThenFoldSet, IsSum, Chosen
<1> QED BY <1>1, <1>2

\* A sum over part of a set does not depend on the rest.
LEMMA SumsAgree ==
    ASSUME NEW f, NEW S, IsFiniteSet(S), NEW T \in SUBSET S,
           NEW a, NEW b, IsSum(a, f, SUBSET S), IsSum(b, f, SUBSET T)
    PROVE  a[T] = b[T]
<1> DEFINE I == {n \in Nat : \A s \in SUBSET T : Cardinality(s) <= n => a[s] = b[s]}
<1>0. IsFiniteSet(T)
  BY FS_Subset
<1>1. \A s \in SUBSET T :
          /\ a[s] = IF s = {} THEN 0 ELSE f[Chosen(s)] + a[s \ {Chosen(s)}]
          /\ b[s] = IF s = {} THEN 0 ELSE f[Chosen(s)] + b[s \ {Chosen(s)}]
  <2> TAKE s \in SUBSET T
  <2>1. s \in SUBSET S
    OBVIOUS
  <2> QED BY <2>1 DEF IsSum
<1>2. 0 \in I
  <2> SUFFICES ASSUME NEW s \in SUBSET T, Cardinality(s) <= 0 PROVE a[s] = b[s]
    OBVIOUS
  <2>1. Cardinality(s) \in Nat /\ (s # {} => Cardinality(s) # 0)
    BY <1>0, Remaining
  <2>2. s = {}
    BY <2>1
  <2> QED BY <1>1, <2>2
<1>3. ASSUME NEW n \in Nat, n \in I PROVE n + 1 \in I
  <2> SUFFICES ASSUME NEW s \in SUBSET T, Cardinality(s) <= n + 1, s # {} PROVE a[s] = b[s]
    BY <1>1
  <2> DEFINE less == s \ {Chosen(s)}
  <2>1. Cardinality(s) \in Nat /\ less \in SUBSET T /\ Cardinality(less) = Cardinality(s) - 1
    BY <1>0, Remaining
  <2>2. a[less] = b[less]
    BY <1>3, <2>1
  <2> QED BY <1>1, <2>2
<1>4. Cardinality(T) \in Nat
  BY <1>0, FS_CardinalityType
<1>5. Cardinality(T) \in I
  <2> HIDE DEF I
  <2> QED BY <1>2, <1>3, <1>4, Induction
<1> QED BY <1>4, <1>5

\* What the sum is, one number after the other.
LEMMA SumUnfolds ==
    /\ \A f : SumFunctionOnSet(f, {}) = 0
    /\ \A f, S : IsFiniteSet(S) /\ S # {} =>
           SumFunctionOnSet(f, S) = f[Chosen(S)] + SumFunctionOnSet(f, S \ {Chosen(S)})
<1>1. ASSUME NEW f PROVE SumFunctionOnSet(f, {}) = 0
  <2>1. PICK sum : IsSum(sum, f, SUBSET {}) /\ SumFunctionOnSet(f, {}) = sum[{}]
    BY SumIs, FS_EmptySet
  <2> QED BY <2>1 DEF IsSum
<1>2. ASSUME NEW f, NEW S, IsFiniteSet(S), S # {}
      PROVE  SumFunctionOnSet(f, S) = f[Chosen(S)] + SumFunctionOnSet(f, S \ {Chosen(S)})
  <2> DEFINE T == S \ {Chosen(S)}
  <2>1. T \in SUBSET S /\ IsFiniteSet(T)
    BY <1>2, FS_Subset
  <2>2. PICK a : IsSum(a, f, SUBSET S) /\ SumFunctionOnSet(f, S) = a[S]
    BY <1>2, SumIs
  <2>3. PICK b : IsSum(b, f, SUBSET T) /\ SumFunctionOnSet(f, T) = b[T]
    BY <2>1, SumIs
  <2>4. a[S] = f[Chosen(S)] + a[T]
    BY <1>2, <2>2 DEF IsSum
  <2>5. a[T] = b[T]
    <3> HIDE DEF T
    <3>1. IsSum(a, f, SUBSET S) /\ IsSum(b, f, SUBSET T) /\ IsFiniteSet(S) /\ T \in SUBSET S
      BY <1>2, <2>1, <2>2, <2>3
    <3> QED BY <3>1, SumsAgree
  <2> QED BY <2>2, <2>3, <2>4, <2>5
<1> QED BY <1>1, <1>2

\* To show something of the sums over all parts of a finite set, show it of the
\* empty one, and of a part from what is left without one of its elements.
LEMMA PartsInduction ==
    ASSUME NEW S, IsFiniteSet(S), NEW G, {} \in G,
           \A s \in SUBSET S : s # {} /\ s \ {Chosen(s)} \in G => s \in G
    PROVE  S \in G
<1> DEFINE I == {n \in Nat : \A s \in SUBSET S : Cardinality(s) <= n => s \in G}
<1>1. 0 \in I
  <2> SUFFICES ASSUME NEW s \in SUBSET S, Cardinality(s) <= 0 PROVE s \in G
    OBVIOUS
  <2>1. Cardinality(s) \in Nat /\ (s # {} => Cardinality(s) # 0)
    BY Remaining
  <2> QED BY <2>1
<1>2. ASSUME NEW n \in Nat, n \in I PROVE n + 1 \in I
  <2> SUFFICES ASSUME NEW s \in SUBSET S, Cardinality(s) <= n + 1, s # {} PROVE s \in G
    OBVIOUS
  <2> DEFINE less == s \ {Chosen(s)}
  <2>1. Cardinality(s) \in Nat /\ less \in SUBSET S /\ Cardinality(less) = Cardinality(s) - 1
    BY Remaining
  <2>2. less \in G
    BY <1>2, <2>1
  <2> QED BY <2>2
<1>3. Cardinality(S) \in Nat
  BY FS_CardinalityType
<1>4. Cardinality(S) \in I
  <2> HIDE DEF I
  <2> QED BY <1>1, <1>2, <1>3, Induction
<1> QED BY <1>3, <1>4

----------------------------------------------------------------------------
(* What the proofs use.                                                     *)

LEMMA SumOfNaturals ==
    ASSUME NEW f, NEW S, IsFiniteSet(S), \A x \in S : f[x] \in Nat
    PROVE  SumFunctionOnSet(f, S) \in Nat
<1> DEFINE G == {s \in SUBSET S : SumFunctionOnSet(f, s) \in Nat}
<1>1. {} \in G
  BY SumUnfolds
<1>2. ASSUME NEW s \in SUBSET S, s # {}, s \ {Chosen(s)} \in G PROVE s \in G
  <2>1. IsFiniteSet(s) /\ Chosen(s) \in S
    BY <1>2, Remaining
  <2>2. SumFunctionOnSet(f, s) = f[Chosen(s)] + SumFunctionOnSet(f, s \ {Chosen(s)})
    BY <1>2, <2>1, SumUnfolds
  <2> QED BY <1>2, <2>1, <2>2
<1> HIDE DEF G
<1>3. S \in G
  BY <1>1, <1>2, PartsInduction
<1> QED BY <1>3 DEF G

\* A weighted sum lies between the least and the greatest times the sum of the weights.
LEMMA WeightedSum ==
    ASSUME NEW w, NEW v, NEW p, NEW S, IsFiniteSet(S), NEW lo \in Int, NEW hi \in Int,
           \A x \in S : w[x] \in Nat /\ v[x] \in lo..hi /\ p[x] = w[x] * v[x]
    PROVE  /\ SumFunctionOnSet(w, S) \in Nat /\ SumFunctionOnSet(p, S) \in Int
           /\ lo * SumFunctionOnSet(w, S) <= SumFunctionOnSet(p, S)
           /\ SumFunctionOnSet(p, S) <= hi * SumFunctionOnSet(w, S)
<1> DEFINE Between(a, b) == a \in Nat /\ b \in Int /\ lo * a <= b /\ b <= hi * a
           G == {s \in SUBSET S : Between(SumFunctionOnSet(w, s), SumFunctionOnSet(p, s))}
<1>1. {} \in G
  <2>1. SumFunctionOnSet(w, {}) = 0 /\ SumFunctionOnSet(p, {}) = 0
    BY SumUnfolds
  <2> QED BY <2>1
<1>2. ASSUME NEW s \in SUBSET S, s # {}, s \ {Chosen(s)} \in G PROVE s \in G
  <2> DEFINE c == Chosen(s)
  <2>1. IsFiniteSet(s) /\ c \in S
    BY <1>2, Remaining
  <2>2. /\ SumFunctionOnSet(w, s) = w[c] + SumFunctionOnSet(w, s \ {c})
        /\ SumFunctionOnSet(p, s) = p[c] + SumFunctionOnSet(p, s \ {c})
    BY <1>2, <2>1, SumUnfolds
  <2>3. ASSUME NEW a \in Nat, NEW b \in Int, lo * a <= b, b <= hi * a,
               NEW wx \in Nat, NEW vx \in lo..hi
        PROVE  Between(wx + a, wx * vx + b)
    <3>1. lo * (wx + a) = lo * wx + lo * a /\ hi * (wx + a) = hi * wx + hi * a
      OBVIOUS
    <3>2. wx * vx \in Int /\ lo * wx <= wx * vx /\ wx * vx <= hi * wx
      OBVIOUS
    <3>3. lo * a \in Int /\ hi * a \in Int /\ lo * wx \in Int /\ hi * wx \in Int
      OBVIOUS
    <3> QED BY <2>3, <3>1, <3>2, <3>3
  <2> HIDE DEF c
  <2>4. w[c] \in Nat /\ v[c] \in lo..hi /\ p[c] = w[c] * v[c]
    BY <2>1
  <2>5. Between(SumFunctionOnSet(w, s \ {c}), SumFunctionOnSet(p, s \ {c}))
    BY <1>2 DEF c
  <2>6. Between(SumFunctionOnSet(w, s), SumFunctionOnSet(p, s))
    BY <2>2, <2>3, <2>4, <2>5
  <2> QED BY <2>6
<1> HIDE DEF G
<1>3. S \in G
  BY <1>1, <1>2, PartsInduction
<1> QED BY <1>3 DEF G

LEMMA SumOfIntegers ==
    ASSUME NEW f, NEW S, IsFiniteSet(S), \A x \in S : f[x] \in Int
    PROVE  SumFunctionOnSet(f, S) \in Int
<1> DEFINE G == {s \in SUBSET S : SumFunctionOnSet(f, s) \in Int}
<1>1. {} \in G
  BY SumUnfolds
<1>2. ASSUME NEW s \in SUBSET S, s # {}, s \ {Chosen(s)} \in G PROVE s \in G
  <2>1. IsFiniteSet(s) /\ Chosen(s) \in S
    BY <1>2, Remaining
  <2>2. SumFunctionOnSet(f, s) = f[Chosen(s)] + SumFunctionOnSet(f, s \ {Chosen(s)})
    BY <1>2, <2>1, SumUnfolds
  <2> QED BY <1>2, <2>1, <2>2
<1> HIDE DEF G
<1>3. S \in G
  BY <1>1, <1>2, PartsInduction
<1> QED BY <1>3 DEF G

\* If c times each number is at least k, then so is, on average, c times the sum.
LEMMA SumAtLeast ==
    ASSUME NEW f, NEW S, IsFiniteSet(S), NEW k \in Int, NEW c \in Int,
           \A x \in S : f[x] \in Int /\ k <= c * f[x]
    PROVE  SumFunctionOnSet(f, S) \in Int /\ Cardinality(S) * k <= c * SumFunctionOnSet(f, S)
<1> DEFINE Enough(n, a) == n \in Nat /\ a \in Int /\ n * k <= c * a
           G == {s \in SUBSET S : Enough(Cardinality(s), SumFunctionOnSet(f, s))}
<1>1. {} \in G
  <2>1. SumFunctionOnSet(f, {}) = 0 /\ Cardinality({}) = 0
    BY SumUnfolds, FS_EmptySet
  <2> QED BY <2>1
<1>2. ASSUME NEW s \in SUBSET S, s # {}, s \ {Chosen(s)} \in G PROVE s \in G
  <2> DEFINE x == Chosen(s)
  <2>1. IsFiniteSet(s) /\ x \in S /\ Cardinality(s) \in Nat
        /\ Cardinality(s \ {x}) = Cardinality(s) - 1
    BY <1>2, Remaining
  <2>2. SumFunctionOnSet(f, s) = f[x] + SumFunctionOnSet(f, s \ {x})
    BY <1>2, <2>1, SumUnfolds
  <2>3. ASSUME NEW n \in Nat, NEW a \in Int, n * k <= c * a, NEW b \in Int, k <= c * b
        PROVE  Enough(n + 1, b + a)
    <3>1. (n + 1) * k = n * k + k /\ c * (b + a) = c * b + c * a
      OBVIOUS
    <3>2. n * k \in Int /\ c * b \in Int /\ c * a \in Int
      OBVIOUS
    <3> QED BY <2>3, <3>1, <3>2
  <2>4. Enough(Cardinality(s \ {x}), SumFunctionOnSet(f, s \ {x}))
    BY <1>2
  <2> HIDE DEF x
  <2>5. Enough(Cardinality(s \ {x}) + 1, f[x] + SumFunctionOnSet(f, s \ {x}))
    BY <2>1, <2>3, <2>4
  <2>6. Cardinality(s \ {x}) + 1 = Cardinality(s)
    BY <2>1
  <2> QED BY <2>2, <2>5, <2>6
<1> HIDE DEF G
<1>3. S \in G
  BY <1>1, <1>2, PartsInduction
<1> QED BY <1>3 DEF G

----------------------------------------------------------------------------
(* Extremes.                                                                *)

LEMMA MaxOfFinite ==
    ASSUME NEW S, IsFiniteSet(S), S \subseteq Int, S # {}
    PROVE  Max(S) \in S /\ \A x \in S : x <= Max(S)
<1> DEFINE G == {s \in SUBSET S : s # {} => \E m \in s : \A x \in s : x <= m}
<1>1. {} \in G
  OBVIOUS
<1>2. ASSUME NEW s \in SUBSET S, s # {}, s \ {Chosen(s)} \in G PROVE s \in G
  <2> DEFINE c == Chosen(s)
  <2>1. c \in s
    BY <1>2, Remaining
  <2> HIDE DEF c
  <2>2. CASE s \ {c} = {}
    BY <2>1, <2>2
  <2>3. CASE s \ {c} # {}
    <3>1. PICK m \in s \ {c} : \A x \in s \ {c} : x <= m
      BY <1>2, <2>3 DEF c
    <3>2. CASE c <= m
      BY <3>1, <3>2
    <3>3. CASE ~(c <= m)
      <4>1. \A x \in s : x <= c
        BY <2>1, <3>1, <3>3
      <4> QED BY <2>1, <4>1
    <3> QED BY <3>2, <3>3
  <2> QED BY <2>2, <2>3
<1> HIDE DEF G
<1>3. S \in G
  BY <1>1, <1>2, PartsInduction
<1>4. \E m \in S : \A x \in S : x <= m
  BY <1>3 DEF G
<1>5. \E m \in S : \A x \in S : m >= x
  BY <1>4
<1> QED BY <1>5 DEF Max

LEMMA MinOfFinite ==
    ASSUME NEW S, IsFiniteSet(S), S \subseteq Int, S # {}
    PROVE  Min(S) \in S /\ \A x \in S : Min(S) <= x
<1> DEFINE G == {s \in SUBSET S : s # {} => \E m \in s : \A x \in s : m <= x}
<1>1. {} \in G
  OBVIOUS
<1>2. ASSUME NEW s \in SUBSET S, s # {}, s \ {Chosen(s)} \in G PROVE s \in G
  <2> DEFINE c == Chosen(s)
  <2>1. c \in s
    BY <1>2, Remaining
  <2> HIDE DEF c
  <2>2. CASE s \ {c} = {}
    BY <2>1, <2>2
  <2>3. CASE s \ {c} # {}
    <3>1. PICK m \in s \ {c} : \A x \in s \ {c} : m <= x
      BY <1>2, <2>3 DEF c
    <3>2. CASE m <= c
      BY <3>1, <3>2
    <3>3. CASE ~(m <= c)
      <4>1. \A x \in s : c <= x
        BY <2>1, <3>1, <3>3
      <4> QED BY <2>1, <4>1
    <3> QED BY <3>2, <3>3
  <2> QED BY <2>2, <2>3
<1> HIDE DEF G
<1>3. S \in G
  BY <1>1, <1>2, PartsInduction
<1>4. \E m \in S : \A x \in S : m <= x
  BY <1>3 DEF G
<1> QED BY <1>4 DEF Min

LEMMA ImageIsFinite ==
    ASSUME NEW f, NEW S, IsFiniteSet(S)
    PROVE  IsFiniteSet({f[x] : x \in S})
<1> DEFINE G == {s \in SUBSET S : IsFiniteSet({f[x] : x \in s})}
<1>1. {} \in G
  <2>1. {f[x] : x \in {}} = {}
    OBVIOUS
  <2> QED BY <2>1, FS_EmptySet
<1>2. ASSUME NEW s \in SUBSET S, s # {}, s \ {Chosen(s)} \in G PROVE s \in G
  <2> DEFINE c == Chosen(s)
             T == {f[x] : x \in s \ {c}}
  <2>1. c \in s
    BY <1>2, Remaining
  <2> HIDE DEF c
  <2>2. {f[x] : x \in s} = T \cup {f[c]}
    BY <2>1
  <2>3. IsFiniteSet(T)
    BY <1>2 DEF c
  <2> HIDE DEF T
  <2>4. IsFiniteSet(T \cup {f[c]})
    BY <2>3, FS_AddElement
  <2> QED BY <2>2, <2>4
<1> HIDE DEF G
<1>3. S \in G
  BY <1>1, <1>2, PartsInduction
<1> QED BY <1>3 DEF G
============================================================================
