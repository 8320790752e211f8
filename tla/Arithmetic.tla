----------------------------- MODULE Arithmetic -----------------------------
(***************************************************************************)
(* What several proofs need of numbers: % for a modulus that is not known, *)
(* induction by a least counterexample, and sums and counts over finite    *)
(* sets, which the community modules define by recursion.                  *)
(***************************************************************************)
EXTENDS Functions, FiniteSetTheorems, TLAPS

-----------------------------------------------------------------------------
(* Division and remainders.                                                *)

\* What division and remainder are to each other.
LEMMA Division ==
    ASSUME NEW m \in Nat \ {0}, NEW a \in Int
    PROVE  /\ a \div m \in Int
           /\ a % m \in 0..(m - 1)
           /\ a = m * (a \div m) + (a % m)
  BY Z3

\* A positive multiple of m is at least m.
LEMMA Multiple ==
    ASSUME NEW m \in Nat \ {0}, NEW d \in Int, d >= 1
    PROVE  m * d >= m
  BY Z3

\* Two remainders that differ by a multiple of m are the same.
LEMMA RemainderIsUnique ==
    ASSUME NEW m \in Nat \ {0}, NEW k \in Int,
           NEW r \in 0..(m - 1), NEW s \in 0..(m - 1),
           r = s + m * k
    PROVE  r = s
<1>1. CASE k >= 1
  BY <1>1, Multiple, Z3
<1>2. CASE -k >= 1
  <2>1. m * (-k) >= m
    BY <1>2, Multiple
  <2> QED
    BY <2>1, Z3
<1>3. CASE k = 0
  BY <1>3, Z3
<1> QED
  BY <1>1, <1>2, <1>3

\* Numbers have the same remainder if they differ by a multiple of m ...
LEMMA SameRemainder ==
    ASSUME NEW m \in Nat \ {0}, NEW a \in Int, NEW b \in Int, NEW k \in Int,
           a = b + m * k
    PROVE  a % m = b % m
<1> DEFINE p == a \div m
           q == b \div m
<1>1. /\ p \in Int /\ a % m \in 0..(m - 1) /\ a = m * p + (a % m)
      /\ q \in Int /\ b % m \in 0..(m - 1) /\ b = m * q + (b % m)
  BY Division
<1> HIDE DEF p, q
<1>2. (a % m) = (b % m) + m * (q + k - p)
  BY <1>1, Z3
<1> QED
  BY <1>1, <1>2, RemainderIsUnique

\* ... and only if they do.
LEMMA Difference ==
    ASSUME NEW m \in Nat \ {0}, NEW a \in Int, NEW b \in Int, a % m = b % m
    PROVE  \E k \in Int : a = b + m * k
<1> DEFINE p == a \div m
           q == b \div m
<1>1. /\ p \in Int /\ a % m \in 0..(m - 1) /\ a = m * p + (a % m)
      /\ q \in Int /\ b = m * q + (b % m)
  BY Division
<1> HIDE DEF p, q
<1>2. p - q \in Int /\ a = b + m * (p - q)
  BY <1>1, Z3
<1> QED
  BY <1>2

\* A remainder may stand for the number it is of, in a sum ...
LEMMA RemainderInSum ==
    ASSUME NEW m \in Nat \ {0}, NEW a \in Int, NEW b \in Int
    PROVE  ((a % m) + b) % m = (a + b) % m
<1> DEFINE q == a \div m
<1>1. q \in Int /\ a % m \in 0..(m - 1) /\ a = m * q + (a % m)
  BY Division
<1> HIDE DEF q
<1>2. PICK r \in 0..(m - 1) : r = a % m
  BY <1>1
<1>3. r + b \in Int /\ a + b \in Int
  BY <1>2
<1>4. a + b = (r + b) + m * q
  BY <1>1, <1>2, Z3
<1>5. (a + b) % m = (r + b) % m
  BY <1>1, <1>3, <1>4, SameRemainder
<1> QED
  BY <1>2, <1>5

\* ... and a number below m is its own.
LEMMA OwnRemainder ==
    ASSUME NEW m \in Nat \ {0}, NEW a \in 0..(m - 1)
    PROVE  a % m = a
<1> DEFINE q == a \div m
<1>1. q \in Int /\ a % m \in 0..(m - 1) /\ a = m * q + (a % m)
  BY Division
<1> HIDE DEF q
<1>2. PICK r \in 0..(m - 1) : r = a % m
  BY <1>1
<1>3. a = r + m * q
  BY <1>1, <1>2
<1>4. a = r
  BY <1>1, <1>3, RemainderIsUnique
<1> QED
  BY <1>2, <1>4

\* Dividing twice is dividing by the product.
LEMMA DivideTwice ==
    ASSUME NEW n \in Nat, NEW p \in Nat \ {0}
    PROVE  /\ 2 * p \in Nat \ {0}
           /\ (n \div 2) \div p = n \div (2 * p)
<1>1. PICK h \in Int, r \in 0..1 : h = n \div 2 /\ n = 2 * h + r
  OBVIOUS
<1>2. PICK q \in Int : q = h \div p
  BY Z3
<1>3. h % p \in 0..(p - 1) /\ h = p * q + (h % p)
  BY <1>2, Division
<1>4. PICK s \in 0..(p - 1) : h = p * q + s
  BY <1>3
<1>5. 2 * p \in Nat \ {0}
  OBVIOUS
<1>6. PICK d \in Int : d = n \div (2 * p)
  BY <1>5, Z3
<1>7. PICK m \in Nat \ {0} : m = 2 * p
  BY <1>5
<1>8. n % m \in 0..(m - 1) /\ n = m * d + (n % m)
  <2>1. n \div m = d /\ n \in Int
    BY <1>6, <1>7
  <2>2. n % m \in 0..(m - 1) /\ n = m * (n \div m) + (n % m)
    BY <2>1, Division, Zenon
  <2> QED
    BY <2>1, <2>2
<1>9. PICK t \in 0..(2 * p - 1) : n = (2 * p) * d + t
  BY <1>7, <1>8
<1>10. 2 * s + r \in 0..(2 * p - 1) /\ n = (2 * p) * q + (2 * s + r)
  BY <1>1, <1>4, Z3
<1>11. PICK u \in 0..(2 * p - 1) : n = (2 * p) * q + u
  BY <1>10
<1>12. (2 * p) * (q - d) = t - u
  BY <1>9, <1>11, Z3
<1>13. q = d
  <2>1. CASE q - d >= 1
    <3>1. (2 * p) * (q - d) >= 2 * p
      BY <1>5, <2>1, Multiple
    <3> QED
      BY <1>12, <3>1, Z3
  <2>2. CASE d - q >= 1
    <3>1. (2 * p) * (d - q) >= 2 * p
      BY <1>5, <2>2, Multiple
    <3>2. (2 * p) * (d - q) = u - t
      BY <1>12, Z3
    <3> QED
      BY <3>1, <3>2
  <2> QED
    BY <2>1, <2>2
<1> QED
  BY <1>1, <1>2, <1>5, <1>6, <1>13

\* The powers of two that the models shift by.
LEMMA PowersOfTwo ==
    ASSUME NEW b \in 0..15
    PROVE  2^b \in Nat \ {0} /\ 2^(b + 1) = 2 * 2^b
<1>1. CASE b = 0
  BY <1>1
<1>2. CASE b = 1
  BY <1>2
<1>3. CASE b = 2
  BY <1>3
<1>4. CASE b = 3
  BY <1>4
<1>5. CASE b = 4
  BY <1>5
<1>6. CASE b = 5
  BY <1>6
<1>7. CASE b = 6
  BY <1>7
<1>8. CASE b = 7
  BY <1>8
<1>9. CASE b = 8
  BY <1>9
<1>10. CASE b = 9
  BY <1>10
<1>11. CASE b = 10
  BY <1>11
<1>12. CASE b = 11
  BY <1>12
<1>13. CASE b = 12
  BY <1>13
<1>14. CASE b = 13
  BY <1>14
<1>15. CASE b = 14
  BY <1>15
<1>16. CASE b = 15
  BY <1>16
<1> QED
  BY <1>1, <1>2, <1>3, <1>4, <1>5, <1>6, <1>7, <1>8, <1>9, <1>10, <1>11, <1>12, <1>13, <1>14, <1>15, <1>16
-----------------------------------------------------------------------------
(* Induction.                                                              *)

\* The element that the folds of the community modules take next.
Pick(s) == CHOOSE x \in s : TRUE

\* The smallest element of a set of numbers.
LEMMA Least ==
    ASSUME NEW T \in SUBSET Nat, T # {}
    PROVE  \E x \in T : \A y \in T : x <= y
<1>1. PICK x \in T : \A y \in T : ~(<<y, x>> \in OpToRel(<, Nat))
  BY NatLessThanWellFounded, WFMin, Zenon
<1>2. \A y \in T : ~(y < x)
  BY <1>1 DEF OpToRel
<1> QED
  BY <1>2

\* Of finite sets there is one that has no other one in it: what holds of a set
\* whenever it holds of the set without one of its elements holds of all.
LEMMA SmallestSet ==
    ASSUME NEW B, B # {}, \A s \in B : IsFiniteSet(s)
    PROVE  \E s \in B : \A x \in s : s \ {x} \notin B
<1> DEFINE T == {Cardinality(s) : s \in B}
<1>1. T \in SUBSET Nat
  BY FS_CardinalityType
<1>2. T # {}
  OBVIOUS
<1>3. PICK c \in T : \A d \in T : c <= d
  BY <1>1, <1>2, Least, Zenon
<1>4. PICK s \in B : c = Cardinality(s)
  BY <1>3
<1>5. ASSUME NEW x \in s, s \ {x} \in B PROVE FALSE
  <2>1. Cardinality(s \ {x}) = Cardinality(s) - 1 /\ Cardinality(s) \in Nat
    BY FS_RemoveElement, FS_CardinalityType
  <2>2. c <= Cardinality(s \ {x})
    BY <1>3, <1>5
  <2> QED
    BY <1>4, <2>1, <2>2
<1> QED
  BY <1>5

-----------------------------------------------------------------------------
(* Sums over finite sets.                                                  *)

IsSum(it, f, S) ==
    it = [s \in SUBSET S |-> IF s = {} THEN 0 ELSE f[Pick(s)] + it[s \ {Pick(s)}]]

\* The sum is defined by recursion ...
LEMMA SumUnfolds ==
    ASSUME NEW f, NEW S
    PROVE  SumFunctionOnSet(f, S) = (CHOOSE i : IsSum(i, f, S))[S]
  BY DEF SumFunctionOnSet, FoldFunctionOnSet, MapThenFoldSet, Pick, IsSum

\* ... which ends on a finite set.
LEMMA SumsExist ==
    ASSUME NEW f, NEW S, IsFiniteSet(S)
    PROVE  \E it : IsSum(it, f, S)
<1> DEFINE Small(n) == {s \in SUBSET S : Cardinality(s) <= n}
           Next(it, s) == IF s = {} THEN 0 ELSE f[Pick(s)] + it[s \ {Pick(s)}]
           Works(n) == \E it : it = [s \in Small(n) |-> Next(it, s)]
           Bad == {n \in Nat : ~Works(n)}
<1>1. \A s \in SUBSET S : IsFiniteSet(s) /\ Cardinality(s) \in Nat /\ Cardinality(s) <= Cardinality(S)
  BY FS_Subset, FS_CardinalityType
<1>2. Works(0)
  <2>1. \A s \in Small(0) : s = {}
    BY <1>1, FS_EmptySet
  <2>2. [s \in Small(0) |-> 0] = [s \in Small(0) |-> Next([t \in Small(0) |-> 0], s)]
    BY <2>1
  <2> QED
    BY <2>2
<1>3. ASSUME NEW n \in Nat, n # 0, Works(n - 1) PROVE Works(n)
  <2>1. PICK old : old = [s \in Small(n - 1) |-> Next(old, s)]
    BY <1>3
  <2> DEFINE new == [s \in Small(n) |-> Next(old, s)]
  <2>2. ASSUME NEW s \in Small(n) PROVE Next(old, s) = Next(new, s)
    <3>1. CASE s = {}
      BY <3>1
    <3>2. CASE s # {}
      <4>1. Pick(s) \in s
        BY <3>2 DEF Pick
      <4> DEFINE rest == s \ {Pick(s)}
      <4>2. rest \in SUBSET S /\ Cardinality(rest) = Cardinality(s) - 1
        BY <1>1, <4>1, FS_RemoveElement
      <4>3. rest \in Small(n - 1) /\ rest \in Small(n)
        BY <1>1, <4>2
      <4>4. new[rest] = Next(old, rest)
        BY <4>3
      <4>5. old[rest] = Next(old, rest)
        <5> HIDE DEF Next
        <5> QED BY <2>1, <4>3
      <4> QED
        BY <3>2, <4>4, <4>5
    <3> QED
      BY <3>1, <3>2
  <2>3. new = [s \in Small(n) |-> Next(new, s)]
    <3> HIDE DEF Next, Small
    <3> QED BY <2>2
  <2> QED
    BY <2>3
<1>4. \A n \in Nat : Works(n)
  <2> SUFFICES ASSUME Bad # {} PROVE FALSE
    <3> HIDE DEF Works
    <3> QED OBVIOUS
  <2> HIDE DEF Works
  <2>1. PICK n \in Bad : \A k \in Bad : n <= k
    BY Least
  <2>2. n # 0 /\ n - 1 \in Nat /\ n - 1 \notin Bad
    BY <1>2, <2>1
  <2> QED
    BY <1>3, <2>2
<1>5. Small(Cardinality(S)) = SUBSET S
  BY <1>1
<1>6. Works(Cardinality(S))
  <2> HIDE DEF Works
  <2> QED BY <1>4, FS_CardinalityType
<1> QED
  BY <1>5, <1>6 DEF IsSum

\* Two sums of the same numbers agree on what both cover.
LEMMA SumsAgree ==
    ASSUME NEW f, NEW g, NEW S, NEW R, NEW it, NEW ir, IsSum(it, f, S), IsSum(ir, g, R),
           NEW T \in SUBSET (S \cap R), IsFiniteSet(T), \A x \in T : f[x] = g[x]
    PROVE  it[T] = ir[T]
<1> DEFINE Bad == {s \in SUBSET T : it[s] # ir[s]}
<1> SUFFICES ASSUME Bad # {} PROVE FALSE
  OBVIOUS
<1>1. \A s \in Bad : IsFiniteSet(s)
  BY FS_Subset
<1>2. PICK s \in Bad : \A x \in s : s \ {x} \notin Bad
  <2> HIDE DEF Bad
  <2> QED BY <1>1, SmallestSet, Zenon
<1>3. s \in SUBSET S /\ s \in SUBSET R
  OBVIOUS
<1>4. it[s] = IF s = {} THEN 0 ELSE f[Pick(s)] + it[s \ {Pick(s)}]
  BY <1>3 DEF IsSum
<1>5. ir[s] = IF s = {} THEN 0 ELSE g[Pick(s)] + ir[s \ {Pick(s)}]
  BY <1>3 DEF IsSum
<1>6. CASE s = {}
  BY <1>4, <1>5, <1>6
<1>7. CASE s # {}
  <2>1. Pick(s) \in s
    BY <1>7 DEF Pick
  <2>2. it[s \ {Pick(s)}] = ir[s \ {Pick(s)}]
    BY <1>2, <2>1
  <2> QED
    BY <1>4, <1>5, <1>7, <2>1, <2>2
<1> QED
  BY <1>6, <1>7

\* The sum over nothing is 0.
LEMMA SumOfNothing ==
    ASSUME NEW f
    PROVE  SumFunctionOnSet(f, {}) = 0
<1> DEFINE it == CHOOSE i : IsSum(i, f, {})
<1>1. IsSum(it, f, {})
  BY SumsExist, FS_EmptySet
<1>2. it[{}] = 0
  <2> HIDE DEF it
  <2> QED BY <1>1 DEF IsSum
<1> QED
  BY <1>2, SumUnfolds

\* One term of a sum, the one that the recursion begins with.
LEMMA SumStep ==
    ASSUME NEW f, NEW S, IsFiniteSet(S), S # {}
    PROVE  /\ Pick(S) \in S
           /\ SumFunctionOnSet(f, S) = f[Pick(S)] + SumFunctionOnSet(f, S \ {Pick(S)})
<1> DEFINE R  == S \ {Pick(S)}
           it == CHOOSE i : IsSum(i, f, S)
           ir == CHOOSE i : IsSum(i, f, R)
<1>1. IsSum(it, f, S)
  BY SumsExist
<1>2. IsFiniteSet(R)
  BY FS_RemoveElement
<1>3. IsSum(ir, f, R)
  BY <1>2, SumsExist
<1>4. SumFunctionOnSet(f, S) = it[S] /\ SumFunctionOnSet(f, R) = ir[R]
  BY SumUnfolds
<1> HIDE DEF it, ir
<1>5. it[R] = ir[R]
  BY <1>1, <1>2, <1>3, SumsAgree
<1>6. it[S] = f[Pick(S)] + it[R]
  BY <1>1 DEF IsSum
<1> QED
  BY <1>4, <1>5, <1>6 DEF Pick

\* Equal terms, equal sums.
LEMMA SameSum ==
    ASSUME NEW f, NEW g, NEW S, IsFiniteSet(S), \A x \in S : f[x] = g[x]
    PROVE  SumFunctionOnSet(f, S) = SumFunctionOnSet(g, S)
<1> DEFINE it == CHOOSE i : IsSum(i, f, S)
           ir == CHOOSE i : IsSum(i, g, S)
<1>1. IsSum(it, f, S) /\ IsSum(ir, g, S)
  BY SumsExist
<1>2. SumFunctionOnSet(f, S) = it[S] /\ SumFunctionOnSet(g, S) = ir[S]
  BY SumUnfolds
<1> HIDE DEF it, ir
<1> QED
  BY <1>1, <1>2, SumsAgree

\* A sum of integers is an integer.
LEMMA SumType ==
    ASSUME NEW f, NEW S, IsFiniteSet(S), \A x \in S : f[x] \in Int
    PROVE  SumFunctionOnSet(f, S) \in Int
<1> DEFINE sum(s) == SumFunctionOnSet(f, s)
           Bad == {s \in SUBSET S : sum(s) \notin Int}
<1> HIDE DEF sum
<1> SUFFICES ASSUME Bad # {} PROVE FALSE
  BY DEF sum
<1>1. \A s \in Bad : IsFiniteSet(s)
  BY FS_Subset
<1>2. PICK s \in Bad : \A x \in s : s \ {x} \notin Bad
  <2> HIDE DEF Bad
  <2> QED BY <1>1, SmallestSet, Zenon
<1>3. IsFiniteSet(s) /\ s \subseteq S
  BY <1>1
<1>4. CASE s = {}
  BY <1>4, SumOfNothing DEF sum
<1>5. CASE s # {}
  <2> DEFINE c == Pick(s)
  <2>1. c \in s /\ sum(s) = f[c] + sum(s \ {c})
    BY <1>3, <1>5, SumStep DEF sum
  <2> HIDE DEF c
  <2>2. sum(s \ {c}) \in Int /\ f[c] \in Int
    BY <1>2, <1>3, <2>1
  <2> QED
    BY <2>1, <2>2
<1> QED
  BY <1>4, <1>5

\* A sum of integers is one, and lies between as many times its smallest and
\* its largest term.
LEMMA SumBounds ==
    ASSUME NEW f, NEW S, IsFiniteSet(S), NEW low \in Int, NEW high \in Int,
           \A x \in S : f[x] \in Int /\ low <= f[x] /\ f[x] <= high
    PROVE  /\ SumFunctionOnSet(f, S) \in Int
           /\ low * Cardinality(S) <= SumFunctionOnSet(f, S)
           /\ SumFunctionOnSet(f, S) <= high * Cardinality(S)
<1> DEFINE sum(s)  == SumFunctionOnSet(f, s)
           Good(s) == /\ sum(s) \in Int
                      /\ low * Cardinality(s) <= sum(s)
                      /\ sum(s) <= high * Cardinality(s)
           Bad == {s \in SUBSET S : ~Good(s)}
<1> HIDE DEF sum
<1> SUFFICES ASSUME Bad # {} PROVE FALSE
  BY DEF sum
<1>1. \A s \in Bad : IsFiniteSet(s)
  BY FS_Subset
<1>2. PICK s \in Bad : \A x \in s : s \ {x} \notin Bad
  <2> HIDE DEF Bad
  <2> QED BY <1>1, SmallestSet, Zenon
<1>3. IsFiniteSet(s) /\ ~Good(s) /\ s \subseteq S
  BY <1>1
<1>4. CASE s = {}
  BY <1>3, <1>4, SumOfNothing, FS_EmptySet DEF sum
<1>5. CASE s # {}
  <2> DEFINE c == Pick(s)
  <2>1. c \in s /\ sum(s) = f[c] + sum(s \ {c})
    BY <1>3, <1>5, SumStep DEF sum
  <2>2. Good(s \ {c})
    BY <1>2, <1>3, <2>1
  <2>3. Cardinality(s \ {c}) = Cardinality(s) - 1 /\ Cardinality(s) \in Nat
    BY <1>3, <2>1, FS_RemoveElement, FS_CardinalityType
  <2>4. f[c] \in Int /\ low <= f[c] /\ f[c] <= high
    BY <1>3, <2>1
  <2> HIDE DEF c
  <2>5. PICK n \in Nat : n = Cardinality(s)
    BY <2>3
  <2>6. PICK a \in Int : a = f[c]
    BY <2>4
  <2>7. PICK b \in Int : b = sum(s \ {c})
    BY <2>2
  <2>8. /\ low <= a /\ a <= high /\ low * (n - 1) <= b /\ b <= high * (n - 1)
        /\ sum(s) = a + b
    BY <2>1, <2>2, <2>3, <2>4, <2>5, <2>6, <2>7
  <2>9. a + b \in Int /\ low * n <= a + b /\ a + b <= high * n
    BY <2>8, Z3
  <2> QED
    BY <1>3, <2>5, <2>8, <2>9
<1> QED
  BY <1>4, <1>5

\* Any term may be taken out of a sum of integers.
LEMMA SumWithout ==
    ASSUME NEW f, NEW S, IsFiniteSet(S), \A x \in S : f[x] \in Int, NEW e \in S
    PROVE  SumFunctionOnSet(f, S) = f[e] + SumFunctionOnSet(f, S \ {e})
<1> DEFINE sum(s) == SumFunctionOnSet(f, s)
           Bad == {s \in SUBSET S : \E x \in s : sum(s) # f[x] + sum(s \ {x})}
<1> HIDE DEF sum
<1> SUFFICES ASSUME Bad # {} PROVE FALSE
  BY DEF sum
<1>1. \A s \in Bad : IsFiniteSet(s)
  BY FS_Subset
<1>2. PICK s \in Bad : \A x \in s : s \ {x} \notin Bad
  <2> HIDE DEF Bad
  <2> QED BY <1>1, SmallestSet, Zenon
<1>3. IsFiniteSet(s) /\ s \subseteq S
  BY <1>1
<1>4. PICK x \in s : sum(s) # f[x] + sum(s \ {x})
  OBVIOUS
<1> DEFINE c == Pick(s)
<1>5. c \in s /\ sum(s) = f[c] + sum(s \ {c})
  BY <1>3, SumStep DEF sum
<1>6. c # x
  BY <1>4, <1>5
<1> HIDE DEF c
<1>7. sum(s \ {c}) = f[x] + sum((s \ {c}) \ {x})
  BY <1>2, <1>3, <1>5, <1>6
<1>8. sum(s \ {x}) = f[c] + sum((s \ {x}) \ {c})
  BY <1>2, <1>3, <1>5, <1>6
<1>9. (s \ {c}) \ {x} = (s \ {x}) \ {c}
  OBVIOUS
<1>10. sum((s \ {c}) \ {x}) \in Int
  <2>1. IsFiniteSet((s \ {c}) \ {x})
    BY <1>3, FS_RemoveElement
  <2> QED
    BY <1>3, <2>1, SumType DEF sum
<1>11. f[x] \in Int /\ f[c] \in Int
  BY <1>3, <1>5
<1>12. PICK a \in Int : a = sum((s \ {c}) \ {x})
  BY <1>10
<1>13. sum(s) = f[c] + (f[x] + a)
  BY <1>5, <1>7, <1>12
<1>14. f[x] + sum(s \ {x}) = f[x] + (f[c] + a)
  BY <1>8, <1>9, <1>12
<1> QED
  BY <1>4, <1>11, <1>12, <1>13, <1>14
\* The sum over an interval, term by term from its end.
LEMMA SumOfInterval ==
    ASSUME NEW f, NEW a \in Int, NEW b \in Int, a <= b,
           \A x \in a..b : f[x] \in Int
    PROVE  /\ SumFunctionOnSet(f, a..b) = f[b] + SumFunctionOnSet(f, a..(b - 1))
           /\ SumFunctionOnSet(f, a..(b - 1)) \in Int
<1>1. IsFiniteSet(a..b) /\ IsFiniteSet(a..(b - 1))
  BY FS_Interval
<1>2. b \in a..b /\ (a..b) \ {b} = a..(b - 1)
  OBVIOUS
<1>3. SumFunctionOnSet(f, a..b) = f[b] + SumFunctionOnSet(f, a..(b - 1))
  BY <1>1, <1>2, SumWithout
<1>4. \A x \in a..(b - 1) : f[x] \in Int
  OBVIOUS
<1> QED
  BY <1>1, <1>3, <1>4, SumType

\* Equal terms at shifted places, equal sums.
LEMMA SumShifted ==
    ASSUME NEW f, NEW g, NEW n \in Nat,
           \A x \in 0..n : g[x] \in Int /\ f[x + 1] = g[x]
    PROVE  SumFunctionOnSet(f, 1..(n + 1)) = SumFunctionOnSet(g, 0..n)
<1> DEFINE sf(k) == SumFunctionOnSet(f, 1..(k + 1))
           sg(k) == SumFunctionOnSet(g, 0..k)
           Bad == {k \in Nat : k <= n + 1 /\ sf(k - 1) # sg(k - 1)}
<1> HIDE DEF sf, sg
<1> SUFFICES ASSUME Bad # {} PROVE FALSE
  <2>1. n + 1 \notin Bad
    OBVIOUS
  <2>2. n + 1 \in Nat /\ n + 1 <= n + 1 /\ (n + 1) - 1 = n
    OBVIOUS
  <2>3. sf(n) = sg(n)
    BY <2>1, <2>2
  <2> QED
    BY <2>3 DEF sf, sg
<1>1. PICK k \in Bad : \A j \in Bad : k <= j
  <2> HIDE DEF Bad
  <2>1. Bad \in SUBSET Nat
    BY DEF Bad
  <2> QED
    BY <2>1, Least, Zenon
<1>2. k # 0
  <2>1. 1..(-1 + 1) = {} /\ 0..(-1) = {} /\ 0 - 1 = -1
    OBVIOUS
  <2>2. sf(0 - 1) = sg(0 - 1)
    BY <2>1, SumOfNothing DEF sf, sg
  <2> QED
    BY <2>2
<1>3. k - 1 \in 0..n
  BY <1>2
<1>4. sf(k - 2) = sg(k - 2)
  <2>1. k - 1 \notin Bad /\ k - 1 \in Nat /\ k - 1 <= n + 1 /\ (k - 1) - 1 = k - 2
    BY <1>1, <1>3
  <2> QED
    BY <2>1
<1>5. sf(k - 1) = f[k] + sf(k - 2)
  <2>1. \A x \in 1..k : f[x] \in Int
    <3> SUFFICES ASSUME NEW x \in 1..k PROVE f[x] \in Int
      OBVIOUS
    <3>1. x - 1 \in 0..n /\ (x - 1) + 1 = x
      BY <1>3
    <3> QED
      BY <3>1
  <2>2. (k - 1) + 1 = k /\ (k - 2) + 1 = k - 1 /\ k \in Int /\ 1 <= k
    BY <1>3
  <2> QED
    BY <2>1, <2>2, SumOfInterval DEF sf
<1>6. sg(k - 1) = g[k - 1] + sg(k - 2)
  <2>1. \A x \in 0..(k - 1) : g[x] \in Int
    BY <1>3
  <2>2. (k - 1) - 1 = k - 2 /\ k - 1 \in Int /\ 0 <= k - 1
    BY <1>3
  <2> QED
    BY <2>1, <2>2, SumOfInterval DEF sg
<1>7. f[k] = g[k - 1]
  <2>1. (k - 1) + 1 = k
    OBVIOUS
  <2> QED
    BY <1>3, <2>1
<1> QED
  BY <1>4, <1>5, <1>6, <1>7

\* Counting is adding ones.
LEMMA CountIsSum ==
    ASSUME NEW f, NEW S, IsFiniteSet(S), \A x \in S : f[x] \in {0, 1}
    PROVE  Cardinality({x \in S : f[x] = 1}) = SumFunctionOnSet(f, S)
<1> DEFINE sum(s)  == SumFunctionOnSet(f, s)
           ones(s) == {x \in s : f[x] = 1}
           Bad == {s \in SUBSET S : Cardinality(ones(s)) # sum(s)}
<1> HIDE DEF sum
<1> SUFFICES ASSUME Bad # {} PROVE FALSE
  BY DEF sum
<1>1. \A s \in Bad : IsFiniteSet(s)
  BY FS_Subset
<1>2. PICK s \in Bad : \A x \in s : s \ {x} \notin Bad
  <2> HIDE DEF Bad
  <2> QED BY <1>1, SmallestSet, Zenon
<1>3. IsFiniteSet(s) /\ s \subseteq S /\ Cardinality(ones(s)) # sum(s)
  BY <1>1
<1>4. CASE s = {}
  <2>1. ones(s) = {}
    BY <1>4
  <2> QED
    BY <1>3, <1>4, <2>1, SumOfNothing, FS_EmptySet DEF sum
<1>5. CASE s # {}
  <2> DEFINE c == Pick(s)
             r == s \ {c}
  <2>1. c \in s /\ sum(s) = f[c] + sum(r)
    BY <1>3, <1>5, SumStep DEF sum
  <2>2. Cardinality(ones(r)) = sum(r)
    BY <1>2, <1>3, <2>1
  <2>3. IsFiniteSet(ones(r)) /\ Cardinality(ones(r)) \in Nat
    <3>1. IsFiniteSet(r)
      BY <1>3, FS_RemoveElement
    <3>2. ones(r) \in SUBSET r
      OBVIOUS
    <3> QED
      BY <3>1, <3>2, FS_Subset, FS_CardinalityType
  <2>4. CASE f[c] = 1
    <3>1. ones(s) = ones(r) \union {c} /\ c \notin ones(r)
      BY <2>1, <2>4
    <3>2. Cardinality(ones(s)) = Cardinality(ones(r)) + 1
      BY <2>3, <3>1, FS_AddElement
    <3> QED
      BY <1>3, <2>1, <2>2, <2>3, <2>4, <3>2
  <2>5. CASE f[c] = 0
    <3>1. ones(s) = ones(r)
      BY <2>1, <2>5
    <3> QED
      BY <1>3, <2>1, <2>2, <2>3, <2>5, <3>1
  <2> QED
    BY <1>3, <2>1, <2>4, <2>5
<1> QED
  BY <1>4, <1>5

=============================================================================
