-------------------------- MODULE CollectionTheorems --------------------------
(***************************************************************************)
(* Sums over finite sets, as MapThenSumSet computes them, and queues whose *)
(* members are distinct: the facts that the proofs about money, balances,  *)
(* rates and events on their way rest on.                                  *)
(*                                                                         *)
(* MapThenSumSet takes an operator; here it is a function, Total(f, S), so *)
(* that the facts can be stated once.  They are proved by looking at a     *)
(* least cardinality at which they fail.                                   *)
(***************************************************************************)
EXTENDS FiniteSetsExt, FiniteSetTheorems, SequenceTheorems, WellFoundedInduction, TLAPS

Total(f, S) == MapThenSumSet(LAMBDA x : f[x], S)

Pick(s) == CHOOSE x \in s : TRUE

\* One turn of the fold at the set s, with g for what is left.
Fold(f, g, s) == IF s = {} THEN 0 ELSE f[Pick(s)] + g[s \ {Pick(s)}]

\* g holds the sums of f over the subsets of S.
Sums(f, S, g) == g = [s \in SUBSET S |-> Fold(f, g, s)]

Integral(f, S) == \A x \in S : f[x] \in Int

-----------------------------------------------------------------------------
\* Every non-empty set of natural numbers has a least member.
LEMMA LeastNat ==
  ASSUME NEW T, T \subseteq Nat, T # {}
  PROVE  \E n \in T : \A m \in T : n <= m
<1>1. IsWellFoundedOn(OpToRel(<, Nat), Nat)
  BY NatLessThanWellFounded
<1>2. PICK n \in T : \A m \in T : ~(<<m, n>> \in OpToRel(<, Nat))
  <2> DEFINE R == OpToRel(<, Nat)
  <2>1. IsWellFoundedOn(R, Nat)
    BY <1>1
  <2> HIDE DEF R
  <2>2. \E n \in T : \A m \in T : ~(<<m, n>> \in R)
    BY <2>1, WFMin
  <2> QED
    BY <2>2 DEF R
<1>3. \A m \in T : ~(m < n)
  BY <1>2 DEF OpToRel
<1> QED
  BY <1>3

\* A set whose members are all equal has at most one.
LEMMA AtMostOne ==
  ASSUME NEW S, \A e, f \in S : e = f
  PROVE  Cardinality(S) <= 1
<1>1. CASE S = {}
  BY <1>1, FS_EmptySet
<1>2. CASE S # {}
  <2>1. PICK e : e \in S
    BY <1>2
  <2>2. S = {e}
    BY <2>1
  <2>3. Cardinality({e}) = 1
    BY FS_Singleton
  <2> QED BY <2>2, <2>3
<1> QED BY <1>1, <1>2

\* A non-empty subset of a finite set has a member that Pick picks, and fewer
\* members without it.
LEMMA FewerWithout ==
  ASSUME NEW S, IsFiniteSet(S), NEW s, s \subseteq S, NEW x \in s
  PROVE  /\ Pick(s) \in s
         /\ IsFiniteSet(s) /\ Cardinality(s) \in Nat
         /\ IsFiniteSet(s \ {x}) /\ s \ {x} \subseteq S
         /\ Cardinality(s \ {x}) = Cardinality(s) - 1
         /\ Cardinality(s) # 0
<1>1. Pick(s) \in s
  BY DEF Pick
<1>2. IsFiniteSet(s) /\ Cardinality(s) \in Nat
  BY FS_Subset, FS_CardinalityType
<1>3. IsFiniteSet(s \ {x}) /\ Cardinality(s \ {x}) = Cardinality(s) - 1
  BY <1>2, FS_RemoveElement
<1>4. Cardinality(s) # 0
  BY <1>2, FS_EmptySet
<1> QED BY <1>1, <1>2, <1>3, <1>4

\* The fold unfolds into the choice of a function with its recurrence.
LEMMA TotalUnfolded ==
  ASSUME NEW f, NEW S
  PROVE  Total(f, S) = (CHOOSE g : Sums(f, S, g))[S]
BY Zenon DEF Total, MapThenSumSet, MapThenFoldSet, Sums, Fold, Pick

\* g is right on sets of up to n members.
SumsUpTo(f, S, g, n) ==
  /\ g \in [SUBSET S -> Int]
  /\ \A s \in SUBSET S : Cardinality(s) <= n => g[s] = Fold(f, g, s)

\* There are sums of every size.
LEMMA SumsUpToExist ==
  ASSUME NEW S, IsFiniteSet(S), NEW f, Integral(f, S)
  PROVE  \A n \in Nat : \E g : SumsUpTo(f, S, g, n)
<1> DEFINE T == {n \in Nat : ~ \E g : SumsUpTo(f, S, g, n)}
<1> SUFFICES ASSUME T # {} PROVE FALSE
  OBVIOUS
<1>1. PICK n \in T : \A m \in T : n <= m
  <2>1. T \subseteq Nat
    OBVIOUS
  <2> HIDE DEF T
  <2> QED BY <2>1, LeastNat
<1>2. CASE n = 0
  <2> DEFINE g == [s \in SUBSET S |-> 0]
  <2>1. ASSUME NEW s \in SUBSET S, Cardinality(s) <= 0 PROVE s = {}
    <3>1. IsFiniteSet(s) /\ Cardinality(s) \in Nat
      BY FS_Subset, FS_CardinalityType
    <3> QED BY <2>1, <3>1, FS_EmptySet
  <2>2. SumsUpTo(f, S, g, 0)
    BY <2>1 DEF SumsUpTo, Fold
  <2> QED BY <1>2, <2>2
<1>3. CASE n # 0
  <2>1. n - 1 \in Nat /\ n - 1 \notin T
    BY <1>1, <1>3
  <2>2. PICK g : SumsUpTo(f, S, g, n - 1)
    BY <2>1
  <2> DEFINE h == [s \in SUBSET S |-> IF Cardinality(s) <= n - 1 THEN g[s]
                                      ELSE Fold(f, g, s)]
  <2>3. ASSUME NEW s \in SUBSET S PROVE Fold(f, g, s) \in Int
    <3>1. CASE s = {}
      BY <3>1 DEF Fold
    <3>2. CASE s # {}
      <4>1. Pick(s) \in s
        BY <3>2 DEF Pick
      <4>2. f[Pick(s)] \in Int /\ g[s \ {Pick(s)}] \in Int
        BY <4>1, <2>2 DEF Integral, SumsUpTo
      <4> QED BY <3>2, <4>2 DEF Fold
    <3> QED BY <3>1, <3>2
  <2>4. h \in [SUBSET S -> Int]
    BY <2>2, <2>3 DEF SumsUpTo
  <2>5. ASSUME NEW s \in SUBSET S, Cardinality(s) <= n
        PROVE  h[s] = Fold(f, h, s)
    <3>1. h[s] = Fold(f, g, s)
      BY <2>2 DEF SumsUpTo
    <3>2. CASE s = {}
      BY <3>1, <3>2 DEF Fold
    <3>3. CASE s # {}
      <4>1. Pick(s) \in s
        BY <3>3 DEF Pick
      <4>2. /\ s \ {Pick(s)} \in SUBSET S
            /\ Cardinality(s \ {Pick(s)}) = Cardinality(s) - 1
            /\ Cardinality(s) \in Nat
        BY <4>1, FewerWithout
      <4>3. Cardinality(s \ {Pick(s)}) <= n - 1
        BY <4>2, <2>5
      <4>4. h[s \ {Pick(s)}] = g[s \ {Pick(s)}]
        BY <4>2, <4>3
      <4> HIDE DEF h
      <4> QED BY <3>1, <3>3, <4>4 DEF Fold
    <3> QED BY <3>2, <3>3
  <2> HIDE DEF h
  <2>6. SumsUpTo(f, S, h, n)
    BY <2>4, <2>5 DEF SumsUpTo
  <2> QED BY <1>1, <2>6
<1> QED BY <1>2, <1>3

\* The function of the fold exists.
LEMMA SumsExist ==
  ASSUME NEW S, IsFiniteSet(S), NEW f, Integral(f, S)
  PROVE  \E g \in [SUBSET S -> Int] : Sums(f, S, g)
<1>1. Cardinality(S) \in Nat
  BY FS_CardinalityType
<1>2. PICK g : SumsUpTo(f, S, g, Cardinality(S))
  BY <1>1, SumsUpToExist
<1>3. ASSUME NEW s \in SUBSET S PROVE g[s] = Fold(f, g, s)
  <2>1. Cardinality(s) <= Cardinality(S)
    BY FS_Subset
  <2> QED BY <1>2, <2>1 DEF SumsUpTo
<1>4. g \in [SUBSET S -> Int]
  BY <1>2 DEF SumsUpTo
<1>5. Sums(f, S, g)
  BY <1>3, <1>4 DEF Sums
<1> QED BY <1>4, <1>5

\* Sums of functions that agree on a set agree on it.
LEMMA SumsAgree ==
  ASSUME NEW S, IsFiniteSet(S), NEW R, NEW f, NEW e, NEW g, NEW h,
         Sums(f, S, g), Sums(e, R, h)
  PROVE  \A s \in SUBSET S : s \subseteq R /\ (\A x \in s : f[x] = e[x]) => g[s] = h[s]
<1> DEFINE Bad(s) == s \subseteq R /\ (\A x \in s : f[x] = e[x]) /\ g[s] # h[s]
           T == {Cardinality(s) : s \in {r \in SUBSET S : Bad(r)}}
<1> SUFFICES ASSUME T # {} PROVE FALSE
  OBVIOUS
<1>1. T \subseteq Nat
  BY FS_Subset, FS_CardinalityType
<1>2. PICK n \in T : \A m \in T : n <= m
  <2> HIDE DEF T
  <2> QED BY <1>1, LeastNat
<1>3. PICK s \in SUBSET S : Bad(s) /\ n = Cardinality(s)
  BY <1>2
<1>4. g[s] = Fold(f, g, s) /\ h[s] = Fold(e, h, s)
  BY <1>3 DEF Sums
<1>5. s # {}
  BY <1>3, <1>4 DEF Fold
<1> DEFINE r == s \ {Pick(s)}
<1>6. Pick(s) \in s
  BY <1>5 DEF Pick
<1>7. r \in SUBSET S /\ Cardinality(r) = Cardinality(s) - 1 /\ Cardinality(s) \in Nat
  BY <1>6, FewerWithout
<1>8. Cardinality(r) \notin T
  BY <1>2, <1>3, <1>7, <1>1
<1>9. g[r] = h[r]
  BY <1>3, <1>7, <1>8
<1> HIDE DEF r
<1>10. f[Pick(s)] = e[Pick(s)]
  BY <1>3, <1>6
<1> QED BY <1>3, <1>4, <1>5, <1>9, <1>10 DEF Fold, r

-----------------------------------------------------------------------------
\* A sum is the value of the fold's function, on its set and on any larger one.
LEMMA TotalIsSums ==
  ASSUME NEW S, IsFiniteSet(S), NEW f, Integral(f, S),
         NEW R, R \subseteq S, NEW g, Sums(f, S, g)
  PROVE  Total(f, R) = g[R]
<1>1. IsFiniteSet(R)
  BY FS_Subset
<1>2. Integral(f, R)
  BY DEF Integral
<1>3. \E h : Sums(f, R, h)
  BY <1>1, <1>2, SumsExist
<1> DEFINE c == CHOOSE h : Sums(f, R, h)
<1>4. Sums(f, R, c)
  BY <1>3
<1>5. Total(f, R) = c[R]
  BY TotalUnfolded
<1> HIDE DEF c
<1>6. c[R] = g[R]
  BY <1>1, <1>4, SumsAgree
<1> QED BY <1>5, <1>6

\* The empty sum is 0.
THEOREM TotalEmpty ==
  ASSUME NEW f
  PROVE  Total(f, {}) = 0
<1>1. IsFiniteSet({})
  BY FS_EmptySet
<1>2. Integral(f, {})
  BY DEF Integral
<1>3. PICK g : Sums(f, {}, g)
  BY <1>1, <1>2, SumsExist
<1>4. Total(f, {}) = g[{}]
  BY <1>1, <1>2, <1>3, TotalIsSums
<1> QED BY <1>3, <1>4 DEF Sums, Fold

\* Sums of integers are integers.
THEOREM TotalType ==
  ASSUME NEW S, IsFiniteSet(S), NEW f, Integral(f, S)
  PROVE  Total(f, S) \in Int
<1>1. PICK g \in [SUBSET S -> Int] : Sums(f, S, g)
  BY SumsExist
<1>2. Total(f, S) = g[S]
  BY <1>1, TotalIsSums
<1> QED BY <1>2

\* A sum depends on the values of the function on the set only.
THEOREM TotalCongruence ==
  ASSUME NEW S, IsFiniteSet(S), NEW f, NEW e, Integral(f, S), \A x \in S : f[x] = e[x]
  PROVE  Total(e, S) = Total(f, S)
<1>1. Integral(e, S)
  BY DEF Integral
<1>2. PICK g : Sums(f, S, g)
  BY SumsExist
<1>3. PICK h : Sums(e, S, h)
  BY <1>1, SumsExist
<1>4. g[S] = h[S]
  BY <1>2, <1>3, SumsAgree
<1> QED BY <1>1, <1>2, <1>3, <1>4, TotalIsSums

\* The order of summation does not matter: any member can be taken out first.
THEOREM TotalRemove ==
  ASSUME NEW S, IsFiniteSet(S), NEW f, Integral(f, S), NEW x \in S
  PROVE  Total(f, S) = f[x] + Total(f, S \ {x})
<1>1. PICK g \in [SUBSET S -> Int] : Sums(f, S, g)
  BY SumsExist
<1> DEFINE Bad(s) == \E y \in s : g[s] # f[y] + g[s \ {y}]
           T == {Cardinality(s) : s \in {r \in SUBSET S : Bad(r)}}
<1>2. T = {}
  <2> SUFFICES ASSUME T # {} PROVE FALSE
    OBVIOUS
  <2>1. T \subseteq Nat
    BY FS_Subset, FS_CardinalityType
  <2>2. PICK n \in T : \A m \in T : n <= m
    <3> HIDE DEF T
    <3> QED BY <2>1, LeastNat
  <2>3. PICK s \in SUBSET S : Bad(s) /\ n = Cardinality(s)
    BY <2>2
  <2>4. PICK y \in s : g[s] # f[y] + g[s \ {y}]
    BY <2>3
  <2> DEFINE p == Pick(s)
  <2>5. p \in s
    BY FewerWithout
  <2>6. g[s] = f[p] + g[s \ {p}]
    BY <1>1, <2>5 DEF Sums, Fold
  <2>7. p # y
    BY <2>4, <2>6
  <2>8. /\ Cardinality(s) \in Nat
        /\ s \ {y} \in SUBSET S /\ Cardinality(s \ {y}) = Cardinality(s) - 1
        /\ s \ {p} \in SUBSET S /\ Cardinality(s \ {p}) = Cardinality(s) - 1
    BY <2>5, FewerWithout
  <2>9. ~Bad(s \ {y}) /\ ~Bad(s \ {p})
    <3>1. Cardinality(s \ {y}) \notin T /\ Cardinality(s \ {p}) \notin T
      <4> HIDE DEF T
      <4> QED BY <2>1, <2>2, <2>3, <2>8
    <3> QED BY <2>8, <3>1
  <2>10. g[s \ {y}] = f[p] + g[(s \ {y}) \ {p}]
    BY <2>5, <2>7, <2>9
  <2>11. g[s \ {p}] = f[y] + g[(s \ {p}) \ {y}]
    BY <2>7, <2>9
  <2>12. (s \ {p}) \ {y} = (s \ {y}) \ {p} /\ (s \ {p}) \ {y} \in SUBSET S
    OBVIOUS
  <2>13. f[p] \in Int /\ f[y] \in Int /\ g[(s \ {p}) \ {y}] \in Int
    BY <1>1, <2>5, <2>12 DEF Integral
  <2> HIDE DEF p, T, Bad
  <2>14. g[s] = f[p] + (f[y] + g[(s \ {p}) \ {y}])
    BY <2>6, <2>11
  <2>15. f[y] + g[s \ {y}] = f[y] + (f[p] + g[(s \ {p}) \ {y}])
    BY <2>10, <2>12
  <2> QED BY <2>4, <2>13, <2>14, <2>15
<1>3. g[S] = f[x] + g[S \ {x}]
  BY <1>2
<1>4. Total(f, S) = g[S] /\ Total(f, S \ {x}) = g[S \ {x}]
  BY <1>1, TotalIsSums
<1> QED BY <1>3, <1>4

\* A new member adds its value.
THEOREM TotalAdd ==
  ASSUME NEW S, IsFiniteSet(S), NEW f, NEW x, x \notin S, Integral(f, S \cup {x})
  PROVE  Total(f, S \cup {x}) = f[x] + Total(f, S)
<1> DEFINE R == S \cup {x}
<1>1. IsFiniteSet(R) /\ R \ {x} = S /\ x \in R
  BY FS_AddElement
<1> HIDE DEF R
<1>2. Integral(f, R)
  BY DEF R
<1>3. Total(f, R) = f[x] + Total(f, R \ {x})
  BY <1>1, <1>2, TotalRemove
<1> QED BY <1>1, <1>3 DEF R

\* One value changes, and the sum with it.
THEOREM TotalChange ==
  ASSUME NEW S, IsFiniteSet(S), NEW f, NEW e, Integral(f, S), Integral(e, S),
         NEW x \in S, \A y \in S \ {x} : e[y] = f[y]
  PROVE  Total(e, S) = Total(f, S) - f[x] + e[x]
<1>1. IsFiniteSet(S \ {x}) /\ Integral(f, S \ {x}) /\ Integral(e, S \ {x})
  BY FS_RemoveElement DEF Integral
<1>2. Total(f, S) = f[x] + Total(f, S \ {x}) /\ Total(e, S) = e[x] + Total(e, S \ {x})
  BY TotalRemove
<1>3. Total(e, S \ {x}) = Total(f, S \ {x}) /\ Total(f, S \ {x}) \in Int
  BY <1>1, TotalCongruence, TotalType
<1>4. f[x] \in Int /\ e[x] \in Int
  BY DEF Integral
<1> QED BY <1>2, <1>3, <1>4

\* The sum of a constant.
THEOREM TotalConstant ==
  ASSUME NEW S, IsFiniteSet(S), NEW f, NEW c \in Int, \A x \in S : f[x] = c
  PROVE  Total(f, S) = Cardinality(S) * c
<1>0. Integral(f, S)
  BY DEF Integral
<1>1. PICK g \in [SUBSET S -> Int] : Sums(f, S, g)
  BY <1>0, SumsExist
<1> DEFINE T == {Cardinality(s) : s \in {r \in SUBSET S : g[r] # Cardinality(r) * c}}
<1>2. T = {}
  <2> SUFFICES ASSUME T # {} PROVE FALSE
    OBVIOUS
  <2>1. T \subseteq Nat
    BY FS_Subset, FS_CardinalityType
  <2>2. PICK n \in T : \A m \in T : n <= m
    <3> HIDE DEF T
    <3> QED BY <2>1, LeastNat
  <2>3. PICK s \in SUBSET S : g[s] # Cardinality(s) * c /\ n = Cardinality(s)
    BY <2>2
  <2>4. g[s] = Fold(f, g, s)
    BY <1>1 DEF Sums
  <2>5. s # {}
    <3>1. Cardinality({}) = 0 /\ 0 * c = 0
      BY FS_EmptySet
    <3> QED BY <2>3, <2>4, <3>1 DEF Fold
  <2> DEFINE r == s \ {Pick(s)}
             k == Cardinality(r)
  <2>6. Pick(s) \in s
    BY <2>5 DEF Pick
  <2>7. r \in SUBSET S /\ k = Cardinality(s) - 1 /\ Cardinality(s) \in Nat
        /\ Cardinality(s) # 0
    BY <2>6, FewerWithout
  <2>8. g[r] = k * c
    <3>1. k \notin T
      <4> HIDE DEF T, k
      <4> QED BY <2>1, <2>2, <2>3, <2>7
    <3> QED BY <2>7, <3>1
  <2>9. g[s] = c + g[r]
    BY <2>4, <2>5, <2>6 DEF Fold
  <2> HIDE DEF T, k, r
  <2>10. Cardinality(s) = k + 1 /\ k \in Nat
    BY <2>7
  <2>11. (k + 1) * c = c + k * c
    BY <2>10
  <2> QED BY <2>3, <2>8, <2>9, <2>10, <2>11
<1>3. g[S] = Cardinality(S) * c
  BY <1>2
<1> QED BY <1>0, <1>1, <1>3, TotalIsSums

-----------------------------------------------------------------------------
(***************************************************************************)
(* Queues, and the partitions of a bus                                     *)
(***************************************************************************)
\* No member is twice in a sequence.
Once(s) == \A i, j \in DOMAIN s : s[i] = s[j] => i = j

\* Every partition carries the events of its own accounts, each once; h is the hash
\* that tells the partition of an account.
Sorted(b, h) ==
  \A p \in DOMAIN b : /\ Once(b[p])
                      /\ \A i \in DOMAIN b[p] : h[b[p][i].aggregate_id] = p

\* The partition of an event.
Home(h, e) == h[e.aggregate_id]

Carried(b) == UNION {Range(b[p]) : p \in DOMAIN b}

\* A send of an event that is not in the channel.
LEMMA Enqueued ==
  ASSUME NEW S, NEW s \in Seq(S), NEW e \in S, Once(s), e \notin Range(s)
  PROVE  /\ Append(s, e) \in Seq(S) /\ Len(Append(s, e)) = Len(s) + 1
         /\ Once(Append(s, e))
         /\ Range(Append(s, e)) = Range(s) \cup {e}
<1> DEFINE t == Append(s, e)
<1>1. /\ t \in Seq(S) /\ Len(s) \in Nat /\ Len(t) = Len(s) + 1
      /\ DOMAIN s = 1 .. Len(s) /\ DOMAIN t = 1 .. Len(s) + 1
      /\ \A i \in 1 .. Len(s) : t[i] = s[i]
      /\ t[Len(s) + 1] = e
  OBVIOUS
<1> HIDE DEF t
<1>2. \A i \in DOMAIN t : i \in DOMAIN s \/ i = Len(s) + 1
  BY <1>1
<1>3. \A i \in DOMAIN s : i \in DOMAIN t /\ t[i] = s[i] /\ t[i] # e
  BY <1>1 DEF Range
<1>4. Once(t)
  <2>1. ASSUME NEW i \in DOMAIN t, NEW j \in DOMAIN t, t[i] = t[j] PROVE i = j
    BY <1>1, <1>2, <1>3, <2>1 DEF Once
  <2> QED BY <2>1 DEF Once
<1>5. Range(t) = Range(s) \cup {e}
  BY <1>1, <1>2, <1>3 DEF Range
<1> QED
  BY <1>1, <1>4, <1>5 DEF t

\* A receive takes the first event out of the channel.
LEMMA Dequeued ==
  ASSUME NEW S, NEW s \in Seq(S), s # <<>>, Once(s)
  PROVE  /\ Head(s) \in S /\ Head(s) \in Range(s) /\ 1 \in DOMAIN s /\ Head(s) = s[1]
         /\ Tail(s) \in Seq(S) /\ Len(Tail(s)) = Len(s) - 1
         /\ Once(Tail(s))
         /\ Range(Tail(s)) = Range(s) \ {Head(s)}
<1> DEFINE t == Tail(s)
<1>1. /\ t \in Seq(S) /\ Len(s) \in Nat /\ Len(s) > 0 /\ Len(t) = Len(s) - 1
      /\ DOMAIN s = 1 .. Len(s) /\ DOMAIN t = 1 .. Len(s) - 1
      /\ \A i \in 1 .. Len(s) - 1 : t[i] = s[i + 1]
      /\ Head(s) = s[1] /\ Head(s) \in S
  OBVIOUS
<1> HIDE DEF t
<1>2. \A i \in DOMAIN t : i + 1 \in DOMAIN s /\ t[i] = s[i + 1] /\ i + 1 # 1
  BY <1>1
<1>3. \A i \in DOMAIN s : i # 1 => i - 1 \in DOMAIN t /\ t[i - 1] = s[i]
  BY <1>1
<1>4. 1 \in DOMAIN s
  BY <1>1
<1>5. Once(t)
  <2>1. ASSUME NEW i \in DOMAIN t, NEW j \in DOMAIN t, t[i] = t[j] PROVE i = j
    <3>1. i + 1 = j + 1
      BY <1>2, <2>1 DEF Once
    <3>2. i \in Nat /\ j \in Nat
      BY <1>1
    <3> QED BY <3>1, <3>2
  <2> QED BY <2>1 DEF Once
<1>6. Range(t) = Range(s) \ {Head(s)}
  <2>1. ASSUME NEW x \in Range(t) PROVE x \in Range(s) /\ x # Head(s)
    <3>1. PICK i \in DOMAIN t : x = t[i]
      BY DEF Range
    <3>2. i + 1 \in DOMAIN s /\ x = s[i + 1] /\ i + 1 # 1
      BY <1>2, <3>1
    <3> QED BY <1>1, <1>4, <3>2 DEF Range, Once
  <2>2. ASSUME NEW x \in Range(s), x # Head(s) PROVE x \in Range(t)
    <3>1. PICK i \in DOMAIN s : x = s[i]
      BY DEF Range
    <3>2. i - 1 \in DOMAIN t /\ x = t[i - 1]
      BY <1>1, <1>3, <2>2, <3>1
    <3> QED BY <3>2 DEF Range
  <2> QED BY <2>1, <2>2
<1> QED
  BY <1>1, <1>4, <1>5, <1>6 DEF t, Range

\* An empty channel.
LEMMA NothingQueued ==
  ASSUME NEW S
  PROVE  <<>> \in Seq(S) /\ Len(<<>>) = 0 /\ Once(<<>>) /\ Range(<<>>) = {}
BY DEF Once, Range

Post(b, p, e) == [b EXCEPT ![p] = Append(@, e)]
Collect(b, p) == [b EXCEPT ![p] = Tail(@)]

\* An event sent to its partition.
LEMMA Posted ==
  ASSUME NEW S, NEW P, NEW h, NEW b \in [P -> Seq(S)], Sorted(b, h), NEW e \in S,
         e \notin Carried(b), NEW p \in P, p = Home(h, e),
         NEW c, c = Post(b, p, e)
  PROVE  /\ c \in [P -> Seq(S)] /\ Sorted(c, h)
         /\ Carried(c) = Carried(b) \cup {e}
         /\ Len(c[p]) = Len(b[p]) + 1
<1>1. b[p] \in Seq(S) /\ Once(b[p]) /\ e \notin Range(b[p])
  BY DEF Sorted, Carried
<1>2. /\ Append(b[p], e) \in Seq(S) /\ Len(Append(b[p], e)) = Len(b[p]) + 1
      /\ Once(Append(b[p], e))
      /\ Range(Append(b[p], e)) = Range(b[p]) \cup {e}
  BY <1>1, Enqueued
<1>3. c \in [P -> Seq(S)] /\ c[p] = Append(b[p], e) /\ DOMAIN b = P /\ DOMAIN c = P
      /\ \A q \in P : q # p => c[q] = b[q]
  BY <1>2 DEF Post
<1>4. Sorted(c, h)
  <2>1. ASSUME NEW q \in P, NEW i \in DOMAIN c[q]
        PROVE  h[c[q][i].aggregate_id] = q
    <3>1. CASE q = p
      <4>1. c[p][i] \in Range(b[p]) \cup {e}
        BY <1>2, <1>3, <3>1 DEF Range
      <4>2. \A x \in Range(b[p]) : h[x.aggregate_id] = p
        BY DEF Sorted, Range
      <4> QED BY <3>1, <4>1, <4>2 DEF Home
    <3>2. CASE q # p
      BY <1>3, <3>2 DEF Sorted
    <3> QED BY <3>1, <3>2
  <2>2. ASSUME NEW q \in P PROVE Once(c[q])
    BY <1>2, <1>3 DEF Sorted
  <2> QED BY <1>3, <2>1, <2>2 DEF Sorted
<1>5. Carried(c) = Carried(b) \cup {e}
  <2>1. ASSUME NEW x PROVE x \in Carried(c) <=> x \in Carried(b) \/ x = e
    <3>1. x \in Range(c[p]) <=> x \in Range(b[p]) \/ x = e
      BY <1>2, <1>3
    <3>2. \A q \in P : q # p => c[q] = b[q]
      BY <1>3
    <3> QED BY <1>3, <3>1, <3>2 DEF Carried
  <2> QED BY <2>1
<1> QED
  BY <1>2, <1>3, <1>4, <1>5

\* An event delivered from its partition.
LEMMA Collected ==
  ASSUME NEW S, NEW P, NEW h, NEW b \in [P -> Seq(S)], Sorted(b, h), NEW p \in P,
         b[p] # <<>>, NEW c, c = Collect(b, p)
  PROVE  /\ c \in [P -> Seq(S)] /\ Sorted(c, h)
         /\ Head(b[p]) \in S /\ Head(b[p]) \in Carried(b)
         /\ Carried(c) = Carried(b) \ {Head(b[p])}
         /\ Len(c[p]) = Len(b[p]) - 1
<1> DEFINE first == Head(b[p])
           t     == Tail(b[p])
<1>1. b[p] \in Seq(S) /\ Once(b[p])
  BY DEF Sorted
<1>2. /\ first \in S /\ first \in Range(b[p]) /\ t \in Seq(S) /\ Len(t) = Len(b[p]) - 1
      /\ Once(t) /\ Range(t) = Range(b[p]) \ {first}
  BY <1>1, Dequeued
<1>3. c = [b EXCEPT ![p] = t]
  BY DEF Collect
<1> HIDE DEF first, t
<1>4. c \in [P -> Seq(S)] /\ c[p] = t /\ DOMAIN b = P /\ DOMAIN c = P
      /\ \A q \in P : q # p => c[q] = b[q]
  BY <1>2, <1>3
<1>5. \A q \in P : \A x \in Range(b[q]) : h[x.aggregate_id] = q
  BY DEF Sorted, Range
<1>6. \A q \in P : Once(c[q]) /\ Range(c[q]) \subseteq Range(b[q])
  BY <1>2, <1>4 DEF Sorted
<1>7. Sorted(c, h)
  <2>1. ASSUME NEW q \in P, NEW i \in DOMAIN c[q]
        PROVE  h[c[q][i].aggregate_id] = q
    <3>1. c[q][i] \in Range(c[q])
      BY DEF Range
    <3> QED BY <1>5, <1>6, <3>1
  <2> QED BY <1>4, <1>6, <2>1 DEF Sorted
<1>8. Carried(c) = Carried(b) \ {first}
  <2>1. ASSUME NEW x \in Carried(c) PROVE x \in Carried(b) /\ x # first
    <3>1. PICK q \in P : x \in Range(c[q])
      BY <1>4 DEF Carried
    <3>2. x \in Range(b[q])
      BY <1>6, <3>1
    <3>3. x # first
      <4>1. CASE q = p
        BY <1>2, <1>4, <3>1, <4>1
      <4>2. CASE q # p
        <5>1. h[x.aggregate_id] = q /\ h[first.aggregate_id] = p
          BY <1>2, <1>5, <3>2
        <5> QED BY <4>2, <5>1
      <4> QED BY <4>1, <4>2
    <3> QED BY <3>2, <3>3 DEF Carried
  <2>2. ASSUME NEW x \in Carried(b), x # first PROVE x \in Carried(c)
    <3>1. PICK q \in P : x \in Range(b[q])
      BY DEF Carried
    <3>2. x \in Range(c[q])
      BY <1>2, <1>4, <2>2, <3>1
    <3> QED BY <1>4, <3>2 DEF Carried
  <2> QED BY <2>1, <2>2
<1>9. first \in Carried(b)
  BY <1>2 DEF Carried
<1> QED
  BY <1>2, <1>4, <1>7, <1>8, <1>9 DEF first

\* A bus without events.
LEMMA NothingInside ==
  ASSUME NEW S, NEW P, NEW h, NEW b \in [P -> {<<>>}]
  PROVE  /\ b \in [P -> Seq(S)] /\ Sorted(b, h)
         /\ Carried(b) = {} /\ \A p \in P : Len(b[p]) = 0
<1>1. DOMAIN b = P /\ \A p \in P : b[p] = <<>>
  OBVIOUS
<1>2. <<>> \in Seq(S) /\ Len(<<>>) = 0 /\ Once(<<>>) /\ Range(<<>>) = {} /\ DOMAIN <<>> = {}
  BY NothingQueued
<1>3. b \in [P -> Seq(S)]
  BY <1>1, <1>2
<1>4. Carried(b) = {}
  BY <1>1, <1>2 DEF Carried
<1>5. Sorted(b, h)
  BY <1>1, <1>2 DEF Sorted
<1> QED BY <1>1, <1>2, <1>3, <1>4, <1>5


-----------------------------------------------------------------------------
(***************************************************************************)
(* Loops: the recursive functions of the models are defined                *)
(***************************************************************************)
\* g holds the values of a loop up to turn n; H[m] is what turn m does.
Run(V, b, H, g, n) ==
  /\ g \in [0 .. n -> V]
  /\ g[0] = b
  /\ \A m \in 1 .. n : g[m] = H[m][g[m - 1]]

\* The loop has a run of every length.
LEMMA RunExists ==
  ASSUME NEW V, NEW b \in V, NEW H \in [Nat -> [V -> V]]
  PROVE  \A n \in Nat : \E g : Run(V, b, H, g, n)
<1> DEFINE T == {n \in Nat : ~ \E g : Run(V, b, H, g, n)}
<1> SUFFICES ASSUME T # {} PROVE FALSE
  OBVIOUS
<1>1. PICK n \in T : \A m \in T : n <= m
  <2>1. T \subseteq Nat
    OBVIOUS
  <2> HIDE DEF T
  <2> QED BY <2>1, LeastNat
<1>2. CASE n = 0
  <2> DEFINE g == [m \in 0 .. 0 |-> b]
  <2>1. g \in [0 .. 0 -> V] /\ g[0] = b /\ 1 .. 0 = {}
    OBVIOUS
  <2> HIDE DEF g
  <2>2. Run(V, b, H, g, 0)
    BY <2>1 DEF Run
  <2> QED
    BY <1>1, <1>2, <2>2
<1>3. CASE n # 0
  <2>1. n - 1 \in Nat /\ n - 1 \notin T
    <3>1. n \in Nat
      BY <1>1
    <3> HIDE DEF T
    <3> QED BY <1>1, <1>3, <3>1
  <2>2. PICK g : Run(V, b, H, g, n - 1)
    BY <2>1
  <2> DEFINE last == H[n][g[n - 1]]
             h == [m \in 0 .. n |-> IF m = n THEN last ELSE g[m]]
  <2>3. g \in [0 .. n - 1 -> V] /\ g[0] = b
        /\ \A m \in 1 .. n - 1 : g[m] = H[m][g[m - 1]]
    BY <2>2 DEF Run
  <2>4. last \in V
    <3>1. g[n - 1] \in V /\ H[n] \in [V -> V]
      BY <1>1, <2>1, <2>3
    <3> QED BY <3>1
  <2> HIDE DEF last
  <2>5. h \in [0 .. n -> V]
    BY <2>1, <2>3, <2>4
  <2>6. h[0] = b
    BY <2>1, <2>3, <1>3
  <2>7. ASSUME NEW m \in 1 .. n PROVE h[m] = H[m][h[m - 1]]
    <3>1. CASE m = n
      <4>1. h[m] = last /\ h[m - 1] = g[n - 1]
        BY <2>1, <3>1
      <4> QED BY <4>1, <3>1 DEF last
    <3>2. CASE m # n
      <4>1. m \in 1 .. n - 1 /\ m - 1 \in 0 .. n /\ m - 1 # n /\ m \in 0 .. n
        BY <2>1, <3>2
      <4>2. h[m] = g[m] /\ h[m - 1] = g[m - 1]
        BY <4>1, <3>2
      <4> QED BY <4>1, <4>2, <2>3
    <3> QED BY <3>1, <3>2
  <2>8. Run(V, b, H, h, n)
    <3> HIDE DEF h
    <3> QED BY <2>5, <2>6, <2>7 DEF Run
  <2> QED
    BY <2>8, <1>1
<1> QED
  BY <1>2, <1>3

\* Two runs agree wherever both are defined.
LEMMA RunsAgree ==
  ASSUME NEW V, NEW b, NEW H, NEW g, NEW h, NEW n \in Nat, NEW k \in Nat,
         Run(V, b, H, g, n), Run(V, b, H, h, k)
  PROVE  \A m \in Nat : m <= n /\ m <= k => g[m] = h[m]
<1> DEFINE T == {m \in Nat : m <= n /\ m <= k /\ g[m] # h[m]}
<1> SUFFICES ASSUME T # {} PROVE FALSE
  OBVIOUS
<1>1. PICK m \in T : \A x \in T : m <= x
  <2>1. T \subseteq Nat
    OBVIOUS
  <2> HIDE DEF T
  <2> QED BY <2>1, LeastNat
<1>2. m # 0
  BY <1>1 DEF Run
<1>3. m - 1 \in Nat /\ m - 1 \notin T
  BY <1>1, <1>2
<1>4. g[m - 1] = h[m - 1]
  BY <1>3
<1>5. m \in 1 .. n /\ m \in 1 .. k
  BY <1>2
<1>6. g[m] = h[m]
  BY <1>4, <1>5 DEF Run
<1> QED
  BY <1>6

\* f holds the values of the whole loop.
Loop(V, b, H, f) ==
  /\ f \in [Nat -> V]
  /\ f[0] = b
  /\ \A n \in Nat : f[n + 1] = H[n + 1][f[n]]

\* A loop whose turns stay within V can be written as a recursive function.
THEOREM LoopExists ==
  ASSUME NEW V, NEW b \in V, NEW H \in [Nat -> [V -> V]]
  PROVE  \E f : Loop(V, b, H, f)
<1> DEFINE run(n) == CHOOSE g : Run(V, b, H, g, n)
           F == [n \in Nat |-> run(n)[n]]
<1>1. \A n \in Nat : Run(V, b, H, run(n), n)
  BY RunExists
<1> HIDE DEF run
<1>2. F \in [Nat -> V]
  <2>1. \A n \in Nat : run(n)[n] \in V
    BY <1>1 DEF Run
  <2> QED BY <2>1
<1>3. F[0] = b
  BY <1>1 DEF Run
<1>4. ASSUME NEW n \in Nat PROVE F[n + 1] = H[n + 1][F[n]]
  <2>1. Run(V, b, H, run(n), n) /\ Run(V, b, H, run(n + 1), n + 1)
    BY <1>1
  <2>2. run(n)[n] = run(n + 1)[n]
    BY <2>1, RunsAgree
  <2>3. n + 1 \in 1 .. n + 1 /\ (n + 1) - 1 = n
    OBVIOUS
  <2>4. run(n + 1)[n + 1] = H[n + 1][run(n + 1)[n]]
    BY <2>1, <2>3 DEF Run
  <2> QED BY <2>2, <2>4
<1> HIDE DEF F
<1>5. Loop(V, b, H, F)
  BY <1>2, <1>3, <1>4 DEF Loop
<1> QED BY <1>5

-----------------------------------------------------------------------------
(***************************************************************************)
(* What is left of a log when the members of a set are taken out           *)
(***************************************************************************)
\* A sequence and one member more.
LEMMA OneMoreMember ==
  ASSUME NEW S, NEW s \in Seq(S), NEW e \in S
  PROVE  Append(s, e) \in Seq(S) /\ Range(Append(s, e)) = Range(s) \cup {e}
<1> DEFINE t == Append(s, e)
<1>1. /\ t \in Seq(S) /\ Len(s) \in Nat /\ DOMAIN s = 1 .. Len(s)
      /\ DOMAIN t = 1 .. Len(s) + 1
      /\ \A i \in 1 .. Len(s) : t[i] = s[i]
      /\ t[Len(s) + 1] = e
  OBVIOUS
<1> HIDE DEF t
<1>2. \A i \in DOMAIN t : i \in DOMAIN s \/ i = Len(s) + 1
  BY <1>1
<1>3. \A i \in DOMAIN s : i \in DOMAIN t /\ t[i] = s[i]
  BY <1>1
<1>4. Range(t) = Range(s) \cup {e}
  BY <1>1, <1>2, <1>3 DEF Range
<1> QED BY <1>1, <1>4 DEF t

\* Two sequences one after the other.
LEMMA Concatenated ==
  ASSUME NEW S, NEW s \in Seq(S), NEW u \in Seq(S)
  PROVE  s \o u \in Seq(S) /\ Range(s \o u) = Range(s) \cup Range(u)
<1> DEFINE t == s \o u
<1>1. /\ t \in Seq(S) /\ Len(s) \in Nat /\ Len(u) \in Nat
      /\ DOMAIN s = 1 .. Len(s) /\ DOMAIN u = 1 .. Len(u)
      /\ DOMAIN t = 1 .. Len(s) + Len(u)
      /\ \A i \in 1 .. Len(s) + Len(u) :
           t[i] = IF i <= Len(s) THEN s[i] ELSE u[i - Len(s)]
  OBVIOUS
<1> HIDE DEF t
<1>2. \A i \in DOMAIN t : \/ i \in DOMAIN s /\ t[i] = s[i]
                          \/ i - Len(s) \in DOMAIN u /\ t[i] = u[i - Len(s)]
  BY <1>1
<1>3. \A i \in DOMAIN s : i \in DOMAIN t /\ t[i] = s[i]
  BY <1>1
<1>4. \A i \in DOMAIN u : Len(s) + i \in DOMAIN t /\ t[Len(s) + i] = u[i]
  BY <1>1
<1>5. Range(t) \subseteq Range(s) \cup Range(u)
  BY <1>2 DEF Range
<1>6. Range(s) \subseteq Range(t) /\ Range(u) \subseteq Range(t)
  BY <1>3, <1>4 DEF Range
<1> QED BY <1>1, <1>5, <1>6 DEF t

\* The members of a sequence that are not in P; found[n] is what is left of the
\* first n.
Without(l, P) ==
  LET found[n \in Nat] ==
        IF n = 0 THEN <<>>
        ELSE IF l[n] \in P THEN found[n - 1]
        ELSE Append(found[n - 1], l[n])
  IN  found[Len(l)]

\* The members of s are among the first n of l, and in the same order.
SameOrder(s, l, n) ==
  /\ \A i \in 1 .. Len(s) : \E g \in 1 .. n : s[i] = l[g]
  /\ \A i, j \in 1 .. Len(s) :
       i < j => \E g, h \in 1 .. n : g < h /\ s[i] = l[g] /\ s[j] = l[h]

\* Order is kept when nothing or the next member is added.
LEMMA OrderKept ==
  ASSUME NEW S, NEW l, NEW n \in Nat, NEW s \in Seq(S), SameOrder(s, l, n)
  PROVE  /\ SameOrder(s, l, n + 1)
         /\ l[n + 1] \in S => SameOrder(Append(s, l[n + 1]), l, n + 1)
<1>1. \A g \in 1 .. n : g \in 1 .. n + 1
  OBVIOUS
<1>2. SameOrder(s, l, n + 1)
  <2>1. ASSUME NEW i \in 1 .. Len(s) PROVE \E g \in 1 .. n + 1 : s[i] = l[g]
    BY <1>1 DEF SameOrder
  <2>2. ASSUME NEW i \in 1 .. Len(s), NEW j \in 1 .. Len(s), i < j
        PROVE  \E g, h \in 1 .. n + 1 : g < h /\ s[i] = l[g] /\ s[j] = l[h]
    <3>1. PICK g \in 1 .. n, h \in 1 .. n : g < h /\ s[i] = l[g] /\ s[j] = l[h]
      BY <2>2 DEF SameOrder
    <3> QED BY <1>1, <3>1
  <2> QED BY <2>1, <2>2 DEF SameOrder
<1>3. ASSUME l[n + 1] \in S PROVE SameOrder(Append(s, l[n + 1]), l, n + 1)
  <2> DEFINE t == Append(s, l[n + 1])
  <2>1. /\ Len(s) \in Nat /\ Len(t) = Len(s) + 1
        /\ \A i \in 1 .. Len(s) : t[i] = s[i]
        /\ t[Len(s) + 1] = l[n + 1]
    BY <1>3
  <2> HIDE DEF t
  <2>2. n + 1 \in 1 .. n + 1 /\ \A g \in 1 .. n : g < n + 1
    OBVIOUS
  <2>3. ASSUME NEW i \in 1 .. Len(t) PROVE \E g \in 1 .. n + 1 : t[i] = l[g]
    <3>1. i \in 1 .. Len(s) \/ i = Len(s) + 1
      BY <2>1
    <3>2. CASE i \in 1 .. Len(s)
      <4>1. t[i] = s[i]
        BY <2>1, <3>2
      <4>2. \E g \in 1 .. n + 1 : s[i] = l[g]
        BY <1>2, <3>2 DEF SameOrder
      <4> QED BY <4>1, <4>2
    <3>3. CASE i = Len(s) + 1
      BY <2>1, <2>2, <3>3
    <3> QED BY <3>1, <3>2, <3>3
  <2>4. ASSUME NEW i \in 1 .. Len(t), NEW j \in 1 .. Len(t), i < j
        PROVE  \E g, h \in 1 .. n + 1 : g < h /\ t[i] = l[g] /\ t[j] = l[h]
    <3>1. i \in 1 .. Len(s) /\ (j \in 1 .. Len(s) \/ j = Len(s) + 1)
      BY <2>1, <2>4
    <3>2. CASE j \in 1 .. Len(s)
      <4>1. t[i] = s[i] /\ t[j] = s[j]
        BY <2>1, <3>1, <3>2
      <4>2. \E g, h \in 1 .. n + 1 : g < h /\ s[i] = l[g] /\ s[j] = l[h]
        BY <1>2, <2>4, <3>1, <3>2 DEF SameOrder
      <4> QED BY <4>1, <4>2
    <3>3. CASE j = Len(s) + 1
      <4>1. PICK g \in 1 .. n : s[i] = l[g]
        BY <3>1 DEF SameOrder
      <4> QED BY <1>1, <2>1, <2>2, <3>1, <3>3, <4>1
    <3> QED BY <3>1, <3>2, <3>3
  <2>5. SameOrder(t, l, n + 1)
    BY <2>3, <2>4 DEF SameOrder
  <2> QED BY <2>5 DEF t
<1> QED BY <1>2, <1>3

\* What is left is what is not in P, and no other, in the same order.
THEOREM WhatIsLeft ==
  ASSUME NEW S, NEW l \in Seq(S), NEW P
  PROVE  /\ Without(l, P) \in Seq(S)
         /\ Range(Without(l, P)) = Range(l) \ P
         /\ SameOrder(Without(l, P), l, Len(l))
<1> DEFINE U == S \cup {l[n] : n \in Nat}
           V == Seq(U)
           Body(f) == [n \in Nat |-> IF n = 0 THEN <<>>
                                     ELSE IF l[n] \in P THEN f[n - 1]
                                     ELSE Append(f[n - 1], l[n])]
           H == [n \in Nat |-> [s \in V |-> IF l[n] \in P THEN s ELSE Append(s, l[n])]]
<1>1. H \in [Nat -> [V -> V]] /\ <<>> \in V
  <2>1. ASSUME NEW n \in Nat, NEW s \in V PROVE Append(s, l[n]) \in V
    <3>1. l[n] \in U
      OBVIOUS
    <3> HIDE DEF U
    <3> QED BY <3>1
  <2> HIDE DEF V
  <2>2. <<>> \in V
    BY DEF V
  <2>3. ASSUME NEW n \in Nat
        PROVE  [s \in V |-> IF l[n] \in P THEN s ELSE Append(s, l[n])] \in [V -> V]
    BY <2>1
  <2> QED BY <2>2, <2>3
<1>2. PICK F : Loop(V, <<>>, H, F)
  <2> HIDE DEF H, V
  <2> QED BY <1>1, LoopExists
<1>3. /\ F[0] = <<>> /\ F \in [Nat -> V]
      /\ \A n \in Nat : F[n + 1] = H[n + 1][F[n]]
  <2> HIDE DEF H, V
  <2> QED BY <1>2 DEF Loop
<1>4. ASSUME NEW n \in Nat
      PROVE  F[n + 1] = IF l[n + 1] \in P THEN F[n] ELSE Append(F[n], l[n + 1])
  <2> HIDE DEF V
  <2>1. F[n + 1] = H[n + 1][F[n]] /\ F[n] \in V /\ n + 1 \in Nat
    <3> HIDE DEF H, U, Body
    <3>1. F[n + 1] = H[n + 1][F[n]]
      BY <1>3
    <3>2. F[n] \in V
      BY <1>3
    <3> QED BY <3>1, <3>2
  <2> QED BY <2>1
<1> HIDE DEF V, H
<1>5. F = Body(F)
  <2>1. ASSUME NEW n \in Nat PROVE F[n] = Body(F)[n]
    <3>1. CASE n = 0
      BY <1>3, <3>1
    <3>2. CASE n # 0
      <4>1. n - 1 \in Nat /\ (n - 1) + 1 = n
        BY <3>2
      <4>2. F[n] = IF l[n] \in P THEN F[n - 1] ELSE Append(F[n - 1], l[n])
        BY <1>4, <4>1
      <4> QED BY <3>2, <4>2
    <3> QED BY <3>1, <3>2
  <2> QED BY <1>3, <2>1
<1>6. Without(l, P) = (CHOOSE f : f = Body(f))[Len(l)]
  BY DEF Without
<1> DEFINE A == CHOOSE f : f = Body(f)
<1>7. A = Body(A)
  BY <1>5
<1> HIDE DEF A
<1>8. A[0] = <<>>
  BY <1>7
<1>9. ASSUME NEW n \in Nat
      PROVE  A[n + 1] = IF l[n + 1] \in P THEN A[n] ELSE Append(A[n], l[n + 1])
  <2>1. n + 1 \in Nat /\ n + 1 # 0 /\ (n + 1) - 1 = n
    OBVIOUS
  <2>2. Body(A)[n + 1] = IF l[n + 1] \in P THEN A[n] ELSE Append(A[n], l[n + 1])
    BY <2>1
  <2> QED BY <1>7, <2>2
<1> HIDE DEF Body
<1>10. Len(l) \in Nat /\ DOMAIN l = 1 .. Len(l) /\ \A i \in 1 .. Len(l) : l[i] \in S
  OBVIOUS
<1> DEFINE L(n)    == {l[i] : i \in 1 .. n} \ P
           Good(n) == A[n] \in Seq(S) /\ Range(A[n]) = L(n) /\ SameOrder(A[n], l, n)
           T       == {n \in 0 .. Len(l) : ~Good(n)}
<1>11. T = {}
  <2> SUFFICES ASSUME T # {} PROVE FALSE
    OBVIOUS
  <2>1. T \subseteq Nat
    BY <1>10
  <2>2. PICK n \in T : \A m \in T : n <= m
    <3> HIDE DEF T
    <3> QED BY <2>1, LeastNat
  <2>3. n \in 0 .. Len(l) /\ ~Good(n)
    OBVIOUS
  <2>4. n # 0
    <3>1. A[0] \in Seq(S) /\ Range(A[0]) = {} /\ L(0) = {}
      BY <1>8, NothingQueued
    <3>2. SameOrder(A[0], l, 0)
      <4>1. Len(A[0]) = 0 /\ \A i \in 1 .. 0 : FALSE
        BY <1>8
      <4> QED BY <4>1 DEF SameOrder
    <3>3. Good(0)
      BY <3>1, <3>2
    <3> QED BY <2>3, <3>3
  <2>5. n - 1 \in Nat /\ n - 1 \in 0 .. Len(l) /\ n - 1 \notin T /\ (n - 1) + 1 = n
    <3>1. n - 1 \in Nat /\ n - 1 \in 0 .. Len(l) /\ (n - 1) + 1 = n /\ ~(n <= n - 1)
      BY <1>10, <2>3, <2>4
    <3> HIDE DEF T
    <3> QED BY <2>2, <3>1
  <2>6. Good(n - 1)
    BY <2>5
  <2>7. A[n] = IF l[n] \in P THEN A[n - 1] ELSE Append(A[n - 1], l[n])
    BY <1>9, <2>5
  <2>8. l[n] \in S
    BY <1>10, <2>3, <2>4
  <2>9. {l[i] : i \in 1 .. n} = {l[i] : i \in 1 .. n - 1} \cup {l[n]}
    <3>1. 1 .. n = (1 .. n - 1) \cup {n}
      BY <2>5
    <3> QED BY <3>1
  <2>10. CASE l[n] \in P
    <3>1. L(n) = L(n - 1)
      BY <2>9, <2>10
    <3>2. SameOrder(A[n], l, n)
      BY <2>5, <2>6, <2>7, <2>10, OrderKept
    <3>3. Good(n)
      BY <2>6, <2>7, <2>10, <3>1, <3>2
    <3> QED BY <2>3, <3>3
  <2>11. CASE l[n] \notin P
    <3>1. L(n) = L(n - 1) \cup {l[n]}
      BY <2>9, <2>11
    <3> HIDE DEF L
    <3>2. A[n] \in Seq(S) /\ Range(A[n]) = Range(A[n - 1]) \cup {l[n]}
      BY <2>6, <2>7, <2>8, <2>11, OneMoreMember
    <3>3. SameOrder(A[n], l, n)
      BY <2>5, <2>6, <2>7, <2>8, <2>11, OrderKept
    <3>4. Good(n)
      BY <2>6, <3>1, <3>2, <3>3
    <3> QED BY <2>3, <3>4
  <2> QED BY <2>10, <2>11
<1>12. Good(Len(l))
  <2>1. Len(l) \in 0 .. Len(l)
    BY <1>10
  <2> HIDE DEF Good
  <2> QED BY <1>11, <2>1
<1>13. Range(l) = {l[i] : i \in 1 .. Len(l)}
  BY <1>10 DEF Range
<1> QED BY <1>6, <1>12, <1>13 DEF A
=============================================================================
