-------------------------------- MODULE Sums --------------------------------
(***************************************************************************)
(* Lemmas about sums over finite sets, SumFunctionOnSet of the Functions   *)
(* module, and about loops over finite sets, which the proofs about the    *)
(* ledger, the settlement and the payments share.  A sum is a recursive    *)
(* function on the subsets of its index set, and so is a loop that is      *)
(* stated as a fold; that the function exists, and everything proved about *)
(* it, rests on induction over finite sets, stated here for a set of sets  *)
(* (SetInduction) rather than for a predicate.                             *)
(***************************************************************************)
EXTENDS Integers, FiniteSetsExt, FiniteSetTheorems, WellFoundedInduction, TLAPS

\* The element the fold takes next.
Pick(s) == CHOOSE y \in s : TRUE

\* F is the recursive function by which the sum over S is defined.
IsSum(F, g, S) ==
  F = [s \in SUBSET S |-> IF s = {} THEN 0 ELSE g[Pick(s)] + F[s \ {Pick(s)}]]

SumFcn(g, S) == CHOOSE F : IsSum(F, g, S)

\* The library's sum is the value of that function at S.
LEMMA SumUnfolds ==
  ASSUME NEW g, NEW S
  PROVE  SumFunctionOnSet(g, S) = SumFcn(g, S)[S]
BY DEF SumFunctionOnSet, FoldFunctionOnSet, MapThenFoldSet, SumFcn, IsSum, Pick

\* The chosen element of a non-empty set is one of its elements.
LEMMA PickIn == ASSUME NEW s, s # {} PROVE Pick(s) \in s
BY DEF Pick

\* A non-empty collection of subsets of a finite set has a member none of whose
\* proper subsets is a member.
LEMMA Least ==
  ASSUME NEW S, IsFiniteSet(S), NEW B, B \subseteq SUBSET S, B # {}
  PROVE  \E T \in B : /\ IsFiniteSet(T)
                      /\ \A U \in SUBSET T : U # T => U \notin B
<1>1. \A T \in B : IsFiniteSet(T)
  BY FS_Subset
<1>2. B \subseteq FiniteSubsetsOf(S)
  BY <1>1 DEF FiniteSubsetsOf
<1>3. IsWellFoundedOn(StrictSubsetOrdering(S), FiniteSubsetsOf(S))
  BY FS_StrictSubsetOrderingWellFounded
<1>4. PICK T \in B : \A U \in B : ~ (<<U, T>> \in StrictSubsetOrdering(S))
  BY <1>2, <1>3, WFMin
<1>5. ASSUME NEW U \in SUBSET T, U # T PROVE U \notin B
  <2>1. SUFFICES ASSUME U \in B PROVE FALSE
    OBVIOUS
  <2>2. <<U, T>> \in StrictSubsetOrdering(S)
    BY <1>5, <2>1 DEF StrictSubsetOrdering
  <2>3. QED BY <2>1, <2>2, <1>4
<1>6. QED BY <1>1, <1>4, <1>5

\* The recursion at one subset.
LEMMA SumStep ==
  ASSUME NEW F, NEW g, NEW S, IsSum(F, g, S), NEW s \in SUBSET S
  PROVE  F[s] = IF s = {} THEN 0 ELSE g[Pick(s)] + F[s \ {Pick(s)}]
BY DEF IsSum

\* Two such functions agree wherever both are defined.
LEMMA SumsAgree ==
  ASSUME NEW g, NEW S, NEW T, IsFiniteSet(S), NEW F, NEW G, IsSum(F, g, S), IsSum(G, g, T),
         NEW v \in SUBSET S, v \in SUBSET T
  PROVE  F[v] = G[v]
<1> DEFINE B == {u \in SUBSET S : u \in SUBSET T /\ F[u] # G[u]}
<1>1. SUFFICES B = {}
  OBVIOUS
<1>2. SUFFICES ASSUME B # {} PROVE FALSE
  OBVIOUS
<1>3. PICK u \in B : \A w \in SUBSET u : w # u => w \notin B
  BY <1>2, Least
<1>4. u # {}
  BY <1>3, SumStep
<1>5. Pick(u) \in u
  BY <1>4, PickIn
<1>6. u \ {Pick(u)} \in SUBSET u /\ u \ {Pick(u)} # u
  BY <1>5
<1>7. F[u \ {Pick(u)}] = G[u \ {Pick(u)}]
  BY <1>3, <1>6
<1>8. F[u] = G[u]
  BY <1>4, <1>7, SumStep
<1>9. QED BY <1>3, <1>8

\* Over a finite set the recursive function exists.
LEMMA SumExists ==
  ASSUME NEW g, NEW S, IsFiniteSet(S)
  PROVE  \E F : IsSum(F, g, S)
<1> DEFINE B == {T \in SUBSET S : ~ \E F : IsSum(F, g, T)}
<1>1. SUFFICES B = {}
  <2>1. S \in SUBSET S
    OBVIOUS
  <2>2. QED BY <2>1, Zenon
<1>2. SUFFICES ASSUME B # {} PROVE FALSE
  OBVIOUS
<1>3. PICK T \in B : IsFiniteSet(T) /\ \A w \in SUBSET T : w # T => w \notin B
  <2>1. B \subseteq SUBSET S
    OBVIOUS
  <2> HIDE DEF B
  <2>2. QED BY <1>2, <2>1, Least
<1>4. ASSUME NEW u \in SUBSET T, u # T PROVE IsSum(SumFcn(g, u), g, u)
  <2>1. \E F : IsSum(F, g, u)
    BY <1>3, <1>4
  <2>2. QED BY <2>1 DEF SumFcn
<1> DEFINE Rest(s) == s \ {Pick(s)}
<1> DEFINE G == [s \in SUBSET T |-> IF s = {} THEN 0 ELSE g[Pick(s)] + SumFunctionOnSet(g, Rest(s))]
<1>5. ASSUME NEW s \in SUBSET T, s # {} PROVE Rest(s) \in SUBSET T /\ Rest(s) # T
  BY <1>5, PickIn
<1>6. ASSUME NEW u \in SUBSET T, u # T PROVE G[u] = SumFunctionOnSet(g, u)
  <2>1. IsSum(SumFcn(g, u), g, u) /\ IsFiniteSet(u)
    BY <1>4, <1>6, <1>3, FS_Subset
  <2>2. SumFunctionOnSet(g, u) = IF u = {} THEN 0 ELSE g[Pick(u)] + SumFcn(g, u)[Rest(u)]
    BY <2>1, SumStep, SumUnfolds
  <2>3. CASE u = {}
    BY <2>2, <2>3
  <2>4. CASE u # {}
    <3>1. Rest(u) \in SUBSET u /\ Rest(u) \in SUBSET T /\ Rest(u) # T
      BY <1>5, <2>4
    <3>2. IsSum(SumFcn(g, Rest(u)), g, Rest(u))
      BY <1>4, <3>1
    <3> HIDE DEF Rest
    <3>3. SumFcn(g, u)[Rest(u)] = SumFcn(g, Rest(u))[Rest(u)]
      BY <2>1, <3>1, <3>2, SumsAgree
    <3>4. G[u] = g[Pick(u)] + SumFunctionOnSet(g, Rest(u))
      BY <2>4
    <3>5. QED BY <2>2, <2>4, <3>3, <3>4, SumUnfolds
  <2>5. QED BY <2>3, <2>4
<1>7. \A s \in SUBSET T : G[s] = IF s = {} THEN 0 ELSE g[Pick(s)] + G[s \ {Pick(s)}]
  <2>1. ASSUME NEW s \in SUBSET T, s # {} PROVE G[s] = g[Pick(s)] + G[Rest(s)]
    <3>1. G[Rest(s)] = SumFunctionOnSet(g, Rest(s))
      BY <2>1, <1>5, <1>6
    <3>2. G[s] = g[Pick(s)] + SumFunctionOnSet(g, Rest(s))
      BY <2>1
    <3>3. QED BY <3>1, <3>2
  <2>2. QED BY <2>1
<1>8. G = [s \in SUBSET T |-> IF s = {} THEN 0 ELSE g[Pick(s)] + G[s \ {Pick(s)}]]
  <2>1. G = [s \in SUBSET T |-> G[s]]
    OBVIOUS
  <2> HIDE DEF G
  <2>2. QED BY <2>1, <1>7
<1>9. IsSum(G, g, T)
  <2> HIDE DEF G
  <2>1. QED BY <1>8 DEF IsSum
<1>10. QED BY <1>3, <1>9

\* So the chosen function is one.
LEMMA SumFcnIsSum ==
  ASSUME NEW g, NEW S, IsFiniteSet(S)
  PROVE  IsSum(SumFcn(g, S), g, S)
<1>1. \E F : IsSum(F, g, S)
  BY SumExists
<1>2. QED BY <1>1 DEF SumFcn

\* A sum is the chosen element's value and the sum over the rest.
LEMMA SumRec ==
  ASSUME NEW g, NEW S, IsFiniteSet(S)
  PROVE  SumFunctionOnSet(g, S) = IF S = {} THEN 0 ELSE g[Pick(S)] + SumFunctionOnSet(g, S \ {Pick(S)})
<1>1. IsSum(SumFcn(g, S), g, S)
  BY SumFcnIsSum
<1> DEFINE R == S \ {Pick(S)}
<1>2. R \in SUBSET S /\ R \in SUBSET R /\ IsFiniteSet(R)
  BY FS_Subset
<1>3. IsSum(SumFcn(g, R), g, R)
  BY <1>2, SumFcnIsSum
<1>4. SumFunctionOnSet(g, S) = IF S = {} THEN 0 ELSE g[Pick(S)] + SumFcn(g, S)[R]
  BY <1>1, SumStep, SumUnfolds
<1> HIDE DEF R
<1>5. SumFcn(g, S)[R] = SumFcn(g, R)[R]
  <2>1. PICK U, F, G : U = R /\ F = SumFcn(g, S) /\ G = SumFcn(g, R)
    OBVIOUS
  <2>2. /\ U \in SUBSET S /\ U \in SUBSET U
        /\ IsSum(F, g, S) /\ IsSum(G, g, U)
    BY <1>1, <1>2, <1>3, <2>1
  <2>3. F[U] = G[U]
    BY <2>2, SumsAgree
  <2>4. QED BY <2>1, <2>3
<1>6. SumFunctionOnSet(g, S) = IF S = {} THEN 0 ELSE g[Pick(S)] + SumFunctionOnSet(g, R)
  BY <1>4, <1>5, SumUnfolds
<1>7. QED BY <1>6 DEF R

\* The empty sum.
LEMMA SumEmpty == ASSUME NEW g PROVE SumFunctionOnSet(g, {}) = 0
BY SumRec, FS_EmptySet

\* What is left without the chosen element is smaller.
LEMMA RestFacts ==
  ASSUME NEW S, IsFiniteSet(S), S # {}
  PROVE  /\ Pick(S) \in S
         /\ S \ {Pick(S)} \in SUBSET S
         /\ S \ {Pick(S)} # S
         /\ IsFiniteSet(S \ {Pick(S)})
BY PickIn, FS_Subset

\* Induction over a finite set: a collection that has the empty set, and with a set
\* also the set with one more element, has the whole set.
LEMMA SetInduction ==
  ASSUME NEW S, IsFiniteSet(S), NEW P, {} \in P,
         \A T \in SUBSET S : \A x \in S \ T : IsFiniteSet(T) /\ T \in P => T \cup {x} \in P
  PROVE  S \in P
<1> DEFINE B == {T \in SUBSET S : T \notin P}
<1>1. SUFFICES ASSUME B # {} PROVE FALSE
  <2>1. S \in SUBSET S
    OBVIOUS
  <2>2. QED BY <2>1
<1>2. PICK T \in B : IsFiniteSet(T) /\ \A w \in SUBSET T : w # T => w \notin B
  <2>1. B \subseteq SUBSET S
    OBVIOUS
  <2> HIDE DEF B
  <2>2. QED BY <1>1, <2>1, Least
<1>3. T \in SUBSET S /\ T \notin P /\ T # {}
  BY <1>2
<1>4. PICK x \in T : TRUE
  BY <1>3
<1>5. PICK R : R = T \ {x}
  OBVIOUS
<1>6. R \in SUBSET T /\ R # T /\ R \in SUBSET S /\ x \in S \ R /\ T = R \cup {x}
  BY <1>3, <1>4, <1>5
<1>7. IsFiniteSet(R) /\ R \in P
  BY <1>2, <1>6, FS_Subset
<1>8. QED BY <1>3, <1>6, <1>7

\* Sums of integers are integers.
LEMMA SumType ==
  ASSUME NEW S, IsFiniteSet(S), NEW g, \A x \in S : g[x] \in Int
  PROVE  \A T \in SUBSET S : SumFunctionOnSet(g, T) \in Int
<1> DEFINE B == {T \in SUBSET S : SumFunctionOnSet(g, T) \notin Int}
<1>1. SUFFICES ASSUME B # {} PROVE FALSE
  OBVIOUS
<1>2. PICK T \in B : IsFiniteSet(T) /\ \A w \in SUBSET T : w # T => w \notin B
  <2>1. B \subseteq SUBSET S
    OBVIOUS
  <2> HIDE DEF B
  <2>2. QED BY <1>1, <2>1, Least
<1>3. T # {}
  <2>1. SumFunctionOnSet(g, {}) \in Int
    BY SumEmpty
  <2>2. SumFunctionOnSet(g, T) \notin Int
    BY <1>2
  <2>3. QED BY <2>1, <2>2
<1>4. PICK R : R = T \ {Pick(T)}
  OBVIOUS
<1>5. Pick(T) \in T /\ R \in SUBSET T /\ R # T
  BY <1>2, <1>3, <1>4, RestFacts
<1>6. SumFunctionOnSet(g, R) \in Int
  BY <1>2, <1>5
<1>7. SumFunctionOnSet(g, T) = g[Pick(T)] + SumFunctionOnSet(g, R)
  BY <1>2, <1>3, <1>4, SumRec
<1>8. T \in SUBSET S
  BY <1>2
<1>10. g[Pick(T)] \in Int
  BY <1>8, <1>5
<1>11. SumFunctionOnSet(g, T) \in Int
  BY <1>6, <1>7, <1>10
<1>12. QED BY <1>2, <1>11

\* Any element can be taken first, not only the chosen one.
LEMMA SumRemove ==
  ASSUME NEW S, IsFiniteSet(S), NEW g, \A x \in S : g[x] \in Int, NEW x \in S
  PROVE  SumFunctionOnSet(g, S) = g[x] + SumFunctionOnSet(g, S \ {x})
<1> DEFINE B == {T \in SUBSET S : \E y \in T : SumFunctionOnSet(g, T) # g[y] + SumFunctionOnSet(g, T \ {y})}
<1>1. SUFFICES ASSUME B # {} PROVE FALSE
  <2>1. S \in SUBSET S
    OBVIOUS
  <2>2. QED BY <2>1
<1>2. PICK T \in B : IsFiniteSet(T) /\ \A w \in SUBSET T : w # T => w \notin B
  <2>1. B \subseteq SUBSET S
    OBVIOUS
  <2> HIDE DEF B
  <2>2. QED BY <1>1, <2>1, Least
<1>3. PICK y \in T : SumFunctionOnSet(g, T) # g[y] + SumFunctionOnSet(g, T \ {y})
  BY <1>2
<1>4. PICK p, U, V, W : p = Pick(T) /\ U = T \ {p} /\ V = T \ {y} /\ W = (T \ {p}) \ {y}
  OBVIOUS
<1>5. p \in T /\ SumFunctionOnSet(g, T) = g[p] + SumFunctionOnSet(g, U)
  BY <1>2, <1>3, <1>4, RestFacts, SumRec
<1>6. /\ U \in SUBSET T /\ U # T /\ V \in SUBSET T /\ V # T
      /\ W = U \ {y} /\ W = V \ {p} /\ U \in SUBSET S /\ V \in SUBSET S /\ W \in SUBSET S
  BY <1>4, <1>5
<1>7. y # p
  BY <1>3, <1>4, <1>5
<1>8. y \in U /\ p \in V
  BY <1>4, <1>5, <1>7
<1>9. SumFunctionOnSet(g, U) = g[y] + SumFunctionOnSet(g, W) /\ SumFunctionOnSet(g, V) = g[p] + SumFunctionOnSet(g, W)
  <2>1. U \notin B /\ V \notin B
    BY <1>2, <1>6
  <2>2. SumFunctionOnSet(g, U) = g[y] + SumFunctionOnSet(g, U \ {y})
    BY <2>1, <1>6, <1>8
  <2>3. SumFunctionOnSet(g, V) = g[p] + SumFunctionOnSet(g, V \ {p})
    BY <2>1, <1>6, <1>8
  <2>4. QED BY <1>6, <2>2, <2>3
<1>10. g[y] \in Int /\ g[p] \in Int /\ SumFunctionOnSet(g, W) \in Int
  <2>1. T \in SUBSET S
    BY <1>2
  <2>2. y \in S /\ p \in S
    BY <1>5, <2>1
  <2>3. SumFunctionOnSet(g, W) \in Int
    BY <1>6, SumType
  <2>4. QED BY <2>2, <2>3
<1>11. SumFunctionOnSet(g, T) = g[y] + SumFunctionOnSet(g, V)
  BY <1>5, <1>9, <1>10
<1>12. QED BY <1>3, <1>4, <1>11

\* One more element adds its value.
LEMMA SumInsert ==
  ASSUME NEW T, IsFiniteSet(T), NEW g, NEW x, x \notin T, \A y \in T \cup {x} : g[y] \in Int
  PROVE  SumFunctionOnSet(g, T \cup {x}) = g[x] + SumFunctionOnSet(g, T)
<1>1. PICK S : S = T \cup {x}
  OBVIOUS
<1>2. IsFiniteSet(S)
  BY <1>1, FS_AddElement
<1>3. S \ {x} = T /\ x \in S
  BY <1>1
<1>4. SumFunctionOnSet(g, S) = g[x] + SumFunctionOnSet(g, S \ {x})
  BY <1>1, <1>2, <1>3, SumRemove
<1>5. QED BY <1>1, <1>3, <1>4

\* Sums of naturals are naturals.
LEMMA SumNat ==
  ASSUME NEW S, IsFiniteSet(S), NEW g, \A x \in S : g[x] \in Nat
  PROVE  SumFunctionOnSet(g, S) \in Nat
<1> DEFINE P == {T \in SUBSET S : SumFunctionOnSet(g, T) \in Nat}
<1>1. {} \in P
  BY SumEmpty
<1>2. ASSUME NEW T \in SUBSET S, NEW x \in S \ T, IsFiniteSet(T), T \in P PROVE T \cup {x} \in P
  <2>1. SumFunctionOnSet(g, T \cup {x}) = g[x] + SumFunctionOnSet(g, T)
    <3>1. \A y \in T \cup {x} : g[y] \in Int
      OBVIOUS
    <3>2. QED BY <1>2, <3>1, SumInsert
  <2>2. SumFunctionOnSet(g, T) \in Nat /\ g[x] \in Nat
    BY <1>2
  <2>3. SumFunctionOnSet(g, T \cup {x}) \in Nat
    BY <2>1, <2>2
  <2>4. QED BY <2>3
<1>3. S \in P
  <2> HIDE DEF P
  <2>1. QED BY <1>1, <1>2, SetInduction
<1>4. QED BY <1>3

\* The sum of sums.
LEMMA SumPlus ==
  ASSUME NEW S, IsFiniteSet(S), NEW g, NEW h, NEW k,
         \A x \in S : g[x] \in Int /\ h[x] \in Int /\ k[x] = g[x] + h[x]
  PROVE  SumFunctionOnSet(k, S) = SumFunctionOnSet(g, S) + SumFunctionOnSet(h, S)
<1> DEFINE P == {T \in SUBSET S : SumFunctionOnSet(k, T) = SumFunctionOnSet(g, T) + SumFunctionOnSet(h, T)}
<1>1. {} \in P
  <2>1. SumFunctionOnSet(g, {}) = 0 /\ SumFunctionOnSet(h, {}) = 0 /\ SumFunctionOnSet(k, {}) = 0
    BY SumEmpty
  <2>2. QED BY <2>1
<1>2. ASSUME NEW T \in SUBSET S, NEW x \in S \ T, IsFiniteSet(T), T \in P PROVE T \cup {x} \in P
  <2>1. \A y \in S : k[y] \in Int
    OBVIOUS
  <2>2. SumFunctionOnSet(g, T \cup {x}) = g[x] + SumFunctionOnSet(g, T)
    BY <1>2, SumInsert
  <2>3. SumFunctionOnSet(h, T \cup {x}) = h[x] + SumFunctionOnSet(h, T)
    BY <1>2, SumInsert
  <2>4. SumFunctionOnSet(k, T \cup {x}) = k[x] + SumFunctionOnSet(k, T)
    BY <1>2, <2>1, SumInsert
  <2>5. SumFunctionOnSet(g, T) \in Int /\ SumFunctionOnSet(h, T) \in Int
    BY <1>2, SumType
  <2>6. SumFunctionOnSet(k, T) = SumFunctionOnSet(g, T) + SumFunctionOnSet(h, T) /\ k[x] = g[x] + h[x]
    BY <1>2
  <2>7. SumFunctionOnSet(k, T \cup {x}) = SumFunctionOnSet(g, T \cup {x}) + SumFunctionOnSet(h, T \cup {x})
    BY <2>2, <2>3, <2>4, <2>5, <2>6
  <2>8. QED BY <2>7
<1>3. S \in P
  <2> HIDE DEF P
  <2>1. QED BY <1>1, <1>2, SetInduction
<1>4. QED BY <1>3

\* A sum depends only on the values summed up.
LEMMA SumSame ==
  ASSUME NEW S, IsFiniteSet(S), NEW g, NEW h,
         \A x \in S : g[x] \in Int /\ h[x] = g[x]
  PROVE  SumFunctionOnSet(h, S) = SumFunctionOnSet(g, S)
<1> DEFINE P == {T \in SUBSET S : SumFunctionOnSet(h, T) = SumFunctionOnSet(g, T)}
<1>1. {} \in P
  <2>1. SumFunctionOnSet(g, {}) = 0 /\ SumFunctionOnSet(h, {}) = 0
    BY SumEmpty
  <2>2. QED BY <2>1
<1>2. ASSUME NEW T \in SUBSET S, NEW x \in S \ T, IsFiniteSet(T), T \in P PROVE T \cup {x} \in P
  <2>1. \A y \in S : h[y] \in Int
    OBVIOUS
  <2>2. SumFunctionOnSet(g, T \cup {x}) = g[x] + SumFunctionOnSet(g, T)
    BY <1>2, SumInsert
  <2>3. SumFunctionOnSet(h, T \cup {x}) = h[x] + SumFunctionOnSet(h, T)
    BY <1>2, <2>1, SumInsert
  <2>4. QED BY <1>2, <2>2, <2>3
<1>3. S \in P
  <2> HIDE DEF P
  <2>1. QED BY <1>1, <1>2, SetInduction
<1>4. QED BY <1>3

\* A sum of smaller values is not larger.
LEMMA SumMono ==
  ASSUME NEW S, IsFiniteSet(S), NEW g, NEW h,
         \A x \in S : g[x] \in Int /\ h[x] \in Int /\ g[x] <= h[x]
  PROVE  SumFunctionOnSet(g, S) <= SumFunctionOnSet(h, S)
<1>1. PICK d : d = [x \in S |-> h[x] - g[x]]
  OBVIOUS
<1>2. \A x \in S : d[x] \in Nat /\ h[x] = g[x] + d[x]
  BY <1>1
<1>3. SumFunctionOnSet(h, S) = SumFunctionOnSet(g, S) + SumFunctionOnSet(d, S)
  BY <1>2, SumPlus
<1>4. SumFunctionOnSet(d, S) \in Nat
  BY <1>2, SumNat
<1>5. SumFunctionOnSet(g, S) \in Int
  BY SumType
<1>6. QED BY <1>3, <1>4, <1>5

\* Values that are not larger and sum up to the same are the same.
LEMMA SumTight ==
  ASSUME NEW S, IsFiniteSet(S), NEW g, NEW h,
         \A x \in S : g[x] \in Int /\ h[x] \in Int /\ g[x] <= h[x],
         SumFunctionOnSet(g, S) = SumFunctionOnSet(h, S), NEW x \in S
  PROVE  g[x] = h[x]
<1>1. PICK R : R = S \ {x}
  OBVIOUS
<1>2. R \in SUBSET S /\ IsFiniteSet(R)
  BY <1>1, FS_Subset
<1>3. SumFunctionOnSet(g, S) = g[x] + SumFunctionOnSet(g, R) /\ SumFunctionOnSet(h, S) = h[x] + SumFunctionOnSet(h, R)
  BY <1>1, SumRemove
<1>4. SumFunctionOnSet(g, R) <= SumFunctionOnSet(h, R)
  BY <1>2, SumMono
<1>5. SumFunctionOnSet(g, R) \in Int /\ SumFunctionOnSet(h, R) \in Int
  BY <1>2, SumType
<1>6. g[x] \in Int /\ h[x] \in Int /\ g[x] <= h[x]
  OBVIOUS
<1>7. PICK a, b, c, d : a = g[x] /\ b = h[x] /\ c = SumFunctionOnSet(g, R) /\ d = SumFunctionOnSet(h, R)
  OBVIOUS
<1>8. /\ a \in Int /\ b \in Int /\ c \in Int /\ d \in Int
      /\ a <= b /\ c <= d /\ a + c = b + d
  BY <1>3, <1>4, <1>5, <1>6, <1>7
<1>9. a = b
  BY <1>8
<1>10. QED BY <1>7, <1>9

\* Only values other than zero count.
LEMMA SumSupport ==
  ASSUME NEW S, IsFiniteSet(S), NEW g, NEW T \in SUBSET S,
         \A x \in S : g[x] \in Int, \A x \in S \ T : g[x] = 0
  PROVE  SumFunctionOnSet(g, S) = SumFunctionOnSet(g, T)
<1> DEFINE P == {U \in SUBSET S : SumFunctionOnSet(g, U) = SumFunctionOnSet(g, U \cap T)}
<1>1. {} \in P
  <2>1. {} \cap T = {}
    OBVIOUS
  <2>2. QED BY <2>1
<1>2. ASSUME NEW U \in SUBSET S, NEW x \in S \ U, IsFiniteSet(U), U \in P PROVE U \cup {x} \in P
  <2>1. SumFunctionOnSet(g, U \cup {x}) = g[x] + SumFunctionOnSet(g, U)
    BY <1>2, SumInsert
  <2>2. PICK V : V = U \cap T
    OBVIOUS
  <2>3. V \in SUBSET S /\ IsFiniteSet(V) /\ x \notin V
    BY <1>2, <2>2, FS_Subset
  <2>4. SumFunctionOnSet(g, U) = SumFunctionOnSet(g, V) /\ SumFunctionOnSet(g, V) \in Int
    BY <1>2, <2>2, <2>3, SumType
  <2>5. CASE x \in T
    <3>1. (U \cup {x}) \cap T = V \cup {x}
      BY <2>2, <2>5
    <3>2. SumFunctionOnSet(g, V \cup {x}) = g[x] + SumFunctionOnSet(g, V)
      BY <1>2, <2>3, SumInsert
    <3>3. QED BY <1>2, <2>1, <2>4, <3>1, <3>2
  <2>6. CASE x \notin T
    <3>1. (U \cup {x}) \cap T = V /\ g[x] = 0
      BY <2>2, <2>6
    <3>2. SumFunctionOnSet(g, U \cup {x}) = SumFunctionOnSet(g, V)
      BY <2>1, <2>4, <3>1
    <3>3. QED BY <1>2, <3>1, <3>2
  <2>7. QED BY <2>5, <2>6
<1>3. S \in P
  <2> HIDE DEF P
  <2>1. QED BY <1>1, <1>2, SetInduction
<1>4. S \cap T = T
  OBVIOUS
<1>5. QED BY <1>3, <1>4

\* A column of a table adds its own sum to that of the rows already counted.
LEMMA SumColumn ==
  ASSUME NEW A, IsFiniteSet(A), NEW B, NEW b \in B, NEW f, NEW g,
         NEW R, IsFiniteSet(R), NEW T,
         \A t : t \in T <=> t \in R \/ \E a \in A : t = <<a, b>>,
         \A a \in A : <<a, b>> \notin R,
         \A a \in A : g[a] = f[<<a, b>>],
         \A a \in A : g[a] \in Int,
         \A r \in R : f[r] \in Int
  PROVE  /\ IsFiniteSet(T)
         /\ SumFunctionOnSet(f, T) = SumFunctionOnSet(f, R) + SumFunctionOnSet(g, A)
<1> DEFINE Q(X) == R \cup (X \X {b})
           P == {X \in SUBSET A :
                   /\ IsFiniteSet(Q(X))
                   /\ SumFunctionOnSet(f, Q(X)) = SumFunctionOnSet(f, R) + SumFunctionOnSet(g, X)}
<1>1. SumFunctionOnSet(f, R) \in Int
  <2>1. R \in SUBSET R
    OBVIOUS
  <2>2. QED BY <2>1, SumType
<1>2. {} \in P
  <2>1. Q({}) = R
    OBVIOUS
  <2>2. SumFunctionOnSet(g, {}) = 0
    BY SumEmpty
  <2>3. SumFunctionOnSet(f, Q({})) = SumFunctionOnSet(f, R) + SumFunctionOnSet(g, {})
    <3> HIDE DEF Q
    <3>1. QED BY <1>1, <2>1, <2>2
  <2>4. IsFiniteSet(Q({}))
    <3> HIDE DEF Q
    <3>1. QED BY <2>1
  <2>5. QED BY <2>3, <2>4
<1>3. ASSUME NEW X \in SUBSET A, NEW a \in A \ X, IsFiniteSet(X), X \in P PROVE X \cup {a} \in P
  <2>1. PICK q : q = Q(X)
    OBVIOUS
  <2>2. Q(X \cup {a}) = q \cup {<<a, b>>} /\ <<a, b>> \notin q
    BY <2>1
  <2>3. \A r \in q \cup {<<a, b>>} : f[r] \in Int
    BY <2>1
  <2>4. IsFiniteSet(q) /\ SumFunctionOnSet(f, q) = SumFunctionOnSet(f, R) + SumFunctionOnSet(g, X)
    BY <1>3, <2>1
  <2>5. IsFiniteSet(q \cup {<<a, b>>})
    BY <2>4, FS_AddElement
  <2>6. SumFunctionOnSet(f, q \cup {<<a, b>>}) = f[<<a, b>>] + SumFunctionOnSet(f, q)
    BY <2>2, <2>3, <2>4, SumInsert
  <2>7. \A c \in A : g[c] \in Int
    OBVIOUS
  <2>8. SumFunctionOnSet(g, X \cup {a}) = g[a] + SumFunctionOnSet(g, X)
    BY <1>3, <2>7, SumInsert
  <2>9. SumFunctionOnSet(g, X) \in Int /\ g[a] \in Int /\ g[a] = f[<<a, b>>]
    BY <1>3, <2>7, SumType
  <2>10. SumFunctionOnSet(f, q \cup {<<a, b>>})
           = SumFunctionOnSet(f, R) + SumFunctionOnSet(g, X \cup {a})
    BY <1>1, <2>4, <2>6, <2>8, <2>9
  <2>11. QED BY <1>3, <2>2, <2>5, <2>10
<1>4. A \in P
  <2> HIDE DEF P
  <2>1. QED BY <1>2, <1>3, SetInduction
<1>5. T = Q(A)
  OBVIOUS
<1>6. QED BY <1>4, <1>5

\* A table is summed up column by column.
LEMMA SumTable ==
  ASSUME NEW A, IsFiniteSet(A), NEW B, IsFiniteSet(B), NEW f, NEW g,
         NEW cols, DOMAIN cols = B,
         \A a \in A, b \in B : f[<<a, b>>] \in Int /\ cols[b][a] = f[<<a, b>>],
         \A b \in B : g[b] = SumFunctionOnSet(cols[b], A)
  PROVE  SumFunctionOnSet(f, A \X B) = SumFunctionOnSet(g, B)
<1> DEFINE P == {L \in SUBSET B :
                   /\ IsFiniteSet(A \X L)
                   /\ SumFunctionOnSet(f, A \X L) = SumFunctionOnSet(g, L)}
<1>1. \A b \in B : g[b] \in Int
  <2>1. SUFFICES ASSUME NEW b \in B PROVE g[b] \in Int
    OBVIOUS
  <2>2. PICK h : h = cols[b]
    OBVIOUS
  <2>3. \A a \in A : h[a] \in Int
    BY <2>2
  <2>4. SumFunctionOnSet(h, A) \in Int
    <3>1. A \in SUBSET A
      OBVIOUS
    <3>2. QED BY <2>3, <3>1, SumType
  <2>5. QED BY <2>2, <2>4
<1>2. {} \in P
  <2>1. A \X {} = {}
    OBVIOUS
  <2>2. SumFunctionOnSet(f, {}) = SumFunctionOnSet(g, {})
    BY SumEmpty
  <2>3. QED BY <2>1, <2>2, FS_EmptySet
<1>3. ASSUME NEW L \in SUBSET B, NEW b \in B \ L, IsFiniteSet(L), L \in P PROVE L \cup {b} \in P
  <2>1. PICK R, h, T : R = A \X L /\ h = cols[b] /\ T = R \cup (A \X {b})
    OBVIOUS
  <2>2. A \X (L \cup {b}) = T
    BY <2>1
  <2>3. /\ \A a \in A : <<a, b>> \notin R
        /\ \A a \in A : h[a] = f[<<a, b>>]
        /\ \A a \in A : h[a] \in Int
        /\ \A r \in R : f[r] \in Int
    <3>1. \A a \in A : <<a, b>> \notin R
      BY <1>3, <2>1
    <3>2. \A a \in A : f[<<a, b>>] \in Int /\ h[a] = f[<<a, b>>]
      BY <2>1
    <3>3. ASSUME NEW r \in R PROVE f[r] \in Int
      <4>1. PICK a \in A, c \in L : r = <<a, c>>
        BY <2>1
      <4>2. f[<<a, c>>] \in Int
        OBVIOUS
      <4>3. QED BY <4>1, <4>2
    <3>4. QED BY <3>1, <3>2, <3>3
  <2>4. IsFiniteSet(R) /\ SumFunctionOnSet(f, R) = SumFunctionOnSet(g, L)
    BY <1>3, <2>1
  <2>5. /\ IsFiniteSet(T)
        /\ SumFunctionOnSet(f, T) = SumFunctionOnSet(f, R) + SumFunctionOnSet(h, A)
    <3>1. \A t : t \in T <=> t \in R \/ \E a \in A : t = <<a, b>>
      BY <2>1
    <3>2. QED BY <2>3, <2>4, <3>1, SumColumn
  <2>6. SumFunctionOnSet(g, L \cup {b}) = g[b] + SumFunctionOnSet(g, L)
    BY <1>1, <1>3, SumInsert
  <2>7. g[b] = SumFunctionOnSet(h, A) /\ g[b] \in Int /\ SumFunctionOnSet(g, L) \in Int
    BY <1>1, <1>3, <2>1, SumType
  <2>8. SumFunctionOnSet(f, T) = SumFunctionOnSet(g, L \cup {b})
    BY <2>4, <2>5, <2>6, <2>7
  <2>9. QED BY <1>3, <2>2, <2>5, <2>8
<1>4. B \in P
  <2> HIDE DEF P
  <2>1. QED BY <1>2, <1>3, SetInduction
<1>5. QED BY <1>4

\* Nothing sums up to nothing.
LEMMA SumZero ==
  ASSUME NEW S, IsFiniteSet(S), NEW g, \A x \in S : g[x] = 0
  PROVE  SumFunctionOnSet(g, S) = 0
<1>1. SumFunctionOnSet(g, S) = SumFunctionOnSet(g, {})
  <2>1. {} \in SUBSET S /\ \A x \in S : g[x] \in Int
    OBVIOUS
  <2>2. \A x \in S \ {} : g[x] = 0
    OBVIOUS
  <2>3. QED BY <2>1, <2>2, SumSupport
<1>2. QED BY <1>1, SumEmpty

\* A finite set that is not empty has an element of the greatest value.
LEMMA Greatest ==
  ASSUME NEW S, IsFiniteSet(S), S # {}, NEW g, \A x \in S : g[x] \in Int
  PROVE  \E m \in S : \A x \in S : g[x] <= g[m]
<1> DEFINE P == {T \in SUBSET S : T # {} => \E m \in T : \A x \in T : g[x] <= g[m]}
<1>1. {} \in P
  OBVIOUS
<1>2. ASSUME NEW T \in SUBSET S, NEW x \in S \ T, T \in P
      PROVE  T \cup {x} \in P
  <2>1. T \cup {x} \in SUBSET S /\ g[x] \in Int /\ g[x] <= g[x]
    OBVIOUS
  <2>2. CASE T = {}
    BY <2>1, <2>2
  <2>3. CASE T # {}
    <3>1. PICK m \in T : \A y \in T : g[y] <= g[m]
      BY <1>2, <2>3
    <3>2. g[m] \in Int /\ \A y \in T : g[y] \in Int
      OBVIOUS
    <3>3. CASE g[x] <= g[m]
      BY <2>1, <3>1, <3>3
    <3>4. CASE ~(g[x] <= g[m])
      <4>1. \A y \in T \cup {x} : g[y] <= g[x]
        BY <2>1, <3>1, <3>2, <3>4
      <4>2. QED BY <2>1, <4>1
    <3>5. QED BY <3>3, <3>4
  <2>4. QED BY <2>2, <2>3
<1> HIDE DEF P
<1>3. S \in P
  BY <1>1, <1>2, SetInduction
<1>4. QED BY <1>3 DEF P

\* Multiplication by a natural is monotonic.
LEMMA ProductMono ==
  ASSUME NEW a \in Nat, NEW b \in Nat, NEW c \in Nat, b <= c
  PROVE  a * b <= a * c
OBVIOUS

\* A part of a sum of naturals is not above the whole.
LEMMA SumPart ==
  ASSUME NEW S, IsFiniteSet(S), NEW T \in SUBSET S, NEW g, \A x \in S : g[x] \in Nat
  PROVE  SumFunctionOnSet(g, T) <= SumFunctionOnSet(g, S)
<1>1. PICK h : h = [x \in S |-> IF x \in T THEN g[x] ELSE 0]
  OBVIOUS
<1>2. /\ \A x \in S : h[x] \in Int /\ g[x] \in Int /\ h[x] <= g[x]
      /\ \A x \in S \ T : h[x] = 0
      /\ \A x \in T : h[x] \in Int /\ g[x] = h[x]
      /\ IsFiniteSet(T)
  BY <1>1, FS_Subset
<1>3. SumFunctionOnSet(h, S) <= SumFunctionOnSet(g, S)
  BY <1>2, SumMono
<1>4. SumFunctionOnSet(h, S) = SumFunctionOnSet(h, T)
  BY <1>2, SumSupport
<1>5. SumFunctionOnSet(g, T) = SumFunctionOnSet(h, T)
  BY <1>2, SumSame
<1>6. QED BY <1>3, <1>4, <1>5

\* A sum of which one value was replaced.
LEMMA SumReplace ==
  ASSUME NEW S, IsFiniteSet(S), NEW x \in S, NEW g, NEW h, NEW R, R = S \ {x}, h[x] \in Int,
         \A y \in R : g[y] \in Int /\ h[y] = g[y]
  PROVE  SumFunctionOnSet(h, S) = h[x] + SumFunctionOnSet(g, R)
<1>1. IsFiniteSet(R) /\ \A y \in S : h[y] \in Int
  BY FS_Subset
<1>2. SumFunctionOnSet(h, S) = h[x] + SumFunctionOnSet(h, S \ {x})
  BY <1>1, SumRemove
<1>3. SumFunctionOnSet(h, R) = SumFunctionOnSet(g, R)
  BY <1>1, SumSame
<1>4. QED BY <1>2, <1>3

-----------------------------------------------------------------------------
(* Loops over a finite set of rows *)

\* F is the run of a loop over the subsets of S: nothing visited yet, or the last row
\* applied to the state after the others.
IsRun(F, step, last, base, S) ==
  F = [s \in SUBSET S |-> IF s = {} THEN base ELSE step[<<last[s], F[s \ {last[s]}]>>]]

RunFcn(step, last, base, S) == CHOOSE F : IsRun(F, step, last, base, S)

\* The state after a set of rows.
LEMMA RunStep ==
  ASSUME NEW F, NEW step, NEW last, NEW base, NEW S, IsRun(F, step, last, base, S),
         NEW s \in SUBSET S
  PROVE  F[s] = IF s = {} THEN base ELSE step[<<last[s], F[s \ {last[s]}]>>]
BY DEF IsRun

\* Two runs agree wherever both are defined.
LEMMA RunsAgree ==
  ASSUME NEW step, NEW last, NEW base, NEW S, NEW T, IsFiniteSet(S), NEW F, NEW G,
         \A s \in SUBSET S : s # {} => last[s] \in s,
         IsRun(F, step, last, base, S), IsRun(G, step, last, base, T),
         NEW v \in SUBSET S, v \in SUBSET T
  PROVE  F[v] = G[v]
<1> DEFINE B == {u \in SUBSET S : u \in SUBSET T /\ F[u] # G[u]}
<1>1. SUFFICES B = {}
  OBVIOUS
<1>2. SUFFICES ASSUME B # {} PROVE FALSE
  OBVIOUS
<1>3. PICK u \in B : \A w \in SUBSET u : w # u => w \notin B
  <2>1. B \subseteq SUBSET S
    OBVIOUS
  <2> HIDE DEF B
  <2>2. QED BY <1>2, <2>1, Least
<1>4. /\ F[u] = IF u = {} THEN base ELSE step[<<last[u], F[u \ {last[u]}]>>]
      /\ G[u] = IF u = {} THEN base ELSE step[<<last[u], G[u \ {last[u]}]>>]
  <2>1. u \in SUBSET S /\ u \in SUBSET T
    BY <1>3
  <2>2. QED BY <2>1, RunStep
<1>5. u # {}
  BY <1>3, <1>4
<1>6. last[u] \in u
  BY <1>3, <1>5
<1>7. u \ {last[u]} \in SUBSET u /\ u \ {last[u]} # u
  BY <1>6
<1>8. F[u \ {last[u]}] = G[u \ {last[u]}]
  BY <1>3, <1>7
<1>9. F[u] = G[u]
  BY <1>5, <1>8, <1>4
<1>10. QED BY <1>3, <1>9

\* Over a finite set of rows the run exists.
LEMMA RunExists ==
  ASSUME NEW step, NEW last, NEW base, NEW S, IsFiniteSet(S),
         \A s \in SUBSET S : s # {} => last[s] \in s
  PROVE  \E F : IsRun(F, step, last, base, S)
<1> DEFINE B == {T \in SUBSET S : ~ \E F : IsRun(F, step, last, base, T)}
<1>1. SUFFICES B = {}
  <2>1. S \in SUBSET S
    OBVIOUS
  <2>2. QED BY <2>1, Zenon
<1>2. SUFFICES ASSUME B # {} PROVE FALSE
  OBVIOUS
<1>3. PICK T \in B : IsFiniteSet(T) /\ \A w \in SUBSET T : w # T => w \notin B
  <2>1. B \subseteq SUBSET S
    OBVIOUS
  <2> HIDE DEF B
  <2>2. QED BY <1>2, <2>1, Least
<1> DEFINE Run(u) == RunFcn(step, last, base, u)
<1> DEFINE After(u) == Run(u)[u]
<1>4. ASSUME NEW u \in SUBSET T, u # T PROVE IsRun(Run(u), step, last, base, u)
  <2>1. \E F : IsRun(F, step, last, base, u)
    BY <1>3, <1>4
  <2>2. QED BY <2>1 DEF RunFcn
<1> DEFINE Rest(s) == s \ {last[s]}
<1> DEFINE G == [s \in SUBSET T |-> IF s = {} THEN base ELSE step[<<last[s], After(Rest(s))>>]]
<1>5. ASSUME NEW s \in SUBSET T, s # {} PROVE Rest(s) \in SUBSET T /\ Rest(s) # T /\ Rest(s) \in SUBSET s
  <2>1. last[s] \in s
    BY <1>3, <1>5
  <2>2. QED BY <2>1
<1>6. ASSUME NEW u \in SUBSET T, u # T PROVE G[u] = After(u)
  <2>1. IsRun(Run(u), step, last, base, u) /\ IsFiniteSet(u) /\ u \in SUBSET u
    BY <1>4, <1>6, <1>3, FS_Subset
  <2> HIDE DEF Run
  <2>2. After(u) = IF u = {} THEN base ELSE step[<<last[u], Run(u)[Rest(u)]>>]
    BY <2>1, RunStep
  <2>3. CASE u = {}
    BY <2>2, <2>3
  <2>4. CASE u # {}
    <3>1. Rest(u) \in SUBSET u /\ Rest(u) \in SUBSET T /\ Rest(u) # T /\ Rest(u) \in SUBSET Rest(u)
      BY <1>5, <2>4
    <3>2. IsRun(Run(Rest(u)), step, last, base, Rest(u))
      BY <1>4, <3>1
    <3> HIDE DEF Rest
    <3>3. Run(u)[Rest(u)] = Run(Rest(u))[Rest(u)]
      <4>1. PICK R, F, H : R = Rest(u) /\ F = Run(u) /\ H = Run(Rest(u))
        OBVIOUS
      <4>2. /\ IsRun(F, step, last, base, u) /\ IsRun(H, step, last, base, R)
            /\ R \in SUBSET u /\ R \in SUBSET R
            /\ \A s \in SUBSET u : s # {} => last[s] \in s
        BY <1>3, <2>1, <3>1, <3>2, <4>1
      <4>3. F[R] = H[R]
        BY <2>1, <4>2, RunsAgree
      <4>4. QED BY <4>1, <4>3
    <3>4. G[u] = step[<<last[u], After(Rest(u))>>]
      BY <2>4
    <3>5. QED BY <2>2, <2>4, <3>3, <3>4
  <2>5. QED BY <2>3, <2>4
<1>7. \A s \in SUBSET T : G[s] = IF s = {} THEN base ELSE step[<<last[s], G[s \ {last[s]}]>>]
  <2>1. ASSUME NEW s \in SUBSET T, s # {} PROVE G[s] = step[<<last[s], G[Rest(s)]>>]
    <3>1. G[Rest(s)] = After(Rest(s))
      BY <2>1, <1>5, <1>6
    <3>2. G[s] = step[<<last[s], After(Rest(s))>>]
      BY <2>1
    <3>3. QED BY <3>1, <3>2
  <2>2. QED BY <2>1
<1>8. G = [s \in SUBSET T |-> IF s = {} THEN base ELSE step[<<last[s], G[s \ {last[s]}]>>]]
  <2>1. G = [s \in SUBSET T |-> G[s]]
    OBVIOUS
  <2> HIDE DEF G
  <2>2. QED BY <2>1, <1>7
<1>9. IsRun(G, step, last, base, T)
  <2> HIDE DEF G
  <2>1. QED BY <1>8 DEF IsRun
<1>10. QED BY <1>3, <1>9

\* A loop whose step keeps the type of its state ends in a state of that type.
LEMMA RunTyped ==
  ASSUME NEW L, NEW A, NEW S \in SUBSET L, IsFiniteSet(S), NEW step \in [L \X A -> A], NEW last,
         NEW base \in A, \A s \in SUBSET S : s # {} => last[s] \in s,
         NEW F, IsRun(F, step, last, base, S), NEW s \in SUBSET S
  PROVE  F[s] \in A
<1> DEFINE B == {u \in SUBSET S : F[u] \notin A}
<1>1. SUFFICES ASSUME B # {} PROVE FALSE
  OBVIOUS
<1>2. PICK u \in B : \A w \in SUBSET u : w # u => w \notin B
  <2>1. B \subseteq SUBSET S
    OBVIOUS
  <2> HIDE DEF B
  <2>2. QED BY <1>1, <2>1, Least
<1>3. F[u] = IF u = {} THEN base ELSE step[<<last[u], F[u \ {last[u]}]>>]
  BY <1>2, RunStep
<1>4. u # {}
  BY <1>2, <1>3
<1>5. last[u] \in u /\ last[u] \in L
  BY <1>2, <1>4
<1>6. u \ {last[u]} \in SUBSET u /\ u \ {last[u]} # u /\ u \ {last[u]} \in SUBSET S
  BY <1>2, <1>5
<1>7. F[u \ {last[u]}] \in A
  BY <1>2, <1>6
<1>8. step[<<last[u], F[u \ {last[u]}]>>] \in A
  BY <1>5, <1>7
<1>9. QED BY <1>2, <1>3, <1>4, <1>8
=============================================================================
