------------------------------ MODULE FiniteSums ------------------------------
(***************************************************************************)
(* Sums over finite sets: what SumFunction of the community modules gives, *)
(* for functions of any finite domain with integer values.  The induction  *)
(* is on the smallest part of a finite set for which a statement fails.    *)
(***************************************************************************)
EXTENDS Integers, FiniteSets, Functions, FiniteSetTheorems, TLAPS

Choice(s) == CHOOSE x \in s : TRUE

\* g gives for each part of S the sum of the weights w of its elements.
Sums(g, w, S) ==
  g = [s \in SUBSET S |-> IF s = {} THEN 0 ELSE w[Choice(s)] + g[s \ {Choice(s)}]]

\* A property that fails for a part of a finite set fails for a smallest one.
LEMMA SmallestPart ==
  ASSUME NEW S, IsFiniteSet(S), NEW T \in SUBSET SUBSET S, T # {}
  PROVE  \E m \in T : \A r \in SUBSET m : r # m => r \notin T
<1>1. IsWellFoundedOn(StrictSubsetOrdering(S), FiniteSubsetsOf(S)) /\ FiniteSubsetsOf(S) = SUBSET S
  BY FS_StrictSubsetOrderingWellFounded, FS_FiniteSubsetsOfFinite
<1>2. \E m \in T : \A r \in T : ~(<<r, m>> \in StrictSubsetOrdering(S))
  BY <1>1, WFMin
<1> QED BY <1>2 DEF StrictSubsetOrdering

\* The chosen element of a set is one of it.
LEMMA ChoiceIn == ASSUME NEW s, s # {} PROVE Choice(s) \in s
BY DEF Choice

\* Two sums of weights that agree are equal.
LEMMA SumsAgree ==
  ASSUME NEW S, NEW T, NEW w, NEW v, NEW g, NEW h, Sums(g, w, S), Sums(h, v, T),
         NEW s \in SUBSET S, s \in SUBSET T, IsFiniteSet(s), \A x \in s : w[x] = v[x]
  PROVE  g[s] = h[s]
<1> DEFINE bad == {r \in SUBSET s : g[r] # h[r]}
<1> SUFFICES ASSUME bad # {} PROVE FALSE
  OBVIOUS
<1>1. PICK m \in bad : \A r \in SUBSET m : r # m => r \notin bad
  <2>1. bad \in SUBSET SUBSET s
    OBVIOUS
  <2> HIDE DEF bad
  <2> QED BY <2>1, SmallestPart
<1>2. g[m] = (IF m = {} THEN 0 ELSE w[Choice(m)] + g[m \ {Choice(m)}])
  BY DEF Sums
<1>3. h[m] = (IF m = {} THEN 0 ELSE v[Choice(m)] + h[m \ {Choice(m)}])
  BY DEF Sums
<1>4. m # {}
  BY <1>2, <1>3
<1>5. Choice(m) \in m
  BY <1>4, ChoiceIn
<1>6. g[m \ {Choice(m)}] = h[m \ {Choice(m)}]
  BY <1>1, <1>5
<1> QED BY <1>2, <1>3, <1>4, <1>5, <1>6

\* A finite set has its sums.
LEMMA SumsExist ==
  ASSUME NEW D, IsFiniteSet(D), NEW w
  PROVE  \E g : Sums(g, w, D)
<1> DEFINE bad == {T \in SUBSET D : ~\E g : Sums(g, w, T)}
<1> SUFFICES ASSUME bad # {} PROVE FALSE
  OBVIOUS
<1>1. PICK m \in bad : \A r \in SUBSET m : r # m => r \notin bad
  <2>1. bad \in SUBSET SUBSET D
    OBVIOUS
  <2> HIDE DEF bad
  <2> QED BY <2>1, SmallestPart
<1> DEFINE G(T) == CHOOSE g : Sums(g, w, T)
           rest(s) == s \ {Choice(s)}
           g == [s \in SUBSET m |-> IF s = {} THEN 0 ELSE w[Choice(s)] + G(rest(s))[rest(s)]]
<1>2. ASSUME NEW T \in SUBSET m, T # m PROVE Sums(G(T), w, T)
  <2>1. \E h : Sums(h, w, T)
    BY <1>1, <1>2
  <2> QED BY <2>1
<1>3. ASSUME NEW s \in SUBSET m, s # {} PROVE rest(s) \in SUBSET m /\ rest(s) # m /\ rest(s) \in SUBSET s
  BY <1>3, ChoiceIn
<1> HIDE DEF G
<1>4. ASSUME NEW s \in SUBSET m, s # {} PROVE g[rest(s)] = G(rest(s))[rest(s)]
  <2> DEFINE r == rest(s)
  <2>1. r \in SUBSET m /\ r # m /\ Sums(G(r), w, r)
    BY <1>2, <1>3, <1>4
  <2> HIDE DEF r
  <2>2. G(r)[r] = (IF r = {} THEN 0 ELSE w[Choice(r)] + G(r)[rest(r)])
    BY <2>1 DEF Sums
  <2>3. g[r] = (IF r = {} THEN 0 ELSE w[Choice(r)] + G(rest(r))[rest(r)])
    BY <2>1
  <2>4. CASE r = {}
    BY <2>2, <2>3, <2>4 DEF r
  <2>5. CASE r # {}
    <3>1. rest(r) \in SUBSET m /\ rest(r) # m /\ rest(r) \in SUBSET r
      BY <1>3, <2>1, <2>5
    <3>2. Sums(G(rest(r)), w, rest(r)) /\ rest(r) \in SUBSET rest(r)
      BY <1>2, <3>1
    <3>3. IsFiniteSet(rest(r))
      BY <1>1, <3>1, FS_Subset
    <3> HIDE DEF rest
    <3>4. G(r)[rest(r)] = G(rest(r))[rest(r)]
      BY <2>1, <3>1, <3>2, <3>3, SumsAgree
    <3> QED BY <2>2, <2>3, <2>5, <3>4 DEF r
  <2> QED BY <2>4, <2>5
<1>5. \A s \in SUBSET m : g[s] = IF s = {} THEN 0 ELSE w[Choice(s)] + g[rest(s)]
  BY <1>4
<1>6. g = [s \in SUBSET m |-> g[s]]
  OBVIOUS
<1>7. Sums(g, w, m)
  <2> HIDE DEF g
  <2> QED BY <1>5, <1>6 DEF Sums
<1> QED BY <1>1, <1>7

\* The sums of integers are integers.
LEMMA SumsType ==
  ASSUME NEW D, IsFiniteSet(D), NEW w, \A x \in D : w[x] \in Int, NEW g, Sums(g, w, D)
  PROVE  \A s \in SUBSET D : g[s] \in Int
<1> DEFINE bad == {s \in SUBSET D : g[s] \notin Int}
<1> SUFFICES ASSUME bad # {} PROVE FALSE
  OBVIOUS
<1>1. PICK m \in bad : \A r \in SUBSET m : r # m => r \notin bad
  <2>1. bad \in SUBSET SUBSET D
    OBVIOUS
  <2> HIDE DEF bad
  <2> QED BY <2>1, SmallestPart
<1>2. g[m] = (IF m = {} THEN 0 ELSE w[Choice(m)] + g[m \ {Choice(m)}])
  BY DEF Sums
<1>3. m # {} /\ Choice(m) \in m
  BY <1>2, ChoiceIn
<1>4. g[m \ {Choice(m)}] \in Int /\ w[Choice(m)] \in Int
  BY <1>1, <1>3
<1> QED BY <1>2, <1>3, <1>4

\* Any element may be taken out of a sum.
LEMMA SumsRemove ==
  ASSUME NEW D, IsFiniteSet(D), NEW w, \A x \in D : w[x] \in Int, NEW g, Sums(g, w, D),
         NEW y \in D
  PROVE  g[D] = g[D \ {y}] + w[y]
<1> DEFINE bad == {s \in SUBSET D : \E z \in s : g[s] # g[s \ {z}] + w[z]}
<1> SUFFICES ASSUME bad # {} PROVE FALSE
  OBVIOUS
<1>1. PICK m \in bad : \A r \in SUBSET m : r # m => r \notin bad
  <2>1. bad \in SUBSET SUBSET D
    OBVIOUS
  <2> HIDE DEF bad
  <2> QED BY <2>1, SmallestPart
<1>2. PICK z \in m : g[m] # g[m \ {z}] + w[z]
  OBVIOUS
<1> DEFINE x == Choice(m)
<1>3. x \in m /\ m # {}
  BY <1>2, ChoiceIn
<1>4. g[m] = g[m \ {x}] + w[x]
  <2>1. g[m] = w[x] + g[m \ {x}]
    BY <1>3 DEF Sums
  <2>2. w[x] \in Int /\ g[m \ {x}] \in Int
    BY <1>3, SumsType
  <2> QED BY <2>1, <2>2
<1> HIDE DEF x
<1>5. x # z
  BY <1>2, <1>4
<1>6. g[m \ {x}] = g[(m \ {x}) \ {z}] + w[z]
  BY <1>1, <1>2, <1>3, <1>5
<1>7. g[m \ {z}] = g[(m \ {z}) \ {x}] + w[x]
  BY <1>1, <1>2, <1>3, <1>5
<1>8. (m \ {x}) \ {z} = (m \ {z}) \ {x}
  OBVIOUS
<1>9. w[x] \in Int /\ w[z] \in Int /\ g[(m \ {z}) \ {x}] \in Int
  BY <1>2, <1>3, SumsType
<1>10. \A a, b, c, p, q, r \in Int : a = p + b /\ p = r + c /\ q = r + b => a = q + c
  OBVIOUS
<1>11. g[m \ {x}] \in Int /\ g[m \ {z}] \in Int /\ g[m] \in Int
  BY <1>1, SumsType
<1>12. g[m \ {x}] = g[(m \ {z}) \ {x}] + w[z]
  BY <1>6, <1>8
<1>13. g[m] = g[m \ {z}] + w[z]
  BY <1>4, <1>7, <1>9, <1>10, <1>11, <1>12
<1> QED BY <1>2, <1>13

\* SumFunction is the sum of the weights, for every g that gives the sums.
LEMMA SumFunctionIs ==
  ASSUME NEW w, IsFiniteSet(DOMAIN w), NEW g, Sums(g, w, DOMAIN w)
  PROVE  SumFunction(w) = g[DOMAIN w]
<1> DEFINE D == DOMAIN w
           P(f) == f = [s \in SUBSET D |-> IF s = {} THEN 0
                                          ELSE w[CHOOSE x \in s : TRUE] + f[s \ {CHOOSE x \in s : TRUE}]]
           iter == CHOOSE f : P(f)
<1>1. SumFunction(w) = iter[D]
  BY DEF SumFunction, SumFunctionOnSet, FoldFunctionOnSet, MapThenFoldSet
<1>2. \A f : P(f) <=> Sums(f, w, D)
  BY DEF Sums, Choice
<1> HIDE DEF P, D
<1>3. P(iter)
  <2>1. \E f : P(f)
    BY <1>2 DEF D
  <2> QED BY <2>1
<1> HIDE DEF iter
<1>4. Sums(iter, w, D)
  BY <1>2, <1>3
<1>5. iter[D] = g[D]
  BY <1>4, SumsAgree DEF D
<1> QED BY <1>1, <1>5 DEF D

\* The sum of integers is one.
LEMMA SumFunctionType ==
  ASSUME NEW w, IsFiniteSet(DOMAIN w), \A x \in DOMAIN w : w[x] \in Int
  PROVE  SumFunction(w) \in Int
<1>1. PICK g : Sums(g, w, DOMAIN w)
  BY SumsExist
<1> QED BY <1>1, SumFunctionIs, SumsType

\* Nothing to add, no sum.
LEMMA SumFunctionEmpty == ASSUME NEW w, DOMAIN w = {} PROVE SumFunction(w) = 0
<1>1. IsFiniteSet(DOMAIN w)
  BY FS_EmptySet
<1>2. PICK g : Sums(g, w, DOMAIN w)
  BY <1>1, SumsExist
<1>3. g[{}] = 0
  BY <1>2 DEF Sums
<1> QED BY <1>1, <1>2, <1>3, SumFunctionIs

\* A function without one of its arguments.
Without(f, y) == [x \in DOMAIN f \ {y} |-> f[x]]

\* A sum is one weight and the sum of the others.
LEMMA SumFunctionWithout ==
  ASSUME NEW w, IsFiniteSet(DOMAIN w), \A x \in DOMAIN w : w[x] \in Int, NEW y \in DOMAIN w
  PROVE  SumFunction(w) = SumFunction(Without(w, y)) + w[y]
<1> DEFINE v == Without(w, y)
           D == DOMAIN w
           E == DOMAIN v
<1>1. E = D \ {y} /\ IsFiniteSet(E) /\ \A x \in E : v[x] = w[x]
  BY FS_RemoveElement DEF Without
<1> HIDE DEF v
<1>2. PICK g : Sums(g, w, D)
  BY SumsExist
<1>3. PICK h : Sums(h, v, E)
  BY <1>1, SumsExist
<1>4. g[D] = g[E] + w[y]
  BY <1>1, <1>2, SumsRemove
<1>5. h[E] = g[E]
  <2>1. E \in SUBSET E /\ E \in SUBSET D
    BY <1>1
  <2> HIDE DEF D, E
  <2> QED BY <1>1, <1>2, <1>3, <2>1, SumsAgree
<1>6. SumFunction(w) = g[D] /\ SumFunction(v) = h[E]
  BY <1>1, <1>2, <1>3, SumFunctionIs
<1> QED BY <1>4, <1>5, <1>6 DEF v

\* A sum of sums, argument by argument.
LEMMA SumFunctionAdds ==
  ASSUME NEW D, IsFiniteSet(D), NEW u \in [D -> Int], NEW v \in [D -> Int], NEW w \in [D -> Int],
         \A x \in D : w[x] = u[x] + v[x]
  PROVE  SumFunction(w) = SumFunction(u) + SumFunction(v)
<1>1. PICK f : Sums(f, u, D)
  BY SumsExist
<1>2. PICK g : Sums(g, v, D)
  BY SumsExist
<1>3. PICK h : Sums(h, w, D)
  BY SumsExist
<1>4. \A s \in SUBSET D : h[s] = f[s] + g[s]
  <2> DEFINE bad == {s \in SUBSET D : h[s] # f[s] + g[s]}
  <2> SUFFICES ASSUME bad # {} PROVE FALSE
    OBVIOUS
  <2>1. PICK m \in bad : \A r \in SUBSET m : r # m => r \notin bad
    <3>1. bad \in SUBSET SUBSET D
      OBVIOUS
    <3> HIDE DEF bad
    <3> QED BY <3>1, SmallestPart
  <2> DEFINE x == Choice(m)
             r == m \ {x}
  <2>2. /\ f[m] = (IF m = {} THEN 0 ELSE u[x] + f[r])
        /\ g[m] = (IF m = {} THEN 0 ELSE v[x] + g[r])
        /\ h[m] = (IF m = {} THEN 0 ELSE w[x] + h[r])
    BY <1>1, <1>2, <1>3 DEF Sums
  <2>3. m # {} /\ x \in m
    BY <2>2, ChoiceIn
  <2>4. h[r] = f[r] + g[r] /\ r \in SUBSET D
    BY <2>1, <2>3
  <2>5. f[r] \in Int /\ g[r] \in Int
    BY <1>1, <1>2, <2>4, SumsType
  <2>6. u[x] \in Int /\ v[x] \in Int /\ w[x] = u[x] + v[x]
    BY <2>3
  <2>7. h[m] # f[m] + g[m]
    OBVIOUS
  <2> HIDE DEF x, r, bad
  <2> QED BY <2>2, <2>3, <2>4, <2>5, <2>6, <2>7
<1> QED BY <1>1, <1>2, <1>3, <1>4, SumFunctionIs

\* The sum of natural numbers is one.
LEMMA SumFunctionNat ==
  ASSUME NEW D, IsFiniteSet(D), NEW w \in [D -> Nat]
  PROVE  SumFunction(w) \in Nat
<1>1. PICK g : Sums(g, w, D)
  BY SumsExist
<1>2. \A s \in SUBSET D : g[s] \in Nat
  <2> DEFINE bad == {s \in SUBSET D : g[s] \notin Nat}
  <2> SUFFICES ASSUME bad # {} PROVE FALSE
    OBVIOUS
  <2>1. PICK m \in bad : \A r \in SUBSET m : r # m => r \notin bad
    <3>1. bad \in SUBSET SUBSET D
      OBVIOUS
    <3> HIDE DEF bad
    <3> QED BY <3>1, SmallestPart
  <2>2. g[m] = (IF m = {} THEN 0 ELSE w[Choice(m)] + g[m \ {Choice(m)}])
    BY <1>1 DEF Sums
  <2>3. m # {} /\ Choice(m) \in m
    BY <2>2, ChoiceIn
  <2>4. g[m \ {Choice(m)}] \in Nat /\ w[Choice(m)] \in Nat
    BY <2>1, <2>3
  <2> QED BY <2>2, <2>3, <2>4
<1> QED BY <1>1, <1>2, SumFunctionIs

\* What is less everywhere adds up to less.
LEMMA SumFunctionMonotone ==
  ASSUME NEW D, IsFiniteSet(D), NEW u \in [D -> Int], NEW v \in [D -> Int], \A x \in D : u[x] <= v[x]
  PROVE  SumFunction(u) <= SumFunction(v)
<1> DEFINE w == [x \in D |-> v[x] - u[x]]
<1>1. w \in [D -> Nat] /\ w \in [D -> Int] /\ \A x \in D : v[x] = u[x] + w[x]
  OBVIOUS
<1> HIDE DEF w
<1>2. SumFunction(w) \in Nat
  BY <1>1, SumFunctionNat
<1>3. SumFunction(v) = SumFunction(u) + SumFunction(w)
  BY <1>1, SumFunctionAdds
<1>4. SumFunction(u) \in Int
  BY SumFunctionType
<1> QED BY <1>2, <1>3, <1>4

\* One value changes, and the sum as much.
LEMMA SumFunctionChanges ==
  ASSUME NEW D, IsFiniteSet(D), NEW u \in [D -> Int], NEW v \in [D -> Int],
         NEW y \in D, \A x \in D \ {y} : u[x] = v[x]
  PROVE  SumFunction(v) = SumFunction(u) + v[y] - u[y]
<1>1. Without(u, y) = Without(v, y)
  BY DEF Without
<1>2. /\ SumFunction(u) = SumFunction(Without(u, y)) + u[y]
      /\ SumFunction(v) = SumFunction(Without(v, y)) + v[y]
  BY SumFunctionWithout
<1>3. SumFunction(u) \in Int /\ SumFunction(v) \in Int /\ SumFunction(Without(u, y)) \in Int
  <2>1. IsFiniteSet(DOMAIN Without(u, y)) /\ \A x \in DOMAIN Without(u, y) : Without(u, y)[x] \in Int
    BY FS_RemoveElement DEF Without
  <2>2. SumFunction(Without(u, y)) \in Int
    BY <2>1, SumFunctionType
  <2> QED BY <2>2, SumFunctionType
<1> QED BY <1>1, <1>2, <1>3
=============================================================================
