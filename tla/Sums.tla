-------------------------------- MODULE Sums --------------------------------
(***************************************************************************)
(* Sums over finite sets: what MapThenSumSet, with which the models count  *)
(* units and add up balances, computes for every set.  The induction over  *)
(* finite sets is taken from the well-foundedness of their strict subsets, *)
(* as the choice of a smallest counterexample.                             *)
(***************************************************************************)
EXTENDS Integers, FiniteSetsExt, FiniteSetTheorems, WellFoundedInduction, TLAPS

(* The sum of f[x] over x in S.                                            *)
SumOver(f, S) == MapThenSumSet(LAMBDA x : f[x], S)

(* The element the sum over s takes first.                                 *)
Pick(s) == CHOOSE x \in s : TRUE

(* g is the table of the sums over all subsets of S.                       *)
Adds(g, f, S) ==
  g = [s \in SUBSET S |-> IF s = {} THEN 0 ELSE f[Pick(s)] + g[s \ {Pick(s)}]]
-----------------------------------------------------------------------------
(* The sum over S is an entry of a table chosen for S.                     *)
LEMMA SumDef ==
  ASSUME NEW f, NEW S
  PROVE  SumOver(f, S) = (CHOOSE g : Adds(g, f, S))[S]
BY DEF SumOver, MapThenSumSet, MapThenFoldSet, Adds, Pick

(* A family of subsets of a finite set has a smallest member.              *)
LEMMA SmallestSubset ==
  ASSUME NEW S, IsFiniteSet(S), NEW F \in SUBSET (SUBSET S), F # {}
  PROVE  \E X \in F : \A Y \in F : Y \subseteq X => Y = X
<1>1. IsWellFoundedOn(StrictSubsetOrdering(S), FiniteSubsetsOf(S))
  BY FS_StrictSubsetOrderingWellFounded
<1>2. F \subseteq FiniteSubsetsOf(S)
  BY FS_FiniteSubsetsOfFinite
<1>3. PICK X \in F : \A Y \in F : ~(<<Y, X>> \in StrictSubsetOrdering(S))
  BY <1>1, <1>2, WFMin
<1> QED BY <1>3 DEF StrictSubsetOrdering

(* Tables for two finite sets agree on the subsets of both.                *)
LEMMA TablesAgree ==
  ASSUME NEW f, NEW S, NEW T, IsFiniteSet(S),
         NEW g, Adds(g, f, S), NEW h, Adds(h, f, T), NEW U \in SUBSET S, U \subseteq T
  PROVE  g[U] = h[U]
<1> DEFINE F == {s \in SUBSET S : s \subseteq T /\ g[s] # h[s]}
<1> SUFFICES ASSUME F # {} PROVE FALSE
  OBVIOUS
<1>1. PICK X \in F : \A Y \in F : Y \subseteq X => Y = X
  <2>1. F \in SUBSET (SUBSET S)
    OBVIOUS
  <2> HIDE DEF F
  <2> QED BY <2>1, SmallestSubset
<1>2. X \in SUBSET S /\ X \in SUBSET T /\ g[X] # h[X]
  BY <1>1
<1>3. CASE X = {}
  BY <1>2, <1>3 DEF Adds
<1>4. CASE X # {}
  <2> DEFINE Y == X \ {Pick(X)}
  <2>1. Pick(X) \in X
    BY <1>4 DEF Pick
  <2>2. g[Y] = h[Y]
    BY <1>1, <1>2, <2>1
  <2>3. g[X] = f[Pick(X)] + g[Y]
    BY <1>2, <1>4 DEF Adds
  <2>4. h[X] = f[Pick(X)] + h[Y]
    BY <1>2, <1>4 DEF Adds
  <2> QED BY <1>2, <2>2, <2>3, <2>4
<1> QED BY <1>3, <1>4

(* Every finite set has a table.                                           *)
LEMMA TableExists ==
  ASSUME NEW f, NEW S, IsFiniteSet(S)
  PROVE  \E g : Adds(g, f, S)
<1> DEFINE F == {s \in SUBSET S : ~\E g : Adds(g, f, s)}
<1> SUFFICES ASSUME F # {} PROVE FALSE
  OBVIOUS
<1>1. PICK X \in F : \A Y \in F : Y \subseteq X => Y = X
  <2>1. F \in SUBSET (SUBSET S)
    OBVIOUS
  <2> HIDE DEF F
  <2> QED BY <2>1, SmallestSubset
<1> DEFINE Table(s) == CHOOSE g : Adds(g, f, s)
           Last(s) == s \ {Pick(s)}
           g == [s \in SUBSET X |-> IF s = {} THEN 0 ELSE f[Pick(s)] + Table(Last(s))[Last(s)]]
<1>2. \A s \in SUBSET X : s # X => Adds(Table(s), f, s)
  BY <1>1
<1>3. \A s \in SUBSET X : s # {} => Last(s) \in SUBSET X /\ Last(s) # X /\ Last(s) # s
  BY DEF Pick
<1>4. ASSUME NEW s \in SUBSET X, s # {}
      PROVE  g[Last(s)] = Table(Last(s))[Last(s)]
  <2> DEFINE t == Last(s)
  <2>1. t \in SUBSET X /\ Adds(Table(t), f, t)
    BY <1>2, <1>3, <1>4
  <2>2. CASE t = {}
    BY <2>1, <2>2 DEF Adds
  <2>3. CASE t # {}
    <3>1. Last(t) \in SUBSET t /\ Last(t) \in SUBSET X /\ Last(t) # X
      BY <1>3, <2>1, <2>3
    <3>2. Adds(Table(Last(t)), f, Last(t))
      BY <1>2, <3>1
    <3>3. IsFiniteSet(t)
      BY <1>1, <2>1, FS_Subset
    <3>4. Table(t)[Last(t)] = Table(Last(t))[Last(t)]
      BY <2>1, <3>1, <3>2, <3>3, TablesAgree
    <3>5. Table(t)[t] = f[Pick(t)] + Table(t)[Last(t)]
      BY <2>1, <2>3 DEF Adds
    <3>6. g[t] = f[Pick(t)] + Table(Last(t))[Last(t)]
      BY <2>1, <2>3
    <3> QED BY <3>4, <3>5, <3>6
  <2> QED BY <2>2, <2>3
<1>5. ASSUME NEW s \in SUBSET X
      PROVE  g[s] = IF s = {} THEN 0 ELSE f[Pick(s)] + g[Last(s)]
  <2>1. g[s] = IF s = {} THEN 0 ELSE f[Pick(s)] + Table(Last(s))[Last(s)]
    OBVIOUS
  <2>2. s # {} => g[Last(s)] = Table(Last(s))[Last(s)]
    BY <1>4
  <2> HIDE DEF g, Table, Last
  <2> QED BY <2>1, <2>2
<1>6. g = [s \in SUBSET X |-> g[s]]
  OBVIOUS
<1> HIDE DEF g
<1>7. Adds(g, f, X)
  BY <1>5, <1>6 DEF Adds
<1> QED BY <1>1, <1>7
-----------------------------------------------------------------------------
(* The sum over nothing is 0.                                              *)
THEOREM SumEmpty ==
  ASSUME NEW f
  PROVE  SumOver(f, {}) = 0
<1>1. Adds(CHOOSE g : Adds(g, f, {}), f, {})
  BY TableExists, FS_EmptySet
<1> QED BY <1>1, SumDef DEF Adds

(* The sum over a set is its first element and the sum over the others.    *)
LEMMA SumFirst ==
  ASSUME NEW f, NEW S, IsFiniteSet(S), S # {}
  PROVE  /\ Pick(S) \in S
         /\ SumOver(f, S) = f[Pick(S)] + SumOver(f, S \ {Pick(S)})
<1> DEFINE T == S \ {Pick(S)}
           g == CHOOSE g : Adds(g, f, S)
           h == CHOOSE h : Adds(h, f, T)
<1>1. Adds(g, f, S)
  BY TableExists
<1>2. IsFiniteSet(T)
  BY FS_RemoveElement
<1>3. Adds(h, f, T)
  BY <1>2, TableExists
<1>4. g[T] = h[T]
  <2>1. T \in SUBSET S
    OBVIOUS
  <2> HIDE DEF T, g, h
  <2> QED BY <1>1, <1>3, <2>1, TablesAgree
<1>5. g[S] = f[Pick(S)] + g[T]
  BY <1>1 DEF Adds
<1>6. SumOver(f, S) = g[S] /\ SumOver(f, T) = h[T]
  BY SumDef
<1>7. Pick(S) \in S
  BY DEF Pick
<1> QED BY <1>4, <1>5, <1>6, <1>7
-----------------------------------------------------------------------------
(* One more element adds its own value.                                    *)
THEOREM SumAdd ==
  ASSUME NEW S, IsFiniteSet(S), NEW x, x \notin S,
         NEW f, \A y \in S \cup {x} : f[y] \in Int
  PROVE  /\ SumOver(f, S) \in Int
         /\ SumOver(f, S \cup {x}) = f[x] + SumOver(f, S)
<1> DEFINE V == S \cup {x}
           F == {T \in SUBSET V : ~(/\ SumOver(f, T) \in Int
                                    /\ \A y \in V \ T :
                                         SumOver(f, T \cup {y}) = f[y] + SumOver(f, T))}
<1> SUFFICES ASSUME F # {} PROVE FALSE
  OBVIOUS
<1>0. IsFiniteSet(V) /\ F \in SUBSET (SUBSET V)
  BY FS_AddElement
<1>1. PICK X \in F : \A Y \in F : Y \subseteq X => Y = X
  <2> HIDE DEF F, V
  <2> QED BY <1>0, SmallestSubset
<1>2. \A T \in SUBSET X : T # X =>
        /\ SumOver(f, T) \in Int
        /\ \A y \in V \ T : SumOver(f, T \cup {y}) = f[y] + SumOver(f, T)
  BY <1>1
<1>3. X \in SUBSET V /\ IsFiniteSet(X)
  BY <1>0, <1>1, FS_Subset
<1>4. SumOver(f, X) \in Int
  <2>1. CASE X = {}
    BY <2>1, SumEmpty
  <2>2. CASE X # {}
    <3>1. Pick(X) \in X /\ SumOver(f, X) = f[Pick(X)] + SumOver(f, X \ {Pick(X)})
      BY <1>3, <2>2, SumFirst
    <3>2. SumOver(f, X \ {Pick(X)}) \in Int
      BY <1>2, <3>1
    <3> QED BY <1>3, <3>1, <3>2
  <2> QED BY <2>1, <2>2
<1>5. ASSUME NEW y \in V \ X
      PROVE  SumOver(f, X \cup {y}) = f[y] + SumOver(f, X)
  <2> DEFINE W == X \cup {y}
             c == Pick(W)
  <2>1. IsFiniteSet(W) /\ W # {}
    BY <1>3, FS_AddElement
  <2>2. c \in W /\ SumOver(f, W) = f[c] + SumOver(f, W \ {c})
    BY <2>1, SumFirst
  <2>3. CASE c = y
    BY <2>2, <2>3, W \ {y} = X
  <2>4. CASE c # y
    <3> DEFINE Y == X \ {c}
    <3>1. c \in X /\ Y \in SUBSET X /\ Y # X /\ W \ {c} = Y \cup {y} /\ X = Y \cup {c}
      BY <2>2, <2>4, <1>5
    <3>2. SumOver(f, Y) \in Int
      BY <1>2, <3>1
    <3>3. SumOver(f, Y \cup {y}) = f[y] + SumOver(f, Y)
      BY <1>2, <3>1, <1>5
    <3>4. SumOver(f, Y \cup {c}) = f[c] + SumOver(f, Y)
      BY <1>2, <3>1, <1>3
    <3>5. f[c] \in Int /\ f[y] \in Int
      BY <1>3, <3>1, <1>5
    <3>6. SumOver(f, W) = f[c] + (f[y] + SumOver(f, Y))
      BY <2>2, <3>1, <3>3
    <3>7. SumOver(f, X) = f[c] + SumOver(f, Y)
      BY <3>1, <3>4
    <3>8. f[c] + (f[y] + SumOver(f, Y)) = f[y] + (f[c] + SumOver(f, Y))
      BY <3>2, <3>5
    <3> QED BY <3>6, <3>7, <3>8
  <2> QED BY <2>3, <2>4
<1> QED BY <1>1, <1>4, <1>5

(* A sum of integers is an integer, a sum of natural numbers natural and   *)
(* at least as large as each of them.                                      *)
THEOREM SumType ==
  ASSUME NEW S, IsFiniteSet(S), NEW f, \A y \in S : f[y] \in Int
  PROVE  /\ SumOver(f, S) \in Int
         /\ (\A y \in S : f[y] \in Nat) => SumOver(f, S) \in Nat
<1>1. SumOver(f, S) \in Int
  <2>1. CASE S = {}
    BY <2>1, SumEmpty
  <2>2. CASE S # {}
    <3>1. PICK x \in S : TRUE
      BY <2>2
    <3> DEFINE T == S \ {x}
    <3>2. IsFiniteSet(T) /\ x \notin T /\ S = T \cup {x}
      BY <3>1, FS_RemoveElement
    <3> HIDE DEF T
    <3>3. SumOver(f, T) \in Int /\ SumOver(f, T \cup {x}) = f[x] + SumOver(f, T)
      BY <3>2, SumAdd
    <3> QED BY <3>2, <3>3
  <2> QED BY <2>1, <2>2
<1>2. ASSUME \A y \in S : f[y] \in Nat
      PROVE  SumOver(f, S) \in Nat
  <2> DEFINE F == {T \in SUBSET S : SumOver(f, T) \notin Nat}
  <2> SUFFICES ASSUME F # {} PROVE FALSE
    OBVIOUS
  <2>1. PICK X \in F : \A Y \in F : Y \subseteq X => Y = X
    <3>1. F \in SUBSET (SUBSET S)
      OBVIOUS
    <3> HIDE DEF F
    <3> QED BY <3>1, SmallestSubset
  <2>2. X # {}
    <3>1. SumOver(f, {}) \in Nat
      BY SumEmpty
    <3> QED BY <2>1, <3>1
  <2>3. IsFiniteSet(X)
    BY <2>1, FS_Subset
  <2>4. Pick(X) \in X /\ SumOver(f, X) = f[Pick(X)] + SumOver(f, X \ {Pick(X)})
    BY <2>2, <2>3, SumFirst
  <2>5. SumOver(f, X \ {Pick(X)}) \in Nat
    BY <2>1, <2>4
  <2>6. f[Pick(X)] \in Nat
    BY <1>2, <2>1, <2>4
  <2>7. SumOver(f, X) \in Nat
    BY <2>4, <2>5, <2>6
  <2> QED BY <2>1, <2>7
<1> QED BY <1>1, <1>2

(* A sum depends on the values at the elements only.                       *)
THEOREM SumEqual ==
  ASSUME NEW S, IsFiniteSet(S), NEW f, NEW g, \A x \in S : f[x] = g[x]
  PROVE  SumOver(f, S) = SumOver(g, S)
<1> DEFINE F == {T \in SUBSET S : SumOver(f, T) # SumOver(g, T)}
<1> SUFFICES ASSUME F # {} PROVE FALSE
  OBVIOUS
<1>1. PICK X \in F : \A Y \in F : Y \subseteq X => Y = X
  <2>1. F \in SUBSET (SUBSET S)
    OBVIOUS
  <2> HIDE DEF F
  <2> QED BY <2>1, SmallestSubset
<1>2. X # {}
  BY <1>1, SumEmpty
<1>3. IsFiniteSet(X)
  BY <1>1, FS_Subset
<1>4. /\ Pick(X) \in X
      /\ SumOver(f, X) = f[Pick(X)] + SumOver(f, X \ {Pick(X)})
      /\ SumOver(g, X) = g[Pick(X)] + SumOver(g, X \ {Pick(X)})
  BY <1>2, <1>3, SumFirst
<1>5. SumOver(f, X \ {Pick(X)}) = SumOver(g, X \ {Pick(X)})
  BY <1>1, <1>4
<1> QED BY <1>1, <1>4, <1>5

(* The sum over two sets without a common element.                         *)
THEOREM SumUnion ==
  ASSUME NEW S, IsFiniteSet(S), NEW T, IsFiniteSet(T), S \cap T = {},
         NEW f, \A x \in S \cup T : f[x] \in Int
  PROVE  SumOver(f, S \cup T) = SumOver(f, S) + SumOver(f, T)
<1> DEFINE F == {U \in SUBSET T : SumOver(f, S \cup U) # SumOver(f, S) + SumOver(f, U)}
<1> SUFFICES ASSUME F # {} PROVE FALSE
  OBVIOUS
<1>1. PICK X \in F : \A Y \in F : Y \subseteq X => Y = X
  <2>1. F \in SUBSET (SUBSET T)
    OBVIOUS
  <2> HIDE DEF F
  <2> QED BY <2>1, SmallestSubset
<1>2. SumOver(f, S) \in Int
  BY SumType
<1>3. CASE X = {}
  <2>1. S \cup X = S
    BY <1>3
  <2> QED BY <1>1, <1>2, <1>3, <2>1, SumEmpty
<1>4. CASE X # {}
  <2>1. PICK x \in X : TRUE
    BY <1>4
  <2> DEFINE Y == X \ {x}
             Z == S \cup Y
  <2>2. /\ IsFiniteSet(X) /\ Y \in SUBSET T /\ Y # X /\ X \in SUBSET T
        /\ x \notin Y /\ X = Y \cup {x}
        /\ x \notin Z /\ S \cup X = Z \cup {x}
    BY <1>1, <2>1, FS_Subset
  <2>3. IsFiniteSet(Y) /\ IsFiniteSet(Z)
    BY <2>2, FS_Subset, FS_Union
  <2>4. SumOver(f, Z) = SumOver(f, S) + SumOver(f, Y)
    BY <1>1, <2>2
  <2>5. f[x] \in Int /\ \A y \in Z \cup {x} : f[y] \in Int
    BY <2>2
  <2> HIDE DEF Y, Z
  <2>6. SumOver(f, Z \cup {x}) = f[x] + SumOver(f, Z)
    BY <2>2, <2>3, <2>5, SumAdd
  <2>7. SumOver(f, Y) \in Int /\ SumOver(f, Y \cup {x}) = f[x] + SumOver(f, Y)
    BY <2>2, <2>3, SumAdd
  <2>8. SumOver(f, S \cup X) = f[x] + (SumOver(f, S) + SumOver(f, Y))
    BY <2>2, <2>4, <2>6
  <2>9. SumOver(f, X) = f[x] + SumOver(f, Y)
    BY <2>2, <2>7
  <2>10. SumOver(f, S \cup X) = SumOver(f, S) + SumOver(f, X)
    BY <1>2, <2>5, <2>7, <2>8, <2>9
  <2> QED BY <1>1, <2>10
<1> QED BY <1>3, <1>4

(* One value of a table is exchanged.                                      *)
THEOREM SumChange ==
  ASSUME NEW S, IsFiniteSet(S), NEW x \in S,
         NEW f, \A y \in S : f[y] \in Int,
         NEW g, g[x] \in Int, \A y \in S \ {x} : g[y] = f[y]
  PROVE  SumOver(g, S) = SumOver(f, S) - f[x] + g[x]
<1> DEFINE T == S \ {x}
<1>1. IsFiniteSet(T) /\ x \notin T /\ S = T \cup {x}
  BY FS_RemoveElement
<1>2. \A y \in T : f[y] \in Int /\ g[y] = f[y]
  OBVIOUS
<1> HIDE DEF T
<1>3. SumOver(f, T) \in Int /\ SumOver(f, T \cup {x}) = f[x] + SumOver(f, T)
  BY <1>1, <1>2, SumAdd
<1>4. SumOver(g, T \cup {x}) = g[x] + SumOver(g, T)
  BY <1>1, <1>2, SumAdd
<1>5. SumOver(f, T) = SumOver(g, T)
  BY <1>1, <1>2, SumEqual
<1>6. f[x] \in Int
  OBVIOUS
<1> QED BY <1>1, <1>3, <1>4, <1>5, <1>6

(* A sum of nothing but zeros.                                             *)
THEOREM SumZero ==
  ASSUME NEW S, IsFiniteSet(S), NEW f, \A x \in S : f[x] = 0
  PROVE  SumOver(f, S) = 0
<1> DEFINE F == {T \in SUBSET S : SumOver(f, T) # 0}
<1> SUFFICES ASSUME F # {} PROVE FALSE
  OBVIOUS
<1>1. PICK X \in F : \A Y \in F : Y \subseteq X => Y = X
  <2>1. F \in SUBSET (SUBSET S)
    OBVIOUS
  <2> HIDE DEF F
  <2> QED BY <2>1, SmallestSubset
<1>2. X # {}
  BY <1>1, SumEmpty
<1>3. IsFiniteSet(X)
  BY <1>1, FS_Subset
<1>4. Pick(X) \in X /\ SumOver(f, X) = f[Pick(X)] + SumOver(f, X \ {Pick(X)})
  BY <1>2, <1>3, SumFirst
<1>5. SumOver(f, X \ {Pick(X)}) = 0
  BY <1>1, <1>4
<1>6. f[Pick(X)] = 0
  BY <1>1, <1>4
<1> QED BY <1>1, <1>4, <1>5, <1>6
=============================================================================
