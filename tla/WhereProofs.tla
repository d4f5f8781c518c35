---------------------------- MODULE WhereProofs ----------------------------
(***************************************************************************)
(* The trees of WHERE clauses, for every tree, table and row: exactly the  *)
(* predicates of the reference are accepted, the ordinals of a bound tree  *)
(* are columns, and it has the truth value of the reference on every row   *)
(* that fits the columns.                                                  *)
(*                                                                         *)
(* Every function on trees is made of what it does at a leaf and of how it *)
(* combines the values of two operands.  That is enough to show, once for  *)
(* all of them, that the recursion defines a function, and that the value  *)
(* at a tree does not depend on the larger tree it was found in; a fact    *)
(* about all trees is then proved by induction on their height.            *)
(***************************************************************************)
EXTENDS Where, TLAPS, WellFoundedInduction

-----------------------------------------------------------------------------
(* Recursion on trees.                                                     *)

(* A set of naturals with 0 and all successors is Nat.                     *)
LEMMA NaturalsAreAll ==
    ASSUME NEW T \in SUBSET Nat, 0 \in T, \A k \in T : k + 1 \in T
    PROVE  T = Nat
<1> DEFINE Less == {pair \in Nat \X Nat : pair[1] < pair[2]}
<1>1. SUFFICES ASSUME Nat \ T # {} PROVE FALSE
    OBVIOUS
<1>2. IsWellFoundedOn(Less, Nat)
    BY NatLessThanWellFounded DEF OpToRel
<1>3. PICK x \in Nat \ T : \A y \in Nat \ T : <<y, x>> \notin Less
    <2> HIDE DEF Less
    <2>1. QED BY <1>1, <1>2, WFMin
<1>4. \A y \in Nat \ T : ~(y < x)
    BY <1>3
<1>5. x - 1 \in T
    BY <1>3, <1>4
<1>6. QED BY <1>3, <1>5

Inner(e) == e.kind \notin Leaves

(* The value of each recursive function at an inner node, from the values  *)
(* of its operands, and at a leaf.                                         *)
AtNode(which, e, left, right, c) ==
    IF which = "bind" THEN BindBinary(e.op, left, right)
    ELSE IF which = "predicate"
    THEN IF e.kind = "Comparison" THEN BothOk(ValidateOperand(e.left), ValidateOperand(e.right))
         ELSE IF e.kind \in Logical THEN BothOk(left, right) ELSE NotAPredicate
    ELSE IF which = "evaluate"
    THEN IF e.kind = "Comparison" THEN EvaluateComparison(e, c.row)
         ELSE IF e.kind \in Logical THEN EvaluateLogical(e.kind, left, right)
         ELSE [status |-> NotAPredicate, truth |-> FALSE]
    ELSE IF which = "isPredicate"
    THEN /\ e.kind = "Binary"
         /\ IF e.op \in Logical THEN left /\ right
            ELSE /\ IsLeaf(e.left, c.columns) /\ IsLeaf(e.right, c.columns)
                 /\ LeafType(e.left, c.columns) = LeafType(e.right, c.columns)
                 /\ e.op \in OrderingOperators => LeafType(e.left, c.columns) = "Int"
    ELSE /\ e.kind = "Binary"
         /\ IF e.op = "And" THEN left /\ right
            ELSE IF e.op = "Or" THEN left \/ right
            ELSE Compares(e.op, LeafData(e.left, c.columns, c.row), LeafData(e.right, c.columns, c.row))

AtLeaf(which, e, c) ==
    IF which = "bind" THEN BindLeaf(e, c.columns)
    ELSE IF which = "predicate" THEN NotAPredicate
    ELSE IF which = "evaluate" THEN [status |-> NotAPredicate, truth |-> FALSE]
    ELSE FALSE

(* The columns and the row that a function is about.                       *)
About(columns, r) == [columns |-> columns, row |-> r]

Step(which, f, e, r) ==
    IF Inner(e) THEN AtNode(which, e, f[e.left], f[e.right], r) ELSE AtLeaf(which, e, r)

Recurs(which, f, D, r) == f = [e \in D |-> Step(which, f, e, r)]

(* The trees of D by level: the operands of a tree are one level below it. *)
Leveled(level, D) ==
    /\ level[0] = {} /\ D = UNION {level[n] : n \in Nat}
    /\ \A n \in Nat :
        /\ level[n] \subseteq level[n + 1]
        /\ \A e \in level[n + 1] : Inner(e) => e.left \in level[n] /\ e.right \in level[n]

Recur(which, G, level, r) == \A n \in Nat : Recurs(which, G[n], level[n], r)

(* A step reads the values of the operands only.                           *)
LEMMA StepIsLocal ==
    ASSUME NEW which, NEW f, NEW g, NEW e, NEW r,
           Inner(e) => f[e.left] = g[e.left] /\ f[e.right] = g[e.right]
    PROVE  Step(which, f, e, r) = Step(which, g, e, r)
<1>1. CASE Inner(e)
    <2>1. f[e.left] = g[e.left] /\ f[e.right] = g[e.right]
        BY <1>1
    <2>2. QED BY <1>1, <2>1, Zenon DEF Step
<1>2. CASE ~Inner(e)
    BY <1>2, Zenon DEF Step
<1>3. QED BY <1>1, <1>2

LEMMA RecursAt ==
    ASSUME NEW which, NEW f, NEW D, NEW r, Recurs(which, f, D, r), NEW e \in D
    PROVE  f[e] = Step(which, f, e, r)
BY Zenon DEF Recurs

(* Every level has the operands of its trees.                              *)
LEMMA LevelsAreClosed ==
    ASSUME NEW level, NEW D, Leveled(level, D), NEW n \in Nat, NEW e \in level[n], Inner(e)
    PROVE  e.left \in level[n] /\ e.right \in level[n]
<1>1. n # 0
    BY DEF Leveled
<1> DEFINE k == n - 1
<1>2. k \in Nat /\ n = k + 1
    BY <1>1
<1> HIDE DEF k
<1>3. level[k] \subseteq level[k + 1] /\ e.left \in level[k] /\ e.right \in level[k]
    BY <1>2 DEF Leveled
<1>4. QED BY <1>2, <1>3

(* The recursion defines a function on each level.                         *)
LEMMA LevelRecursionExists ==
    ASSUME NEW which, NEW r, NEW D, NEW level, Leveled(level, D)
    PROVE  \A n \in Nat : \E f : Recurs(which, f, level[n], r)
<1> DEFINE T == {n \in Nat : \E f : Recurs(which, f, level[n], r)}
<1>1. 0 \in T
    <2>1. level[0] = {}
        BY DEF Leveled
    <2>2. Recurs(which, [e \in {} |-> e], level[0], r)
        BY <2>1 DEF Recurs
    <2>3. QED BY <2>2
<1>2. ASSUME NEW n \in T
      PROVE  n + 1 \in T
    <2>1. n \in Nat
        OBVIOUS
    <2>2. PICK f : Recurs(which, f, level[n], r)
        OBVIOUS
    <2> DEFINE g == [e \in level[n + 1] |-> Step(which, f, e, r)]
    <2>3. \A e \in level[n] : f[e] = Step(which, f, e, r)
        BY <2>2, Zenon DEF Recurs
    <2>4. level[n] \subseteq level[n + 1]
        BY <2>1 DEF Leveled
    <2>5. \A e \in level[n] : g[e] = f[e]
        BY <2>3, <2>4, Zenon
    <2>6. ASSUME NEW e \in level[n + 1]
          PROVE  Step(which, f, e, r) = Step(which, g, e, r)
        <3>1. Inner(e) => e.left \in level[n] /\ e.right \in level[n]
            BY <2>1 DEF Leveled
        <3>2. Inner(e) => f[e.left] = g[e.left] /\ f[e.right] = g[e.right]
            BY <2>5, <3>1, Zenon
        <3> HIDE DEF g
        <3>3. QED BY <3>2, StepIsLocal
    <2>7. Recurs(which, g, level[n + 1], r)
        <3>1. g = [e \in level[n + 1] |-> g[e]] /\ \A e \in level[n + 1] : g[e] = Step(which, f, e, r)
            BY Zenon
        <3> HIDE DEF g
        <3>2. \A e \in level[n + 1] : g[e] = Step(which, g, e, r)
            BY <2>6, <3>1, Zenon
        <3>3. QED BY <3>1, <3>2, Zenon DEF Recurs
    <2>8. n + 1 \in Nat
        BY <2>1
    <2>9. QED BY <2>7, <2>8
<1>3. T \in SUBSET Nat
    OBVIOUS
<1> HIDE DEF T
<1>4. T = Nat
    BY <1>1, <1>2, <1>3, NaturalsAreAll
<1>5. QED BY <1>4 DEF T

(* The functions of the levels agree with each other.                      *)
LEMMA LevelsAgree ==
    ASSUME NEW which, NEW r, NEW D, NEW level, Leveled(level, D), NEW G,
           Recur(which, G, level, r)
    PROVE  \A n, k \in Nat : \A e \in level[n] : e \in level[k] => G[n][e] = G[k][e]
<1> DEFINE T == {m \in Nat : \A n, k \in Nat : \A e \in level[m] :
                    e \in level[n] /\ e \in level[k] => G[n][e] = G[k][e]}
<1>1. 0 \in T
    BY DEF Leveled
<1>2. ASSUME NEW m \in T
      PROVE  m + 1 \in T
    <2>1. m \in Nat
        OBVIOUS
    <2>2. ASSUME NEW n \in Nat, NEW k \in Nat, NEW e \in level[m + 1],
                 e \in level[n], e \in level[k]
          PROVE  G[n][e] = G[k][e]
        <3>1. ASSUME Inner(e)
              PROVE  G[n][e.left] = G[k][e.left] /\ G[n][e.right] = G[k][e.right]
            <4>1. e.left \in level[m] /\ e.right \in level[m]
                BY <2>1, <3>1 DEF Leveled
            <4>2. e.left \in level[n] /\ e.right \in level[n]
                BY <2>2, <3>1, LevelsAreClosed
            <4>3. e.left \in level[k] /\ e.right \in level[k]
                BY <2>2, <3>1, LevelsAreClosed
            <4>4. QED BY <4>1, <4>2, <4>3
        <3>2. Step(which, G[n], e, r) = Step(which, G[k], e, r)
            BY <3>1, StepIsLocal
        <3>3. \A i \in Nat : e \in level[i] => G[i][e] = Step(which, G[i], e, r)
            BY RecursAt DEF Recur
        <3>4. QED BY <2>2, <3>2, <3>3, Zenon
    <2>3. m + 1 \in Nat
        BY <2>1
    <2>4. QED BY <2>2, <2>3
<1>3. T \in SUBSET Nat
    OBVIOUS
<1>4. T = Nat
    <2> HIDE DEF T
    <2>1. QED BY <1>1, <1>2, <1>3, NaturalsAreAll
<1>5. QED BY <1>4

(* The recursion defines a function on all trees.                          *)
LEMMA RecursionExists ==
    ASSUME NEW which, NEW r, NEW D, NEW level, Leveled(level, D)
    PROVE  \E f : Recurs(which, f, D, r)
<1> DEFINE G == [n \in Nat |-> CHOOSE f : Recurs(which, f, level[n], r)]
           Level(e) == CHOOSE n \in Nat : e \in level[n]
           f == [e \in D |-> G[Level(e)][e]]
<1>1. Recur(which, G, level, r)
    BY LevelRecursionExists, Zenon DEF Recur
<1> HIDE DEF G
<1>2. \A n, k \in Nat : \A e \in level[n] : e \in level[k] => G[n][e] = G[k][e]
    BY <1>1, LevelsAgree
<1>3. \A e \in D : Level(e) \in Nat /\ e \in level[Level(e)]
    BY DEF Leveled
<1> HIDE DEF Level
<1>4. \A n \in Nat : \A e \in level[n] : e \in D
    BY DEF Leveled
<1>5. \A n \in Nat : \A e \in level[n] : f[e] = G[n][e]
    BY <1>2, <1>3, <1>4, Zenon
<1>6. f = [e \in D |-> f[e]]
    BY Zenon
<1> HIDE DEF f
<1>7. ASSUME NEW e \in D
      PROVE  f[e] = Step(which, f, e, r)
    <2> DEFINE n == Level(e)
    <2>1. n \in Nat /\ e \in level[n]
        BY <1>3
    <2> HIDE DEF n
    <2>2. f[e] = Step(which, G[n], e, r)
        <3>1. G[n][e] = Step(which, G[n], e, r)
            BY <1>1, <2>1, RecursAt DEF Recur
        <3>2. QED BY <1>5, <2>1, <3>1, Zenon
    <2>3. ASSUME Inner(e)
          PROVE  G[n][e.left] = f[e.left] /\ G[n][e.right] = f[e.right]
        <3>1. e.left \in level[n] /\ e.right \in level[n]
            BY <2>1, <2>3, LevelsAreClosed
        <3>2. QED BY <1>5, <2>1, <3>1, Zenon
    <2>4. Step(which, G[n], e, r) = Step(which, f, e, r)
        BY <2>3, StepIsLocal
    <2>5. QED BY <2>2, <2>4
<1>8. Recurs(which, f, D, r)
    BY <1>6, <1>7, Zenon DEF Recurs
<1>9. QED BY <1>8

-----------------------------------------------------------------------------
(* Trees and the sets of trees that have the operands of their elements.   *)

Lowers(e) ==
    /\ Height(e) \in Nat
    /\ Inner(e) => /\ Height(e.left) \in Nat /\ Height(e.left) < Height(e)
                   /\ Height(e.right) \in Nat /\ Height(e.right) < Height(e)
Hereditary(D) == \A e \in D : Lowers(e) /\ (Inner(e) => e.left \in D /\ e.right \in D)
Grounded(e) == Height(e) \in Nat /\ \A t \in Subtrees(e) : Lowers(t)

Levels(D) == [n \in Nat |-> {e \in D : Height(e) < n}]

LEMMA OperandsOf ==
    ASSUME NEW e
    PROVE  Operands(e) = IF Inner(e) THEN {e.left, e.right} ELSE {}
BY DEF Operands, Inner

LEMMA HereditaryIsLeveled ==
    ASSUME NEW D, Hereditary(D)
    PROVE  Leveled(Levels(D), D)
<1>1. ASSUME NEW e \in D
      PROVE  /\ Height(e) \in Nat
             /\ Inner(e) => /\ e.left \in D /\ e.right \in D
                            /\ Height(e.left) \in Nat /\ Height(e.left) < Height(e)
                            /\ Height(e.right) \in Nat /\ Height(e.right) < Height(e)
    BY DEF Hereditary, Lowers
<1>2. Levels(D)[0] = {}
    <2>1. \A e \in D : ~(Height(e) < 0)
        BY <1>1
    <2>2. QED BY <2>1 DEF Levels
<1>3. ASSUME NEW n \in Nat, NEW e \in D
      PROVE  /\ Height(e) < n => Height(e) < n + 1
             /\ Height(e) < n + 1 /\ Inner(e) => Height(e.left) < n /\ Height(e.right) < n
    BY <1>1
<1>4. ASSUME NEW n \in Nat
      PROVE  /\ Levels(D)[n] = {e \in D : Height(e) < n}
             /\ Levels(D)[n + 1] = {e \in D : Height(e) < n + 1}
    BY DEF Levels
<1>5. \A n \in Nat : Levels(D)[n] \subseteq Levels(D)[n + 1]
    BY <1>3, <1>4
<1>6. \A n \in Nat : \A e \in Levels(D)[n + 1] :
          Inner(e) => e.left \in Levels(D)[n] /\ e.right \in Levels(D)[n]
    BY <1>1, <1>3, <1>4
<1>7. D = UNION {Levels(D)[n] : n \in Nat}
    <2>1. ASSUME NEW e \in D
          PROVE  \E n \in Nat : e \in Levels(D)[n]
        <3> DEFINE n == Height(e) + 1
        <3>1. n \in Nat /\ Height(e) < n
            BY <1>1
        <3> HIDE DEF n
        <3>2. QED BY <1>4, <3>1
    <2>2. QED BY <1>4, <2>1
<1>8. QED BY <1>2, <1>5, <1>6, <1>7 DEF Leveled

(* Induction on trees.                                                     *)
LEMMA TreeInduction ==
    ASSUME NEW D, Hereditary(D), NEW good,
           \A e \in D : (Inner(e) => e.left \in good /\ e.right \in good) => e \in good
    PROVE  \A e \in D : e \in good
<1> DEFINE level == Levels(D)
           T == {n \in Nat : level[n] \subseteq good}
<1>1. Leveled(level, D)
    BY HereditaryIsLeveled
<1> HIDE DEF level
<1>2. 0 \in T
    BY <1>1 DEF Leveled
<1>3. ASSUME NEW n \in T
      PROVE  n + 1 \in T
    <2>1. n \in Nat /\ n + 1 \in Nat
        OBVIOUS
    <2>2. ASSUME NEW e \in level[n + 1]
          PROVE  e \in good
        <3>1. e \in D
            BY <1>1, <2>1 DEF Leveled
        <3>2. Inner(e) => e.left \in level[n] /\ e.right \in level[n]
            BY <1>1, <2>1 DEF Leveled
        <3>3. QED BY <3>1, <3>2
    <2>3. QED BY <2>1, <2>2
<1>4. T \in SUBSET Nat
    OBVIOUS
<1>5. T = Nat
    <2> HIDE DEF T
    <2>1. QED BY <1>2, <1>3, <1>4, NaturalsAreAll
<1>6. QED BY <1>1, <1>5 DEF Leveled

(* The levels that Subtrees goes through.                                  *)
Below(level, e, N) ==
    level = [n \in 0 .. N |-> IF n = 0 THEN {e}
                              ELSE level[n - 1] \cup UNION {Operands(t) : t \in level[n - 1]}]
LEMMA BelowExists ==
    ASSUME NEW e
    PROVE  \A N \in Nat : \E level : Below(level, e, N)
<1> DEFINE T == {N \in Nat : \E level : Below(level, e, N)}
           next(s) == s \cup UNION {Operands(t) : t \in s}
<1>1. 0 \in T
    <2>1. [n \in 0 .. 0 |-> {e}] = [n \in 0 .. 0 |-> IF n = 0 THEN {e}
              ELSE next([m \in 0 .. 0 |-> {e}][n - 1])]
        <3>1. \A n \in 0 .. 0 : n = 0
            OBVIOUS
        <3> HIDE DEF next
        <3>2. QED BY <3>1, Zenon
    <2>2. Below([n \in 0 .. 0 |-> {e}], e, 0)
        BY <2>1, Zenon DEF Below
    <2>3. QED BY <2>2
<1>2. ASSUME NEW N \in T
      PROVE  N + 1 \in T
    <2>1. N \in Nat /\ N + 1 \in Nat
        OBVIOUS
    <2>2. PICK f : Below(f, e, N)
        OBVIOUS
    <2> DEFINE g == [n \in 0 .. N + 1 |-> IF n = 0 THEN {e}
                                          ELSE IF n = N + 1 THEN next(f[N]) ELSE f[n]]
    <2>3. \A n \in 0 .. N : f[n] = IF n = 0 THEN {e} ELSE next(f[n - 1])
        BY <2>2, Zenon DEF Below
    <2> HIDE DEF next
    <2>4. \A n \in 0 .. N : g[n] = f[n]
        <3>1. \A n \in 0 .. N : n \in 0 .. N + 1 /\ n # N + 1
            BY <2>1
        <3>2. 0 \in 0 .. N
            BY <2>1
        <3>3. QED BY <2>3, <3>1, <3>2
    <2>5. g[N + 1] = next(f[N])
        BY <2>1
    <2>6. g = [n \in 0 .. N + 1 |-> g[n]]
        BY Zenon
    <2> HIDE DEF g
    <2>7. ASSUME NEW n \in 0 .. N + 1
          PROVE  g[n] = IF n = 0 THEN {e} ELSE next(g[n - 1])
        <3>1. CASE n \in 0 .. N
            <4>1. n # 0 => n - 1 \in 0 .. N
                BY <2>1, <3>1
            <4>2. QED BY <2>3, <2>4, <3>1, <4>1, Zenon
        <3>2. CASE n = N + 1
            <4>1. n # 0 /\ n - 1 = N /\ N \in 0 .. N
                BY <2>1, <3>2
            <4>2. QED BY <2>4, <2>5, <3>2, <4>1, Zenon
        <3>3. QED BY <2>1, <3>1, <3>2
    <2>8. g = [n \in 0 .. N + 1 |-> IF n = 0 THEN {e} ELSE next(g[n - 1])]
        BY <2>6, <2>7, Zenon
    <2>9. Below(g, e, N + 1)
        BY <2>8, Zenon DEF Below, next
    <2>10. QED BY <2>1, <2>9
<1>3. T \in SUBSET Nat
    OBVIOUS
<1>4. T = Nat
    <2> HIDE DEF T
    <2>1. QED BY <1>1, <1>2, <1>3, NaturalsAreAll
<1>5. QED BY <1>4

LEMMA SubtreesStepwise ==
    ASSUME NEW e, Height(e) \in Nat
    PROVE  \E level :
              /\ level[0] = {e} /\ Subtrees(e) = level[Height(e)]
              /\ \A n \in 0 .. Height(e) - 1 :
                    level[n + 1] = level[n] \cup UNION {Operands(t) : t \in level[n]}
<1> DEFINE N == Height(e)
           level[n \in 0 .. N] == IF n = 0 THEN {e}
                                  ELSE level[n - 1] \cup UNION {Operands(t) : t \in level[n - 1]}
<1>1. \E f : f = [n \in 0 .. N |-> IF n = 0 THEN {e}
                      ELSE f[n - 1] \cup UNION {Operands(t) : t \in f[n - 1]}]
    <2>1. \E f : Below(f, e, N)
        BY BelowExists
    <2>2. QED BY <2>1, Zenon DEF Below
<1>2. level = [n \in 0 .. N |-> IF n = 0 THEN {e}
                  ELSE level[n - 1] \cup UNION {Operands(t) : t \in level[n - 1]}]
    BY ONLY <1>1, Zenon
<1>3. Subtrees(e) = level[N]
    BY Zenon DEF Subtrees
<1> HIDE DEF level
<1>4. N \in Nat
    OBVIOUS
<1> HIDE DEF N
<1>5. \A n \in 0 .. N :
         level[n] = IF n = 0 THEN {e}
                    ELSE level[n - 1] \cup UNION {Operands(t) : t \in level[n - 1]}
    BY <1>2, Zenon
<1>6. level[0] = {e}
    <2>1. 0 \in 0 .. N
        BY <1>4
    <2>2. QED BY <1>5, <2>1, Zenon
<1>7. ASSUME NEW n \in 0 .. N - 1
      PROVE  level[n + 1] = level[n] \cup UNION {Operands(t) : t \in level[n]}
    <2> DEFINE k == n + 1
    <2>1. k \in 0 .. N /\ k # 0 /\ k - 1 = n
        BY <1>4
    <2> HIDE DEF k
    <2>2. level[k] = level[k - 1] \cup UNION {Operands(t) : t \in level[k - 1]}
        BY <1>5, <2>1, Zenon
    <2>3. QED BY <2>1, <2>2, Zenon DEF k
<1>8. QED BY <1>3, <1>6, <1>7 DEF N

LEMMA RangeInduction ==
    ASSUME NEW N \in Nat, NEW T, 0 \in T, \A k \in 0 .. N - 1 : k \in T => k + 1 \in T
    PROVE  \A k \in 0 .. N : k \in T
<1> DEFINE S == {k \in Nat : k <= N => k \in T}
<1>1. 0 \in S
    OBVIOUS
<1>2. ASSUME NEW k \in S
      PROVE  k + 1 \in S
    <2>1. k \in Nat /\ (k <= N => k \in T)
        OBVIOUS
    <2>2. k + 1 <= N => k \in 0 .. N - 1 /\ k <= N
        BY <2>1
    <2>3. QED BY <2>1, <2>2
<1>3. S \in SUBSET Nat
    OBVIOUS
<1>4. S = Nat
    <2> HIDE DEF S
    <2>1. QED BY <1>1, <1>2, <1>3, NaturalsAreAll
<1>5. QED BY <1>4

(* No set that has e and the operands of its elements is smaller.          *)
LEMMA SubtreesLeast ==
    ASSUME NEW D, NEW e \in D, Height(e) \in Nat,
           \A t \in D : Inner(t) => t.left \in D /\ t.right \in D
    PROVE  Subtrees(e) \subseteq D
<1> DEFINE N == Height(e)
<1>1. PICK level :
              /\ level[0] = {e} /\ Subtrees(e) = level[N]
              /\ \A n \in 0 .. N - 1 :
                    level[n + 1] = level[n] \cup UNION {Operands(t) : t \in level[n]}
    BY SubtreesStepwise, Zenon
<1> HIDE DEF N
<1> DEFINE T == {n \in Nat : level[n] \subseteq D}
<1>2. N \in Nat
    BY DEF N
<1>3. 0 \in T
    BY <1>1
<1>4. ASSUME NEW n \in 0 .. N - 1, n \in T
      PROVE  n + 1 \in T
    <2>1. \A t \in level[n] : Operands(t) \subseteq D
        BY <1>4, OperandsOf
    <2>2. level[n + 1] \subseteq D
        BY <1>1, <1>4, <2>1
    <2>3. QED BY <1>2, <2>2
<1> HIDE DEF T
<1>5. N \in T
    BY <1>2, <1>3, <1>4, RangeInduction
<1>6. QED BY <1>1, <1>5 DEF T

(* The subtrees of a tree are such a set.                                  *)
LEMMA SubtreesHereditary ==
    ASSUME NEW e, Grounded(e)
    PROVE  e \in Subtrees(e) /\ Hereditary(Subtrees(e))
<1> DEFINE N == Height(e)
<1>0. N \in Nat
    BY DEF Grounded
<1>1. PICK level :
              /\ level[0] = {e} /\ Subtrees(e) = level[N]
              /\ \A n \in 0 .. N - 1 :
                    level[n + 1] = level[n] \cup UNION {Operands(t) : t \in level[n]}
    BY <1>0, SubtreesStepwise, Zenon
<1> HIDE DEF N
<1> DEFINE Up == {n \in Nat : n <= N => level[N - n] \subseteq level[N]}
           T == {n \in Nat : e \in level[n] /\ \A t \in level[n] :
                    Height(t) <= N - n \/ Operands(t) \subseteq level[n]}
<1>2. ASSUME NEW n \in 0 .. N
      PROVE  level[n] \subseteq level[N]
    <2>1. 0 \in Up
        BY <1>0
    <2>2. ASSUME NEW k \in 0 .. N - 1, k \in Up
          PROVE  k + 1 \in Up
        <3> DEFINE m == N - (k + 1)
        <3>1. m \in 0 .. N - 1 /\ m + 1 = N - k /\ k <= N
            BY <1>0
        <3> HIDE DEF m
        <3>2. level[m] \subseteq level[m + 1]
            BY <1>1, <3>1
        <3>3. level[m] \subseteq level[N]
            BY <2>2, <3>1, <3>2
        <3>4. QED BY <1>0, <3>3 DEF m
    <2> HIDE DEF Up
    <2>3. \A k \in 0 .. N : k \in Up
        BY <1>0, <2>1, <2>2, RangeInduction
    <2> DEFINE k == N - n
    <2>4. k \in 0 .. N /\ N - k = n /\ k <= N
        BY <1>0
    <2> HIDE DEF k
    <2>5. QED BY <2>3, <2>4 DEF Up
<1>3. \A t \in level[N] : Lowers(t)
    BY <1>1 DEF Grounded
<1>4. 0 \in T
    BY <1>0, <1>1 DEF N
<1>5. ASSUME NEW n \in 0 .. N - 1, n \in T
      PROVE  n + 1 \in T
    <2>1. n + 1 \in Nat /\ n \in 0 .. N
        BY <1>0
    <2>2. e \in level[n + 1] /\ level[n] \subseteq level[n + 1]
        BY <1>1, <1>5
    <2>3. ASSUME NEW t \in level[n]
          PROVE  Operands(t) \subseteq level[n + 1]
        BY <1>1, <2>3
    <2>4. ASSUME NEW t \in level[n + 1], t \notin level[n]
          PROVE  Height(t) <= N - (n + 1)
        <3>1. PICK u \in level[n] : t \in Operands(u)
            BY <1>1, <2>4
        <3>2. Height(u) <= N - n
            BY <1>5, <2>4, <3>1
        <3>3. Lowers(u)
            BY <1>2, <1>3, <2>1
        <3>4. Inner(u) /\ t \in {u.left, u.right}
            BY <3>1, OperandsOf
        <3>5. t \in level[n + 1] /\ Lowers(t)
            <4>1. n + 1 \in 0 .. N
                BY <1>0
            <4>2. t \in level[N]
                BY <1>2, <2>4, <4>1
            <4>3. QED BY <1>3, <2>4, <4>2
        <3>6. Height(t) \in Nat /\ Height(u) \in Nat /\ Height(t) < Height(u)
            BY <3>3, <3>4, <3>5 DEF Lowers
        <3>7. QED BY <1>0, <3>2, <3>6
    <2>5. QED BY <2>1, <2>2, <2>3, <2>4
<1> HIDE DEF T
<1>6. N \in T
    BY <1>0, <1>4, <1>5, RangeInduction
<1>7. ASSUME NEW t \in level[N], Inner(t)
      PROVE  t.left \in level[N] /\ t.right \in level[N]
    <2>1. Height(t) <= N - N \/ Operands(t) \subseteq level[N]
        BY <1>6 DEF T
    <2>2. Height(t) \in Nat /\ Height(t.left) \in Nat /\ Height(t.left) < Height(t)
        BY <1>3, <1>7 DEF Lowers
    <2>3. CASE Operands(t) \subseteq level[N]
        BY <1>7, <2>3, OperandsOf
    <2>4. CASE Height(t) <= N - N
        <3>1. Height(t) = 0
            BY <1>0, <2>2, <2>4
        <3>2. QED BY <2>2, <3>1
    <2>5. QED BY <2>1, <2>3, <2>4
<1>8. QED BY <1>1, <1>3, <1>6, <1>7 DEF Hereditary, T

(* A tree in a closed set has its subtrees there.                          *)
LEMMA HereditaryIsGrounded ==
    ASSUME NEW D, Hereditary(D), NEW e \in D
    PROVE  Grounded(e) /\ Subtrees(e) \subseteq D
<1>1. Height(e) \in Nat /\ \A t \in D : Inner(t) => t.left \in D /\ t.right \in D
    BY DEF Hereditary, Lowers
<1>2. Subtrees(e) \subseteq D
    BY <1>1, SubtreesLeast
<1>3. QED BY <1>1, <1>2 DEF Grounded, Hereditary

LEMMA OperandsAreGrounded ==
    ASSUME NEW e, Grounded(e), Inner(e)
    PROVE  /\ Grounded(e.left) /\ Grounded(e.right)
           /\ Subtrees(e.left) \subseteq Subtrees(e) /\ Subtrees(e.right) \subseteq Subtrees(e)
<1>1. e \in Subtrees(e) /\ Hereditary(Subtrees(e))
    BY SubtreesHereditary
<1>2. e.left \in Subtrees(e) /\ e.right \in Subtrees(e)
    BY <1>1 DEF Hereditary
<1>3. QED BY <1>1, <1>2, HereditaryIsGrounded

(* A node over two trees is a tree.                                        *)
LEMMA NodeIsGrounded ==
    ASSUME NEW e, Inner(e), Grounded(e.left), Grounded(e.right),
           e.height = HeightOver(e.left, e.right)
    PROVE  /\ Grounded(e)
           /\ Subtrees(e) \subseteq {e} \cup Subtrees(e.left) \cup Subtrees(e.right)
<1> DEFINE D == {e} \cup Subtrees(e.left) \cup Subtrees(e.right)
<1>1. /\ e.left \in Subtrees(e.left) /\ Hereditary(Subtrees(e.left))
      /\ e.right \in Subtrees(e.right) /\ Hereditary(Subtrees(e.right))
    BY SubtreesHereditary
<1>2. Height(e) = e.height
    BY DEF Height, Inner
<1>3. Height(e.left) \in Nat /\ Height(e.right) \in Nat
    BY DEF Grounded
<1>4. /\ Height(e) \in Nat /\ Height(e.left) < Height(e) /\ Height(e.right) < Height(e)
    BY <1>2, <1>3 DEF HeightOver
<1>5. Lowers(e)
    BY <1>3, <1>4 DEF Lowers
<1>6. Hereditary(D)
    BY <1>1, <1>5 DEF Hereditary
<1>7. e \in D
    OBVIOUS
<1> HIDE DEF D
<1>8. QED BY <1>6, <1>7, HereditaryIsGrounded DEF D

LEMMA LeafIsGrounded ==
    ASSUME NEW e, ~Inner(e)
    PROVE  Grounded(e) /\ Subtrees(e) = {e}
<1>1. Height(e) = 0
    BY DEF Height, Inner
<1>2. Hereditary({e})
    BY <1>1 DEF Hereditary, Lowers
<1>3. e \in {e}
    OBVIOUS
<1>4. Grounded(e) /\ Subtrees(e) \subseteq {e}
    BY <1>2, <1>3, HereditaryIsGrounded
<1>5. QED BY <1>4, SubtreesHereditary

-----------------------------------------------------------------------------
(* The value of a function at a tree.                                      *)

(* It does not depend on the set of trees that the function is defined on. *)
LEMMA RecursionsAgree ==
    ASSUME NEW which, NEW c, NEW D, NEW E, Hereditary(E), E \subseteq D, NEW f, NEW g,
           Recurs(which, f, D, c), Recurs(which, g, E, c)
    PROVE  \A e \in E : f[e] = g[e]
<1> DEFINE good == {e \in E : f[e] = g[e]}
<1>1. ASSUME NEW e \in E, Inner(e) => e.left \in good /\ e.right \in good
      PROVE  e \in good
    <2>1. f[e] = Step(which, f, e, c) /\ g[e] = Step(which, g, e, c)
        BY RecursAt
    <2>2. Inner(e) => f[e.left] = g[e.left] /\ f[e.right] = g[e.right]
        BY <1>1
    <2>3. Step(which, f, e, c) = Step(which, g, e, c)
        BY <2>2, StepIsLocal
    <2>4. QED BY <2>1, <2>3
<1>2. \A e \in E : e \in good
    <2> HIDE DEF good
    <2>1. QED BY <1>1, TreeInduction
<1>3. QED BY <1>2

ValueOf(which, e, c) == (CHOOSE f : Recurs(which, f, Subtrees(e), c))[e]

LEMMA ValueIsOfAny ==
    ASSUME NEW which, NEW c, NEW e, Grounded(e), NEW D, NEW f, Recurs(which, f, D, c),
           Subtrees(e) \subseteq D
    PROVE  ValueOf(which, e, c) = f[e]
<1>1. e \in Subtrees(e) /\ Hereditary(Subtrees(e))
    BY SubtreesHereditary
<1>2. \E g : Recurs(which, g, Subtrees(e), c)
    BY <1>1, HereditaryIsLeveled, RecursionExists
<1> DEFINE g == CHOOSE g : Recurs(which, g, Subtrees(e), c)
<1>3. Recurs(which, g, Subtrees(e), c)
    BY <1>2, Zenon
<1>4. ValueOf(which, e, c) = g[e]
    BY Zenon DEF ValueOf
<1> HIDE DEF g
<1>5. f[e] = g[e]
    BY <1>1, <1>3, RecursionsAgree
<1>6. QED BY <1>4, <1>5

LEMMA ValueUnfolds ==
    ASSUME NEW which, NEW c, NEW e, Grounded(e)
    PROVE  ValueOf(which, e, c) =
             IF Inner(e)
             THEN AtNode(which, e, ValueOf(which, e.left, c), ValueOf(which, e.right, c), c)
             ELSE AtLeaf(which, e, c)
<1> DEFINE D == Subtrees(e)
<1>1. e \in D /\ Hereditary(D)
    BY SubtreesHereditary
<1>2. PICK f : Recurs(which, f, D, c)
    BY <1>1, HereditaryIsLeveled, RecursionExists
<1>3. D \subseteq D
    OBVIOUS
<1> HIDE DEF D
<1>4. ValueOf(which, e, c) = f[e]
    BY <1>2, <1>3, ValueIsOfAny DEF D
<1>5. f[e] = Step(which, f, e, c)
    BY <1>1, <1>2, RecursAt
<1>6. CASE Inner(e)
    <2>1. /\ Grounded(e.left) /\ Subtrees(e.left) \subseteq D
          /\ Grounded(e.right) /\ Subtrees(e.right) \subseteq D
        BY <1>6, OperandsAreGrounded DEF D
    <2>2. ValueOf(which, e.left, c) = f[e.left] /\ ValueOf(which, e.right, c) = f[e.right]
        BY <1>2, <2>1, ValueIsOfAny
    <2>3. QED BY <1>4, <1>5, <1>6, <2>2, Zenon DEF Step
<1>7. CASE ~Inner(e)
    BY <1>4, <1>5, <1>7, Zenon DEF Step
<1>8. QED BY <1>6, <1>7

-----------------------------------------------------------------------------
(* The functions of the module, unfolded once.                             *)

LEMMA NodeFacts ==
    ASSUME NEW e, IsNode(e)
    PROVE  /\ e.kind \in {"Literal", "ColumnRef", "Binary"} /\ (Inner(e) <=> e.kind = "Binary")
           /\ e.kind = "Literal" => IsValue(e.literal)
           /\ e.kind = "Binary" => e.op \in ComparisonOperators \cup Logical
           /\ e.kind \notin {"Comparison", "And", "Or"}
           /\ Height(e) \in Nat => Lowers(e)
<1>1. e.kind \in {"Literal", "ColumnRef", "Binary"}
    BY DEF IsNode
<1>2. Inner(e) <=> e.kind = "Binary"
    BY <1>1 DEF Inner, Leaves
<1>3. ASSUME Inner(e)
      PROVE  /\ Height(e.left) \in Nat /\ Height(e.left) < Height(e)
             /\ Height(e.right) \in Nat /\ Height(e.right) < Height(e)
    <2>1. Height(e) = e.height
        BY <1>3 DEF Height, Inner
    <2>2. e.height \in Nat /\ {Height(e.left), Height(e.right)} \subseteq 0 .. e.height - 1
        BY <1>2, <1>3 DEF IsNode
    <2>3. Height(e.left) \in 0 .. e.height - 1 /\ Height(e.right) \in 0 .. e.height - 1
        BY <2>2
    <2> DEFINE l == Height(e.left)
               r == Height(e.right)
               h == Height(e)
    <2>4. h \in Nat /\ l \in 0 .. h - 1 /\ r \in 0 .. h - 1
        BY <2>1, <2>2, <2>3
    <2> HIDE DEF l, r, h
    <2>5. l \in Nat /\ l < h /\ r \in Nat /\ r < h
        BY <2>4
    <2>6. QED BY <2>5 DEF l, r, h
<1>4. Height(e) \in Nat => Lowers(e)
    BY <1>3 DEF Lowers
<1>5. QED BY <1>1, <1>2, <1>4 DEF IsNode

LEMMA TreeFacts ==
    ASSUME NEW e, IsTree(e)
    PROVE  /\ Grounded(e) /\ IsNode(e)
           /\ Inner(e) => IsTree(e.left) /\ IsTree(e.right)
           /\ \A t \in Subtrees(e) : t.kind # "Binary" <=> ~Inner(t)
<1>1. Height(e) \in Nat /\ \A t \in Subtrees(e) : IsNode(t)
    BY DEF IsTree
<1>2. \A t \in Subtrees(e) : Height(t) \in Nat => Lowers(t)
    BY <1>1, NodeFacts
<1>3. \A t \in Subtrees(e) : Height(t) \in Nat
    <2>1. ASSUME NEW t, IsNode(t)
          PROVE  Height(t) \in Nat
        <3>1. t.kind \in Leaves => Height(t) = 0
            BY DEF Height
        <3>2. t.kind \notin Leaves => Height(t) = t.height /\ t.kind = "Binary"
            BY <2>1, NodeFacts DEF Height, Inner
        <3>3. t.kind = "Binary" => t.height \in Nat
            BY <2>1 DEF IsNode
        <3>4. QED BY <3>1, <3>2, <3>3
    <2>2. QED BY <1>1, <2>1
<1>4. Grounded(e)
    BY <1>1, <1>2, <1>3 DEF Grounded
<1>5. e \in Subtrees(e) /\ Hereditary(Subtrees(e))
    BY <1>4, SubtreesHereditary
<1>6. ASSUME Inner(e)
      PROVE  IsTree(e.left) /\ IsTree(e.right)
    <2>1. /\ Grounded(e.left) /\ Subtrees(e.left) \subseteq Subtrees(e)
          /\ Grounded(e.right) /\ Subtrees(e.right) \subseteq Subtrees(e)
        BY <1>4, <1>6, OperandsAreGrounded
    <2>2. QED BY <1>1, <2>1 DEF IsTree, Grounded
<1>7. \A t \in Subtrees(e) : t.kind # "Binary" <=> ~Inner(t)
    BY <1>1, NodeFacts
<1>8. QED BY <1>1, <1>4, <1>5, <1>6, <1>7

(* The parser's nodes make trees.                                          *)
LEMMA LeafIsTree ==
    ASSUME NEW e, ~Inner(e), IsNode(e)
    PROVE  IsTree(e)
<1>1. Height(e) \in Nat /\ Subtrees(e) = {e}
    BY LeafIsGrounded DEF Grounded
<1>2. QED BY <1>1 DEF IsTree

LEMMA BinaryIsTree ==
    ASSUME NEW left, NEW right, IsTree(left), IsTree(right),
           NEW op \in ComparisonOperators \cup Logical
    PROVE  IsTree(Binary(op, left, right))
<1> DEFINE e == Binary(op, left, right)
<1>1. /\ e.kind = "Binary" /\ e.op = op /\ e.left = left /\ e.right = right
      /\ e.height = HeightOver(left, right)
    BY DEF Binary
<1> HIDE DEF e
<1>2. Inner(e)
    BY <1>1 DEF Inner, Leaves
<1>3. Grounded(left) /\ Grounded(right)
    BY TreeFacts
<1>4. Grounded(e) /\ Subtrees(e) \subseteq {e} \cup Subtrees(left) \cup Subtrees(right)
    BY <1>1, <1>2, <1>3, NodeIsGrounded
<1>5. e.height \in Nat /\ {Height(left), Height(right)} \subseteq 0 .. e.height - 1
    <2> DEFINE l == Height(left)
               r == Height(right)
               h == e.height
    <2>1. l \in Nat /\ r \in Nat /\ h = (IF l < r THEN r ELSE l) + 1
        BY <1>1, <1>3 DEF Grounded, HeightOver
    <2> HIDE DEF l, r, h
    <2>2. h \in Nat /\ l \in 0 .. h - 1 /\ r \in 0 .. h - 1
        BY <2>1
    <2>3. QED BY <2>2 DEF l, r, h
<1>6. IsNode(e)
    BY <1>1, <1>5 DEF IsNode
<1>7. \A t \in Subtrees(left) \cup Subtrees(right) : IsNode(t)
    BY DEF IsTree
<1>8. \A t \in Subtrees(e) : IsNode(t)
    BY <1>4, <1>6, <1>7
<1>9. IsTree(e)
    BY <1>4, <1>8 DEF IsTree, Grounded
<1>10. QED BY <1>9 DEF e

LEMMA BindUnfolds ==
    ASSUME NEW e, IsTree(e), NEW columns
    PROVE  BindExpression(e, columns) =
             IF Inner(e)
             THEN BindBinary(e.op, BindExpression(e.left, columns), BindExpression(e.right, columns))
             ELSE BindLeaf(e, columns)
<1> DEFINE c == About(columns, << >>)
<1>1. ASSUME NEW d, IsTree(d)
      PROVE  BindExpression(d, columns) = ValueOf("bind", d, c)
    <2> DEFINE S == Subtrees(d)
               Body(f, t) == IF t.kind # "Binary" THEN BindLeaf(t, columns)
                             ELSE BindBinary(t.op, f[t.left], f[t.right])
               bind[t \in S] == IF t.kind # "Binary" THEN BindLeaf(t, columns)
                                ELSE BindBinary(t.op, bind[t.left], bind[t.right])
    <2>1. Grounded(d) /\ \A t \in S : t.kind # "Binary" <=> ~Inner(t)
        BY <1>1, TreeFacts
    <2>2. Hereditary(S)
        BY <2>1, SubtreesHereditary
    <2>3. BindExpression(d, columns) = bind[d]
        BY Zenon DEF BindExpression
    <2> HIDE DEF S
    <2>4. ASSUME NEW t \in S, NEW f
          PROVE  Step("bind", f, t, c) = Body(f, t)
        <3>1. c.columns = columns
            BY DEF About
        <3> HIDE DEF c
        <3>2. QED BY <2>1, <3>1, Zenon DEF Step, AtNode, AtLeaf
    <2>5. PICK f : Recurs("bind", f, S, c)
        BY <2>2, HereditaryIsLeveled, RecursionExists
    <2>6. f = [t \in S |-> Body(f, t)]
        <3> HIDE DEF Body
        <3>1. QED BY <2>4, <2>5, Zenon DEF Recurs
    <2>7. \E g : g = [t \in S |-> Body(g, t)]
        BY <2>6
    <2>8. bind = [t \in S |-> Body(bind, t)]
        BY ONLY <2>7, Zenon
    <2> HIDE DEF bind
    <2>9. Recurs("bind", bind, S, c)
        <3> HIDE DEF Body
        <3>1. QED BY <2>4, <2>8, Zenon DEF Recurs
    <2>10. QED BY <2>1, <2>3, <2>9, ValueIsOfAny DEF S
<1>2. Grounded(e) /\ (Inner(e) => IsTree(e.left) /\ IsTree(e.right))
    BY TreeFacts
<1>3. c.columns = columns
    BY DEF About
<1> HIDE DEF c
<1> DEFINE l == ValueOf("bind", e.left, c)
           r == ValueOf("bind", e.right, c)
<1>4. ValueOf("bind", e, c) = IF Inner(e) THEN BindBinary(e.op, l, r) ELSE BindLeaf(e, columns)
    <2>1. ValueOf("bind", e, c) = IF Inner(e) THEN AtNode("bind", e, l, r, c)
                                  ELSE AtLeaf("bind", e, c)
        BY <1>2, ValueUnfolds, Zenon
    <2> HIDE DEF l, r
    <2>2. QED BY <1>3, <2>1, Zenon DEF AtNode, AtLeaf
<1>5. BindExpression(e, columns) = ValueOf("bind", e, c)
    BY <1>1
<1>6. CASE Inner(e)
    <2>1. BindExpression(e.left, columns) = l /\ BindExpression(e.right, columns) = r
        BY <1>1, <1>2, <1>6
    <2> HIDE DEF l, r
    <2>2. QED BY <1>4, <1>5, <1>6, <2>1, Zenon
<1>7. CASE ~Inner(e)
    BY <1>4, <1>5, <1>7, Zenon
<1>8. QED BY <1>6, <1>7

LEMMA ValidatePredicateUnfolds ==
    ASSUME NEW b, Grounded(b)
    PROVE  ValidatePredicate(b) =
             IF b.kind = "Comparison"
             THEN BothOk(ValidateOperand(b.left), ValidateOperand(b.right))
             ELSE IF b.kind \in Logical
             THEN BothOk(ValidatePredicate(b.left), ValidatePredicate(b.right))
             ELSE NotAPredicate
<1> DEFINE c == About(<< >>, << >>)
<1>1. ASSUME NEW d, Grounded(d)
      PROVE  ValidatePredicate(d) = ValueOf("predicate", d, c)
    <2> DEFINE S == Subtrees(d)
               Body(f, t) == IF t.kind = "Comparison"
                             THEN BothOk(ValidateOperand(t.left), ValidateOperand(t.right))
                             ELSE IF t.kind \in Logical THEN BothOk(f[t.left], f[t.right])
                             ELSE NotAPredicate
               validate[t \in S] == IF t.kind = "Comparison"
                             THEN BothOk(ValidateOperand(t.left), ValidateOperand(t.right))
                             ELSE IF t.kind \in Logical THEN BothOk(validate[t.left], validate[t.right])
                             ELSE NotAPredicate
    <2>1. Hereditary(S)
        BY <1>1, SubtreesHereditary
    <2>2. ValidatePredicate(d) = validate[d]
        BY Zenon DEF ValidatePredicate
    <2> HIDE DEF S, c
    <2>3. ASSUME NEW t \in S, NEW f
          PROVE  Step("predicate", f, t, c) = Body(f, t)
        <3>1. CASE Inner(t)
            BY <3>1, Zenon DEF Step, AtNode
        <3>2. CASE ~Inner(t)
            <4>1. t.kind # "Comparison" /\ t.kind \notin Logical
                BY <3>2 DEF Inner, Leaves, Logical
            <4>2. QED BY <3>2, <4>1, Zenon DEF Step, AtLeaf
        <3>3. QED BY <3>1, <3>2
    <2>4. PICK f : Recurs("predicate", f, S, c)
        BY <2>1, HereditaryIsLeveled, RecursionExists
    <2>5. f = [t \in S |-> Body(f, t)]
        <3> HIDE DEF Body
        <3>1. QED BY <2>3, <2>4, Zenon DEF Recurs
    <2>6. \E g : g = [t \in S |-> Body(g, t)]
        BY <2>5
    <2>7. validate = [t \in S |-> Body(validate, t)]
        BY ONLY <2>6, Zenon
    <2> HIDE DEF validate
    <2>8. Recurs("predicate", validate, S, c)
        <3> HIDE DEF Body
        <3>1. QED BY <2>3, <2>7, Zenon DEF Recurs
    <2>9. QED BY <1>1, <2>2, <2>8, ValueIsOfAny DEF S
<1>2. CASE b.kind \in Logical
    <2> DEFINE l == ValueOf("predicate", b.left, c)
               r == ValueOf("predicate", b.right, c)
    <2>1. Inner(b) /\ b.kind # "Comparison"
        BY <1>2 DEF Inner, Leaves, Logical
    <2>2. Grounded(b.left) /\ Grounded(b.right)
        BY <2>1, OperandsAreGrounded
    <2>3. ValueOf("predicate", b, c) = AtNode("predicate", b, l, r, c)
        BY <2>1, ValueUnfolds
    <2>4. l = ValidatePredicate(b.left) /\ r = ValidatePredicate(b.right)
        BY <1>1, <2>2
    <2>5. ValidatePredicate(b) = ValueOf("predicate", b, c)
        BY <1>1
    <2> HIDE DEF l, r, c
    <2>6. AtNode("predicate", b, l, r, c) = BothOk(l, r)
        BY <1>2, <2>1, Zenon DEF AtNode
    <2>7. QED BY <1>2, <2>1, <2>3, <2>4, <2>5, <2>6, Zenon
<1>3. CASE b.kind \notin Logical
    <2> HIDE DEF c
    <2> DEFINE l == ValueOf("predicate", b.left, c)
               r == ValueOf("predicate", b.right, c)
    <2>1. ValidatePredicate(b) = IF Inner(b) THEN AtNode("predicate", b, l, r, c)
                                 ELSE AtLeaf("predicate", b, c)
        BY <1>1, ValueUnfolds, Zenon
    <2> HIDE DEF l, r
    <2>2. ~Inner(b) => b.kind # "Comparison"
        BY DEF Inner, Leaves
    <2>3. QED BY <1>3, <2>1, <2>2, Zenon DEF AtNode, AtLeaf
<1>4. QED BY <1>2, <1>3

LEMMA EvaluateUnfolds ==
    ASSUME NEW b, Grounded(b), NEW row
    PROVE  Evaluate(b, row) =
             IF b.kind = "Comparison" THEN EvaluateComparison(b, row)
             ELSE IF b.kind \in Logical
             THEN EvaluateLogical(b.kind, Evaluate(b.left, row), Evaluate(b.right, row))
             ELSE [status |-> NotAPredicate, truth |-> FALSE]
<1> DEFINE c == About(<< >>, row)
<1>1. ASSUME NEW d, Grounded(d)
      PROVE  Evaluate(d, row) = ValueOf("evaluate", d, c)
    <2> DEFINE S == Subtrees(d)
               Body(f, t) == IF t.kind = "Comparison" THEN EvaluateComparison(t, row)
                             ELSE IF t.kind \in Logical
                             THEN EvaluateLogical(t.kind, f[t.left], f[t.right])
                             ELSE [status |-> NotAPredicate, truth |-> FALSE]
               evaluate[t \in S] == IF t.kind = "Comparison" THEN EvaluateComparison(t, row)
                             ELSE IF t.kind \in Logical
                             THEN EvaluateLogical(t.kind, evaluate[t.left], evaluate[t.right])
                             ELSE [status |-> NotAPredicate, truth |-> FALSE]
    <2>1. Hereditary(S)
        BY <1>1, SubtreesHereditary
    <2>2. Evaluate(d, row) = evaluate[d]
        BY Zenon DEF Evaluate
    <2>a. c.row = row
        BY DEF About
    <2> HIDE DEF S, c
    <2>3. ASSUME NEW t \in S, NEW f
          PROVE  Step("evaluate", f, t, c) = Body(f, t)
        <3>1. CASE Inner(t)
            BY <2>a, <3>1, Zenon DEF Step, AtNode
        <3>2. CASE ~Inner(t)
            <4>1. t.kind # "Comparison" /\ t.kind \notin Logical
                BY <3>2 DEF Inner, Leaves, Logical
            <4>2. QED BY <3>2, <4>1, Zenon DEF Step, AtLeaf
        <3>3. QED BY <3>1, <3>2
    <2>4. PICK f : Recurs("evaluate", f, S, c)
        BY <2>1, HereditaryIsLeveled, RecursionExists
    <2>5. f = [t \in S |-> Body(f, t)]
        <3> HIDE DEF Body
        <3>1. QED BY <2>3, <2>4, Zenon DEF Recurs
    <2>6. \E g : g = [t \in S |-> Body(g, t)]
        BY <2>5
    <2>7. evaluate = [t \in S |-> Body(evaluate, t)]
        BY ONLY <2>6, Zenon
    <2> HIDE DEF evaluate
    <2>8. Recurs("evaluate", evaluate, S, c)
        <3> HIDE DEF Body
        <3>1. QED BY <2>3, <2>7, Zenon DEF Recurs
    <2>9. QED BY <1>1, <2>2, <2>8, ValueIsOfAny DEF S
<1>2. CASE b.kind \in Logical
    <2> DEFINE l == ValueOf("evaluate", b.left, c)
               r == ValueOf("evaluate", b.right, c)
    <2>1. Inner(b) /\ b.kind # "Comparison"
        BY <1>2 DEF Inner, Leaves, Logical
    <2>2. Grounded(b.left) /\ Grounded(b.right)
        BY <2>1, OperandsAreGrounded
    <2>3. ValueOf("evaluate", b, c) = AtNode("evaluate", b, l, r, c)
        BY <2>1, ValueUnfolds
    <2>4. l = Evaluate(b.left, row) /\ r = Evaluate(b.right, row)
        BY <1>1, <2>2
    <2>5. Evaluate(b, row) = ValueOf("evaluate", b, c)
        BY <1>1
    <2> HIDE DEF l, r, c
    <2>6. AtNode("evaluate", b, l, r, c) = EvaluateLogical(b.kind, l, r)
        BY <1>2, <2>1, Zenon DEF AtNode
    <2>7. QED BY <1>2, <2>1, <2>3, <2>4, <2>5, <2>6, Zenon
<1>3. CASE b.kind \notin Logical
    <2> DEFINE l == ValueOf("evaluate", b.left, c)
               r == ValueOf("evaluate", b.right, c)
    <2>1. c.row = row
        BY DEF About
    <2> HIDE DEF c
    <2>2. Evaluate(b, row) = IF Inner(b) THEN AtNode("evaluate", b, l, r, c)
                             ELSE AtLeaf("evaluate", b, c)
        BY <1>1, ValueUnfolds, Zenon
    <2> HIDE DEF l, r
    <2>3. ~Inner(b) => b.kind # "Comparison"
        BY DEF Inner, Leaves
    <2>4. QED BY <1>3, <2>1, <2>2, <2>3, Zenon DEF AtNode, AtLeaf
<1>4. QED BY <1>2, <1>3

LEMMA IsPredicateUnfolds ==
    ASSUME NEW e, IsTree(e), NEW columns
    PROVE  IsPredicate(e, columns) =
             (/\ e.kind = "Binary"
              /\ IF e.op \in Logical THEN IsPredicate(e.left, columns) /\ IsPredicate(e.right, columns)
                 ELSE /\ IsLeaf(e.left, columns) /\ IsLeaf(e.right, columns)
                      /\ LeafType(e.left, columns) = LeafType(e.right, columns)
                      /\ e.op \in OrderingOperators => LeafType(e.left, columns) = "Int")
<1> DEFINE c == About(columns, << >>)
<1>1. ASSUME NEW d, IsTree(d)
      PROVE  IsPredicate(d, columns) = ValueOf("isPredicate", d, c)
    <2> DEFINE S == Subtrees(d)
               Body(f, t) ==
                   /\ t.kind = "Binary"
                   /\ IF t.op \in Logical THEN f[t.left] /\ f[t.right]
                      ELSE /\ IsLeaf(t.left, columns) /\ IsLeaf(t.right, columns)
                           /\ LeafType(t.left, columns) = LeafType(t.right, columns)
                           /\ t.op \in OrderingOperators => LeafType(t.left, columns) = "Int"
               is[t \in S] ==
                   /\ t.kind = "Binary"
                   /\ IF t.op \in Logical THEN is[t.left] /\ is[t.right]
                      ELSE /\ IsLeaf(t.left, columns) /\ IsLeaf(t.right, columns)
                           /\ LeafType(t.left, columns) = LeafType(t.right, columns)
                           /\ t.op \in OrderingOperators => LeafType(t.left, columns) = "Int"
    <2>1. Grounded(d) /\ \A t \in S : t.kind # "Binary" <=> ~Inner(t)
        BY <1>1, TreeFacts
    <2>2. Hereditary(S)
        BY <2>1, SubtreesHereditary
    <2>3. IsPredicate(d, columns) = is[d]
        BY Zenon DEF IsPredicate
    <2>4. c.columns = columns /\ c.row = << >>
        BY DEF About
    <2> HIDE DEF S, c
    <2>5. ASSUME NEW t \in S, NEW f
          PROVE  Step("isPredicate", f, t, c) = Body(f, t)
        <3>1. CASE Inner(t)
            <4>1. t.kind = "Binary"
                BY <2>1, <3>1
            <4>2. QED BY <2>4, <3>1, <4>1, Zenon DEF Step, AtNode
        <3>2. CASE ~Inner(t)
            <4>1. t.kind # "Binary"
                BY <2>1, <3>2
            <4>2. QED BY <3>2, <4>1, Zenon DEF Step, AtLeaf
        <3>3. QED BY <3>1, <3>2
    <2>6. PICK f : Recurs("isPredicate", f, S, c)
        BY <2>2, HereditaryIsLeveled, RecursionExists
    <2>7. f = [t \in S |-> Body(f, t)]
        <3> HIDE DEF Body
        <3>1. QED BY <2>5, <2>6, Zenon DEF Recurs
    <2>8. \E g : g = [t \in S |-> Body(g, t)]
        BY <2>7
    <2>9. is = [t \in S |-> Body(is, t)]
        BY ONLY <2>8, Zenon
    <2> HIDE DEF is
    <2>10. Recurs("isPredicate", is, S, c)
        <3> HIDE DEF Body
        <3>1. QED BY <2>5, <2>9, Zenon DEF Recurs
    <2>11. QED BY <2>1, <2>3, <2>10, ValueIsOfAny DEF S
<1>2. /\ Grounded(e) /\ (e.kind # "Binary" <=> ~Inner(e))
      /\ Inner(e) => IsTree(e.left) /\ IsTree(e.right)
    BY TreeFacts, SubtreesHereditary
<1>3. c.columns = columns /\ c.row = << >>
    BY DEF About
<1> DEFINE p == ValueOf("isPredicate", e.left, c)
           q == ValueOf("isPredicate", e.right, c)
<1>4. IsPredicate(e, columns) = IF Inner(e) THEN AtNode("isPredicate", e, p, q, c) ELSE AtLeaf("isPredicate", e, c)
    BY <1>1, <1>2, ValueUnfolds, Zenon
<1>5. Inner(e) => p = IsPredicate(e.left, columns) /\ q = IsPredicate(e.right, columns)
    BY <1>1, <1>2
<1> HIDE DEF p, q, c
<1>6. CASE Inner(e)
    <2>1. e.kind = "Binary"
        BY <1>2, <1>6
    <2>2. IsPredicate(e, columns) = AtNode("isPredicate", e, p, q, c)
        BY <1>4, <1>6
    <2>3. QED BY <1>3, <1>5, <1>6, <2>1, <2>2, Zenon DEF AtNode
<1>7. CASE ~Inner(e)
    <2>1. e.kind # "Binary"
        BY <1>2, <1>7
    <2>2. QED BY <1>4, <1>7, <2>1, Zenon DEF AtLeaf
<1>8. QED BY <1>6, <1>7

LEMMA HoldsUnfolds ==
    ASSUME NEW e, IsTree(e), NEW columns, NEW row
    PROVE  Holds(e, columns, row) =
             (/\ e.kind = "Binary"
              /\ IF e.op = "And" THEN Holds(e.left, columns, row) /\ Holds(e.right, columns, row)
                 ELSE IF e.op = "Or" THEN Holds(e.left, columns, row) \/ Holds(e.right, columns, row)
                 ELSE Compares(e.op, LeafData(e.left, columns, row), LeafData(e.right, columns, row)))
<1> DEFINE c == About(columns, row)
<1>1. ASSUME NEW d, IsTree(d)
      PROVE  Holds(d, columns, row) = ValueOf("holds", d, c)
    <2> DEFINE S == Subtrees(d)
               Body(f, t) ==
                   /\ t.kind = "Binary"
                   /\ IF t.op = "And" THEN f[t.left] /\ f[t.right]
                      ELSE IF t.op = "Or" THEN f[t.left] \/ f[t.right]
                      ELSE Compares(t.op, LeafData(t.left, columns, row), LeafData(t.right, columns, row))
               holds[t \in S] ==
                   /\ t.kind = "Binary"
                   /\ IF t.op = "And" THEN holds[t.left] /\ holds[t.right]
                      ELSE IF t.op = "Or" THEN holds[t.left] \/ holds[t.right]
                      ELSE Compares(t.op, LeafData(t.left, columns, row), LeafData(t.right, columns, row))
    <2>1. Grounded(d) /\ \A t \in S : t.kind # "Binary" <=> ~Inner(t)
        BY <1>1, TreeFacts
    <2>2. Hereditary(S)
        BY <2>1, SubtreesHereditary
    <2>3. Holds(d, columns, row) = holds[d]
        BY Zenon DEF Holds
    <2>4. c.columns = columns /\ c.row = row
        BY DEF About
    <2> HIDE DEF S, c
    <2>5. ASSUME NEW t \in S, NEW f
          PROVE  Step("holds", f, t, c) = Body(f, t)
        <3>1. CASE Inner(t)
            <4>1. t.kind = "Binary"
                BY <2>1, <3>1
            <4>2. QED BY <2>4, <3>1, <4>1, Zenon DEF Step, AtNode
        <3>2. CASE ~Inner(t)
            <4>1. t.kind # "Binary"
                BY <2>1, <3>2
            <4>2. QED BY <3>2, <4>1, Zenon DEF Step, AtLeaf
        <3>3. QED BY <3>1, <3>2
    <2>6. PICK f : Recurs("holds", f, S, c)
        BY <2>2, HereditaryIsLeveled, RecursionExists
    <2>7. f = [t \in S |-> Body(f, t)]
        <3> HIDE DEF Body
        <3>1. QED BY <2>5, <2>6, Zenon DEF Recurs
    <2>8. \E g : g = [t \in S |-> Body(g, t)]
        BY <2>7
    <2>9. holds = [t \in S |-> Body(holds, t)]
        BY ONLY <2>8, Zenon
    <2> HIDE DEF holds
    <2>10. Recurs("holds", holds, S, c)
        <3> HIDE DEF Body
        <3>1. QED BY <2>5, <2>9, Zenon DEF Recurs
    <2>11. QED BY <2>1, <2>3, <2>10, ValueIsOfAny DEF S
<1>2. /\ Grounded(e) /\ (e.kind # "Binary" <=> ~Inner(e))
      /\ Inner(e) => IsTree(e.left) /\ IsTree(e.right)
    BY TreeFacts, SubtreesHereditary
<1>3. c.columns = columns /\ c.row = row
    BY DEF About
<1> DEFINE p == ValueOf("holds", e.left, c)
           q == ValueOf("holds", e.right, c)
<1>4. Holds(e, columns, row) = IF Inner(e) THEN AtNode("holds", e, p, q, c) ELSE AtLeaf("holds", e, c)
    BY <1>1, <1>2, ValueUnfolds, Zenon
<1>5. Inner(e) => p = Holds(e.left, columns, row) /\ q = Holds(e.right, columns, row)
    BY <1>1, <1>2
<1> HIDE DEF p, q, c
<1>6. CASE Inner(e)
    <2>1. e.kind = "Binary"
        BY <1>2, <1>6
    <2>2. Holds(e, columns, row) = AtNode("holds", e, p, q, c)
        BY <1>4, <1>6
    <2>3. QED BY <1>3, <1>5, <1>6, <2>1, <2>2, Zenon DEF AtNode
<1>7. CASE ~Inner(e)
    <2>1. e.kind # "Binary"
        BY <1>2, <1>7
    <2>2. QED BY <1>4, <1>7, <2>1, Zenon DEF AtLeaf
<1>8. QED BY <1>6, <1>7

-----------------------------------------------------------------------------
(* What binds, and to what.                                                *)

Distinct(columns) ==
    /\ Len(columns) \in Nat
    /\ \A c, d \in 1 .. Len(columns) : columns[c].name = columns[d].name => c = d

Binds(e, columns) == BindExpression(e, columns).status = "Ok"
BoundTo(e, columns) == BindExpression(e, columns).bound

LEMMA BindsLeaf ==
    ASSUME NEW columns, Distinct(columns), NEW e, IsTree(e), ~Inner(e)
    PROVE  LET b == BoundTo(e, columns)
               c == ColumnNamed(columns, e.name)
           IN  /\ Binds(e, columns) <=> IsLeaf(e, columns)
               /\ Binds(e, columns) =>
                    /\ b.kind = e.kind /\ ExpressionType(b) = LeafType(e, columns)
               /\ e.kind = "Literal" => b.literal = e.literal
               /\ e.kind = "ColumnRef" /\ Binds(e, columns) =>
                    b.ordinal = c /\ c \in 1 .. Len(columns)
<1> DEFINE result == BindExpression(e, columns)
           b == BoundTo(e, columns)
           named == ColumnNamed(columns, e.name)
<1>1. e.kind \in {"Literal", "ColumnRef"} /\ result = BindLeaf(e, columns)
    BY BindUnfolds DEF Inner, Leaves
<1>2. b = result.bound /\ (Binds(e, columns) <=> result.status = "Ok")
    BY DEF BoundTo, Binds
<1>3. CASE e.kind = "Literal"
    <2>1. result = [status |-> "Ok", bound |-> Literal(e.literal)]
        BY <1>1, <1>3 DEF BindLeaf
    <2> HIDE DEF result, b
    <2>2. QED BY <1>2, <1>3, <2>1 DEF b, Literal, IsLeaf, LeafType, ExpressionType
<1>4. CASE e.kind = "ColumnRef"
    <2> DEFINE ordinal == ColumnIndex(columns, e.name)
               missing == "column not found"
    <2>1. result = IF ordinal = 0 THEN [status |-> missing]
                   ELSE [status |-> "Ok", bound |-> ColumnRef(ordinal, columns[ordinal].type)]
        BY <1>1, <1>4 DEF BindLeaf
    <2>2. missing # "Ok"
        BY Zenon
    <2> HIDE DEF missing, result, b
    <2>3. Len(columns) \in Nat
        BY DEF Distinct
    <2>4. CASE \E c \in 1 .. Len(columns) : columns[c].name = e.name
        <3>1. PICK c \in 1 .. Len(columns) : columns[c].name = e.name
            BY <2>4
        <3>2. \A d \in 1 .. Len(columns) : columns[d].name = e.name => d = c
            BY <3>1 DEF Distinct
        <3>3. \A d \in 1 .. c - 1 : columns[d].name # e.name
            BY <2>3, <3>1, <3>2
        <3>4. ordinal = c
            BY <2>4, <3>1, <3>2, <3>3 DEF ColumnIndex
        <3>5. named = c
            BY <3>1, <3>2 DEF ColumnNamed
        <3>6. c # 0
            BY <2>3
        <3> HIDE DEF ordinal
        <3>7. result = [status |-> "Ok", bound |-> ColumnRef(c, columns[c].type)]
            BY <2>1, <3>4, <3>6
        <3>8. IsLeaf(e, columns)
            BY <1>4, <3>1 DEF IsLeaf
        <3>9. LeafType(e, columns) = columns[c].type
            BY <1>4, <3>5 DEF LeafType
        <3>10. b = [kind |-> "ColumnRef", ordinal |-> c, type |-> columns[c].type]
            BY <1>2, <3>7 DEF ColumnRef
        <3>11. ExpressionType(b) = columns[c].type
            BY <3>10 DEF ExpressionType
        <3>12. QED BY <1>2, <1>4, <3>1, <3>5, <3>7, <3>8, <3>9, <3>10, <3>11 DEF b
    <2>5. CASE ~\E c \in 1 .. Len(columns) : columns[c].name = e.name
        <3>1. ordinal = 0
            BY <2>5 DEF ColumnIndex
        <3> HIDE DEF ordinal
        <3>2. result = [status |-> missing]
            BY <2>1, <3>1
        <3>3. ~IsLeaf(e, columns)
            BY <1>4, <2>5 DEF IsLeaf
        <3>4. QED BY <1>2, <1>4, <2>2, <3>2, <3>3
    <2>6. QED BY <2>4, <2>5
<1>5. QED BY <1>1, <1>3, <1>4

LEMMA BindsBinary ==
    ASSUME NEW columns, NEW e, IsTree(e), Inner(e)
    PROVE  LET left  == BoundTo(e.left, columns)
               right == BoundTo(e.right, columns)
               check == ValidateComparison(left, right, e.op)
               b     == BoundTo(e, columns)
           IN  /\ Binds(e, columns) <=>
                    /\ Binds(e.left, columns) /\ Binds(e.right, columns)
                    /\ e.op \in Logical \/ check = "Ok"
               /\ Binds(e, columns) =>
                    /\ b.left = left /\ b.right = right /\ b.height = HeightOver(left, right)
                    /\ e.op \in Logical => b.kind = e.op
                    /\ e.op \notin Logical => b.kind = "Comparison" /\ b.op = e.op
<1> DEFINE left == BindExpression(e.left, columns)
           right == BindExpression(e.right, columns)
           check == ValidateComparison(left.bound, right.bound, e.op)
           result == BindExpression(e, columns)
<1>1. result = BindBinary(e.op, left, right)
    BY BindUnfolds
<1> HIDE DEF left, right, result
<1>2. result = IF left.status # "Ok" THEN left
               ELSE IF right.status # "Ok" THEN right
               ELSE IF e.op \in Logical
               THEN [status |-> "Ok", bound |-> LogicalNode(e.op, left.bound, right.bound)]
               ELSE IF check # "Ok" THEN [status |-> check]
               ELSE [status |-> "Ok", bound |-> Comparison(e.op, left.bound, right.bound)]
    BY <1>1 DEF BindBinary
<1> HIDE DEF check
<1>3. /\ result.status = "Ok" <=>
            /\ left.status = "Ok" /\ right.status = "Ok"
            /\ e.op \in Logical \/ check = "Ok"
      /\ result.status = "Ok" =>
            /\ result.bound.left = left.bound /\ result.bound.right = right.bound
            /\ result.bound.height = HeightOver(left.bound, right.bound)
            /\ e.op \in Logical => result.bound.kind = e.op
            /\ e.op \notin Logical => result.bound.kind = "Comparison" /\ result.bound.op = e.op
    BY <1>2 DEF LogicalNode, Comparison
<1>4. QED BY <1>3, Zenon DEF left, right, check, result, Binds, BoundTo

LEMMA BindsToInner ==
    ASSUME NEW columns, Distinct(columns), NEW e, IsTree(e), Binds(e, columns)
    PROVE  Inner(BoundTo(e, columns)) <=> Inner(e)
<1>1. CASE Inner(e)
    <2>1. BoundTo(e, columns).kind \in Logical \cup {"Comparison"}
        BY <1>1, BindsBinary
    <2>2. QED BY <1>1, <2>1 DEF Inner, Logical, Leaves
<1>2. CASE ~Inner(e)
    BY <1>2, BindsLeaf DEF Inner
<1>3. QED BY <1>1, <1>2

(* The subtrees of a syntax tree are syntax trees.                         *)
LEMMA SubtreesAreTrees ==
    ASSUME NEW d, IsTree(d)
    PROVE  d \in Subtrees(d) /\ Hereditary(Subtrees(d)) /\ \A e \in Subtrees(d) : IsTree(e)
<1>1. Grounded(d)
    BY TreeFacts
<1>2. d \in Subtrees(d) /\ Hereditary(Subtrees(d))
    BY <1>1, SubtreesHereditary
<1>3. ASSUME NEW e \in Subtrees(d)
      PROVE  IsTree(e)
    <2>1. Grounded(e) /\ Subtrees(e) \subseteq Subtrees(d)
        BY <1>2, HereditaryIsGrounded
    <2>2. QED BY <2>1 DEF IsTree, Grounded
<1>4. QED BY <1>2, <1>3

(* A bound tree is a tree, and its ordinals are columns.                   *)
LEMMA BoundIsTree ==
    ASSUME NEW columns, Distinct(columns), NEW d, IsTree(d), Binds(d, columns)
    PROVE  Grounded(BoundTo(d, columns)) /\ ValidateOrdinals(BoundTo(d, columns), Len(columns))
<1> DEFINE b(e) == BoundTo(e, columns)
           sound(e) == Grounded(b(e)) /\ ValidateOrdinals(b(e), Len(columns))
           good == {e \in Subtrees(d) : Binds(e, columns) => sound(e)}
<1>1. ASSUME NEW e, IsTree(e), Binds(e, columns),
             Inner(e) => /\ Binds(e.left, columns) => sound(e.left)
                         /\ Binds(e.right, columns) => sound(e.right)
      PROVE  sound(e)
    <2>1. CASE Inner(e)
        <3>1. /\ Binds(e.left, columns) /\ Binds(e.right, columns)
              /\ b(e).left = b(e.left) /\ b(e).right = b(e.right)
              /\ b(e).height = HeightOver(b(e.left), b(e.right))
            BY <1>1, <2>1, BindsBinary
        <3>2. sound(e.left) /\ sound(e.right)
            BY <1>1, <2>1, <3>1
        <3>3. Inner(b(e))
            BY <1>1, <2>1, BindsToInner
        <3> DEFINE t == b(e)
        <3>4. Grounded(t) /\ Subtrees(t) \subseteq {t} \cup Subtrees(t.left) \cup Subtrees(t.right)
            BY <3>1, <3>2, <3>3, NodeIsGrounded
        <3>5. t.kind # "ColumnRef"
            BY <3>3 DEF Inner, Leaves
        <3>6. ValidateOrdinals(t.left, Len(columns)) /\ ValidateOrdinals(t.right, Len(columns))
            BY <3>1, <3>2
        <3> HIDE DEF t
        <3>7. ValidateOrdinals(t, Len(columns))
            BY <3>4, <3>5, <3>6 DEF ValidateOrdinals
        <3>8. QED BY <3>4, <3>7 DEF t
    <2>2. CASE ~Inner(e)
        <3> DEFINE t == b(e)
        <3>1. ~Inner(t)
            BY <1>1, <2>2, BindsToInner
        <3>2. Grounded(t) /\ Subtrees(t) = {t}
            BY <3>1, LeafIsGrounded
        <3>3. t.kind = "ColumnRef" => t.ordinal \in 1 .. Len(columns)
            BY <1>1, <2>2, BindsLeaf
        <3>4. Len(columns) \in Nat
            BY DEF Distinct
        <3>5. t.kind = "ColumnRef" => t.ordinal <= Len(columns)
            BY <3>3, <3>4
        <3> HIDE DEF t
        <3>6. ValidateOrdinals(t, Len(columns))
            BY <3>2, <3>5 DEF ValidateOrdinals
        <3>7. QED BY <3>2, <3>6 DEF t
    <2>3. QED BY <2>1, <2>2
<1> HIDE DEF sound, b
<1>2. d \in Subtrees(d) /\ Hereditary(Subtrees(d)) /\ \A e \in Subtrees(d) : IsTree(e)
    BY SubtreesAreTrees
<1>3. ASSUME NEW e \in Subtrees(d), Inner(e) => e.left \in good /\ e.right \in good
      PROVE  e \in good
    BY <1>1, <1>2, <1>3
<1>4. \A e \in Subtrees(d) : e \in good
    <2> HIDE DEF good
    <2>1. QED BY <1>2, <1>3, TreeInduction
<1>5. sound(d)
    BY <1>2, <1>4
<1>6. QED BY <1>5 DEF sound, b

-----------------------------------------------------------------------------
(* Acceptance.                                                             *)

Accepts(e, columns) == Binds(e, columns) /\ ValidatePredicate(BoundTo(e, columns)) = "Ok"

(* An operand of a comparison is accepted if it is a leaf.                 *)
LEMMA LeavesAreOperands ==
    ASSUME NEW columns, Distinct(columns), NEW e, IsTree(e)
    PROVE  IsLeaf(e, columns) <=>
             Binds(e, columns) /\ ValidateOperand(BoundTo(e, columns)) = "Ok"
<1> DEFINE refusal == "expected literal or column reference in comparison"
<1>1. refusal # "Ok"
    BY Zenon
<1>2. \A b : ValidateOperand(b) = IF Inner(b) THEN refusal ELSE "Ok"
    BY Zenon DEF ValidateOperand, Inner
<1> HIDE DEF refusal
<1>3. IsLeaf(e, columns) => ~Inner(e)
    BY DEF IsLeaf, Inner, Leaves
<1>4. QED BY <1>1, <1>2, <1>3, BindsLeaf, BindsToInner

(* ValidateComparison of two leaves looks at their types.                  *)
LEMMA LeavesCompare ==
    ASSUME NEW columns, Distinct(columns), NEW left, NEW right, IsTree(left), IsTree(right),
           NEW op, IsLeaf(left, columns), IsLeaf(right, columns)
    PROVE  ValidateComparison(BoundTo(left, columns), BoundTo(right, columns), op) = "Ok"
             <=> /\ LeafType(left, columns) = LeafType(right, columns)
                 /\ op \in OrderingOperators => LeafType(left, columns) = "Int"
<1>1. ~Inner(left) /\ ~Inner(right)
    BY DEF IsLeaf, Inner, Leaves
<1>2. /\ ExpressionType(BoundTo(left, columns)) = LeafType(left, columns)
      /\ ExpressionType(BoundTo(right, columns)) = LeafType(right, columns)
    BY <1>1, BindsLeaf
<1> DEFINE mismatch == "comparison type mismatch"
           unordered == "ordering comparison requires integer operands"
<1>3. mismatch # "Ok" /\ unordered # "Ok"
    BY Zenon
<1>4. ValidateComparison(BoundTo(left, columns), BoundTo(right, columns), op)
          = IF LeafType(left, columns) # LeafType(right, columns) THEN mismatch
            ELSE IF op \in OrderingOperators /\ LeafType(left, columns) # "Int"
            THEN unordered ELSE "Ok"
    BY <1>2, Zenon DEF ValidateComparison
<1> HIDE DEF mismatch, unordered
<1>5. QED BY <1>3, <1>4

LEMMA NodeAccepts ==
    ASSUME NEW columns, Distinct(columns), NEW e, IsTree(e), Inner(e),
           Accepts(e.left, columns) <=> IsPredicate(e.left, columns),
           Accepts(e.right, columns) <=> IsPredicate(e.right, columns)
    PROVE  Accepts(e, columns) <=> IsPredicate(e, columns)
<1> DEFINE left == e.left
           right == e.right
           b == BoundTo(e, columns)
<1>1. e.kind = "Binary" /\ IsTree(left) /\ IsTree(right)
    BY TreeFacts, NodeFacts
<1>2. Binds(e, columns) => Grounded(b)
    BY BoundIsTree
<1>3. CASE e.op \in Logical
    <2>1. IsPredicate(e, columns) <=> IsPredicate(left, columns) /\ IsPredicate(right, columns)
        BY <1>1, <1>3, IsPredicateUnfolds
    <2>2. /\ Binds(e, columns) <=> Binds(left, columns) /\ Binds(right, columns)
          /\ Binds(e, columns) => /\ b.left = BoundTo(left, columns)
                                  /\ b.right = BoundTo(right, columns) /\ b.kind = e.op
        BY <1>3, BindsBinary
    <2>3. e.op # "Comparison"
        BY <1>3 DEF Logical
    <2>4. ASSUME Binds(e, columns)
          PROVE  ValidatePredicate(b) =
                    BothOk(ValidatePredicate(b.left), ValidatePredicate(b.right))
        BY <1>2, <1>3, <2>2, <2>3, <2>4, ValidatePredicateUnfolds
    <2>5. ASSUME Binds(e, columns)
          PROVE  ValidatePredicate(b) = "Ok" <=>
                    /\ ValidatePredicate(BoundTo(left, columns)) = "Ok"
                    /\ ValidatePredicate(BoundTo(right, columns)) = "Ok"
        BY <2>2, <2>4, <2>5 DEF BothOk
    <2>6. Accepts(e, columns) <=> Accepts(left, columns) /\ Accepts(right, columns)
        BY <2>2, <2>5 DEF Accepts
    <2>7. QED BY <2>1, <2>6
<1>4. CASE e.op \notin Logical
    <2>1. IsPredicate(e, columns) <=>
            /\ IsLeaf(left, columns) /\ IsLeaf(right, columns)
            /\ LeafType(left, columns) = LeafType(right, columns)
            /\ e.op \in OrderingOperators => LeafType(left, columns) = "Int"
        BY <1>1, <1>4, IsPredicateUnfolds
    <2> DEFINE check == ValidateComparison(BoundTo(left, columns), BoundTo(right, columns), e.op)
    <2>2. /\ Binds(e, columns) <=>
                Binds(left, columns) /\ Binds(right, columns) /\ check = "Ok"
          /\ Binds(e, columns) => /\ b.left = BoundTo(left, columns)
                                  /\ b.right = BoundTo(right, columns) /\ b.kind = "Comparison"
        BY <1>4, BindsBinary
    <2>3. IsLeaf(left, columns) /\ IsLeaf(right, columns) =>
            (check = "Ok" <=>
                /\ LeafType(left, columns) = LeafType(right, columns)
                /\ e.op \in OrderingOperators => LeafType(left, columns) = "Int")
        BY <1>1, LeavesCompare
    <2> HIDE DEF check
    <2>4. ASSUME Binds(e, columns)
          PROVE  ValidatePredicate(b) = BothOk(ValidateOperand(b.left), ValidateOperand(b.right))
        BY <1>2, <2>2, <2>4, ValidatePredicateUnfolds
    <2>5. ASSUME Binds(e, columns)
          PROVE  ValidatePredicate(b) = "Ok" <=>
                    /\ ValidateOperand(BoundTo(left, columns)) = "Ok"
                    /\ ValidateOperand(BoundTo(right, columns)) = "Ok"
        BY <2>2, <2>4, <2>5 DEF BothOk
    <2>6. /\ IsLeaf(left, columns) <=>
                Binds(left, columns) /\ ValidateOperand(BoundTo(left, columns)) = "Ok"
          /\ IsLeaf(right, columns) <=>
                Binds(right, columns) /\ ValidateOperand(BoundTo(right, columns)) = "Ok"
        BY <1>1, LeavesAreOperands
    <2>7. Accepts(e, columns) <=>
            IsLeaf(left, columns) /\ IsLeaf(right, columns) /\ check = "Ok"
        BY <2>2, <2>5, <2>6 DEF Accepts
    <2>8. QED BY <2>1, <2>3, <2>7
<1>5. QED BY <1>3, <1>4

LEMMA AcceptedIsPredicate ==
    ASSUME NEW columns, Distinct(columns), NEW d, IsTree(d)
    PROVE  Accepts(d, columns) <=> IsPredicate(d, columns)
<1> DEFINE good == {e \in Subtrees(d) : Accepts(e, columns) <=> IsPredicate(e, columns)}
<1>1. d \in Subtrees(d) /\ Hereditary(Subtrees(d)) /\ \A e \in Subtrees(d) : IsTree(e)
    BY SubtreesAreTrees
<1>2. ASSUME NEW e \in Subtrees(d), ~Inner(e)
      PROVE  Accepts(e, columns) <=> IsPredicate(e, columns)
    <2>1. NotAPredicate # "Ok"
        BY Zenon DEF NotAPredicate
    <2>2. IsTree(e)
        BY <1>1
    <2>3. e.kind # "Binary" /\ e.kind # "Comparison" /\ e.kind \notin Logical
        BY <1>2 DEF Inner, Leaves, Logical
    <2>4. ~IsPredicate(e, columns)
        BY <2>2, <2>3, IsPredicateUnfolds
    <2>5. ASSUME Binds(e, columns)
          PROVE  ValidatePredicate(BoundTo(e, columns)) = NotAPredicate
        <3>1. Grounded(BoundTo(e, columns)) /\ BoundTo(e, columns).kind = e.kind
            BY <1>2, <2>2, <2>5, BindsLeaf, BoundIsTree
        <3>2. QED BY <2>3, <3>1, ValidatePredicateUnfolds
    <2>6. QED BY <2>1, <2>4, <2>5 DEF Accepts
<1>3. ASSUME NEW e \in Subtrees(d), Inner(e) => e.left \in good /\ e.right \in good
      PROVE  e \in good
    <2>1. CASE Inner(e)
        BY <1>1, <1>3, <2>1, NodeAccepts
    <2>2. QED BY <1>2, <2>1
<1>4. \A e \in Subtrees(d) : e \in good
    <2> HIDE DEF good
    <2>1. QED BY <1>1, <1>3, TreeInduction
<1>5. QED BY <1>1, <1>4

-----------------------------------------------------------------------------
(* Evaluation.                                                             *)

(* A row of the table.                                                     *)
RowOf(row, columns) ==
    /\ Len(row) = Len(columns)
    /\ \A c \in 1 .. Len(columns) : row[c].type = columns[c].type

(* A leaf evaluates to the datum of the reference, which has its type.     *)
LEMMA LeafValue ==
    ASSUME NEW columns, Distinct(columns), NEW e, IsTree(e), IsLeaf(e, columns),
           NEW row, RowOf(row, columns)
    PROVE  LET result == EvaluateValue(BoundTo(e, columns), row)
           IN  /\ result.status = "Ok"
               /\ result.value.type = LeafType(e, columns)
               /\ result.value.data = LeafData(e, columns, row)
<1> DEFINE b == BoundTo(e, columns)
           ok(value) == [status |-> "Ok", value |-> value]
<1>1. ~Inner(e) /\ Binds(e, columns) /\ b.kind = e.kind
    BY BindsLeaf DEF IsLeaf, Inner, Leaves
<1>2. CASE e.kind = "Literal"
    <2>1. b.literal = e.literal
        BY <1>1, <1>2, BindsLeaf
    <2>2. b.kind = "Literal"
        BY <1>1, <1>2
    <2>3. EvaluateValue(b, row) = ok(b.literal)
        BY <2>2, Zenon DEF EvaluateValue
    <2> HIDE DEF b
    <2>4. QED BY <1>2, <2>1, <2>3 DEF b, LeafType, LeafData
<1>3. CASE e.kind = "ColumnRef"
    <2> DEFINE c == ColumnNamed(columns, e.name)
    <2>1. b.ordinal = c /\ c \in 1 .. Len(columns)
        BY <1>1, <1>3, BindsLeaf
    <2>2. b.kind # "Literal" /\ b.kind = "ColumnRef"
        BY <1>1, <1>3
    <2>3. Len(columns) \in Nat /\ Len(row) = Len(columns)
        BY DEF Distinct, RowOf
    <2>4. ~(b.ordinal > Len(row))
        BY <2>1, <2>3
    <2>5. EvaluateValue(b, row) = ok(row[b.ordinal])
        BY <2>2, <2>4, Zenon DEF EvaluateValue
    <2> HIDE DEF b
    <2>6. row[c].type = columns[c].type
        BY <2>1 DEF RowOf
    <2> HIDE DEF c
    <2>7. QED BY <1>3, <2>1, <2>5, <2>6 DEF b, c, LeafType, LeafData
<1>4. QED BY <1>2, <1>3 DEF IsLeaf

LEMMA OrderedIsTruth ==
    ASSUME NEW m, NEW n, NEW op \in OrderingOperators
    PROVE  Ordered(op, m, n) \in BOOLEAN
<1>1. CASE op = "Less"
    <2>1. Ordered("Less", m, n) = (m < n)
        BY Zenon DEF Ordered
    <2>2. (m < n) \in BOOLEAN
        OBVIOUS
    <2>3. QED BY <1>1, <2>1, <2>2, Zenon
<1>2. CASE op = "LessEqual"
    <2>1. Ordered("LessEqual", m, n) = (m <= n)
        BY Zenon DEF Ordered
    <2>2. (m <= n) \in BOOLEAN
        OBVIOUS
    <2>3. QED BY <1>2, <2>1, <2>2, Zenon
<1>3. CASE op = "Greater"
    <2>1. Ordered("Greater", m, n) = (m > n)
        BY Zenon DEF Ordered
    <2>2. (m > n) \in BOOLEAN
        OBVIOUS
    <2>3. QED BY <1>3, <2>1, <2>2, Zenon
<1>4. CASE op = "GreaterEqual"
    <2>1. Ordered("GreaterEqual", m, n) = (m >= n)
        BY Zenon DEF Ordered
    <2>2. (m >= n) \in BOOLEAN
        OBVIOUS
    <2>3. QED BY <1>4, <2>1, <2>2, Zenon
<1>5. QED BY <1>1, <1>2, <1>3, <1>4 DEF OrderingOperators

(* An accepted comparison compares the data of two leaves.                 *)
LEMMA ComparisonEvaluates ==
    ASSUME NEW columns, Distinct(columns), NEW e, IsTree(e), IsPredicate(e, columns),
           e.op \notin Logical, NEW row, RowOf(row, columns)
    PROVE  EvaluateComparison(BoundTo(e, columns), row) = Answer(Holds(e, columns, row))
<1> DEFINE left == EvaluateValue(BoundTo(e.left, columns), row)
           right == EvaluateValue(BoundTo(e.right, columns), row)
           m == LeafData(e.left, columns, row)
           n == LeafData(e.right, columns, row)
           b == BoundTo(e, columns)
<1>1. e.kind = "Binary"
    BY IsPredicateUnfolds
<1>2. Inner(e) /\ IsTree(e.left) /\ IsTree(e.right) /\ e.op \in ComparisonOperators
    BY <1>1, TreeFacts, NodeFacts
<1>3. /\ IsLeaf(e.left, columns) /\ IsLeaf(e.right, columns)
      /\ LeafType(e.left, columns) = LeafType(e.right, columns)
      /\ e.op \in OrderingOperators => LeafType(e.left, columns) = "Int"
    BY IsPredicateUnfolds
<1>4. Binds(e, columns)
    BY AcceptedIsPredicate DEF Accepts
<1>5. b.op = e.op /\ b.left = BoundTo(e.left, columns) /\ b.right = BoundTo(e.right, columns)
    BY <1>2, <1>4, BindsBinary
<1>6. /\ left.status = "Ok" /\ right.status = "Ok"
      /\ left.value.type = right.value.type /\ left.value.data = m /\ right.value.data = n
      /\ e.op \in OrderingOperators => left.value.type = "Int"
    BY <1>2, <1>3, LeafValue
<1>7. Holds(e, columns, row) = (TRUE /\ Compares(e.op, m, n))
    <2>1. e.op # "And" /\ e.op # "Or"
        BY DEF Logical
    <2>2. QED BY <1>1, <2>1, HoldsUnfolds, Zenon
<1>8. EvaluateComparison(b, row) = CompareValues(e.op, left.value, right.value)
    BY <1>5, <1>6, Zenon DEF EvaluateComparison
<1> HIDE DEF left, right, m, n, b
<1>9. CompareValues(e.op, left.value, right.value) = Answer(TRUE /\ Compares(e.op, m, n))
    <2>1. CASE e.op \in {"Equal", "NotEqual"}
        BY <1>6, <2>1 DEF CompareValues, Answer, Compares
    <2>2. CASE e.op \in OrderingOperators
        <3>1. e.op # "Equal" /\ e.op # "NotEqual"
            BY <2>2 DEF OrderingOperators
        <3>2. CompareValues(e.op, left.value, right.value) = Answer(Ordered(e.op, m, n))
            BY <1>6, <2>2, <3>1 DEF CompareValues
        <3>3. Compares(e.op, m, n) = Ordered(e.op, m, n)
            BY <3>1 DEF Compares
        <3>4. Ordered(e.op, m, n) \in BOOLEAN
            BY <2>2, OrderedIsTruth
        <3>5. (TRUE /\ Compares(e.op, m, n)) = Ordered(e.op, m, n)
            BY <3>3, <3>4, Zenon
        <3>6. QED BY <3>2, <3>5
    <2>3. QED BY <1>2, <2>1, <2>2 DEF ComparisonOperators
<1>10. QED BY <1>7, <1>8, <1>9 DEF b

(* An accepted clause evaluates to the truth value of the reference.       *)
LEMMA PredicateEvaluates ==
    ASSUME NEW columns, Distinct(columns), NEW d, IsTree(d), IsPredicate(d, columns),
           NEW row, RowOf(row, columns)
    PROVE  /\ Evaluate(BoundTo(d, columns), row) = Answer(Holds(d, columns, row))
           /\ Holds(d, columns, row) \in BOOLEAN
<1> DEFINE evaluates(e) == /\ Evaluate(BoundTo(e, columns), row) = Answer(Holds(e, columns, row))
                           /\ Holds(e, columns, row) \in BOOLEAN
           good == {e \in Subtrees(d) : IsPredicate(e, columns) => evaluates(e)}
<1>1. d \in Subtrees(d) /\ Hereditary(Subtrees(d)) /\ \A e \in Subtrees(d) : IsTree(e)
    BY SubtreesAreTrees
<1>2. ASSUME NEW e \in Subtrees(d), Inner(e) => e.left \in good /\ e.right \in good,
             IsPredicate(e, columns)
      PROVE  evaluates(e)
    <2> DEFINE b == BoundTo(e, columns)
    <2>1. IsTree(e)
        BY <1>1
    <2>2. Binds(e, columns) /\ Grounded(b)
        BY <1>2, <2>1, AcceptedIsPredicate, BoundIsTree DEF Accepts
    <2>3. e.kind = "Binary"
        BY <1>2, <2>1, IsPredicateUnfolds
    <2>4. Inner(e) /\ e.op \in ComparisonOperators \cup Logical
        BY <2>1, <2>3, TreeFacts, NodeFacts
    <2>5. Holds(e, columns, row) \in BOOLEAN
        BY <2>1, HoldsUnfolds
    <2>6. CASE e.op \notin Logical
        <3>1. EvaluateComparison(b, row) = Answer(Holds(e, columns, row))
            BY <1>2, <2>1, <2>6, ComparisonEvaluates
        <3>2. b.kind = "Comparison"
            BY <2>1, <2>2, <2>4, <2>6, BindsBinary
        <3>3. Evaluate(b, row) = EvaluateComparison(b, row)
            BY <2>2, <3>2, EvaluateUnfolds
        <3>4. QED BY <2>5, <3>1, <3>3
    <2>7. CASE e.op \in Logical
        <3> DEFINE left == Evaluate(BoundTo(e.left, columns), row)
                   right == Evaluate(BoundTo(e.right, columns), row)
                   p == Holds(e.left, columns, row)
                   q == Holds(e.right, columns, row)
                   truth == Holds(e, columns, row)
        <3>1. left = Answer(p) /\ p \in BOOLEAN /\ right = Answer(q) /\ q \in BOOLEAN
            <4>1. IsPredicate(e.left, columns) /\ IsPredicate(e.right, columns)
                BY <1>2, <2>1, <2>7, IsPredicateUnfolds
            <4>2. QED BY <1>2, <2>4, <4>1
        <3>2. /\ b.kind = e.op /\ b.left = BoundTo(e.left, columns)
              /\ b.right = BoundTo(e.right, columns)
            BY <2>1, <2>2, <2>4, <2>7, BindsBinary
        <3>3. Evaluate(b, row) = EvaluateLogical(e.op, left, right)
            <4>1. b.kind # "Comparison"
                BY <2>7, <3>2 DEF Logical
            <4>2. QED BY <2>2, <2>7, <3>2, <4>1, EvaluateUnfolds
        <3>4. truth = IF e.op = "And" THEN p /\ q ELSE p \/ q
            <4>1. CASE e.op = "And"
                BY <2>1, <2>3, <4>1, HoldsUnfolds
            <4>2. CASE e.op = "Or"
                BY <2>1, <2>3, <4>2, HoldsUnfolds
            <4>3. QED BY <2>7, <4>1, <4>2 DEF Logical
        <3> HIDE DEF left, right, p, q, b, truth
        <3>5. EvaluateLogical(e.op, left, right) = Answer(truth)
            <4>1. CASE e.op = "And"
                <5>1. CASE p
                    BY <3>1, <3>4, <4>1, <5>1 DEF EvaluateLogical, Answer
                <5>2. CASE ~p
                    BY <3>1, <3>4, <4>1, <5>2 DEF EvaluateLogical, Answer
                <5>3. QED BY <5>1, <5>2
            <4>2. CASE e.op = "Or"
                <5>1. CASE p
                    BY <3>1, <3>4, <4>2, <5>1 DEF EvaluateLogical, Answer
                <5>2. CASE ~p
                    BY <3>1, <3>4, <4>2, <5>2 DEF EvaluateLogical, Answer
                <5>3. QED BY <5>1, <5>2
            <4>3. QED BY <2>7, <4>1, <4>2 DEF Logical
        <3>6. QED BY <2>5, <3>3, <3>5 DEF b, truth
    <2>8. QED BY <2>6, <2>7
<1>3. \A e \in Subtrees(d) : (Inner(e) => e.left \in good /\ e.right \in good) => e \in good
    <2> HIDE DEF evaluates
    <2>1. QED BY <1>2
<1>4. d \in good
    <2> HIDE DEF good
    <2>1. QED BY <1>1, <1>3, TreeInduction
<1>5. evaluates(d)
    <2> HIDE DEF evaluates
    <2>1. QED BY <1>4
<1>6. QED BY <1>5

=============================================================================
