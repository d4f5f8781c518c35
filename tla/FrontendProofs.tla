--------------------------- MODULE FrontendProofs ---------------------------
(***************************************************************************)
(* The parser against its grammar, for every alphabet, every table of      *)
(* keywords and every text: it accepts the sentences of the grammar and    *)
(* nothing else, makes the only tree that the grammar has for them, and    *)
(* reports an error at the first token that makes the text no beginning of *)
(* a sentence.  ShellProofs has the scanner and what the calls return.     *)
(***************************************************************************)
EXTENDS Frontend, ShellProofs

-----------------------------------------------------------------------------
(***************************************************************************)
(* The grammar: its rules hold of what Derived is.  A rule looks at        *)
(* shorter pieces, and at the same piece for symbols of a lower level.     *)
(***************************************************************************)
Level(symbol) ==
    IF symbol \in {"name", "primary"} THEN 0
    ELSE IF symbol \in {"comparison", "definition"} THEN 1
    ELSE IF symbol = "conjunction" THEN 2 ELSE 3

Pieces(n) == Symbols \X (1 .. n + 1) \X (0 .. n)
IsBelow(t, a, b, symbol, i, j) ==
    b - a < j - i \/ (b - a = j - i /\ Level(t) < Level(symbol))
SameBelow(f, g, n, symbol, i, j) ==
    \A t \in Symbols, a \in 1 .. n + 1, b \in 0 .. n :
        IsBelow(t, a, b, symbol, i, j) => f[<<t, a, b>>] = g[<<t, a, b>>]

LEMMA JoinedSame ==
    ASSUME NEW ts, NEW f, NEW g, NEW ops, NEW lefts, NEW rights, NEW i, NEW j,
           f[<<rights, i, j>>] = g[<<rights, i, j>>],
           \A k \in Splits(ts, i, j, ops) :
               /\ f[<<lefts, i, k - 1>>] = g[<<lefts, i, k - 1>>]
               /\ f[<<rights, k + 1, j>>] = g[<<rights, k + 1, j>>]
    PROVE  Joined(ts, f, ops, lefts, rights, i, j) = Joined(ts, g, ops, lefts, rights, i, j)
<1> DEFINE K == Splits(ts, i, j, ops)
           F(k) == Binaries(Kind(ts, k), f[<<lefts, i, k - 1>>], f[<<rights, k + 1, j>>])
           G(k) == Binaries(Kind(ts, k), g[<<lefts, i, k - 1>>], g[<<rights, k + 1, j>>])
<1>1. \A k \in K : F(k) = G(k)
    OBVIOUS
<1>2. /\ Joined(ts, f, ops, lefts, rights, i, j) = f[<<rights, i, j>>] \cup UNION {F(k) : k \in K}
      /\ Joined(ts, g, ops, lefts, rights, i, j) = g[<<rights, i, j>>] \cup UNION {G(k) : k \in K}
    BY DEF Joined
<1> HIDE DEF K, F, G
<1>3. {F(k) : k \in K} = {G(k) : k \in K}
    BY <1>1
<1>4. QED BY <1>2, <1>3

LEMMA ListedSame ==
    ASSUME NEW ts, NEW f, NEW g, NEW lists, NEW items, NEW i, NEW j,
           f[<<items, i, j>>] = g[<<items, i, j>>],
           \A k \in Splits(ts, i, j, {"Comma"}) :
               /\ f[<<lists, i, k - 1>>] = g[<<lists, i, k - 1>>]
               /\ f[<<items, k + 1, j>>] = g[<<items, k + 1, j>>]
    PROVE  Listed(ts, f, lists, items, i, j) = Listed(ts, g, lists, items, i, j)
<1> DEFINE K == Splits(ts, i, j, {"Comma"})
           F(k) == Appended(f[<<lists, i, k - 1>>], f[<<items, k + 1, j>>])
           G(k) == Appended(g[<<lists, i, k - 1>>], g[<<items, k + 1, j>>])
<1>1. \A k \in K : F(k) = G(k)
    OBVIOUS
<1>2. /\ Listed(ts, f, lists, items, i, j)
            = {<<x>> : x \in f[<<items, i, j>>]} \cup UNION {F(k) : k \in K}
      /\ Listed(ts, g, lists, items, i, j)
            = {<<x>> : x \in g[<<items, i, j>>]} \cup UNION {G(k) : k \in K}
    BY DEF Listed
<1> HIDE DEF K, F, G
<1>3. {F(k) : k \in K} = {G(k) : k \in K}
    BY <1>1
<1>4. QED BY <1>2, <1>3

(* What a rule looks at is below.                                          *)
LEMMA SplitsBelow ==
    ASSUME NEW ts, NEW n \in Nat, NEW i \in 1 .. n + 1, NEW j \in 0 .. n,
           NEW kinds, NEW k \in Splits(ts, i, j, kinds), NEW symbol, NEW t
    PROVE  /\ k - 1 \in 0 .. n /\ k + 1 \in 1 .. n + 1 /\ k \in 1 .. n
           /\ IsBelow(t, i, k - 1, symbol, i, j) /\ IsBelow(t, k + 1, j, symbol, i, j)
BY DEF Splits, IsBelow

LEMMA JoinedBelow ==
    ASSUME NEW ts, NEW n \in Nat, NEW i \in 1 .. n + 1, NEW j \in 0 .. n,
           NEW f, NEW g, NEW symbol, SameBelow(f, g, n, symbol, i, j),
           NEW lefts \in Symbols, NEW rights \in Symbols, Level(rights) < Level(symbol), NEW ops
    PROVE  Joined(ts, f, ops, lefts, rights, i, j) = Joined(ts, g, ops, lefts, rights, i, j)
<1>1. f[<<rights, i, j>>] = g[<<rights, i, j>>]
    BY DEF SameBelow, IsBelow
<1>2. ASSUME NEW k \in Splits(ts, i, j, ops)
      PROVE  /\ f[<<lefts, i, k - 1>>] = g[<<lefts, i, k - 1>>]
             /\ f[<<rights, k + 1, j>>] = g[<<rights, k + 1, j>>]
    <2>1. /\ k - 1 \in 0 .. n /\ k + 1 \in 1 .. n + 1
          /\ IsBelow(lefts, i, k - 1, symbol, i, j) /\ IsBelow(rights, k + 1, j, symbol, i, j)
        BY SplitsBelow
    <2>2. QED BY <2>1 DEF SameBelow
<1>3. QED BY <1>1, <1>2, JoinedSame

LEMMA ListedBelow ==
    ASSUME NEW ts, NEW n \in Nat, NEW i \in 1 .. n + 1, NEW j \in 0 .. n,
           NEW f, NEW g, NEW symbol, SameBelow(f, g, n, symbol, i, j),
           NEW lists \in Symbols, NEW items \in Symbols, Level(items) < Level(symbol)
    PROVE  Listed(ts, f, lists, items, i, j) = Listed(ts, g, lists, items, i, j)
<1>1. f[<<items, i, j>>] = g[<<items, i, j>>]
    BY DEF SameBelow, IsBelow
<1>2. ASSUME NEW k \in Splits(ts, i, j, {"Comma"})
      PROVE  /\ f[<<lists, i, k - 1>>] = g[<<lists, i, k - 1>>]
             /\ f[<<items, k + 1, j>>] = g[<<items, k + 1, j>>]
    <2>1. /\ k - 1 \in 0 .. n /\ k + 1 \in 1 .. n + 1
          /\ IsBelow(lists, i, k - 1, symbol, i, j) /\ IsBelow(items, k + 1, j, symbol, i, j)
        BY SplitsBelow
    <2>2. QED BY <2>1 DEF SameBelow
<1>3. QED BY <1>1, <1>2, ListedSame

LEMMA PrimariesBelow ==
    ASSUME NEW ts, NEW n \in Nat, NEW i \in 1 .. n + 1, NEW j \in 0 .. n,
           NEW f, NEW g, SameBelow(f, g, n, "primary", i, j)
    PROVE  Primaries(ts, f, i, j) = Primaries(ts, g, i, j)
<1>1. CASE InParens(ts, i, j)
    <2>1. i + 1 \in 1 .. n + 1 /\ j - 1 \in 0 .. n /\ "disjunction" \in Symbols
          /\ IsBelow("disjunction", i + 1, j - 1, "primary", i, j)
        BY <1>1 DEF InParens, IsBelow, Symbols
    <2>2. f[<<"disjunction", i + 1, j - 1>>] = g[<<"disjunction", i + 1, j - 1>>]
        BY <2>1 DEF SameBelow
    <2>3. QED BY <2>2, Zenon DEF Primaries
<1>2. CASE ~InParens(ts, i, j)
    BY <1>2 DEF Primaries
<1>3. QED BY <1>1, <1>2

LEMMA DefinitionsBelow ==
    ASSUME NEW ts, NEW n \in Nat, NEW i \in 1 .. n + 1, NEW j \in 0 .. n,
           NEW f, NEW g, SameBelow(f, g, n, "definition", i, j)
    PROVE  Definitions(ts, f, i, j) = Definitions(ts, g, i, j)
<1>1. CASE i < j
    <2>1. j - 1 \in 0 .. n /\ "name" \in Symbols /\ IsBelow("name", i, j - 1, "definition", i, j)
        BY <1>1 DEF IsBelow, Symbols
    <2>2. f[<<"name", i, j - 1>>] = g[<<"name", i, j - 1>>]
        BY <2>1 DEF SameBelow
    <2>3. QED BY <2>2 DEF Definitions
<1>2. CASE ~(i < j)
    BY <1>2 DEF Definitions
<1>3. QED BY <1>1, <1>2

LEMMA RuleBelow ==
    ASSUME NEW ts, NEW n \in Nat, NEW i \in 1 .. n + 1, NEW j \in 0 .. n,
           NEW f, NEW g, NEW symbol \in Symbols, SameBelow(f, g, n, symbol, i, j)
    PROVE  Rule(ts, f, symbol, i, j) = Rule(ts, g, symbol, i, j)
<1>1. /\ {"name", "primary", "comparison", "conjunction", "disjunction",
          "names", "definition", "definitions", "values"} = Symbols
      /\ Level("name") = 0 /\ Level("primary") = 0 /\ Level("comparison") = 1
      /\ Level("definition") = 1 /\ Level("conjunction") = 2 /\ Level("disjunction") = 3
      /\ Level("names") = 3 /\ Level("definitions") = 3 /\ Level("values") = 3
    BY DEF Symbols, Level
<1>2. CASE symbol = "name"
    BY <1>2 DEF Rule
<1>3. CASE symbol = "primary"
    BY <1>3, PrimariesBelow DEF Rule
<1>4. CASE symbol = "comparison"
    <2>1. Joined(ts, f, ComparisonOperators, "primary", "primary", i, j)
            = Joined(ts, g, ComparisonOperators, "primary", "primary", i, j)
        BY <1>1, <1>4, JoinedBelow
    <2>2. QED BY <1>4, <2>1 DEF Rule
<1>5. CASE symbol = "conjunction"
    <2>1. Joined(ts, f, {"And"}, "conjunction", "comparison", i, j)
            = Joined(ts, g, {"And"}, "conjunction", "comparison", i, j)
        BY <1>1, <1>5, JoinedBelow
    <2>2. QED BY <1>5, <2>1 DEF Rule
<1>6. CASE symbol = "disjunction"
    <2>1. Joined(ts, f, {"Or"}, "disjunction", "conjunction", i, j)
            = Joined(ts, g, {"Or"}, "disjunction", "conjunction", i, j)
        BY <1>1, <1>6, JoinedBelow
    <2>2. QED BY <1>6, <2>1 DEF Rule
<1>7. CASE symbol = "names"
    <2>1. Listed(ts, f, "names", "name", i, j) = Listed(ts, g, "names", "name", i, j)
        BY <1>1, <1>7, ListedBelow
    <2>2. QED BY <1>7, <2>1 DEF Rule
<1>8. CASE symbol = "definition"
    BY <1>8, DefinitionsBelow DEF Rule
<1>9. CASE symbol = "definitions"
    <2>1. Listed(ts, f, "definitions", "definition", i, j)
            = Listed(ts, g, "definitions", "definition", i, j)
        BY <1>1, <1>9, ListedBelow
    <2>2. QED BY <1>9, <2>1 DEF Rule
<1>10. CASE symbol = "values"
    <2>1. Listed(ts, f, "values", "primary", i, j) = Listed(ts, g, "values", "primary", i, j)
        BY <1>1, <1>10, ListedBelow
    <2>2. QED BY <1>10, <2>1 DEF Rule
<1>11. QED BY <1>2, <1>3, <1>4, <1>5, <1>6, <1>7, <1>8, <1>9, <1>10 DEF Symbols

LEMMA DerivedExists ==
    ASSUME NEW ts, NEW n \in Nat
    PROVE  \E f : f = [p \in Pieces(n) |-> Rule(ts, f, p[1], p[2], p[3])]
<1> DEFINE D == Pieces(n)
           N == 10 * n + 10
           rank == [p \in D |-> 5 * (n + 1 + p[3] - p[2]) + Level(p[1])]
<1>1. \A p \in D : p[1] \in Symbols /\ p[2] \in 1 .. n + 1 /\ p[3] \in 0 .. n
    BY DEF Pieces
<1>2. \A symbol : Level(symbol) \in 0 .. 3
    BY DEF Level
<1>3. N \in Nat /\ rank \in [D -> 0 .. N]
    <2>1. ASSUME NEW i \in 1 .. n + 1, NEW j \in 0 .. n, NEW l \in 0 .. 3
          PROVE  5 * (n + 1 + j - i) + l \in 0 .. N
        OBVIOUS
    <2>2. ASSUME NEW p \in D
          PROVE  5 * (n + 1 + p[3] - p[2]) + Level(p[1]) \in 0 .. N
        <3> HIDE DEF N, D
        <3>1. QED BY <1>1, <1>2, <2>1
    <2> HIDE DEF D
    <2>3. QED BY <2>2
<1>4. LooksDown("derived", D, rank, ts, 0, 0)
    <2> SUFFICES ASSUME NEW f, NEW g, NEW q \in D, Agree(f, g, D, rank, rank[q])
                 PROVE  At("derived", f, q, ts, 0, 0) = At("derived", g, q, ts, 0, 0)
        BY DEF LooksDown
    <2>1. q[1] \in Symbols /\ q[2] \in 1 .. n + 1 /\ q[3] \in 0 .. n
        BY <1>1
    <2>2. SameBelow(f, g, n, q[1], q[2], q[3])
        <3> SUFFICES ASSUME NEW t \in Symbols, NEW a \in 1 .. n + 1, NEW b \in 0 .. n,
                            IsBelow(t, a, b, q[1], q[2], q[3])
                     PROVE  f[<<t, a, b>>] = g[<<t, a, b>>]
            BY DEF SameBelow
        <3>1. <<t, a, b>> \in D
            BY DEF Pieces
        <3>2. /\ rank[<<t, a, b>>] = 5 * (n + 1 + b - a) + Level(t)
              /\ rank[q] = 5 * (n + 1 + q[3] - q[2]) + Level(q[1])
            <4> HIDE DEF D
            <4>1. QED BY <3>1
        <3>3. ASSUME NEW k \in 0 .. 3, NEW l \in 0 .. 3, NEW i \in 1 .. n + 1, NEW j \in 0 .. n,
                     b - a < j - i \/ (b - a = j - i /\ k < l)
              PROVE  5 * (n + 1 + b - a) + k < 5 * (n + 1 + j - i) + l
            BY <3>3
        <3> HIDE DEF rank, D
        <3>4. rank[<<t, a, b>>] < rank[q]
            BY <1>2, <2>1, <3>2, <3>3 DEF IsBelow
        <3>5. QED BY <3>1, <3>4, Zenon DEF Agree
    <2>3. Rule(ts, f, q[1], q[2], q[3]) = Rule(ts, g, q[1], q[2], q[3])
        BY <2>1, <2>2, RuleBelow
    <2>4. \A h : At("derived", h, q, ts, 0, 0) = Rule(ts, h, q[1], q[2], q[3])
        BY DEF At
    <2>5. QED BY <2>3, <2>4
<1>5. PICK f : Solves("derived", f, D, ts, 0, 0)
    <2> HIDE DEF D, N, rank
    <2>1. QED BY <1>3, <1>4, SolutionExists
<1>6. \A q : At("derived", f, q, ts, 0, 0) = Rule(ts, f, q[1], q[2], q[3])
    BY DEF At
<1>7. f = [q \in D |-> Rule(ts, f, q[1], q[2], q[3])]
    <2> HIDE DEF D
    <2>1. f = [q \in D |-> At("derived", f, q, ts, 0, 0)]
        BY <1>5 DEF Solves
    <2>2. QED BY <1>6, <2>1
<1>8. QED BY <1>7

LEMMA DerivedByRules ==
    ASSUME NEW ts, Len(ts) \in Nat, NEW symbol \in Symbols,
           NEW i \in 1 .. Len(ts) + 1, NEW j \in 0 .. Len(ts)
    PROVE  Derived(ts)[<<symbol, i, j>>] = Rule(ts, Derived(ts), symbol, i, j)
<1> DEFINE trees[p \in Symbols \X (1 .. Len(ts) + 1) \X (0 .. Len(ts))] ==
               Rule(ts, trees, p[1], p[2], p[3])
           D == Symbols \X (1 .. Len(ts) + 1) \X (0 .. Len(ts))
<1>1. \E f : f = [p \in D |-> Rule(ts, f, p[1], p[2], p[3])]
    BY DerivedExists DEF Pieces
<1>2. trees = [p \in D |-> Rule(ts, trees, p[1], p[2], p[3])]
    BY ONLY <1>1, Zenon
<1>3. Derived(ts) = trees
    BY DEF Derived
<1> HIDE DEF trees
<1> DEFINE p == <<symbol, i, j>>
<1>4. p \in D /\ p[1] = symbol /\ p[2] = i /\ p[3] = j
    OBVIOUS
<1> HIDE DEF p, D
<1>5. trees[p] = Rule(ts, trees, p[1], p[2], p[3])
    BY <1>2, <1>4
<1>6. QED BY <1>3, <1>4, <1>5 DEF p

-----------------------------------------------------------------------------
(***************************************************************************)
(* The parser reads what the grammar derives: if a call that begins at p   *)
(* succeeds, its tree is one of the tokens that it took; and if these      *)
(* tokens have a tree and the next one does not go on with it, then the    *)
(* call returns this tree.                                                 *)
(***************************************************************************)
Reads(ts, p, result, symbol, goesOn) ==
    /\ result.ok =>
          /\ result.behind \in p + 1 .. Len(ts)
          /\ result.tree \in Derived(ts)[<<symbol, p, result.behind - 1>>]
    /\ \A j \in 0 .. Len(ts) - 1 : \A tree \in Derived(ts)[<<symbol, p, j>>] :
          Kind(ts, j + 1) \notin goesOn => result = Parsed(tree, j + 1)

AfterDisjunction == ComparisonOperators \cup {"And", "Or"}
AfterConjunction == ComparisonOperators \cup {"And"}
NestedRead(ts, nested, p) ==
    \A q \in p + 1 .. Len(ts) : Reads(ts, q, nested[q], "disjunction", AfterDisjunction)

LEMMA DerivedIs ==
    ASSUME NEW ts, IsScan(ts), NEW i \in 1 .. Len(ts), NEW j \in 0 .. Len(ts) - 1
    PROVE  LET trees == Derived(ts)
           IN  /\ trees[<<"name", i, j>>] = Names(ts, i, j)
               /\ trees[<<"primary", i, j>>] = Primaries(ts, trees, i, j)
               /\ trees[<<"comparison", i, j>>]
                    = Joined(ts, trees, ComparisonOperators, "primary", "primary", i, j)
               /\ trees[<<"conjunction", i, j>>]
                    = Joined(ts, trees, {"And"}, "conjunction", "comparison", i, j)
               /\ trees[<<"disjunction", i, j>>]
                    = Joined(ts, trees, {"Or"}, "disjunction", "conjunction", i, j)
               /\ trees[<<"names", i, j>>] = Listed(ts, trees, "names", "name", i, j)
               /\ trees[<<"definition", i, j>>] = Definitions(ts, trees, i, j)
               /\ trees[<<"definitions", i, j>>]
                    = Listed(ts, trees, "definitions", "definition", i, j)
               /\ trees[<<"values", i, j>>] = Listed(ts, trees, "values", "primary", i, j)
<1> DEFINE trees == Derived(ts)
<1>1. Len(ts) \in Nat /\ i \in 1 .. Len(ts) + 1 /\ j \in 0 .. Len(ts)
    BY DEF IsScan
<1>2. \A symbol \in Symbols : trees[<<symbol, i, j>>] = Rule(ts, trees, symbol, i, j)
    BY <1>1, DerivedByRules
<1> HIDE DEF trees
<1>3. /\ "name" \in Symbols /\ "primary" \in Symbols /\ "comparison" \in Symbols
      /\ "conjunction" \in Symbols /\ "disjunction" \in Symbols /\ "names" \in Symbols
      /\ "definition" \in Symbols /\ "definitions" \in Symbols /\ "values" \in Symbols
    BY DEF Symbols
<1>4. /\ trees[<<"name", i, j>>] = Names(ts, i, j)
      /\ trees[<<"primary", i, j>>] = Primaries(ts, trees, i, j)
      /\ trees[<<"definition", i, j>>] = Definitions(ts, trees, i, j)
    BY <1>2, <1>3 DEF Rule
<1>5. /\ trees[<<"comparison", i, j>>]
           = Joined(ts, trees, ComparisonOperators, "primary", "primary", i, j)
      /\ trees[<<"conjunction", i, j>>]
           = Joined(ts, trees, {"And"}, "conjunction", "comparison", i, j)
      /\ trees[<<"disjunction", i, j>>]
           = Joined(ts, trees, {"Or"}, "disjunction", "conjunction", i, j)
    BY <1>2, <1>3 DEF Rule
<1>6. /\ trees[<<"names", i, j>>] = Listed(ts, trees, "names", "name", i, j)
      /\ trees[<<"definitions", i, j>>] = Listed(ts, trees, "definitions", "definition", i, j)
      /\ trees[<<"values", i, j>>] = Listed(ts, trees, "values", "primary", i, j)
    BY <1>2, <1>3 DEF Rule
<1>7. QED BY <1>4, <1>5, <1>6 DEF trees

LEMMA PrimaryIs ==
    ASSUME NEW ts, IsScan(ts), NEW p \in 1 .. Len(ts)
    PROVE  \A j \in 0 .. Len(ts) - 1 :
               Derived(ts)[<<"primary", p, j>>] = Primaries(ts, Derived(ts), p, j)
<1> SUFFICES ASSUME NEW j \in 0 .. Len(ts) - 1
             PROVE  Derived(ts)[<<"primary", p, j>>] = Primaries(ts, Derived(ts), p, j)
    OBVIOUS
<1>1. QED BY DerivedIs, Zenon

(* One token that is a tree.                                               *)
LEMMA TokenReads ==
    ASSUME NEW ts, IsScan(ts), NEW p \in 1 .. Len(ts), Kind(ts, p) # "EndOfFile",
           NEW result, NEW tree, result = Parsed(tree, p + 1), NEW symbol,
           \A j \in 0 .. Len(ts) - 1 :
               Derived(ts)[<<symbol, p, j>>] = IF p = j THEN {tree} ELSE {}
    PROVE  Reads(ts, p, result, symbol, {})
<1>1. p \in 0 .. Len(ts) - 1 /\ p + 1 \in p + 1 .. Len(ts) /\ p + 1 - 1 = p
    BY DEF IsScan
<1>2. result.behind = p + 1 /\ result.tree = tree
    BY DEF Parsed
<1>3. tree \in Derived(ts)[<<symbol, p, p + 1 - 1>>]
    BY <1>1
<1>4. ASSUME NEW j \in 0 .. Len(ts) - 1, NEW other \in Derived(ts)[<<symbol, p, j>>]
      PROVE  result = Parsed(other, j + 1)
    <2>1. p = j /\ other = tree
        OBVIOUS
    <2>2. QED BY <2>1
<1>5. QED BY <1>1, <1>2, <1>3, <1>4 DEF Reads

LEMMA NothingReads ==
    ASSUME NEW ts, NEW p, NEW q, NEW symbol, NEW goesOn,
           \A j \in 0 .. Len(ts) - 1 : Derived(ts)[<<symbol, p, j>>] = {}
    PROVE  Reads(ts, p, Error(q), symbol, goesOn)
<1>1. ~Error(q).ok
    BY DEF Error
<1>2. QED BY <1>1 DEF Reads

LEMMA ParenthesizedReads ==
    ASSUME NEW ts, IsScan(ts), NEW p \in 1 .. Len(ts), Kind(ts, p) = "LParen",
           NEW nested, NestedRead(ts, nested, p)
    PROVE  Reads(ts, p, ParseParenthesized(ts, nested, p), "primary", {})
<1> DEFINE inner == nested[p + 1]
           q == inner.behind
           paren == Expect(ts, q, "RParen")
           result == ParseParenthesized(ts, nested, p)
           trees == Derived(ts)
<1>1. result = IF inner.ok
               THEN IF paren.ok THEN Parsed(inner.tree, paren.behind) ELSE paren
               ELSE inner
    BY DEF ParseParenthesized, Then
<1>2. Len(ts) \in Nat /\ p + 1 \in 1 .. Len(ts) /\ p + 1 \in p + 1 .. Len(ts)
    BY DEF IsScan
<1>3. Reads(ts, p + 1, inner, "disjunction", AfterDisjunction)
    BY <1>2 DEF NestedRead
<1>4. \A j \in 0 .. Len(ts) - 1 :
          trees[<<"primary", p, j>>]
             = IF p < j /\ Kind(ts, j) = "RParen"
               THEN trees[<<"disjunction", p + 1, j - 1>>] ELSE {}
    <2>1. \A j \in 0 .. Len(ts) - 1 : trees[<<"primary", p, j>>] = Primaries(ts, trees, p, j)
        BY PrimaryIs
    <2> HIDE DEF trees
    <2>2. QED BY <2>1 DEF Primaries, IsOne, InParens
<1> HIDE DEF inner, result, trees
<1>5. ASSUME result.ok
      PROVE  /\ result.behind \in p + 1 .. Len(ts)
             /\ result.tree \in trees[<<"primary", p, result.behind - 1>>]
    <2>1. inner.ok /\ paren.ok /\ result = Parsed(inner.tree, paren.behind)
        BY <1>1, <1>5
    <2>2. q \in p + 1 + 1 .. Len(ts) /\ inner.tree \in trees[<<"disjunction", p + 1, q - 1>>]
        BY <1>3, <2>1 DEF Reads, trees
    <2>3. q \in 1 .. Len(ts)
        BY <1>2, <2>2
    <2>4. Kind(ts, q) = "RParen" /\ paren.behind = q + 1 /\ q + 1 \in 1 .. Len(ts)
        BY <2>1, <2>3, ExpectGoes
    <2> HIDE DEF q, paren
    <2>5. q \in 0 .. Len(ts) - 1 /\ p < q /\ q + 1 - 1 = q /\ q + 1 \in p + 1 .. Len(ts)
        BY <1>2, <2>2, <2>4
    <2>6. inner.tree \in trees[<<"primary", p, q>>]
        BY <1>4, <2>2, <2>4, <2>5
    <2>7. result.behind = q + 1 /\ result.tree = inner.tree
        BY <2>1, <2>4 DEF Parsed
    <2>8. QED BY <2>5, <2>6, <2>7
<1>6. ASSUME NEW j \in 0 .. Len(ts) - 1, NEW tree \in trees[<<"primary", p, j>>]
      PROVE  result = Parsed(tree, j + 1)
    <2>1. p < j /\ Kind(ts, j) = "RParen" /\ tree \in trees[<<"disjunction", p + 1, j - 1>>]
        BY <1>4
    <2>2. "RParen" \notin AfterDisjunction
        BY DEF AfterDisjunction, ComparisonOperators, OrderingOperators
    <2>3. j - 1 \in 0 .. Len(ts) - 1 /\ j - 1 + 1 = j /\ j \in 1 .. Len(ts)
        BY <1>2, <2>1
    <2>4. inner = Parsed(tree, j)
        BY <1>3, <2>1, <2>2, <2>3 DEF Reads, trees
    <2>5. inner.ok /\ q = j /\ inner.tree = tree
        BY <2>4 DEF Parsed
    <2>6. paren.ok /\ paren.behind = j + 1
        BY <2>1, <2>3, <2>5, ExpectGoes
    <2>7. QED BY <1>1, <2>5, <2>6
<1>7. QED BY <1>5, <1>6 DEF Reads, result, trees

LEMMA PrimaryReads ==
    ASSUME NEW ts, IsScan(ts), NEW p \in 1 .. Len(ts), NEW nested, NestedRead(ts, nested, p)
    PROVE  Reads(ts, p, ParsePrimary(ts, nested, p), "primary", {})
<1> DEFINE lexeme == ts[p].lexeme
           result == ParsePrimary(ts, nested, p)
           trees == Derived(ts)
<1>1. p \in Int /\ \A j \in 0 .. Len(ts) - 1 :
          trees[<<"primary", p, j>>] = Primaries(ts, trees, p, j)
    BY PrimaryIs
<1> HIDE DEF trees
<1>2. CASE Kind(ts, p) = "Identifier"
    <2>1. result = Parsed(ColumnExpr(lexeme), p + 1)
        BY <1>2 DEF ParsePrimary, ParseColumnReference, Expect, Then, Parsed
    <2>2. \A j \in 0 .. Len(ts) - 1 :
              trees[<<"primary", p, j>>] = IF p = j THEN {ColumnExpr(lexeme)} ELSE {}
        BY <1>1, <1>2 DEF Primaries, IsOne, InParens
    <2>3. QED BY <1>2, <2>1, <2>2, TokenReads DEF trees
<1>3. CASE Kind(ts, p) = "IntegerLiteral"
    <2> DEFINE value == DecimalValue(lexeme)
    <2>1. value \in Nat
        BY <1>3, DecimalIsNumber DEF IsScan
    <2>2. result = IF value > MaxInt64 THEN Error(p) ELSE Parsed(LiteralExpr(Int64(value)), p + 1)
        BY <1>3 DEF ParsePrimary, ParseIntegerLiteral
    <2>3. \A j \in 0 .. Len(ts) - 1 :
              trees[<<"primary", p, j>>]
                 = IF p = j THEN {LiteralExpr(Int64(n)) : n \in {value} \cap 0 .. MaxInt64} ELSE {}
        BY <1>1, <1>3 DEF Primaries, IsOne, InParens
    <2> HIDE DEF result, value, trees
    <2>4. CASE value > MaxInt64
        <3>1. {value} \cap 0 .. MaxInt64 = {}
            BY <2>1, <2>4, MaxInt64Assumption
        <3>2. \A j \in 0 .. Len(ts) - 1 : trees[<<"primary", p, j>>] = {}
            BY <2>3, <3>1
        <3>3. QED BY <2>2, <2>4, <3>2, NothingReads DEF result, trees
    <2>5. CASE ~(value > MaxInt64)
        <3>1. {value} \cap 0 .. MaxInt64 = {value}
            BY <2>1, <2>5, MaxInt64Assumption
        <3>2. \A j \in 0 .. Len(ts) - 1 :
                  trees[<<"primary", p, j>>] = IF p = j THEN {LiteralExpr(Int64(value))} ELSE {}
            BY <2>3, <3>1
        <3>3. result = Parsed(LiteralExpr(Int64(value)), p + 1)
            BY <2>2, <2>5
        <3>4. QED BY <1>3, <3>2, <3>3, TokenReads DEF result, trees
    <2>6. QED BY <2>4, <2>5
<1>4. CASE Kind(ts, p) = "StringLiteral"
    <2>1. result = Parsed(LiteralExpr(Text(DecodeStringLiteral(lexeme))), p + 1)
        BY <1>4 DEF ParsePrimary, ParseStringLiteral
    <2>2. \A j \in 0 .. Len(ts) - 1 :
              trees[<<"primary", p, j>>]
                 = IF p = j THEN {LiteralExpr(Text(DecodeStringLiteral(lexeme)))} ELSE {}
        BY <1>1, <1>4 DEF Primaries, IsOne, InParens
    <2>3. QED BY <1>4, <2>1, <2>2, TokenReads DEF trees
<1>5. CASE Kind(ts, p) = "LParen"
    <2>1. result = ParseParenthesized(ts, nested, p)
        BY <1>5 DEF ParsePrimary
    <2>2. QED BY <1>5, <2>1, ParenthesizedReads
<1>6. CASE Kind(ts, p) \notin {"Identifier", "IntegerLiteral", "StringLiteral", "LParen"}
    <2>1. result = Error(p)
        BY <1>6 DEF ParsePrimary
    <2>2. \A j \in 0 .. Len(ts) - 1 : trees[<<"primary", p, j>>] = {}
        BY <1>1, <1>6 DEF Primaries, IsOne, InParens
    <2>3. QED BY <2>1, <2>2, NothingReads DEF trees
<1>7. QED BY <1>2, <1>3, <1>4, <1>5, <1>6

(* What a join has.                                                        *)
IsJoin(ts, trees, ops, lefts, rights, i, j, tree) ==
    \/ tree \in trees[<<rights, i, j>>]
    \/ \E k \in Splits(ts, i, j, ops) :
          \E left \in trees[<<lefts, i, k - 1>>], right \in trees[<<rights, k + 1, j>>] :
              tree = Binary(Kind(ts, k), left, right)

LEMMA JoinedMembers ==
    ASSUME NEW ts, NEW trees, NEW ops, NEW lefts, NEW rights, NEW i, NEW j, NEW tree
    PROVE  tree \in Joined(ts, trees, ops, lefts, rights, i, j) <=>
               IsJoin(ts, trees, ops, lefts, rights, i, j, tree)
BY DEF Joined, Binaries, IsJoin

LEMMA JoinsPair ==
    ASSUME NEW ts, NEW trees, NEW ops, NEW lefts, NEW rights, NEW i, NEW j,
           NEW k \in Splits(ts, i, j, ops),
           NEW left \in trees[<<lefts, i, k - 1>>], NEW right \in trees[<<rights, k + 1, j>>]
    PROVE  Binary(Kind(ts, k), left, right) \in Joined(ts, trees, ops, lefts, rights, i, j)
BY DEF Joined, Binaries

LEMMA ComparisonReads ==
    ASSUME NEW ts, IsScan(ts), NEW p \in 1 .. Len(ts), NEW nested, NestedRead(ts, nested, p)
    PROVE  Reads(ts, p, ParseComparison(ts, nested, p), "comparison", ComparisonOperators)
<1> DEFINE left == ParsePrimary(ts, nested, p)
           q == left.behind
           op == Kind(ts, q)
           right == ParsePrimary(ts, nested, q + 1)
           result == ParseComparison(ts, nested, p)
           trees == Derived(ts)
<1>1. result = IF left.ok
               THEN IF op \notin ComparisonOperators THEN Parsed(left.tree, q)
                    ELSE IF right.ok THEN Parsed(Binary(op, left.tree, right.tree), right.behind)
                    ELSE right
               ELSE left
    BY DEF ParseComparison, Then, IsComparisonOperator
<1>2. Len(ts) \in Nat /\ p \in Nat \ {0}
    BY DEF IsScan
<1>3. Reads(ts, p, left, "primary", {})
    BY PrimaryReads
<1>4. \A j \in 0 .. Len(ts) - 1 :
          trees[<<"comparison", p, j>>]
             = Joined(ts, trees, ComparisonOperators, "primary", "primary", p, j)
    BY DerivedIs
<1>5. "EndOfFile" \notin ComparisonOperators
    BY DEF ComparisonOperators, OrderingOperators
<1>6. ASSUME NEW k \in p + 1 .. Len(ts), Kind(ts, k) \in ComparisonOperators
      PROVE  k + 1 \in 1 .. Len(ts) /\ Reads(ts, k + 1, ParsePrimary(ts, nested, k + 1), "primary", {})
    <2>1. k \in 1 .. Len(ts) /\ k # Len(ts)
        BY <1>2, <1>5, <1>6 DEF IsScan
    <2>2. k + 1 \in 1 .. Len(ts) /\ k + 1 + 1 .. Len(ts) \subseteq p + 1 .. Len(ts)
        BY <1>2, <2>1
    <2>3. NestedRead(ts, nested, k + 1)
        BY <2>2 DEF NestedRead
    <2>4. QED BY <2>2, <2>3, PrimaryReads
<1> HIDE DEF left, result, trees
<1>7. ASSUME result.ok
      PROVE  /\ result.behind \in p + 1 .. Len(ts)
             /\ result.tree \in trees[<<"comparison", p, result.behind - 1>>]
    <2>1. left.ok
        BY <1>1, <1>7
    <2>2. q \in p + 1 .. Len(ts) /\ left.tree \in trees[<<"primary", p, q - 1>>]
        BY <1>3, <2>1 DEF Reads, trees
    <2>3. q - 1 \in 0 .. Len(ts) - 1
        BY <1>2, <2>2
    <2>4. CASE op \notin ComparisonOperators
        <3>1. result.behind = q /\ result.tree = left.tree
            BY <1>1, <2>1, <2>4 DEF Parsed
        <3> HIDE DEF q
        <3>2. left.tree \in trees[<<"comparison", p, q - 1>>]
            BY <1>4, <2>2, <2>3, JoinedMembers DEF IsJoin
        <3>3. QED BY <2>2, <3>1, <3>2
    <2>5. CASE op \in ComparisonOperators
        <3> HIDE DEF q
        <3>1. q + 1 \in 1 .. Len(ts) /\ Reads(ts, q + 1, right, "primary", {})
            BY <1>6, <2>2, <2>5
        <3> HIDE DEF right
        <3>2. right.ok /\ result = Parsed(Binary(op, left.tree, right.tree), right.behind)
            BY <1>1, <1>7, <2>1, <2>5
        <3> DEFINE r == right.behind
        <3>3. r \in q + 1 + 1 .. Len(ts) /\ right.tree \in trees[<<"primary", q + 1, r - 1>>]
            BY <3>1, <3>2 DEF Reads, trees
        <3>4. result.behind = r /\ result.tree = Binary(op, left.tree, right.tree)
            BY <3>2 DEF Parsed
        <3> HIDE DEF r
        <3>5. /\ q \in Splits(ts, p, r - 1, ComparisonOperators)
              /\ r - 1 \in 0 .. Len(ts) - 1 /\ r \in p + 1 .. Len(ts)
            BY <1>2, <2>2, <2>5, <3>3 DEF Splits
        <3>6. result.tree \in trees[<<"comparison", p, r - 1>>]
            <4>1. result.tree \in Joined(ts, trees, ComparisonOperators, "primary", "primary", p, r - 1)
                BY <2>2, <3>3, <3>4, <3>5, JoinsPair
            <4>2. QED BY <1>4, <3>5, <4>1
        <3>7. QED BY <3>4, <3>5, <3>6
    <2>6. QED BY <2>4, <2>5
<1>8. ASSUME NEW j \in 0 .. Len(ts) - 1, NEW tree \in trees[<<"comparison", p, j>>],
             Kind(ts, j + 1) \notin ComparisonOperators
      PROVE  result = Parsed(tree, j + 1)
    <2>1. CASE tree \in trees[<<"primary", p, j>>]
        <3>1. left = Parsed(tree, j + 1)
            BY <1>3, <2>1 DEF Reads, trees
        <3>2. left.ok /\ q = j + 1 /\ left.tree = tree
            BY <3>1 DEF Parsed
        <3>3. QED BY <1>1, <1>8, <3>2
    <2>2. CASE \E k \in Splits(ts, p, j, ComparisonOperators) :
                  \E l \in trees[<<"primary", p, k - 1>>], r \in trees[<<"primary", k + 1, j>>] :
                      tree = Binary(Kind(ts, k), l, r)
        <3> PICK k \in Splits(ts, p, j, ComparisonOperators) :
                   \E l \in trees[<<"primary", p, k - 1>>], r \in trees[<<"primary", k + 1, j>>] :
                       tree = Binary(Kind(ts, k), l, r)
            BY <2>2
        <3>1. PICK l \in trees[<<"primary", p, k - 1>>], r \in trees[<<"primary", k + 1, j>>] :
                   tree = Binary(Kind(ts, k), l, r)
            OBVIOUS
        <3>2. /\ k \in p + 1 .. Len(ts) /\ k - 1 \in 0 .. Len(ts) - 1 /\ k - 1 + 1 = k
              /\ Kind(ts, k) \in ComparisonOperators
            BY <1>2 DEF Splits
        <3>3. left = Parsed(l, k)
            BY <1>3, <3>2 DEF Reads, trees
        <3>4. left.ok /\ q = k /\ left.tree = l
            BY <3>3 DEF Parsed
        <3>5. Reads(ts, k + 1, right, "primary", {})
            BY <1>6, <3>2, <3>4
        <3>6. right = Parsed(r, j + 1)
            <4> HIDE DEF right
            <4>1. QED BY <3>5 DEF Reads, trees
        <3>7. right.ok /\ right.behind = j + 1 /\ right.tree = r
            BY <3>6 DEF Parsed
        <3> HIDE DEF right, q
        <3>8. QED BY <1>1, <3>1, <3>2, <3>4, <3>7
    <2>3. IsJoin(ts, trees, ComparisonOperators, "primary", "primary", p, j, tree)
        BY <1>4, JoinedMembers
    <2>4. QED BY <2>1, <2>2, <2>3 DEF IsJoin
<1>9. QED BY <1>7, <1>8 DEF Reads, result, trees

-----------------------------------------------------------------------------
(***************************************************************************)
(* Lists of items with a separator between them: b has the positions of    *)
(* the separators, b[0] is before the first item, and the last is behind   *)
(* the last item.                                                          *)
(***************************************************************************)
ItemsOf(ts, item) ==
    UNION {Derived(ts)[<<item, p[1], p[2]>>] : p \in (1 .. Len(ts)) \X (0 .. Len(ts) - 1)}
Spaced(ts, item, sep, its, b, i, j) ==
    /\ its \in Seq(ItemsOf(ts, item)) /\ Len(its) \in Nat \ {0}
    /\ b \in [0 .. Len(its) -> Int] /\ b[0] = i - 1 /\ b[Len(its)] = j + 1
    /\ \A l \in 1 .. Len(its) : its[l] \in Derived(ts)[<<item, b[l - 1] + 1, b[l] - 1>>]
    /\ \A l \in 1 .. Len(its) - 1 : Kind(ts, b[l]) = sep
    /\ \A l, r \in 0 .. Len(its) : l < r => b[l] + 1 < b[r]

LEMMA IsItem ==
    ASSUME NEW ts, IsScan(ts), NEW item, NEW i \in 1 .. Len(ts), NEW j \in 0 .. Len(ts) - 1,
           NEW x \in Derived(ts)[<<item, i, j>>]
    PROVE  x \in ItemsOf(ts, item)
<1> DEFINE D == (1 .. Len(ts)) \X (0 .. Len(ts) - 1)
           p == <<i, j>>
<1>1. p \in D /\ p[1] = i /\ p[2] = j
    OBVIOUS
<1> HIDE DEF p, D
<1>2. x \in Derived(ts)[<<item, p[1], p[2]>>]
    BY <1>1
<1>3. x \in UNION {Derived(ts)[<<item, q[1], q[2]>>] : q \in D}
    BY <1>1, <1>2, Zenon
<1>4. QED BY <1>3 DEF ItemsOf, D

LEMMA SpacedOne ==
    ASSUME NEW ts, IsScan(ts), NEW item, NEW sep, NEW i \in 1 .. Len(ts),
           NEW j \in i .. Len(ts) - 1, NEW x \in Derived(ts)[<<item, i, j>>]
    PROVE  \E b : Spaced(ts, item, sep, <<x>>, b, i, j)
<1> DEFINE b == [l \in 0 .. 1 |-> IF l = 0 THEN i - 1 ELSE j + 1]
<1>1. Len(ts) \in Nat /\ j \in 0 .. Len(ts) - 1
    BY DEF IsScan
<1>2. x \in ItemsOf(ts, item)
    BY <1>1, IsItem
<1>3. <<x>> \in Seq(ItemsOf(ts, item)) /\ Len(<<x>>) = 1 /\ <<x>>[1] = x
    BY <1>2
<1>4. b \in [0 .. 1 -> Int] /\ b[0] = i - 1 /\ b[1] = j + 1
    OBVIOUS
<1> HIDE DEF b
<1>5. b[1 - 1] + 1 = i /\ b[1] - 1 = j
    BY <1>4
<1>6. ASSUME NEW l \in 0 .. 1, NEW r \in 0 .. 1, l < r PROVE b[l] + 1 < b[r]
    <2>1. l = 0 /\ r = 1
        BY <1>6
    <2>2. QED BY <1>4, <2>1
<1>7. ASSUME NEW l \in 1 .. 1
      PROVE  <<x>>[l] \in Derived(ts)[<<item, b[l - 1] + 1, b[l] - 1>>]
    <2>1. l = 1
        OBVIOUS
    <2>2. QED BY <1>3, <1>5, <2>1
<1>8. 1 .. 1 - 1 = {}
    OBVIOUS
<1> DEFINE s == <<x>>
<1>9. s \in Seq(ItemsOf(ts, item)) /\ Len(s) = 1 /\ Len(s) \in Nat \ {0}
    BY <1>3
<1>10. \A l \in 1 .. 1 : s[l] \in Derived(ts)[<<item, b[l - 1] + 1, b[l] - 1>>]
    BY <1>7
<1> HIDE DEF s
<1>11. Spaced(ts, item, sep, s, b, i, j)
    BY <1>4, <1>6, <1>8, <1>9, <1>10 DEF Spaced
<1>12. QED BY <1>11 DEF s

LEMMA SpacedMore ==
    ASSUME NEW ts, IsScan(ts), NEW item, NEW sep, NEW i \in 1 .. Len(ts), NEW j \in 0 .. Len(ts) - 1,
           NEW k \in Splits(ts, i, j, {sep}), NEW its, NEW b, Spaced(ts, item, sep, its, b, i, k - 1),
           NEW x \in Derived(ts)[<<item, k + 1, j>>]
    PROVE  \E c : Spaced(ts, item, sep, Append(its, x), c, i, j)
<1> DEFINE m == Len(its)
           c == [l \in 0 .. m + 1 |-> IF l = m + 1 THEN j + 1 ELSE b[l]]
           new == Append(its, x)
<1>1. Len(ts) \in Nat /\ k \in i + 1 .. j - 1 /\ k \in 1 .. Len(ts) /\ Kind(ts, k) = sep
      /\ k + 1 \in 1 .. Len(ts)
    BY DEF IsScan, Splits
<1>2. x \in ItemsOf(ts, item)
    BY <1>1, IsItem
<1>3. /\ its \in Seq(ItemsOf(ts, item)) /\ m \in Nat \ {0}
      /\ b \in [0 .. m -> Int] /\ b[0] = i - 1 /\ b[m] = k - 1 + 1
      /\ \A l \in 1 .. m : its[l] \in Derived(ts)[<<item, b[l - 1] + 1, b[l] - 1>>]
      /\ \A l \in 1 .. m - 1 : Kind(ts, b[l]) = sep
      /\ \A l, r \in 0 .. m : l < r => b[l] + 1 < b[r]
    BY DEF Spaced
<1>4. /\ new \in Seq(ItemsOf(ts, item)) /\ Len(new) = m + 1
      /\ \A l \in 1 .. m : new[l] = its[l]
      /\ new[m + 1] = x
    BY <1>2, <1>3, AppendProperties
<1> DEFINE n == Len(new)
<1> HIDE DEF new, m, n
<1>n. n = m + 1 /\ n \in Nat \ {0}
    BY <1>3, <1>4 DEF n
<1>5. /\ c \in [0 .. n -> Int] /\ c[n] = j + 1
      /\ \A l \in 0 .. m : c[l] = b[l]
    BY <1>1, <1>3, <1>n
<1> HIDE DEF c
<1>6. c[0] = i - 1 /\ c[m] = k
    <2>1. 0 \in 0 .. m /\ m \in 0 .. m /\ k - 1 + 1 = k
        BY <1>1, <1>3
    <2>2. c[0] = b[0] /\ c[m] = b[m]
        BY <1>5, <2>1
    <2>3. QED BY <1>3, <2>1, <2>2
<1>7. ASSUME NEW l \in 1 .. n
      PROVE  new[l] \in Derived(ts)[<<item, c[l - 1] + 1, c[l] - 1>>]
    <2>1. CASE l = n
        <3>1. c[l - 1] = k /\ c[l] - 1 = j /\ new[l] = x
            BY <1>n, <1>3, <1>4, <1>5, <1>6, <2>1
        <3>2. QED BY <3>1
    <2>2. CASE l # n
        <3>1. l \in 1 .. m /\ l - 1 \in 0 .. m /\ l \in 0 .. m
            BY <1>n, <1>3, <2>2
        <3>2. c[l - 1] = b[l - 1] /\ c[l] = b[l] /\ new[l] = its[l]
            BY <1>n, <1>4, <1>5, <3>1
        <3>3. QED BY <1>n, <1>3, <3>1, <3>2
    <2>3. QED BY <2>1, <2>2
<1>8. ASSUME NEW l \in 1 .. n - 1 PROVE Kind(ts, c[l]) = sep
    <2>1. CASE l = m
        BY <1>n, <1>1, <1>6, <2>1
    <2>2. CASE l # m
        <3>1. l \in 1 .. m - 1 /\ l \in 0 .. m
            BY <1>n, <1>3, <2>2
        <3>2. QED BY <1>n, <1>3, <1>5, <3>1
    <2>3. QED BY <2>1, <2>2
<1>9. ASSUME NEW l \in 0 .. n, NEW r \in 0 .. n, l < r PROVE c[l] + 1 < c[r]
    <2>1. CASE r # n
        <3>1. l \in 0 .. m /\ r \in 0 .. m
            BY <1>n, <1>3, <1>9, <2>1
        <3>2. QED BY <1>n, <1>3, <1>5, <1>9, <3>1
    <2>2. CASE r = n
        <3>1. l \in 0 .. m /\ m \in 0 .. m
            BY <1>n, <1>3, <1>9, <2>2
        <3>2. b[l] \in Int /\ (l = m \/ b[l] + 1 < k)
            BY <1>n, <1>1, <1>3, <3>1
        <3>3. c[l] = b[l] /\ c[r] = j + 1 /\ (l = m => c[l] = k)
            BY <1>n, <1>5, <1>6, <2>2, <3>1
        <3>4. QED BY <1>n, <1>1, <3>2, <3>3
    <2>3. QED BY <2>1, <2>2
<1>10. Spaced(ts, item, sep, new, c, i, j)
    BY <1>n, <1>4, <1>5, <1>6, <1>7, <1>8, <1>9 DEF Spaced, n
<1>11. QED BY <1>10 DEF new

LEMMA SpacedFront ==
    ASSUME NEW ts, IsScan(ts), NEW item, NEW sep, NEW i \in 1 .. Len(ts), NEW j \in 0 .. Len(ts) - 1,
           NEW k \in i + 1 .. Len(ts), Kind(ts, k) = sep, NEW its, NEW b,
           NEW after, after = k + 1, Spaced(ts, item, sep, its, b, after, j), NEW x \in Derived(ts)[<<item, i, k - 1>>]
    PROVE  \E c : Spaced(ts, item, sep, <<x>> \o its, c, i, j)
<1> DEFINE m == Len(its)
           c == [l \in 0 .. m + 1 |-> IF l = 0 THEN i - 1 ELSE b[l - 1]]
           new == <<x>> \o its
           s == <<x>>
<1>1. Len(ts) \in Nat /\ k \in 1 .. Len(ts) /\ k - 1 \in 0 .. Len(ts) - 1
    BY DEF IsScan
<1>2. x \in ItemsOf(ts, item)
    BY <1>1, IsItem
<1>3. /\ its \in Seq(ItemsOf(ts, item)) /\ m \in Nat \ {0}
      /\ b \in [0 .. m -> Int] /\ b[0] = after - 1 /\ b[m] = j + 1
      /\ \A l \in 1 .. m : its[l] \in Derived(ts)[<<item, b[l - 1] + 1, b[l] - 1>>]
      /\ \A l \in 1 .. m - 1 : Kind(ts, b[l]) = sep
      /\ \A l, r \in 0 .. m : l < r => b[l] + 1 < b[r]
    BY DEF Spaced
<1>4. s \in Seq(ItemsOf(ts, item)) /\ Len(s) = 1 /\ s[1] = x
    BY <1>2
<1>5. /\ new \in Seq(ItemsOf(ts, item)) /\ Len(new) = 1 + m
      /\ \A l \in 1 .. 1 + m : new[l] = IF l <= 1 THEN s[l] ELSE its[l - 1]
    <2> HIDE DEF s
    <2>1. /\ s \o its \in Seq(ItemsOf(ts, item)) /\ Len(s \o its) = Len(s) + m
          /\ \A l \in 1 .. Len(s) + m :
                 (s \o its)[l] = IF l <= Len(s) THEN s[l] ELSE its[l - Len(s)]
        BY <1>3, <1>4, ConcatProperties, Zenon
    <2>2. QED BY <1>4, <2>1 DEF s
<1> DEFINE n == Len(new)
<1> HIDE DEF new, m, s, n
<1>n. n = m + 1 /\ n \in Nat \ {0}
    BY <1>3, <1>5 DEF n
<1>6. /\ c \in [0 .. n -> Int] /\ c[0] = i - 1
      /\ \A l \in 1 .. n : c[l] = b[l - 1]
    <2>1. ASSUME NEW l \in 0 .. n
          PROVE  (IF l = 0 THEN i - 1 ELSE b[l - 1]) \in Int
        <3>1. CASE l = 0
            BY <3>1
        <3>2. CASE l # 0
            <4>1. l - 1 \in 0 .. m
                BY <1>n, <1>3, <3>2
            <4>2. QED BY <1>n, <1>3, <3>2, <4>1
        <3>3. QED BY <3>1, <3>2
    <2>2. 0 \in 0 .. n /\ 1 .. n \subseteq 0 .. n /\ \A l \in 1 .. n : l # 0
        BY <1>n, <1>3
    <2>3. QED BY <1>n, <2>1, <2>2
<1> HIDE DEF c
<1>7. c[1] = k /\ c[n] = j + 1 /\ m \in Nat
    <2>1. 1 \in 1 .. n /\ n \in 1 .. n /\ 1 - 1 = 0 /\ n - 1 = m
        BY <1>n, <1>3
    <2>2. c[1] = b[0] /\ c[n] = b[m]
        BY <1>n, <1>6, <2>1
    <2>3. QED BY <1>n, <1>1, <1>3, <2>2
<1>8. ASSUME NEW l \in 1 .. n
      PROVE  new[l] \in Derived(ts)[<<item, c[l - 1] + 1, c[l] - 1>>]
    <2>1. CASE l = 1
        <3>1. c[l - 1] + 1 = i /\ c[l] - 1 = k - 1 /\ new[l] = x
            BY <1>n, <1>4, <1>5, <1>6, <1>7, <2>1
        <3>2. QED BY <3>1
    <2>2. CASE l # 1
        <3>1. PICK r : r = l - 1
            OBVIOUS
        <3>2. r \in 1 .. m /\ r - 1 \in 0 .. m /\ l \in 1 .. 1 + m /\ r \in 1 .. n /\ ~(l <= 1)
            BY <1>n, <1>3, <2>2, <3>1
        <3>3. c[l - 1] = b[r - 1] /\ c[l] = b[r] /\ new[l] = its[r]
            BY <1>n, <1>5, <1>6, <3>1, <3>2
        <3>4. QED BY <1>n, <1>3, <3>2, <3>3
    <2>3. QED BY <2>1, <2>2
<1>9. ASSUME NEW l \in 1 .. n - 1 PROVE Kind(ts, c[l]) = sep
    <2>1. CASE l = 1
        BY <1>n, <1>7, <2>1
    <2>2. CASE l # 1
        <3>1. l - 1 \in 1 .. m - 1 /\ l \in 1 .. n
            BY <1>n, <1>3, <2>2
        <3>2. QED BY <1>n, <1>3, <1>6, <3>1
    <2>3. QED BY <2>1, <2>2
<1>10. ASSUME NEW l \in 0 .. n, NEW r \in 0 .. n, l < r PROVE c[l] + 1 < c[r]
    <2>1. r \in 1 .. n /\ r - 1 \in 0 .. m /\ c[r] = b[r - 1] /\ c[r] \in Int
        <3>1. r \in 1 .. n /\ r - 1 \in 0 .. m
            BY <1>n, <1>3, <1>10
        <3>2. QED BY <1>6, <3>1
    <2>2. CASE l # 0
        <3>1. l \in 1 .. n /\ l - 1 \in 0 .. m /\ l - 1 < r - 1
            BY <1>n, <1>3, <1>10, <2>2
        <3>2. b[l - 1] + 1 < b[r - 1]
            BY <1>n, <1>3, <2>1, <3>1
        <3>3. QED BY <1>n, <1>6, <2>1, <3>1, <3>2
    <2>3. CASE l = 0
        <3>1. r = 1 \/ 0 < r - 1
            BY <2>1
        <3>2. r = 1 \/ b[0] + 1 < b[r - 1]
            BY <1>n, <1>3, <2>1, <3>1
        <3>3. b[0] = k
            BY <1>n, <1>1, <1>3
        <3>4. c[r] = k \/ k + 1 < c[r]
            BY <1>n, <1>7, <2>1, <3>2, <3>3
        <3>5. c[l] = i - 1
            BY <1>6, <2>3
        <3>6. QED BY <1>1, <2>1, <3>4, <3>5
    <2>4. QED BY <2>2, <2>3
<1>11. Spaced(ts, item, sep, new, c, i, j)
    BY <1>n, <1>5, <1>6, <1>7, <1>8, <1>9, <1>10 DEF Spaced, n
<1>12. QED BY <1>11 DEF new

(* More than one item: a last one behind a shorter list, and a first one   *)
(* in front of a shorter list.                                             *)
HasLast(ts, item, sep, its, i, j) ==
    \E k \in Splits(ts, i, j, {sep}) : \E s, c, x :
        /\ Spaced(ts, item, sep, s, c, i, k - 1)
        /\ x \in Derived(ts)[<<item, k + 1, j>>]
        /\ s \in Seq(ItemsOf(ts, item)) /\ s # << >> /\ x \in ItemsOf(ts, item)
        /\ its = Append(s, x)
HasFirst(ts, item, sep, its, i, j) ==
    \E k \in i + 1 .. j - 1 : \E c, after :
        /\ its[1] \in Derived(ts)[<<item, i, k - 1>>] /\ Kind(ts, k) = sep
        /\ after = k + 1 /\ Spaced(ts, item, sep, Tail(its), c, after, j)
        /\ its = <<its[1]>> \o Tail(its)

LEMMA SpacedPrefix ==
    ASSUME NEW ts, IsScan(ts), NEW item, NEW sep, NEW i \in 1 .. Len(ts), NEW j \in 0 .. Len(ts) - 1,
           NEW its, NEW b, Spaced(ts, item, sep, its, b, i, j), Len(its) # 1
    PROVE  HasLast(ts, item, sep, its, i, j)
<1> DEFINE S == ItemsOf(ts, item)
<1>1. /\ its \in Seq(S) /\ Len(its) \in Nat \ {0}
      /\ b \in [0 .. Len(its) -> Int] /\ b[0] = i - 1 /\ b[Len(its)] = j + 1
      /\ \A l \in 1 .. Len(its) : its[l] \in Derived(ts)[<<item, b[l - 1] + 1, b[l] - 1>>]
      /\ \A l \in 1 .. Len(its) - 1 : Kind(ts, b[l]) = sep
      /\ \A l, r \in 0 .. Len(its) : l < r => b[l] + 1 < b[r]
    BY DEF Spaced
<1> HIDE DEF S
<1>2. its # << >>
    BY <1>1
<1>3. PICK s \in Seq(S), x \in S : its = Append(s, x)
    BY <1>1, <1>2, SequenceEmptyOrAppend
<1> DEFINE m == Len(s)
<1>4. /\ Len(its) = m + 1 /\ m \in Nat
      /\ \A l \in 1 .. m : its[l] = s[l]
      /\ its[m + 1] = x
    BY <1>3, AppendProperties, LenProperties
<1> HIDE DEF m
<1>5. m # 0
    BY <1>4
<1> DEFINE k == b[m]
           c == [l \in 0 .. m |-> b[l]]
<1>6. /\ c \in [0 .. m -> Int] /\ \A l \in 0 .. m : c[l] = b[l] /\ l \in 0 .. Len(its)
    BY <1>1, <1>4
<1>7. k \in Int /\ b[0] + 1 < k /\ k + 1 < b[m + 1] /\ Kind(ts, k) = sep
    <2>1. 0 \in 0 .. m + 1 /\ m \in 0 .. m + 1 /\ m + 1 \in 0 .. m + 1 /\ 0 < m /\ m < m + 1
          /\ m \in 1 .. m + 1 - 1
        BY <1>4, <1>5
    <2>2. QED BY <1>1, <1>4, <2>1
<1> HIDE DEF k, c
<1>8. k \in Splits(ts, i, j, {sep}) /\ k - 1 + 1 = k /\ k \in i + 1 .. j - 1
    BY <1>1, <1>4, <1>7 DEF Splits
<1>9. Spaced(ts, item, sep, s, c, i, k - 1)
    <2>1. c[0] = i - 1 /\ c[m] = k - 1 + 1
        <3>1. 0 \in 0 .. m /\ m \in 0 .. m
            BY <1>4
        <3>2. c[0] = b[0] /\ c[m] = b[m]
            BY <1>6, <3>1
        <3>3. b[0] = i - 1 /\ b[m] = k
            BY <1>1 DEF k
        <3>4. QED BY <1>8, <3>2, <3>3
    <2>2. ASSUME NEW l \in 1 .. m
          PROVE  s[l] \in Derived(ts)[<<item, c[l - 1] + 1, c[l] - 1>>]
        <3>1. l \in 0 .. m /\ l - 1 \in 0 .. m /\ l \in 1 .. m + 1
            BY <1>4
        <3>2. s[l] = its[l] /\ c[l] = b[l] /\ c[l - 1] = b[l - 1]
            BY <1>4, <1>6, <3>1
        <3>3. QED BY <1>1, <1>4, <3>1, <3>2
    <2>3. ASSUME NEW l \in 1 .. m - 1 PROVE Kind(ts, c[l]) = sep
        <3>1. l \in 0 .. m /\ l \in 1 .. m + 1 - 1
            BY <1>4
        <3>2. QED BY <1>1, <1>4, <1>6, <3>1
    <2>4. ASSUME NEW l \in 0 .. m, NEW r \in 0 .. m, l < r PROVE c[l] + 1 < c[r]
        BY <1>1, <1>6, <2>4
    <2>5. QED BY <1>3, <1>4, <1>5, <1>6, <2>1, <2>2, <2>3, <2>4 DEF Spaced, m, S
<1>10. x \in Derived(ts)[<<item, k + 1, j>>]
    <2> PICK n : n = m + 1
        OBVIOUS
    <2>1. n \in 1 .. Len(its) /\ n - 1 = m /\ b[n] - 1 = j /\ its[n] = x
        BY <1>1, <1>4
    <2>2. x \in Derived(ts)[<<item, b[m] + 1, j>>]
        BY <1>1, <2>1
    <2>3. QED BY <1>4, <2>2 DEF k
<1>11. s # << >>
    BY <1>5 DEF m
<1>12. QED BY <1>3, <1>8, <1>9, <1>10, <1>11 DEF S, HasLast

LEMMA SpacedRest ==
    ASSUME NEW ts, IsScan(ts), NEW item, NEW sep, NEW i \in 1 .. Len(ts), NEW j \in 0 .. Len(ts) - 1,
           NEW its, NEW b, Spaced(ts, item, sep, its, b, i, j), Len(its) # 1
    PROVE  HasFirst(ts, item, sep, its, i, j)
<1> DEFINE S == ItemsOf(ts, item)
           n == Len(its)
<1>1. /\ its \in Seq(S) /\ n \in Nat \ {0}
      /\ b \in [0 .. n -> Int] /\ b[0] = i - 1 /\ b[n] = j + 1
      /\ \A l \in 1 .. n : its[l] \in Derived(ts)[<<item, b[l - 1] + 1, b[l] - 1>>]
      /\ \A l \in 1 .. n - 1 : Kind(ts, b[l]) = sep
      /\ \A l, r \in 0 .. n : l < r => b[l] + 1 < b[r]
    BY DEF Spaced
<1> HIDE DEF S
<1>2. its # << >>
    BY <1>1
<1> DEFINE s == Tail(its)
           m == Len(s)
<1>3. /\ s \in Seq(S) /\ m = n - 1 /\ \A l \in 1 .. m : s[l] = its[l + 1]
    BY <1>1, <1>2, HeadTailProperties
<1>4. its = <<its[1]>> \o s
    <2>1. n \in 1 .. n /\ 1 \in 1 .. n
        BY <1>1
    <2>2. its = SubSeq(its, 1, n) /\ s = SubSeq(its, 2, n)
        BY <1>1, <1>2, SubSeqFull, TailIsSubSeq
    <2>3. SubSeq(its, 1, n) = <<its[1]>> \o SubSeq(its, 1 + 1, n)
        BY <1>1, <2>1, SubSeqRecursiveFirst
    <2>4. 1 + 1 = 2
        OBVIOUS
    <2> HIDE DEF s, n
    <2>5. QED BY <2>2, <2>3, <2>4
<1>5. n # 1 /\ m \in Nat \ {0}
    BY <1>1, <1>3
<1> HIDE DEF s, m, n
<1>6. n = m + 1
    BY <1>1, <1>3
<1> DEFINE k == b[1]
           c == [l \in 0 .. m |-> b[l + 1]]
<1>7. c \in [0 .. m -> Int] /\ \A l \in 0 .. m : c[l] = b[l + 1] /\ l + 1 \in 0 .. n
    <2>1. \A l \in 0 .. m : l + 1 \in 0 .. n
        BY <1>5, <1>6
    <2>2. QED BY <1>1, <2>1
<1>8. k \in Int /\ b[0] + 1 < k /\ k + 1 < b[n] /\ Kind(ts, k) = sep
    <2>1. 0 \in 0 .. n /\ 1 \in 0 .. n /\ n \in 0 .. n /\ 0 < 1 /\ 1 < n /\ 1 \in 1 .. n - 1
        BY <1>5, <1>6
    <2>2. QED BY <1>1, <2>1
<1> HIDE DEF c
<1>9. k \in i + 1 .. j - 1
    BY <1>1, <1>8
<1>10. its[1] \in Derived(ts)[<<item, i, k - 1>>]
    <2>1. 1 \in 1 .. n /\ b[1 - 1] + 1 = i
        BY <1>1
    <2>2. QED BY <1>1, <2>1
<1>11. ASSUME NEW after, after = k + 1 PROVE Spaced(ts, item, sep, s, c, after, j)
    <2>1. c[0] = after - 1 /\ c[m] = j + 1
        BY <1>1, <1>5, <1>6, <1>7, <1>8, <1>11
    <2>2. ASSUME NEW l \in 1 .. m
          PROVE  s[l] \in Derived(ts)[<<item, c[l - 1] + 1, c[l] - 1>>]
        <3>1. PICK r : r = l + 1
            OBVIOUS
        <3>2. r \in 1 .. n /\ l \in 0 .. m /\ l - 1 \in 0 .. m /\ r - 1 = l /\ l - 1 + 1 = l
            BY <1>5, <1>6, <3>1
        <3>3. s[l] = its[r] /\ c[l] = b[r] /\ c[l - 1] = b[r - 1]
            BY <1>3, <1>7, <3>1, <3>2
        <3>4. QED BY <1>1, <3>2, <3>3
    <2>3. ASSUME NEW l \in 1 .. m - 1 PROVE Kind(ts, c[l]) = sep
        <3>1. l \in 0 .. m /\ l + 1 \in 1 .. n - 1
            BY <1>5, <1>6
        <3>2. QED BY <1>1, <1>7, <3>1
    <2>4. ASSUME NEW l \in 0 .. m, NEW r \in 0 .. m, l < r PROVE c[l] + 1 < c[r]
        <3>1. l + 1 \in 0 .. n /\ r + 1 \in 0 .. n /\ l + 1 < r + 1
            BY <1>7, <2>4
        <3>2. b[l + 1] + 1 < b[r + 1]
            BY <1>1, <3>1
        <3>3. QED BY <1>7, <3>2
    <2> HIDE DEF k
    <2>5. QED BY <1>3, <1>5, <1>7, <2>1, <2>2, <2>3, <2>4 DEF Spaced, m, S
<1>12. QED BY <1>4, <1>8, <1>9, <1>10, <1>11 DEF s, HasFirst

-----------------------------------------------------------------------------
(* The trees of left-associative operators: tree[k] has the first k         *)
(* operands.                                                               *)
IsTreeOf(tree, op, operands) ==
    tree = [k \in 1 .. Len(operands) |->
              IF k = 1 THEN operands[1] ELSE Binary(op, tree[k - 1], operands[k])]

LEMMA LeftTreeStepwise ==
    ASSUME NEW operands, Len(operands) \in Nat \ {0}, NEW op
    PROVE  \E tree : IsTreeOf(tree, op, operands) /\ LeftTree(op, operands) = tree[Len(operands)]
<1> DEFINE n == Len(operands)
           tree[k \in 1 .. n] ==
               IF k = 1 THEN operands[1] ELSE Binary(op, tree[k - 1], operands[k])
<1>1. n \in Nat /\ n \in 1 .. n
    OBVIOUS
<1>2. \E f : f = [k \in 1 .. n |->
                    IF k = 1 THEN operands[1] ELSE Binary(op, f[k - 1], operands[k])]
    <2>1. LooksBack("tree", 1, n, << >>, operands, op)
        <3> SUFFICES ASSUME NEW f, NEW g, NEW q \in 1 .. n,
                            \A r \in 1 .. n : r < q => f[r] = g[r]
                     PROVE  At("tree", f, q, << >>, operands, op)
                              = At("tree", g, q, << >>, operands, op)
            BY DEF LooksBack
        <3>1. q # 1 => f[q - 1] = g[q - 1]
            <4>1. q # 1 => q - 1 \in 1 .. n /\ q - 1 < q
                BY <1>1
            <4>2. QED BY <4>1
        <3>2. CASE q = 1
            BY <3>2 DEF At
        <3>3. CASE q # 1
            BY <3>1, <3>3 DEF At
        <3>4. QED BY <3>2, <3>3
    <2>2. PICK f : Solves("tree", f, 1 .. n, << >>, operands, op)
        <3>1. 1 \in Int /\ n \in Int
            BY <1>1
        <3> HIDE DEF n
        <3>2. QED BY <2>1, <3>1, BackExists
    <2>3. f = [k \in 1 .. n |->
                 IF k = 1 THEN operands[1] ELSE Binary(op, f[k - 1], operands[k])]
        BY <2>2 DEF Solves, At
    <2>4. QED BY <2>3
<1>3. tree = [k \in 1 .. n |->
                IF k = 1 THEN operands[1] ELSE Binary(op, tree[k - 1], operands[k])]
    BY ONLY <1>2, Zenon
<1>4. LeftTree(op, operands) = tree[n]
    BY DEF LeftTree
<1> HIDE DEF tree
<1>5. QED BY <1>3, <1>4 DEF IsTreeOf

(* One operand is a tree, and one operand more makes a tree with the       *)
(* operator above the others.                                              *)
LEMMA LeftTreeGrows ==
    /\ \A op, x : LeftTree(op, <<x>>) = x
    /\ \A op, S : \A s \in Seq(S), x \in S :
           s # << >> => LeftTree(op, Append(s, x)) = Binary(op, LeftTree(op, s), x)
<1>1. ASSUME NEW op, NEW x PROVE LeftTree(op, <<x>>) = x
    <2> DEFINE s == <<x>>
    <2>1. Len(s) = 1 /\ s[1] = x /\ Len(s) \in Nat \ {0}
        OBVIOUS
    <2> HIDE DEF s
    <2>2. PICK tree : IsTreeOf(tree, op, s) /\ LeftTree(op, s) = tree[Len(s)]
        BY <2>1, LeftTreeStepwise
    <2>3. tree[1] = s[1]
        BY <2>1, <2>2 DEF IsTreeOf
    <2>4. QED BY <2>1, <2>2, <2>3 DEF s
<1>2. ASSUME NEW op, NEW S, NEW s \in Seq(S), NEW x \in S, s # << >>
      PROVE  LeftTree(op, Append(s, x)) = Binary(op, LeftTree(op, s), x)
    <2> DEFINE t == Append(s, x)
               m == Len(s)
    <2>1. /\ Len(t) = m + 1 /\ t[m + 1] = x
          /\ \A k \in 1 .. m : t[k] = s[k]
        BY AppendProperties
    <2>2. m \in Nat \ {0}
        BY <1>2, EmptySeq
    <2> DEFINE n == m + 1
    <2> HIDE DEF t, m
    <2>3. PICK f : IsTreeOf(f, op, s) /\ LeftTree(op, s) = f[m]
        BY <2>2, LeftTreeStepwise DEF m
    <2>4. PICK g : IsTreeOf(g, op, t) /\ LeftTree(op, t) = g[n]
        BY <2>1, <2>2, LeftTreeStepwise
    <2>5. \A k \in 1 .. m : f[k] = IF k = 1 THEN s[1] ELSE Binary(op, f[k - 1], s[k])
        BY <2>3 DEF IsTreeOf, m
    <2>6. \A k \in 1 .. n : g[k] = IF k = 1 THEN t[1] ELSE Binary(op, g[k - 1], t[k])
        BY <2>1, <2>4 DEF IsTreeOf
    <2> DEFINE good == {k \in 1 .. m : f[k] = g[k]}
    <2>7. ASSUME NEW k \in 1 .. m, \A r \in 1 .. k - 1 : r \in good
          PROVE  k \in good
        <3>1. k \in 1 .. n /\ 1 \in 1 .. m /\ t[1] = s[1] /\ t[k] = s[k]
            BY <2>1, <2>2
        <3>2. CASE k = 1
            BY <2>5, <2>6, <3>1, <3>2
        <3>3. CASE k # 1
            <4>1. k - 1 \in 1 .. k - 1
                BY <3>3
            <4>2. f[k - 1] = g[k - 1]
                BY <2>7, <4>1
            <4>3. QED BY <2>5, <2>6, <3>1, <3>3, <4>2
        <3>4. QED BY <3>2, <3>3
    <2>8. \A k \in 1 .. m : k \in good
        <3>1. 1 \in Int /\ m \in Int
            BY <2>2
        <3> HIDE DEF good
        <3>2. QED BY <2>7, <3>1, ForwardInduction, Zenon
    <2>9. f[m] = g[m]
        <3>1. m \in 1 .. m
            BY <2>2
        <3>2. QED BY <2>8, <3>1
    <2>10. n \in 1 .. n /\ n # 1 /\ n - 1 = m
        BY <2>2
    <2>11. t[n] = x
        BY <2>1
    <2> HIDE DEF n
    <2>12. g[n] = Binary(op, g[m], x)
        BY <2>6, <2>10, <2>11
    <2>13. QED BY <2>3, <2>4, <2>9, <2>12 DEF t
<1>3. QED BY <1>1, <1>2

-----------------------------------------------------------------------------
(* What a list makes of its items, in the grammar and in the parser.       *)
One(sep, x)          == IF sep = "Comma" THEN <<x>> ELSE x
Longer(sep, tree, x) == IF sep = "Comma" THEN Append(tree, x) ELSE Binary(sep, tree, x)
Made(sep, its)       == IF sep = "Comma" THEN its ELSE LeftTree(sep, its)

IsOneOrLonger(ts, whole, item, sep, i, j, tree) ==
    \/ \E x \in Derived(ts)[<<item, i, j>>] : tree = One(sep, x)
    \/ \E k \in Splits(ts, i, j, {sep}) :
          \E t \in Derived(ts)[<<whole, i, k - 1>>], x \in Derived(ts)[<<item, k + 1, j>>] :
              tree = Longer(sep, t, x)
IsListOf(ts, whole, item, sep) ==
    \A i \in 1 .. Len(ts), j \in 0 .. Len(ts) - 1 :
        /\ j < i => Derived(ts)[<<item, i, j>>] = {}
        /\ \A tree : tree \in Derived(ts)[<<whole, i, j>>] <=>
                        IsOneOrLonger(ts, whole, item, sep, i, j, tree)

LEMMA MadeGrows ==
    /\ \A sep, x : Made(sep, <<x>>) = One(sep, x)
    /\ \A sep, S : \A s \in Seq(S), x \in S :
           s # << >> => Made(sep, Append(s, x)) = Longer(sep, Made(sep, s), x)
BY LeftTreeGrows DEF Made, One, Longer

LEMMA WholeIsMade ==
    ASSUME NEW ts, IsScan(ts), NEW whole, NEW item, NEW sep, IsListOf(ts, whole, item, sep),
           NEW i \in 1 .. Len(ts)
    PROVE  \A j \in 0 .. Len(ts) - 1 : \A tree \in Derived(ts)[<<whole, i, j>>] :
               \E its, b : Spaced(ts, item, sep, its, b, i, j) /\ tree = Made(sep, its)
<1> DEFINE Good(j) == \A tree \in Derived(ts)[<<whole, i, j>>] :
               \E its, b : Spaced(ts, item, sep, its, b, i, j) /\ tree = Made(sep, its)
           n == Len(ts) - 1
           good == {j \in 0 .. n : Good(j)}
<1>1. ASSUME NEW j \in 0 .. n, \A r \in 0 .. j - 1 : r \in good
      PROVE  Good(j)
    <2> SUFFICES ASSUME NEW tree \in Derived(ts)[<<whole, i, j>>]
                 PROVE  \E its, b : Spaced(ts, item, sep, its, b, i, j) /\ tree = Made(sep, its)
        OBVIOUS
    <2>1. CASE \E x \in Derived(ts)[<<item, i, j>>] : tree = One(sep, x)
        <3>1. PICK x \in Derived(ts)[<<item, i, j>>] : tree = One(sep, x)
            BY <2>1
        <3>2. j \in i .. Len(ts) - 1
            BY <3>1 DEF IsListOf
        <3>3. PICK b : Spaced(ts, item, sep, <<x>>, b, i, j)
            BY <3>2, SpacedOne
        <3>4. tree = Made(sep, <<x>>)
            BY <3>1, MadeGrows
        <3>5. QED BY <3>3, <3>4
    <2>2. CASE \E k \in Splits(ts, i, j, {sep}) :
                  \E t \in Derived(ts)[<<whole, i, k - 1>>], x \in Derived(ts)[<<item, k + 1, j>>] :
                      tree = Longer(sep, t, x)
        <3>1. PICK k \in Splits(ts, i, j, {sep}) :
                  \E t \in Derived(ts)[<<whole, i, k - 1>>], x \in Derived(ts)[<<item, k + 1, j>>] :
                      tree = Longer(sep, t, x)
            BY <2>2
        <3>2. PICK t \in Derived(ts)[<<whole, i, k - 1>>], x \in Derived(ts)[<<item, k + 1, j>>] :
                      tree = Longer(sep, t, x)
            BY <3>1
        <3>3. /\ k \in i + 1 .. j - 1 /\ k - 1 \in 0 .. j - 1 /\ k + 1 \in 1 .. Len(ts)
              /\ j \in 0 .. Len(ts) - 1
            BY DEF Splits, IsScan
        <3>4. Good(k - 1)
            BY <1>1, <3>3
        <3>5. PICK its, b : Spaced(ts, item, sep, its, b, i, k - 1) /\ t = Made(sep, its)
            BY <3>4
        <3>6. \E c : Spaced(ts, item, sep, Append(its, x), c, i, j)
            BY <3>3, <3>5, SpacedMore
        <3>7. its \in Seq(ItemsOf(ts, item)) /\ its # << >> /\ x \in ItemsOf(ts, item)
            <4>1. its \in Seq(ItemsOf(ts, item)) /\ Len(its) # 0
                BY <3>5 DEF Spaced
            <4>2. x \in ItemsOf(ts, item)
                BY <3>3, IsItem
            <4>3. QED BY <4>1, <4>2
        <3>8. tree = Made(sep, Append(its, x))
            BY <3>2, <3>5, <3>7, MadeGrows
        <3>9. QED BY <3>6, <3>8
    <2>3. IsOneOrLonger(ts, whole, item, sep, i, j, tree)
        BY DEF IsListOf
    <2>4. QED BY <2>1, <2>2, <2>3 DEF IsOneOrLonger
<1> HIDE DEF Good
<1>2. \A j \in 0 .. n : j \in good
    <2>1. \A j \in 0 .. n : (\A r \in 0 .. j - 1 : r \in good) => j \in good
        BY <1>1
    <2>2. 0 \in Int /\ n \in Int
        BY DEF IsScan
    <2> HIDE DEF good, n
    <2>3. QED BY <2>1, <2>2, ForwardInduction, Zenon
<1>3. QED BY <1>2 DEF Good

LEMMA MadeIsWhole ==
    ASSUME NEW ts, IsScan(ts), NEW whole, NEW item, NEW sep, IsListOf(ts, whole, item, sep),
           NEW i \in 1 .. Len(ts)
    PROVE  \A j \in 0 .. Len(ts) - 1 : \A its, b :
               Spaced(ts, item, sep, its, b, i, j) =>
                   Made(sep, its) \in Derived(ts)[<<whole, i, j>>]
<1> DEFINE Good(j) == \A its, b : Spaced(ts, item, sep, its, b, i, j) =>
                                      Made(sep, its) \in Derived(ts)[<<whole, i, j>>]
           n == Len(ts) - 1
           good == {j \in 0 .. n : Good(j)}
<1>1. ASSUME NEW j \in 0 .. n, \A r \in 0 .. j - 1 : r \in good
      PROVE  Good(j)
    <2> SUFFICES ASSUME NEW its, NEW b, Spaced(ts, item, sep, its, b, i, j)
                 PROVE  Made(sep, its) \in Derived(ts)[<<whole, i, j>>]
        OBVIOUS
    <2>1. CASE Len(its) = 1
        <3>1. /\ its \in Seq(ItemsOf(ts, item)) /\ b[0] = i - 1 /\ b[1] = j + 1
              /\ its[1] \in Derived(ts)[<<item, b[1 - 1] + 1, b[1] - 1>>]
            BY <2>1 DEF Spaced
        <3>2. its[1] \in Derived(ts)[<<item, i, j>>]
            BY <3>1
        <3>3. its = <<its[1]>>
            BY <2>1, <3>1
        <3>4. Made(sep, its) = One(sep, its[1])
            BY <3>3, MadeGrows
        <3>5. IsOneOrLonger(ts, whole, item, sep, i, j, Made(sep, its))
            BY <3>2, <3>4 DEF IsOneOrLonger
        <3>6. QED BY <3>5 DEF IsListOf
    <2>2. CASE Len(its) # 1
        <3>1. PICK k \in Splits(ts, i, j, {sep}) : \E s, c, x :
               /\ Spaced(ts, item, sep, s, c, i, k - 1)
               /\ x \in Derived(ts)[<<item, k + 1, j>>]
               /\ s \in Seq(ItemsOf(ts, item)) /\ s # << >> /\ x \in ItemsOf(ts, item)
               /\ its = Append(s, x)
            <4>1. HasLast(ts, item, sep, its, i, j)
                BY <2>2, SpacedPrefix
            <4>2. QED BY <4>1 DEF HasLast
        <3>2. PICK s, c, x :
               /\ Spaced(ts, item, sep, s, c, i, k - 1)
               /\ x \in Derived(ts)[<<item, k + 1, j>>]
               /\ s \in Seq(ItemsOf(ts, item)) /\ s # << >> /\ x \in ItemsOf(ts, item)
               /\ its = Append(s, x)
            BY <3>1
        <3>3. k - 1 \in 0 .. j - 1
            BY DEF Splits
        <3>4. Made(sep, s) \in Derived(ts)[<<whole, i, k - 1>>]
            BY <1>1, <3>2, <3>3
        <3>5. Made(sep, its) = Longer(sep, Made(sep, s), x)
            BY <3>2, MadeGrows
        <3>6. IsOneOrLonger(ts, whole, item, sep, i, j, Made(sep, its))
            BY <3>2, <3>4, <3>5 DEF IsOneOrLonger
        <3>7. QED BY <3>6 DEF IsListOf
    <2>3. QED BY <2>1, <2>2
<1> HIDE DEF Good
<1>2. \A j \in 0 .. n : j \in good
    <2>1. \A j \in 0 .. n : (\A r \in 0 .. j - 1 : r \in good) => j \in good
        BY <1>1
    <2>2. 0 \in Int /\ n \in Int
        BY DEF IsScan
    <2> HIDE DEF good, n
    <2>3. QED BY <2>1, <2>2, ForwardInduction, Zenon
<1>3. QED BY <1>2 DEF Good

-----------------------------------------------------------------------------
(* A loop of the parser takes such a list, and the longest one.            *)
ItemsRead(ts, items, p, item, goesOn) ==
    \A q \in p .. Len(ts) : Reads(ts, q, items[q], item, goesOn)

LEMMA LoopIsSpaced ==
    ASSUME NEW ts, IsScan(ts), NEW p \in 1 .. Len(ts), NEW items, NEW item, NEW goesOn,
           ItemsRead(ts, items, p, item, goesOn),
           NEW sep \in Separators, NEW list, IsLoop(list, ts, sep, items, p)
    PROVE  \A q \in p .. Len(ts) : list[q].ok =>
               /\ list[q].behind \in q + 1 .. Len(ts)
               /\ \E b : Spaced(ts, item, sep, list[q].tree, b, q, list[q].behind - 1)
<1> DEFINE n == Len(ts)
           Good(q) == list[q].ok =>
               /\ list[q].behind \in q + 1 .. n
               /\ \E b : Spaced(ts, item, sep, list[q].tree, b, q, list[q].behind - 1)
           good == {q \in p .. n : Good(q)}
<1>1. n \in Nat /\ p \in 1 .. n /\ sep # "EndOfFile"
    BY DEF IsScan, Separators
<1>2. ASSUME NEW q \in p .. n, \A r \in q + 1 .. n : r \in good
      PROVE  Good(q)
    <2> SUFFICES ASSUME list[q].ok
                 PROVE  /\ list[q].behind \in q + 1 .. n
                        /\ \E b : Spaced(ts, item, sep, list[q].tree, b, q, list[q].behind - 1)
        OBVIOUS
    <2> DEFINE it == items[q]
               x == it.tree
    <2>1. Reads(ts, q, it, item, goesOn) /\ q \in 1 .. n /\ list[q] = ListFrom(ts, sep, it, list)
        BY <1>1 DEF ItemsRead, IsLoop
    <2> HIDE DEF it
    <2>2. it.ok
        BY <2>1, ListFails
    <2> DEFINE k == it.behind
    <2>3. k \in q + 1 .. n /\ x \in Derived(ts)[<<item, q, k - 1>>]
        BY <2>1, <2>2 DEF Reads
    <2> HIDE DEF k, x
    <2>4. k \in 1 .. n /\ k - 1 \in q .. n - 1 /\ q \in 1 .. n
        BY <1>1, <2>1, <2>3
    <2>5. CASE Kind(ts, k) # sep
        <3>1. list[q] = Parsed(<<x>>, k)
            BY <2>1, <2>2, <2>5, ListEnds DEF k, x
        <3>2. list[q].tree = <<x>> /\ list[q].behind = k
            BY <3>1 DEF Parsed
        <3>3. \E b : Spaced(ts, item, sep, <<x>>, b, q, k - 1)
            BY <2>3, <2>4, SpacedOne
        <3>4. QED BY <2>3, <3>2, <3>3
    <2>6. CASE Kind(ts, k) = sep
        <3> PICK m : m = k + 1
            OBVIOUS
        <3>1. m \in q + 1 .. n /\ k \in q + 1 .. n
            BY <1>1, <2>3, <2>4, <2>6 DEF IsScan
        <3> DEFINE rest == list[m]
        <3>2. list[q] = IF rest.ok THEN Parsed(<<x>> \o rest.tree, rest.behind) ELSE rest
            BY <2>1, <2>2, <2>6, ListGoesOn DEF k, x
        <3>3. Good(m)
            BY <1>2, <3>1
        <3>4. rest.ok
            BY <3>2
        <3>5. list[q].tree = <<x>> \o rest.tree /\ list[q].behind = rest.behind
            BY <3>2, <3>4 DEF Parsed
        <3>6. rest.behind \in m + 1 .. n
            BY <3>3, <3>4
        <3>7. PICK b : Spaced(ts, item, sep, rest.tree, b, m, rest.behind - 1)
            BY <3>3, <3>4
        <3>8. rest.behind \in q + 1 .. n /\ rest.behind - 1 \in 0 .. n - 1
            BY <1>1, <2>1, <3>1, <3>6
        <3> HIDE DEF rest
        <3>9. \E c : Spaced(ts, item, sep, <<x>> \o rest.tree, c, q, rest.behind - 1)
            BY <2>3, <2>4, <2>6, <3>1, <3>7, <3>8, SpacedFront
        <3>10. QED BY <3>5, <3>8, <3>9
    <2>7. QED BY <2>5, <2>6
<1> HIDE DEF Good
<1>3. \A q \in p .. n : q \in good
    <2>1. \A q \in p .. n : (\A r \in q + 1 .. n : r \in good) => q \in good
        BY <1>2
    <2>2. p \in Int /\ n \in Int
        BY <1>1
    <2> HIDE DEF good, n
    <2>3. QED BY <2>1, <2>2, BackwardInduction, Zenon
<1>4. QED BY <1>3 DEF Good

LEMMA SpacedIsRead ==
    ASSUME NEW ts, IsScan(ts), NEW p \in 1 .. Len(ts), NEW items, NEW item, NEW goesOn,
           ItemsRead(ts, items, p, item, goesOn),
           NEW sep \in Separators, sep \notin goesOn, NEW list, IsLoop(list, ts, sep, items, p),
           NEW j \in 0 .. Len(ts) - 1, Kind(ts, j + 1) \notin goesOn \cup {sep}
    PROVE  \A q \in p .. Len(ts) : \A its, b :
               Spaced(ts, item, sep, its, b, q, j) => list[q] = Parsed(its, j + 1)
<1> DEFINE n == Len(ts)
           Good(q) == \A its, b : Spaced(ts, item, sep, its, b, q, j) => list[q] = Parsed(its, j + 1)
           good == {q \in p .. n : Good(q)}
<1>1. n \in Nat /\ p \in 1 .. n /\ j \in 0 .. n - 1
    BY DEF IsScan
<1>2. ASSUME NEW q \in p .. n, \A r \in q + 1 .. n : r \in good
      PROVE  Good(q)
    <2> SUFFICES ASSUME NEW its, NEW b, Spaced(ts, item, sep, its, b, q, j)
                 PROVE  list[q] = Parsed(its, j + 1)
        OBVIOUS
    <2> DEFINE it == items[q]
               x == its[1]
    <2>1. Reads(ts, q, it, item, goesOn) /\ q \in 1 .. n /\ list[q] = ListFrom(ts, sep, it, list)
        BY <1>1 DEF ItemsRead, IsLoop
    <2> HIDE DEF it
    <2>2. CASE Len(its) = 1
        <3>1. /\ its \in Seq(ItemsOf(ts, item)) /\ b[0] = q - 1 /\ b[1] = j + 1
              /\ x \in Derived(ts)[<<item, b[1 - 1] + 1, b[1] - 1>>]
            BY <2>2 DEF Spaced
        <3>2. x \in Derived(ts)[<<item, q, j>>]
            BY <1>1, <2>1, <3>1
        <3>3. its = <<x>>
            BY <2>2, <3>1
        <3> HIDE DEF x
        <3>4. it = Parsed(x, j + 1)
            BY <2>1, <3>2 DEF Reads
        <3>5. it.ok /\ it.tree = x /\ it.behind = j + 1
            BY <3>4 DEF Parsed
        <3>6. list[q] = Parsed(<<it.tree>>, it.behind)
            BY <2>1, <3>5, ListEnds
        <3>7. QED BY <3>3, <3>5, <3>6
    <2>3. CASE Len(its) # 1
        <3>0. HasFirst(ts, item, sep, its, q, j)
            BY <2>1, <2>3, SpacedRest
        <3>1. PICK k \in q + 1 .. j - 1 : \E c, m :
               /\ x \in Derived(ts)[<<item, q, k - 1>>] /\ Kind(ts, k) = sep
               /\ m = k + 1 /\ Spaced(ts, item, sep, Tail(its), c, m, j)
               /\ its = <<x>> \o Tail(its)
            BY <3>0 DEF HasFirst
        <3>2. PICK c, m :
               /\ x \in Derived(ts)[<<item, q, k - 1>>] /\ Kind(ts, k) = sep
               /\ m = k + 1 /\ Spaced(ts, item, sep, Tail(its), c, m, j)
               /\ its = <<x>> \o Tail(its)
            BY <3>1
        <3>3. k - 1 \in 0 .. n - 1 /\ k - 1 + 1 = k /\ m \in q + 1 .. n
            BY <1>1, <2>1, <3>2
        <3> HIDE DEF x
        <3>4. it = Parsed(x, k)
            BY <2>1, <3>2, <3>3 DEF Reads
        <3>5. it.ok /\ it.tree = x /\ it.behind = k
            BY <3>4 DEF Parsed
        <3>6. list[m] = Parsed(Tail(its), j + 1)
            BY <1>2, <3>2, <3>3
        <3>7. list[m].ok /\ list[m].tree = Tail(its) /\ list[m].behind = j + 1
            BY <3>6 DEF Parsed
        <3>8. list[q] = IF list[m].ok THEN Parsed(<<x>> \o list[m].tree, list[m].behind) ELSE list[m]
            BY <2>1, <3>2, <3>5, ListGoesOn
        <3>9. QED BY <3>2, <3>7, <3>8
    <2>4. QED BY <2>2, <2>3
<1> HIDE DEF Good
<1>3. \A q \in p .. n : q \in good
    <2>1. \A q \in p .. n : (\A r \in q + 1 .. n : r \in good) => q \in good
        BY <1>2
    <2>2. p \in Int /\ n \in Int
        BY <1>1
    <2> HIDE DEF good, n
    <2>3. QED BY <2>1, <2>2, BackwardInduction, Zenon
<1>4. QED BY <1>3 DEF Good

LEMMA LoopReads ==
    ASSUME NEW ts, IsScan(ts), NEW p \in 1 .. Len(ts), NEW items, NEW whole, NEW item, NEW goesOn,
           ItemsRead(ts, items, p, item, goesOn), NEW sep \in Separators, sep \notin goesOn,
           IsListOf(ts, whole, item, sep), NEW list, IsLoop(list, ts, sep, items, p)
    PROVE  Reads(ts, p, IF list[p].ok THEN Parsed(Made(sep, list[p].tree), list[p].behind) ELSE list[p],
                 whole, goesOn \cup {sep})
<1> DEFINE result == IF list[p].ok THEN Parsed(Made(sep, list[p].tree), list[p].behind) ELSE list[p]
           k == list[p].behind
<1>1. Len(ts) \in Nat /\ p \in p .. Len(ts)
    BY DEF IsScan
<1>2. ASSUME result.ok
      PROVE  /\ result.behind \in p + 1 .. Len(ts)
             /\ result.tree \in Derived(ts)[<<whole, p, result.behind - 1>>]
    <2>1. list[p].ok
        BY <1>2
    <2>2. result.tree = Made(sep, list[p].tree) /\ result.behind = k
        BY <2>1 DEF Parsed
    <2>3. k \in p + 1 .. Len(ts) /\ \E b : Spaced(ts, item, sep, list[p].tree, b, p, k - 1)
        BY <1>1, <2>1, LoopIsSpaced
    <2> HIDE DEF k
    <2>4. k - 1 \in 0 .. Len(ts) - 1
        BY <1>1, <2>3
    <2>5. Made(sep, list[p].tree) \in Derived(ts)[<<whole, p, k - 1>>]
        BY <2>3, <2>4, MadeIsWhole
    <2>6. QED BY <2>2, <2>3, <2>5
<1>3. ASSUME NEW j \in 0 .. Len(ts) - 1, NEW tree \in Derived(ts)[<<whole, p, j>>],
             Kind(ts, j + 1) \notin goesOn \cup {sep}
      PROVE  result = Parsed(tree, j + 1)
    <2>1. PICK its, b : Spaced(ts, item, sep, its, b, p, j) /\ tree = Made(sep, its)
        BY WholeIsMade
    <2>2. list[p] = Parsed(its, j + 1)
        BY <1>1, <1>3, <2>1, SpacedIsRead
    <2>3. list[p].ok /\ list[p].tree = its /\ list[p].behind = j + 1
        BY <2>2 DEF Parsed
    <2>4. QED BY <2>1, <2>3
<1> HIDE DEF result
<1>4. QED BY <1>2, <1>3 DEF Reads, result

-----------------------------------------------------------------------------
(* Expressions: no tokens have no tree, and each level reads its symbol.    *)
LEMMA NothingOfNothing ==
    ASSUME NEW ts, IsScan(ts), NEW i \in 1 .. Len(ts), NEW j \in 0 .. Len(ts) - 1, j < i
    PROVE  LET trees == Derived(ts)
           IN  /\ trees[<<"name", i, j>>] = {} /\ trees[<<"primary", i, j>>] = {}
               /\ trees[<<"comparison", i, j>>] = {} /\ trees[<<"conjunction", i, j>>] = {}
               /\ trees[<<"definition", i, j>>] = {}
<1> DEFINE trees == Derived(ts)
<1>1. /\ trees[<<"name", i, j>>] = Names(ts, i, j)
      /\ trees[<<"primary", i, j>>] = Primaries(ts, trees, i, j)
      /\ trees[<<"comparison", i, j>>]
           = Joined(ts, trees, ComparisonOperators, "primary", "primary", i, j)
      /\ trees[<<"conjunction", i, j>>]
           = Joined(ts, trees, {"And"}, "conjunction", "comparison", i, j)
      /\ trees[<<"definition", i, j>>] = Definitions(ts, trees, i, j)
    BY DerivedIs
<1> HIDE DEF trees
<1>2. \A kinds : Splits(ts, i, j, kinds) = {}
    BY DEF Splits
<1>3. trees[<<"name", i, j>>] = {}
    BY <1>1 DEF Names, IsOne
<1>4. trees[<<"primary", i, j>>] = {}
    BY <1>1 DEF Primaries, IsOne, InParens
<1>5. \A ops, lefts, rights : Joined(ts, trees, ops, lefts, rights, i, j) = trees[<<rights, i, j>>]
    BY <1>2 DEF Joined
<1>6. trees[<<"definition", i, j>>] = {}
    BY <1>1 DEF Definitions
<1>7. QED BY <1>1, <1>3, <1>4, <1>5, <1>6 DEF trees

LEMMA JoinedIsOneOrLonger ==
    ASSUME NEW ts, NEW whole, NEW item, NEW op, op # "Comma", NEW i, NEW j, NEW tree
    PROVE  tree \in Joined(ts, Derived(ts), {op}, whole, item, i, j) <=>
               IsOneOrLonger(ts, whole, item, op, i, j, tree)
<1> DEFINE trees == Derived(ts)
<1>1. /\ \A x : One(op, x) = x
      /\ \A t, x : Longer(op, t, x) = Binary(op, t, x)
    BY DEF One, Longer
<1>2. \A k \in Splits(ts, i, j, {op}) : Kind(ts, k) = op
    BY DEF Splits
<1> HIDE DEF trees
<1> PICK ops : ops = {op}
    OBVIOUS
<1>3. tree \in Joined(ts, trees, ops, whole, item, i, j) <=>
          IsJoin(ts, trees, ops, whole, item, i, j, tree)
    BY JoinedMembers
<1>4. IsJoin(ts, trees, ops, whole, item, i, j, tree) <=>
          IsOneOrLonger(ts, whole, item, op, i, j, tree)
    BY <1>1, <1>2 DEF IsOneOrLonger, IsJoin, trees
<1>5. QED BY <1>3, <1>4 DEF trees

LEMMA ListedIsOneOrLonger ==
    ASSUME NEW ts, NEW whole, NEW item, NEW i, NEW j, NEW tree
    PROVE  tree \in Listed(ts, Derived(ts), whole, item, i, j) <=>
               IsOneOrLonger(ts, whole, item, "Comma", i, j, tree)
<1> DEFINE trees == Derived(ts)
<1>1. /\ \A x : One("Comma", x) = <<x>>
      /\ \A t, x : Longer("Comma", t, x) = Append(t, x)
    BY DEF One, Longer
<1>2. tree \in Listed(ts, trees, whole, item, i, j) <=>
               \/ \E x \in trees[<<item, i, j>>] : tree = <<x>>
               \/ \E k \in Splits(ts, i, j, {"Comma"}) :
                     \E t \in trees[<<whole, i, k - 1>>], x \in trees[<<item, k + 1, j>>] :
                         tree = Append(t, x)
    BY DEF Listed, Appended
<1> HIDE DEF trees
<1>3. QED BY <1>1, <1>2 DEF IsOneOrLonger, trees

LEMMA JoinedIsList ==
    ASSUME NEW ts, NEW whole, NEW item, NEW op, op # "Comma",
           \A i \in 1 .. Len(ts), j \in 0 .. Len(ts) - 1 :
               /\ j < i => Derived(ts)[<<item, i, j>>] = {}
               /\ Derived(ts)[<<whole, i, j>>] = Joined(ts, Derived(ts), {op}, whole, item, i, j)
    PROVE  IsListOf(ts, whole, item, op)
<1> SUFFICES ASSUME NEW i \in 1 .. Len(ts), NEW j \in 0 .. Len(ts) - 1
             PROVE  /\ j < i => Derived(ts)[<<item, i, j>>] = {}
                    /\ \A tree : tree \in Derived(ts)[<<whole, i, j>>] <=>
                           IsOneOrLonger(ts, whole, item, op, i, j, tree)
    BY DEF IsListOf
<1>1. ASSUME NEW tree
      PROVE  tree \in Joined(ts, Derived(ts), {op}, whole, item, i, j) <=>
                 IsOneOrLonger(ts, whole, item, op, i, j, tree)
    BY JoinedIsOneOrLonger
<1>2. QED BY <1>1

LEMMA ListedIsList ==
    ASSUME NEW ts, NEW whole, NEW item,
           \A i \in 1 .. Len(ts), j \in 0 .. Len(ts) - 1 :
               /\ j < i => Derived(ts)[<<item, i, j>>] = {}
               /\ Derived(ts)[<<whole, i, j>>] = Listed(ts, Derived(ts), whole, item, i, j)
    PROVE  IsListOf(ts, whole, item, "Comma")
<1> SUFFICES ASSUME NEW i \in 1 .. Len(ts), NEW j \in 0 .. Len(ts) - 1
             PROVE  /\ j < i => Derived(ts)[<<item, i, j>>] = {}
                    /\ \A tree : tree \in Derived(ts)[<<whole, i, j>>] <=>
                           IsOneOrLonger(ts, whole, item, "Comma", i, j, tree)
    BY DEF IsListOf
<1>1. ASSUME NEW tree
      PROVE  tree \in Listed(ts, Derived(ts), whole, item, i, j) <=>
                 IsOneOrLonger(ts, whole, item, "Comma", i, j, tree)
    BY ListedIsOneOrLonger
<1>2. QED BY <1>1

LEMMA GrammarLists ==
    ASSUME NEW ts, IsScan(ts)
    PROVE  /\ IsListOf(ts, "conjunction", "comparison", "And")
           /\ IsListOf(ts, "disjunction", "conjunction", "Or")
           /\ IsListOf(ts, "names", "name", "Comma")
           /\ IsListOf(ts, "definitions", "definition", "Comma")
           /\ IsListOf(ts, "values", "primary", "Comma")
<1> DEFINE trees == Derived(ts)
<1>1. ASSUME NEW i \in 1 .. Len(ts), NEW j \in 0 .. Len(ts) - 1
      PROVE  /\ trees[<<"conjunction", i, j>>]
                  = Joined(ts, trees, {"And"}, "conjunction", "comparison", i, j)
             /\ trees[<<"disjunction", i, j>>]
                  = Joined(ts, trees, {"Or"}, "disjunction", "conjunction", i, j)
             /\ trees[<<"names", i, j>>] = Listed(ts, trees, "names", "name", i, j)
             /\ trees[<<"definitions", i, j>>]
                  = Listed(ts, trees, "definitions", "definition", i, j)
             /\ trees[<<"values", i, j>>] = Listed(ts, trees, "values", "primary", i, j)
    BY DerivedIs
<1>2. ASSUME NEW i \in 1 .. Len(ts), NEW j \in 0 .. Len(ts) - 1, j < i
      PROVE  /\ trees[<<"name", i, j>>] = {} /\ trees[<<"primary", i, j>>] = {}
             /\ trees[<<"comparison", i, j>>] = {} /\ trees[<<"conjunction", i, j>>] = {}
             /\ trees[<<"definition", i, j>>] = {}
    BY <1>2, NothingOfNothing
<1> HIDE DEF trees
<1>3. IsListOf(ts, "conjunction", "comparison", "And")
    BY <1>1, <1>2, JoinedIsList DEF trees
<1>4. IsListOf(ts, "disjunction", "conjunction", "Or")
    BY <1>1, <1>2, JoinedIsList DEF trees
<1>5. IsListOf(ts, "names", "name", "Comma")
    BY <1>1, <1>2, ListedIsList DEF trees
<1>6. IsListOf(ts, "definitions", "definition", "Comma")
    BY <1>1, <1>2, ListedIsList DEF trees
<1>7. IsListOf(ts, "values", "primary", "Comma")
    BY <1>1, <1>2, ListedIsList DEF trees
<1>8. QED BY <1>3, <1>4, <1>5, <1>6, <1>7

-----------------------------------------------------------------------------
(* The loops over AND and OR read their symbols.                           *)
LEMMA AndReads ==
    ASSUME NEW ts, IsScan(ts), NEW p \in 1 .. Len(ts), NEW nested,
           NestedMake(ts, nested, p), NestedRead(ts, nested, p)
    PROVE  Reads(ts, p, ParseAnd(ts, nested, p), "conjunction", AfterConjunction)
<1> DEFINE items == [q \in p .. Len(ts) |-> ParseComparison(ts, nested, q)]
<1>1. PICK list : /\ IsLoop(list, ts, "And", items, p)
                  /\ ParseAnd(ts, nested, p)
                       = IF list[p].ok
                         THEN Parsed(LeftTree("And", list[p].tree), list[p].behind)
                         ELSE list[p]
    BY AndLoop
<1>2. ItemsRead(ts, items, p, "comparison", ComparisonOperators)
    <2> SUFFICES ASSUME NEW q \in p .. Len(ts)
                 PROVE  Reads(ts, q, ParseComparison(ts, nested, q), "comparison", ComparisonOperators)
        BY DEF ItemsRead
    <2>1. q \in 1 .. Len(ts) /\ q + 1 .. Len(ts) \subseteq p + 1 .. Len(ts)
        BY DEF IsScan
    <2>2. NestedRead(ts, nested, q)
        BY <2>1 DEF NestedRead
    <2>3. QED BY <2>1, <2>2, ComparisonReads
<1> HIDE DEF items
<1>3. "And" \in Separators /\ "And" \notin ComparisonOperators /\ "And" # "Comma"
    BY DEF Separators, ComparisonOperators, OrderingOperators
<1>4. Made("And", list[p].tree) = LeftTree("And", list[p].tree)
    BY DEF Made
<1>5. Reads(ts, p, IF list[p].ok THEN Parsed(Made("And", list[p].tree), list[p].behind)
                   ELSE list[p], "conjunction", ComparisonOperators \cup {"And"})
    BY <1>1, <1>2, <1>3, GrammarLists, LoopReads
<1>6. QED BY <1>1, <1>4, <1>5 DEF AfterConjunction

LEMMA OrReads ==
    ASSUME NEW ts, IsScan(ts), NEW p \in 1 .. Len(ts), NEW nested,
           NestedMake(ts, nested, p), NestedRead(ts, nested, p)
    PROVE  Reads(ts, p, ParseOr(ts, nested, p), "disjunction", AfterDisjunction)
<1> DEFINE items == [q \in p .. Len(ts) |-> ParseAnd(ts, nested, q)]
<1>1. PICK list : /\ IsLoop(list, ts, "Or", items, p)
                  /\ ParseOr(ts, nested, p)
                       = IF list[p].ok
                         THEN Parsed(LeftTree("Or", list[p].tree), list[p].behind)
                         ELSE list[p]
    BY OrLoop
<1>2. ItemsRead(ts, items, p, "conjunction", AfterConjunction)
    <2> SUFFICES ASSUME NEW q \in p .. Len(ts)
                 PROVE  Reads(ts, q, ParseAnd(ts, nested, q), "conjunction", AfterConjunction)
        BY DEF ItemsRead
    <2>1. q \in 1 .. Len(ts) /\ q + 1 .. Len(ts) \subseteq p + 1 .. Len(ts)
        BY DEF IsScan
    <2>2. NestedRead(ts, nested, q) /\ NestedMake(ts, nested, q)
        BY <2>1 DEF NestedRead, NestedMake
    <2>3. QED BY <2>1, <2>2, AndReads
<1> HIDE DEF items
<1>3. "Or" \in Separators /\ "Or" \notin AfterConjunction /\ "Or" # "Comma"
    BY DEF Separators, AfterConjunction, ComparisonOperators, OrderingOperators
<1>4. Made("Or", list[p].tree) = LeftTree("Or", list[p].tree)
    BY DEF Made
<1>5. Reads(ts, p, IF list[p].ok THEN Parsed(Made("Or", list[p].tree), list[p].behind)
                   ELSE list[p], "disjunction", AfterConjunction \cup {"Or"})
    BY <1>1, <1>2, <1>3, GrammarLists, LoopReads
<1>6. AfterConjunction \cup {"Or"} = AfterDisjunction
    BY DEF AfterConjunction, AfterDisjunction
<1>7. QED BY <1>1, <1>4, <1>5, <1>6

LEMMA ExpressionsRead ==
    ASSUME NEW ts, IsScan(ts)
    PROVE  /\ \A p \in 1 .. Len(ts) :
                  Reads(ts, p, ParseExpression(ts, p), "disjunction", AfterDisjunction)
           /\ \A p \in 0 .. Len(ts) : NestedRead(ts, Expressions(ts), p)
<1> DEFINE n == Len(ts)
           all == Expressions(ts)
<1>1. ASSUME NEW p \in 1 .. n
      PROVE  /\ all[p] = ParseOr(ts, [q \in p + 1 .. n |-> all[q]], p)
             /\ NestedMake(ts, [q \in p + 1 .. n |-> all[q]], p)
    <2>1. all[p] = ParseOr(ts, [q \in p + 1 .. n |-> all[q]], p)
        BY ExpressionsStepwise
    <2>2. p \in 0 .. n /\ NestedMake(ts, all, p)
        BY ExpressionsMake
    <2> HIDE DEF all
    <2>3. QED BY <2>1, <2>2 DEF NestedMake
<1> HIDE DEF all
<1> DEFINE good == {p \in 1 .. n : Reads(ts, p, all[p], "disjunction", AfterDisjunction)}
<1>2. ASSUME NEW p \in 1 .. n, \A q \in p + 1 .. n : q \in good
      PROVE  p \in good
    <2> DEFINE nested == [q \in p + 1 .. n |-> all[q]]
    <2>1. NestedRead(ts, nested, p)
        BY <1>2 DEF NestedRead
    <2>2. NestedMake(ts, nested, p) /\ all[p] = ParseOr(ts, nested, p)
        BY <1>1
    <2> HIDE DEF nested
    <2>3. Reads(ts, p, ParseOr(ts, nested, p), "disjunction", AfterDisjunction)
        BY <2>1, <2>2, OrReads
    <2>4. QED BY <2>2, <2>3
<1>3. \A p \in 1 .. n : p \in good
    <2>1. 1 \in Int /\ n \in Int
        BY DEF IsScan
    <2> HIDE DEF good, n
    <2>2. QED BY <1>2, <2>1, BackwardInduction, Zenon
<1>4. \A p \in 1 .. n : Reads(ts, p, all[p], "disjunction", AfterDisjunction)
    BY <1>3
<1>5. \A p \in 0 .. n : p + 1 .. n \subseteq 1 .. n
    OBVIOUS
<1>6. QED BY <1>4, <1>5 DEF ParseExpression, NestedRead, all

-----------------------------------------------------------------------------
(* The parts of statements.                                                *)
LEMMA NameReads ==
    ASSUME NEW ts, IsScan(ts), NEW p \in 1 .. Len(ts)
    PROVE  Reads(ts, p, Expect(ts, p, "Identifier"), "name", {})
<1>1. \A j \in 0 .. Len(ts) - 1 : Derived(ts)[<<"name", p, j>>] = Names(ts, p, j)
    <2> SUFFICES ASSUME NEW j \in 0 .. Len(ts) - 1
                 PROVE  Derived(ts)[<<"name", p, j>>] = Names(ts, p, j)
        OBVIOUS
    <2>1. QED BY DerivedIs, Zenon
<1>2. CASE Kind(ts, p) = "Identifier"
    <2>1. Expect(ts, p, "Identifier") = Parsed(ts[p].lexeme, p + 1)
        BY <1>2 DEF Expect
    <2>2. \A j \in 0 .. Len(ts) - 1 :
              Derived(ts)[<<"name", p, j>>] = IF p = j THEN {ts[p].lexeme} ELSE {}
        BY <1>1, <1>2 DEF Names, IsOne
    <2>3. QED BY <1>2, <2>1, <2>2, TokenReads
<1>3. CASE Kind(ts, p) # "Identifier"
    <2>1. Expect(ts, p, "Identifier") = Error(p)
        BY <1>3 DEF Expect
    <2>2. \A j \in 0 .. Len(ts) - 1 : Derived(ts)[<<"name", p, j>>] = {}
        BY <1>1, <1>3 DEF Names, IsOne
    <2>3. QED BY <2>1, <2>2, NothingReads
<1>4. QED BY <1>2, <1>3

IsDefinition(ts, trees, i, j, tree) ==
    /\ ~(i >= j)
    /\ \E word \in trees[<<"name", i, j - 1>>], type \in {Kind(ts, j)} \cap {"Int", "Text"} :
          tree = ColumnDefinition(word, type)
LEMMA DefinedMembers ==
    ASSUME NEW ts, NEW trees, NEW i, NEW j, NEW tree
    PROVE  tree \in Definitions(ts, trees, i, j) <=> IsDefinition(ts, trees, i, j, tree)
BY DEF Definitions, IsDefinition

LEMMA DefinitionReads ==
    ASSUME NEW ts, IsScan(ts), NEW p \in 1 .. Len(ts)
    PROVE  Reads(ts, p, ParseColumnDefinition(ts, p), "definition", {})
<1> DEFINE result == ParseColumnDefinition(ts, p)
           lexeme == ts[p].lexeme
           q == p + 1
           types == {"Int", "Text"}
           trees == Derived(ts)
<1>1. Len(ts) \in Nat /\ p \in Nat \ {0}
    BY DEF IsScan
<1>2. \A j \in 0 .. Len(ts) - 1 :
          trees[<<"definition", p, j>>] = Definitions(ts, trees, p, j)
    <2> SUFFICES ASSUME NEW j \in 0 .. Len(ts) - 1
                 PROVE  trees[<<"definition", p, j>>] = Definitions(ts, trees, p, j)
        OBVIOUS
    <2>1. QED BY DerivedIs, Zenon
<1>3. \A j \in 0 .. Len(ts) - 1 :
          trees[<<"name", p, j>>] = IF p = j /\ Kind(ts, p) = "Identifier" THEN {lexeme} ELSE {}
    <2> SUFFICES ASSUME NEW j \in 0 .. Len(ts) - 1
                 PROVE  trees[<<"name", p, j>>]
                          = IF p = j /\ Kind(ts, p) = "Identifier" THEN {lexeme} ELSE {}
        OBVIOUS
    <2>1. trees[<<"name", p, j>>] = Names(ts, p, j)
        BY DerivedIs, Zenon
    <2> HIDE DEF trees
    <2>2. QED BY <2>1 DEF Names, IsOne
<1> HIDE DEF trees
<1>4. ASSUME NEW j \in 0 .. Len(ts) - 1, NEW tree
      PROVE  tree \in trees[<<"definition", p, j>>] <=>
                 /\ j = q /\ Kind(ts, p) = "Identifier" /\ Kind(ts, q) \in types
                 /\ tree = ColumnDefinition(lexeme, Kind(ts, q))
    <2>1. tree \in trees[<<"definition", p, j>>] <=> tree \in Definitions(ts, trees, p, j)
        BY <1>2
    <2>2. tree \in trees[<<"definition", p, j>>] <=> IsDefinition(ts, trees, p, j, tree)
        BY <2>1, DefinedMembers
    <2>3. CASE p >= j
        <3>1. j # q
            BY <1>1, <2>3
        <3>2. QED BY <2>2, <2>3, <3>1 DEF IsDefinition
    <2>4. CASE ~(p >= j)
        <3>1. j - 1 \in 0 .. Len(ts) - 1 /\ (p = j - 1 <=> j = q)
            BY <1>1, <2>4
        <3>2. trees[<<"name", p, j - 1>>]
                = IF j = q /\ Kind(ts, p) = "Identifier" THEN {lexeme} ELSE {}
            BY <1>3, <3>1
        <3> HIDE DEF q, lexeme
        <3>4. QED BY <2>2, <2>4, <3>2 DEF IsDefinition
    <2>5. QED BY <2>3, <2>4
<1>5. result = IF Kind(ts, p) = "Identifier"
               THEN IF Kind(ts, q) \in types
                    THEN Parsed(ColumnDefinition(lexeme, Kind(ts, q)), q + 1) ELSE Error(q)
               ELSE Error(p)
    BY DEF ParseColumnDefinition, ParseColumnType, Expect, Then, Parsed, Error
<1>6. Kind(ts, p) = "Identifier" => q \in 1 .. Len(ts)
    BY <1>1 DEF IsScan
<1>7. Kind(ts, p) = "Identifier" /\ Kind(ts, q) \in types => q + 1 \in 1 .. Len(ts)
    BY <1>1, <1>6 DEF IsScan
<1> HIDE DEF result
<1>8. CASE Kind(ts, p) = "Identifier" /\ Kind(ts, q) \in types
    <2> DEFINE tree == ColumnDefinition(lexeme, Kind(ts, q))
    <2>1. result = Parsed(tree, q + 1)
        BY <1>5, <1>8
    <2>2. result.behind = q + 1 /\ result.tree = tree
        BY <2>1 DEF Parsed
    <2>3. q + 1 \in p + 1 .. Len(ts) /\ q + 1 - 1 = q /\ q \in 0 .. Len(ts) - 1
        BY <1>1, <1>7, <1>8
    <2>4. tree \in trees[<<"definition", p, q>>]
        BY <1>4, <1>8, <2>3
    <2>5. ASSUME NEW j \in 0 .. Len(ts) - 1, NEW other \in trees[<<"definition", p, j>>]
          PROVE  result = Parsed(other, j + 1)
        BY <1>4, <2>1
    <2> HIDE DEF q, tree
    <2>6. QED BY <2>2, <2>3, <2>4, <2>5 DEF Reads, result, trees
<1>9. CASE ~(Kind(ts, p) = "Identifier" /\ Kind(ts, q) \in types)
    <2>1. \E r : result = Error(r)
        BY <1>5, <1>9
    <2>2. \A j \in 0 .. Len(ts) - 1 : trees[<<"definition", p, j>>] = {}
        BY <1>4, <1>9
    <2>3. QED BY <2>1, <2>2, NothingReads DEF result, trees
<1>10. QED BY <1>8, <1>9

-----------------------------------------------------------------------------
(* A list in parentheses.                                                  *)
ReadsList(ts, p, result, lists) ==
    /\ result.ok =>
          /\ result.behind \in p + 1 .. Len(ts)
          /\ result.tree \in ListsInParens(ts, Derived(ts), lists, p, result.behind - 1)
    /\ \A j \in 0 .. Len(ts) - 1 : \A tree \in ListsInParens(ts, Derived(ts), lists, p, j) :
          result = Parsed(tree, j + 1)

LEMMA ParensRead ==
    ASSUME NEW ts, IsScan(ts), NEW p \in 1 .. Len(ts), Kind(ts, p) = "LParen",
           NEW m, m = p + 1, NEW inner, NEW lists, NEW goesOn, "RParen" \notin goesOn,
           Reads(ts, m, inner, lists, goesOn)
    PROVE  ReadsList(ts, p, WithClose(ts, inner), lists)
<1> DEFINE q == inner.behind
           paren == Expect(ts, q, "RParen")
           result == WithClose(ts, inner)
           trees == Derived(ts)
<1>1. result = IF inner.ok
               THEN IF paren.ok THEN Parsed(inner.tree, paren.behind) ELSE paren
               ELSE inner
    BY DEF WithClose
<1>2. Len(ts) \in Nat /\ m \in 1 .. Len(ts)
    BY DEF IsScan
<1> HIDE DEF result, trees
<1>4. \A j \in 0 .. Len(ts) - 1 :
          ListsInParens(ts, trees, lists, p, j)
             = IF p < j /\ Kind(ts, j) = "RParen" THEN trees[<<lists, m, j - 1>>] ELSE {}
    BY DEF ListsInParens, InParens
<1>5. ASSUME result.ok
      PROVE  /\ result.behind \in p + 1 .. Len(ts)
             /\ result.tree \in ListsInParens(ts, trees, lists, p, result.behind - 1)
    <2>1. inner.ok /\ paren.ok /\ result = Parsed(inner.tree, paren.behind)
        BY <1>1, <1>5
    <2>2. q \in m + 1 .. Len(ts) /\ inner.tree \in trees[<<lists, m, q - 1>>]
        BY <2>1 DEF Reads, trees
    <2>3. q \in 1 .. Len(ts)
        BY <1>2, <2>2
    <2>4. Kind(ts, q) = "RParen" /\ paren.behind = q + 1 /\ q + 1 \in 1 .. Len(ts)
        BY <2>1, <2>3, ExpectGoes
    <2> HIDE DEF q, paren
    <2>5. q \in 0 .. Len(ts) - 1 /\ p < q /\ q + 1 - 1 = q /\ q + 1 \in p + 1 .. Len(ts)
        BY <1>2, <2>2, <2>4
    <2>6. inner.tree \in ListsInParens(ts, trees, lists, p, q)
        BY <1>4, <2>2, <2>4, <2>5
    <2>7. result.behind = q + 1 /\ result.tree = inner.tree
        BY <2>1, <2>4 DEF Parsed
    <2>8. QED BY <2>5, <2>6, <2>7
<1>6. ASSUME NEW j \in 0 .. Len(ts) - 1, NEW tree \in ListsInParens(ts, trees, lists, p, j)
      PROVE  result = Parsed(tree, j + 1)
    <2>1. p < j /\ Kind(ts, j) = "RParen" /\ tree \in trees[<<lists, m, j - 1>>]
        BY <1>4
    <2>3. j - 1 \in 0 .. Len(ts) - 1 /\ j - 1 + 1 = j /\ j \in 1 .. Len(ts)
        BY <1>2, <2>1
    <2>4. inner = Parsed(tree, j)
        BY <2>1, <2>3 DEF Reads, trees
    <2>5. inner.ok /\ q = j /\ inner.tree = tree
        BY <2>4 DEF Parsed
    <2>6. paren.ok /\ paren.behind = j + 1
        BY <2>1, <2>3, <2>5, ExpectGoes
    <2>7. QED BY <1>1, <2>5, <2>6
<1>7. QED BY <1>5, <1>6 DEF ReadsList, result, trees

LEMMA NoParensRead ==
    ASSUME NEW ts, NEW p, Kind(ts, p) # "LParen", NEW lists, NEW q
    PROVE  ReadsList(ts, p, Error(q), lists)
<1>1. ~Error(q).ok
    BY DEF Error
<1>2. \A j : ListsInParens(ts, Derived(ts), lists, p, j) = {}
    BY DEF ListsInParens, InParens
<1>3. QED BY <1>1, <1>2 DEF ReadsList

-----------------------------------------------------------------------------
(* What a loop with commas returns, and that the lists of statements are   *)
(* read by such loops.                                                     *)
LEMMA LoopGives ==
    ASSUME NEW ts, NEW p, p \in p .. Len(ts), NEW items, NEW list, IsLoop(list, ts, "Comma", items, p)
    PROVE  list[p].ok => list[p] = Parsed(list[p].tree, list[p].behind)
<1> DEFINE item == items[p]
           more == list[item.behind + 1]
<1>1. list[p] = ListFrom(ts, "Comma", item, list)
    BY DEF IsLoop
<1> HIDE DEF item
<1>2. CASE ~item.ok
    BY <1>1, <1>2, ListFails
<1>3. CASE item.ok /\ Kind(ts, item.behind) # "Comma"
    <2>1. list[p] = Parsed(<<item.tree>>, item.behind)
        BY <1>1, <1>3, ListEnds
    <2>2. QED BY <2>1 DEF Parsed
<1>4. CASE item.ok /\ Kind(ts, item.behind) = "Comma"
    <2>1. list[p] = IF more.ok THEN Parsed(<<item.tree>> \o more.tree, more.behind) ELSE more
        BY <1>1, <1>4, ListGoesOn
    <2> DEFINE its == <<item.tree>> \o more.tree
    <2> HIDE DEF more, its
    <2>2. CASE more.ok
        <3>1. list[p] = Parsed(its, more.behind)
            BY <2>1, <2>2 DEF its
        <3>2. QED BY <3>1 DEF Parsed
    <2>3. QED BY <2>1, <2>2
<1>5. QED BY <1>2, <1>3, <1>4

LEMMA ListLoopReads ==
    ASSUME NEW ts, IsScan(ts), NEW p \in 1 .. Len(ts), NEW items, NEW whole, NEW item,
           ItemsRead(ts, items, p, item, {}), IsListOf(ts, whole, item, "Comma"),
           NEW list, IsLoop(list, ts, "Comma", items, p)
    PROVE  Reads(ts, p, list[p], whole, {"Comma"})
<1> DEFINE its == list[p].tree
           result == IF list[p].ok THEN Parsed(Made("Comma", its), list[p].behind) ELSE list[p]
<1>1. "Comma" \in Separators /\ "Comma" \notin {} /\ {} \cup {"Comma"} = {"Comma"}
    BY DEF Separators
<1>2. Made("Comma", its) = its
    BY DEF Made
<1>3. Reads(ts, p, result, whole, {} \cup {"Comma"})
    BY <1>1, LoopReads
<1>4. list[p].ok => list[p] = Parsed(its, list[p].behind)
    <2>1. p \in p .. Len(ts)
        OBVIOUS
    <2>2. QED BY <2>1, LoopGives
<1>5. result = list[p]
    BY <1>2, <1>4
<1> HIDE DEF result
<1>6. QED BY <1>1, <1>3, <1>5

LEMMA ColumnsRead ==
    ASSUME NEW ts, IsScan(ts), NEW p \in 1 .. Len(ts)
    PROVE  Reads(ts, p, ParseColumns(ts, p), "names", {"Comma"})
<1> DEFINE items == [q \in p .. Len(ts) |-> Expect(ts, q, "Identifier")]
<1>1. PICK list : IsLoop(list, ts, "Comma", items, p) /\ ParseColumns(ts, p) = list[p]
    BY ColumnsLoop
<1>2. ItemsRead(ts, items, p, "name", {})
    <2> SUFFICES ASSUME NEW q \in p .. Len(ts)
                 PROVE  Reads(ts, q, Expect(ts, q, "Identifier"), "name", {})
        BY DEF ItemsRead
    <2>1. q \in 1 .. Len(ts)
        BY DEF IsScan
    <2>2. QED BY <2>1, NameReads
<1>3. QED BY <1>1, <1>2, GrammarLists, ListLoopReads

LEMMA DefinitionsRead ==
    ASSUME NEW ts, IsScan(ts), NEW p \in 1 .. Len(ts)
    PROVE  ReadsList(ts, p, ParseDefinitions(ts, p), "definitions")
<1>1. CASE Kind(ts, p) = "LParen"
    <2> PICK m : m = p + 1
        OBVIOUS
    <2> DEFINE items == [q \in m .. Len(ts) |-> ParseColumnDefinition(ts, q)]
    <2>1. m \in 1 .. Len(ts)
        BY <1>1, DefinitionsLoop
    <2>2. PICK list : IsLoop(list, ts, "Comma", items, m) /\ ParseDefinitions(ts, p) = WithClose(ts, list[m])
        BY <1>1, DefinitionsLoop
    <2>3. ItemsRead(ts, items, m, "definition", {})
        <3> SUFFICES ASSUME NEW q \in m .. Len(ts)
                     PROVE  Reads(ts, q, ParseColumnDefinition(ts, q), "definition", {})
            BY DEF ItemsRead
        <3>1. q \in 1 .. Len(ts)
            BY <2>1 DEF IsScan
        <3>2. QED BY <3>1, DefinitionReads
    <2> HIDE DEF items
    <2>4. Reads(ts, m, list[m], "definitions", {"Comma"})
        BY <2>1, <2>2, <2>3, GrammarLists, ListLoopReads
    <2>5. "RParen" \notin {"Comma"}
        OBVIOUS
    <2>6. ReadsList(ts, p, WithClose(ts, list[m]), "definitions")
        BY <1>1, <2>4, <2>5, ParensRead
    <2>7. QED BY <2>2, <2>6
<1>2. CASE Kind(ts, p) # "LParen"
    <2>1. ParseDefinitions(ts, p) = Error(p)
        BY <1>2 DEF ParseDefinitions, ParseInParens, Expect, Then, Error
    <2>2. QED BY <1>2, <2>1, NoParensRead
<1>3. QED BY <1>1, <1>2

LEMMA ValuesRead ==
    ASSUME NEW ts, IsScan(ts), NEW p \in 1 .. Len(ts)
    PROVE  ReadsList(ts, p, ParseValues(ts, p), "values")
<1>1. CASE Kind(ts, p) = "LParen"
    <2> PICK m : m = p + 1
        OBVIOUS
    <2> DEFINE items == [q \in m .. Len(ts) |-> ParsePrimary(ts, Expressions(ts), q)]
    <2>1. m \in 1 .. Len(ts)
        BY <1>1, ValuesLoop
    <2>2. PICK list : IsLoop(list, ts, "Comma", items, m) /\ ParseValues(ts, p) = WithClose(ts, list[m])
        BY <1>1, ValuesLoop
    <2>3. ItemsRead(ts, items, m, "primary", {})
        <3> SUFFICES ASSUME NEW q \in m .. Len(ts)
                     PROVE  Reads(ts, q, ParsePrimary(ts, Expressions(ts), q), "primary", {})
            BY DEF ItemsRead
        <3>1. q \in 1 .. Len(ts)
            BY <2>1 DEF IsScan
        <3>2. q \in 0 .. Len(ts)
            BY <3>1
        <3>3. NestedRead(ts, Expressions(ts), q)
            BY <3>2, ExpressionsRead
        <3>4. QED BY <3>1, <3>3, PrimaryReads
    <2> HIDE DEF items
    <2>4. Reads(ts, m, list[m], "values", {"Comma"})
        BY <2>1, <2>2, <2>3, GrammarLists, ListLoopReads
    <2>5. "RParen" \notin {"Comma"}
        OBVIOUS
    <2>6. ReadsList(ts, p, WithClose(ts, list[m]), "values")
        BY <1>1, <2>4, <2>5, ParensRead
    <2>7. QED BY <2>2, <2>6
<1>2. CASE Kind(ts, p) # "LParen"
    <2>1. ParseValues(ts, p) = Error(p)
        BY <1>2 DEF ParseValues, ParseInParens, Expect, Then, Error
    <2>2. QED BY <1>2, <2>1, NoParensRead
<1>3. QED BY <1>1, <1>2

(* References to tables.                                                   *)
IsReference(ts, i, j, tree) ==
    \/ \E name \in Names(ts, i, j) : tree = TableReference(EmptyName, name)
    \/ \E k \in Splits(ts, i, j, {"Dot"}) :
          \E schema \in Names(ts, i, k - 1), name \in Names(ts, k + 1, j) :
              tree = TableReference(schema, name)
LEMMA ReferenceMembers ==
    ASSUME NEW ts, NEW i, NEW j, NEW tree
    PROVE  tree \in References(ts, i, j) <=> IsReference(ts, i, j, tree)
BY DEF References, IsReference

IsShort(ts, i, j, tree) ==
    j = i /\ Kind(ts, i) = "Identifier" /\ tree = TableReference(EmptyName, ts[i].lexeme)
IsLong(ts, i, j, tree) ==
    /\ j = i + 2 /\ Kind(ts, i) = "Identifier" /\ Kind(ts, i + 1) = "Dot"
    /\ Kind(ts, j) = "Identifier" /\ tree = TableReference(ts[i].lexeme, ts[j].lexeme)
LEMMA ReferenceIs ==
    ASSUME NEW ts, NEW i \in Nat, NEW j \in Nat, NEW tree
    PROVE  tree \in References(ts, i, j) <=> IsShort(ts, i, j, tree) \/ IsLong(ts, i, j, tree)
<1>1. tree \in References(ts, i, j) <=> IsReference(ts, i, j, tree)
    BY ReferenceMembers
<1>2. \A a, b, name : name \in Names(ts, a, b) <=>
          a = b /\ Kind(ts, a) = "Identifier" /\ name = ts[a].lexeme
    BY DEF Names, IsOne
<1>3. \A k : k \in Splits(ts, i, j, {"Dot"}) <=> k \in i + 1 .. j - 1 /\ Kind(ts, k) = "Dot"
    BY DEF Splits
<1>4. IsShort(ts, i, j, tree) <=> \E name \in Names(ts, i, j) : tree = TableReference(EmptyName, name)
    BY <1>2 DEF IsShort
<1>5. ASSUME IsLong(ts, i, j, tree)
      PROVE  \E k \in Splits(ts, i, j, {"Dot"}) :
                 \E schema \in Names(ts, i, k - 1), name \in Names(ts, k + 1, j) :
                     tree = TableReference(schema, name)
    <2> DEFINE k == i + 1
    <2>1. k \in i + 1 .. j - 1 /\ k - 1 = i /\ k + 1 = j
        BY <1>5 DEF IsLong
    <2>2. k \in Splits(ts, i, j, {"Dot"})
        BY <1>3, <1>5, <2>1 DEF IsLong
    <2>3. ts[i].lexeme \in Names(ts, i, k - 1) /\ ts[j].lexeme \in Names(ts, k + 1, j)
        BY <1>2, <1>5, <2>1 DEF IsLong
    <2>4. tree = TableReference(ts[i].lexeme, ts[j].lexeme)
        BY <1>5 DEF IsLong
    <2> HIDE DEF k
    <2>5. QED BY <2>2, <2>3, <2>4
<1>6. ASSUME NEW k \in Splits(ts, i, j, {"Dot"}),
             NEW schema \in Names(ts, i, k - 1), NEW name \in Names(ts, k + 1, j),
             tree = TableReference(schema, name)
      PROVE  IsLong(ts, i, j, tree)
    <2>1. k \in i + 1 .. j - 1 /\ Kind(ts, k) = "Dot"
        BY <1>3
    <2>2. i = k - 1 /\ Kind(ts, i) = "Identifier" /\ schema = ts[i].lexeme
        BY <1>2
    <2>3. k + 1 = j /\ Kind(ts, k + 1) = "Identifier" /\ name = ts[k + 1].lexeme
        BY <1>2
    <2>4. k = i + 1 /\ j = i + 2
        BY <2>1, <2>2, <2>3
    <2>5. QED BY <1>6, <2>1, <2>2, <2>3, <2>4 DEF IsLong
<1>7. QED BY <1>1, <1>4, <1>5, <1>6 DEF IsReference

LEMMA ReferenceReads ==
    ASSUME NEW ts, IsScan(ts), NEW p \in 1 .. Len(ts)
    PROVE  LET result == ParseTableReference(ts, p)
           IN  /\ result.ok =>
                     /\ result.behind \in p + 1 .. Len(ts)
                     /\ result.tree \in References(ts, p, result.behind - 1)
               /\ \A j \in 0 .. Len(ts) - 1 : \A tree \in References(ts, p, j) :
                     Kind(ts, j + 1) # "Dot" => result = Parsed(tree, j + 1)
<1> DEFINE q == p + 1
           result == ParseTableReference(ts, p)
           only == TableReference(EmptyName, ts[p].lexeme)
           both == TableReference(ts[p].lexeme, ts[p + 2].lexeme)
<1>0. Len(ts) \in Nat /\ p \in Nat /\ q + 1 = p + 2
    BY DEF IsScan
<1>1. result = IF Kind(ts, p) # "Identifier" THEN Error(p)
               ELSE IF Kind(ts, q) # "Dot" THEN Parsed(only, q)
               ELSE IF Kind(ts, q + 1) # "Identifier" THEN Error(q + 1)
               ELSE Parsed(both, q + 1 + 1)
    BY <1>0 DEF ParseTableReference, Expect, Then, Parsed, Error
<1>2. \A j \in 0 .. Len(ts) - 1 : \A tree :
          tree \in References(ts, p, j) <=> IsShort(ts, p, j, tree) \/ IsLong(ts, p, j, tree)
    BY <1>0, ReferenceIs
<1>3. /\ Kind(ts, p) = "Identifier" => q \in 1 .. Len(ts)
      /\ Kind(ts, p) = "Identifier" /\ Kind(ts, q) = "Dot" => q + 1 \in 1 .. Len(ts)
      /\ Kind(ts, p) = "Identifier" /\ Kind(ts, q) = "Dot" /\ Kind(ts, q + 1) = "Identifier"
            => q + 1 + 1 \in 1 .. Len(ts)
    BY <1>0 DEF IsScan
<1> HIDE DEF result
<1>4. ASSUME result.ok
      PROVE  /\ result.behind \in p + 1 .. Len(ts)
             /\ result.tree \in References(ts, p, result.behind - 1)
    <2>1. \A r : ~Error(r).ok
        BY DEF Error
    <2>2. CASE Kind(ts, p) = "Identifier" /\ Kind(ts, q) # "Dot"
        <3>1. result = Parsed(only, q)
            BY <1>1, <2>2
        <3>2. result.tree = only /\ result.behind = q
            BY <3>1 DEF Parsed
        <3>3. q \in p + 1 .. Len(ts) /\ q - 1 = p /\ p \in 0 .. Len(ts) - 1
            BY <1>0, <1>3, <2>2
        <3>4. IsShort(ts, p, p, only)
            BY <2>2 DEF IsShort
        <3>5. QED BY <1>2, <3>2, <3>3, <3>4
    <2>3. CASE Kind(ts, p) = "Identifier" /\ Kind(ts, q) = "Dot" /\ Kind(ts, q + 1) = "Identifier"
        <3>1. result = Parsed(both, q + 1 + 1)
            BY <1>1, <2>3
        <3>2. result.tree = both /\ result.behind = q + 1 + 1
            BY <3>1 DEF Parsed
        <3>3. q + 1 + 1 \in p + 1 .. Len(ts) /\ q + 1 + 1 - 1 = p + 2 /\ p + 2 \in 0 .. Len(ts) - 1
            BY <1>0, <1>3, <2>3
        <3>4. IsLong(ts, p, p + 2, both)
            BY <1>0, <2>3 DEF IsLong
        <3>5. QED BY <1>2, <3>2, <3>3, <3>4
    <2>4. QED BY <1>1, <1>4, <2>1, <2>2, <2>3
<1>5. ASSUME NEW j \in 0 .. Len(ts) - 1, NEW tree \in References(ts, p, j), Kind(ts, j + 1) # "Dot"
      PROVE  result = Parsed(tree, j + 1)
    <2>1. CASE IsShort(ts, p, j, tree)
        BY <1>1, <1>5, <2>1 DEF IsShort
    <2>2. CASE IsLong(ts, p, j, tree)
        BY <1>0, <1>1, <2>2 DEF IsLong
    <2>3. QED BY <1>2, <2>1, <2>2
<1>6. QED BY <1>4, <1>5 DEF result

(* What is selected.                                                       *)
LEMMA NoNames ==
    ASSUME NEW ts, IsScan(ts), NEW p \in 1 .. Len(ts), Kind(ts, p) # "Identifier",
           NEW j \in 0 .. Len(ts) - 1
    PROVE  Derived(ts)[<<"names", p, j>>] = {}
<1> SUFFICES ASSUME NEW list \in Derived(ts)[<<"names", p, j>>]
             PROVE  FALSE
    OBVIOUS
<1>1. PICK its, b : Spaced(ts, "name", "Comma", its, b, p, j)
    BY GrammarLists, WholeIsMade
<1>2. /\ Len(its) \in Nat \ {0} /\ b \in [0 .. Len(its) -> Int]
      /\ b[0] = p - 1 /\ b[Len(its)] = j + 1
      /\ its[1] \in Derived(ts)[<<"name", b[1 - 1] + 1, b[1] - 1>>]
      /\ \A l, r \in 0 .. Len(its) : l < r => b[l] + 1 < b[r]
    BY <1>1 DEF Spaced
<1> PICK k : k = b[1] - 1
    OBVIOUS
<1>3. k \in 0 .. Len(ts) - 1 /\ b[1 - 1] + 1 = p
    <2>1. 1 \in 0 .. Len(its) /\ 0 \in 0 .. Len(its) /\ Len(its) \in 0 .. Len(its)
        BY <1>2
    <2>2. b[0] + 1 < b[1] /\ b[1] \in Int
        BY <1>2, <2>1
    <2>3. b[1] <= b[Len(its)]
        <3>1. CASE Len(its) = 1
            BY <1>2, <2>2, <3>1
        <3>2. CASE 1 < Len(its)
            <4>1. b[1] + 1 < b[Len(its)]
                BY <1>2, <2>1, <3>2
            <4>2. QED BY <1>2, <2>2, <4>1
        <3>3. QED BY <1>2, <3>1, <3>2
    <2>4. 1 - 1 = 0 /\ b[1] <= j + 1 /\ p < b[1]
        BY <1>2, <2>2, <2>3
    <2>5. k \in 0 .. Len(ts) - 1
        BY <2>2, <2>4 DEF IsScan
    <2>6. QED BY <1>2, <2>4, <2>5
<1>4. its[1] \in Derived(ts)[<<"name", p, k>>]
    BY <1>2, <1>3
<1>5. Derived(ts)[<<"name", p, k>>] = Names(ts, p, k)
    BY <1>3, DerivedIs, Zenon
<1>6. Names(ts, p, k) = {}
    BY DEF Names, IsOne
<1>7. QED BY <1>4, <1>5, <1>6

LEMMA SelectListReads ==
    ASSUME NEW ts, IsScan(ts), NEW p \in 1 .. Len(ts)
    PROVE  LET result == ParseSelectList(ts, p)
           IN  /\ result.ok =>
                     /\ result.behind \in p + 1 .. Len(ts)
                     /\ result.tree \in Selections(ts, Derived(ts), p, result.behind - 1)
               /\ \A j \in 0 .. Len(ts) - 1 : \A tree \in Selections(ts, Derived(ts), p, j) :
                     Kind(ts, j + 1) # "Comma" => result = Parsed(tree, j + 1)
<1> DEFINE result == ParseSelectList(ts, p)
           columns == ParseColumns(ts, p)
           trees == Derived(ts)
           all == [all |-> TRUE, columns |-> << >>]
           some(c) == [all |-> FALSE, columns |-> c]
<1>0. Len(ts) \in Nat /\ p \in Nat
    BY DEF IsScan
<1>1. /\ columns.ok => /\ columns.behind \in p + 1 .. Len(ts)
                       /\ columns.tree \in trees[<<"names", p, columns.behind - 1>>]
      /\ \A j \in 0 .. Len(ts) - 1 : \A list \in trees[<<"names", p, j>>] :
            Kind(ts, j + 1) # "Comma" => columns = Parsed(list, j + 1)
    BY ColumnsRead DEF Reads
<1>2. \A list, k : Parsed(list, k).ok /\ Parsed(list, k).tree = list /\ Parsed(list, k).behind = k
    BY DEF Parsed
<1>3. CASE Kind(ts, p) = "Star"
    <2>1. result = Parsed(all, p + 1)
        BY <1>3 DEF ParseSelectList
    <2>2. p + 1 \in p + 1 .. Len(ts) /\ p + 1 - 1 = p
        BY <1>0, <1>3 DEF IsScan
    <2>4. \A j \in 0 .. Len(ts) - 1 :
              Selections(ts, trees, p, j) = IF j = p THEN {all} ELSE {}
        <3>1. \A q \in 0 .. Len(ts) - 1 : trees[<<"names", p, q>>] = {}
            BY <1>3, NoNames
        <3> HIDE DEF trees
        <3>2. QED BY <1>3, <3>1 DEF Selections, IsOne
    <2> HIDE DEF result, trees, columns, all
    <2>5. result.tree = all /\ result.behind = p + 1
        BY <1>2, <2>1
    <2>6. p \in 0 .. Len(ts) - 1
        BY <1>0, <2>2
    <2>7. result.tree \in Selections(ts, trees, p, result.behind - 1)
        BY <2>2, <2>4, <2>5, <2>6
    <2>8. ASSUME NEW j \in 0 .. Len(ts) - 1, NEW tree \in Selections(ts, trees, p, j)
          PROVE  result = Parsed(tree, j + 1)
        BY <2>1, <2>4
    <2>9. QED BY <2>2, <2>5, <2>7, <2>8 DEF result, trees
<1>4. CASE Kind(ts, p) # "Star"
    <2>1. result = IF columns.ok THEN Parsed(some(columns.tree), columns.behind) ELSE columns
        BY <1>4 DEF ParseSelectList, Then
    <2>2. \A j : Selections(ts, trees, p, j) = {some(list) : list \in trees[<<"names", p, j>>]}
        BY <1>4 DEF Selections, IsOne
    <2> HIDE DEF result, trees, columns
    <2>3. ASSUME result.ok
          PROVE  /\ result.behind \in p + 1 .. Len(ts)
                 /\ result.tree \in Selections(ts, trees, p, result.behind - 1)
        BY <1>1, <1>2, <2>1, <2>2, <2>3
    <2>4. ASSUME NEW j \in 0 .. Len(ts) - 1, NEW tree \in Selections(ts, trees, p, j),
                 Kind(ts, j + 1) # "Comma"
          PROVE  result = Parsed(tree, j + 1)
        <3>1. PICK list \in trees[<<"names", p, j>>] : tree = some(list)
            BY <2>2
        <3>2. columns = Parsed(list, j + 1)
            BY <1>1, <2>4
        <3>3. QED BY <1>2, <2>1, <3>1, <3>2
    <2>5. QED BY <2>3, <2>4 DEF result, trees
<1>5. QED BY <1>3, <1>4

(* The ends of statements.                                                 *)
Ends(ts, j) == j = Len(ts) - 1 \/ (j = Len(ts) - 2 /\ Kind(ts, j + 1) = "Semicolon")

LEMMA FinishReads ==
    ASSUME NEW ts, IsScan(ts), NEW p \in 1 .. Len(ts), NEW statement
    PROVE  LET result == FinishStatement(ts, p, statement)
           IN  /\ result.ok <=> Ends(ts, p - 1)
               /\ result.ok => result.tree = statement
<1> DEFINE q == IF Kind(ts, p) = "Semicolon" THEN p + 1 ELSE p
           result == FinishStatement(ts, p, statement)
<1>1. result = IF Kind(ts, q) = "EndOfFile" THEN Parsed(statement, q) ELSE Error(q)
    BY DEF FinishStatement
<1>2. /\ Parsed(statement, q).ok /\ Parsed(statement, q).tree = statement
      /\ ~Error(q).ok
    BY DEF Parsed, Error
<1>3. Kind(ts, q) = "EndOfFile" <=> Ends(ts, p - 1)
    <2>1. Len(ts) \in Nat /\ p - 1 + 1 = p
        BY DEF IsScan
    <2>2. CASE Kind(ts, p) = "Semicolon"
        <3>1. p # Len(ts) /\ p + 1 \in 1 .. Len(ts)
            BY <2>1, <2>2 DEF IsScan
        <3>2. Kind(ts, p + 1) = "EndOfFile" <=> p + 1 = Len(ts)
            BY <3>1 DEF IsScan
        <3>3. QED BY <2>1, <2>2, <3>1, <3>2 DEF Ends
    <2>3. CASE Kind(ts, p) # "Semicolon"
        <3>1. Kind(ts, p) = "EndOfFile" <=> p = Len(ts)
            BY DEF IsScan
        <3>2. QED BY <2>1, <2>3, <3>1 DEF Ends
    <2>4. QED BY <2>2, <2>3
<1> HIDE DEF result, q
<1>4. QED BY <1>1, <1>2, <1>3 DEF result

LEMMA EndsWith ==
    ASSUME NEW ts, IsScan(ts), NEW j \in 0 .. Len(ts) - 1, Ends(ts, j)
    PROVE  Kind(ts, j + 1) \in {"EndOfFile", "Semicolon"} /\ j + 1 \in 1 .. Len(ts)
BY DEF Ends, IsScan

(* SELECT.                                                                 *)
LEMMA WhereReads ==
    ASSUME NEW ts, IsScan(ts), NEW p \in 1 .. Len(ts), NEW q, q = p + 1
    PROVE  /\ Kind(ts, p) = "Where" =>
                 /\ q \in 1 .. Len(ts)
                 /\ Reads(ts, q, ParseWhere(ts, p), "disjunction", AfterDisjunction)
           /\ Kind(ts, p) # "Where" => ParseWhere(ts, p) = Parsed(NoWhere, p)
<1>1. CASE Kind(ts, p) = "Where"
    <2>1. q \in 1 .. Len(ts)
        BY <1>1 DEF IsScan
    <2>2. ParseWhere(ts, p) = ParseExpression(ts, q)
        BY <1>1 DEF ParseWhere
    <2>3. QED BY <1>1, <2>1, <2>2, ExpressionsRead
<1>2. CASE Kind(ts, p) # "Where"
    BY <1>2 DEF ParseWhere
<1>3. QED BY <1>1, <1>2

IsSelect(ts, trees, j, f, w, list, ref, where, tree) ==
    /\ f \in 2 .. j - 1 /\ Kind(ts, f) = "From"
    /\ w = j + 1 \/ (w \in f + 1 .. j - 1 /\ Kind(ts, w) = "Where")
    /\ list \in Selections(ts, trees, 2, f - 1)
    /\ ref \in References(ts, f + 1, w - 1)
    /\ where \in Clauses(trees, w, j)
    /\ tree = SelectStatement(ref.schema, ref.table, list.all, list.columns, where)
LEMMA SelectMembers ==
    ASSUME NEW ts, NEW trees, NEW j, NEW tree
    PROVE  tree \in Selects(ts, trees, j) <=>
               \E f, w, list, ref, where : IsSelect(ts, trees, j, f, w, list, ref, where, tree)
<1>1. \A f : f \in Splits(ts, 1, j, {"From"}) <=> f \in 2 .. j - 1 /\ Kind(ts, f) = "From"
    BY DEF Splits
<1>2. \A f, w : w \in Splits(ts, f, j, {"Where"}) \cup {j + 1} <=>
          w = j + 1 \/ (w \in f + 1 .. j - 1 /\ Kind(ts, w) = "Where")
    BY DEF Splits
<1>3. tree \in Selects(ts, trees, j) <=>
          \E f \in Splits(ts, 1, j, {"From"}) :
              \E w \in Splits(ts, f, j, {"Where"}) \cup {j + 1} :
                  \E list \in Selections(ts, trees, 2, f - 1), ref \in References(ts, f + 1, w - 1),
                     where \in Clauses(trees, w, j) :
                      tree = SelectStatement(ref.schema, ref.table, list.all, list.columns, where)
    BY DEF Selects
<1>4. QED BY <1>1, <1>2, <1>3 DEF IsSelect

LEMMA SelectIsDerived ==
    ASSUME NEW ts, IsScan(ts), Kind(ts, 1) = "Select", ParseSelect(ts, 2).ok
    PROVE  \E j \in 1 .. Len(ts) - 1 :
               Ends(ts, j) /\ ParseSelect(ts, 2).tree \in Selects(ts, Derived(ts), j)
<1> DEFINE list == ParseSelectList(ts, 2)
           f == list.behind
           from == Expect(ts, f, "From")
           r == from.behind
           ref == ParseTableReference(ts, r)
           w == ref.behind
           where == ParseWhere(ts, w)
           t == where.behind
           statement == SelectStatement(ref.tree.schema, ref.tree.table,
                            list.tree.all, list.tree.columns, where.tree)
           finish == FinishStatement(ts, t, statement)
           result == ParseSelect(ts, 2)
           trees == Derived(ts)
           n == Len(ts)
<1>1. result = IF list.ok
               THEN IF from.ok
                    THEN IF ref.ok THEN IF where.ok THEN finish ELSE where ELSE ref
                    ELSE from
               ELSE list
    BY DEF ParseSelect, Then
<1>2. list.ok /\ from.ok /\ ref.ok /\ where.ok /\ finish.ok /\ result = finish
    <2>1. result.ok
        OBVIOUS
    <2> HIDE DEF list, from, ref, where, finish, result
    <2>2. QED BY <1>1, <2>1
<1>3. n \in Nat /\ 2 \in 1 .. n
    BY DEF IsScan
<1>4. f \in 2 + 1 .. n /\ list.tree \in Selections(ts, trees, 2, f - 1)
    BY <1>2, <1>3, SelectListReads
<1>5. f \in 1 .. n
    BY <1>4
<1> HIDE DEF list, f, trees
<1>6. Kind(ts, f) = "From" /\ r = f + 1 /\ r \in 1 .. n
    <2>1. "From" # "EndOfFile"
        OBVIOUS
    <2>2. QED BY <1>2, <1>5, <2>1, ExpectGoes
<1> HIDE DEF from, r
<1>7. w \in r + 1 .. n /\ ref.tree \in References(ts, r, w - 1)
    BY <1>2, <1>6, ReferenceReads
<1>8. w \in 1 .. n
    BY <1>6, <1>7
<1> HIDE DEF ref, w
<1> PICK u : u = w + 1
    OBVIOUS
<1> PICK j : j = t - 1
    OBVIOUS
<1>9. /\ t \in 1 .. n /\ f \in 2 .. j - 1
      /\ w = j + 1 \/ (w \in f + 1 .. j - 1 /\ Kind(ts, w) = "Where")
      /\ where.tree \in Clauses(trees, w, j)
    <2>1. CASE Kind(ts, w) = "Where"
        <3>1. u \in 1 .. n /\ Reads(ts, u, where, "disjunction", AfterDisjunction)
            BY <1>8, <2>1, WhereReads
        <3>2. t \in u + 1 .. n /\ where.tree \in trees[<<"disjunction", u, t - 1>>]
            BY <1>2, <3>1 DEF Reads, trees
        <3> HIDE DEF where, t
        <3>3. w \in f + 1 .. j - 1 /\ f \in 2 .. j - 1 /\ t \in 1 .. n
            BY <1>3, <1>4, <1>6, <1>7, <1>8, <3>1, <3>2
        <3>4. where.tree \in Clauses(trees, w, j)
            BY <3>2, <3>3 DEF Clauses
        <3>5. QED BY <2>1, <3>3, <3>4
    <2>2. CASE Kind(ts, w) # "Where"
        <3>1. where = Parsed(NoWhere, w)
            BY <1>8, <2>2, WhereReads
        <3>2. where.tree = NoWhere /\ t = w
            BY <3>1 DEF Parsed
        <3> HIDE DEF where, t
        <3>3. w = j + 1 /\ t \in 1 .. n /\ f \in 2 .. j - 1
            BY <1>3, <1>4, <1>6, <1>7, <1>8, <3>2
        <3>4. where.tree \in Clauses(trees, w, j)
            BY <1>8, <3>2, <3>3 DEF Clauses
        <3>5. QED BY <3>3, <3>4
    <2>3. QED BY <2>1, <2>2
<1>10. Ends(ts, j) /\ finish.tree = statement
    BY <1>2, <1>9, FinishReads
<1>11. j \in 1 .. n - 1
    BY <1>3, <1>9
<1>12. IsSelect(ts, trees, j, f, w, list.tree, ref.tree, where.tree, statement)
    BY <1>4, <1>6, <1>7, <1>9 DEF IsSelect
<1>13. statement \in Selects(ts, trees, j)
    <2> HIDE DEF statement, where
    <2>1. QED BY <1>12, SelectMembers
<1> HIDE DEF statement, finish, where, t, n
<1>14. QED BY <1>2, <1>10, <1>11, <1>13 DEF result, trees, n

LEMMA SelectIsRead ==
    ASSUME NEW ts, IsScan(ts), Kind(ts, 1) = "Select", NEW j \in 0 .. Len(ts) - 1, Ends(ts, j),
           NEW tree \in Selects(ts, Derived(ts), j)
    PROVE  ParseSelect(ts, 2).ok /\ ParseSelect(ts, 2).tree = tree
<1> DEFINE trees == Derived(ts)
           n == Len(ts)
<1>1. PICK f, w, list, ref, where : IsSelect(ts, trees, j, f, w, list, ref, where, tree)
    BY SelectMembers
<1> HIDE DEF trees
<1>2. /\ f \in 2 .. j - 1 /\ Kind(ts, f) = "From"
      /\ w = j + 1 \/ (w \in f + 1 .. j - 1 /\ Kind(ts, w) = "Where")
      /\ list \in Selections(ts, trees, 2, f - 1)
      /\ ref \in References(ts, f + 1, w - 1)
      /\ where \in Clauses(trees, w, j)
      /\ tree = SelectStatement(ref.schema, ref.table, list.all, list.columns, where)
    BY <1>1 DEF IsSelect
<1>3. n \in Nat /\ 2 \in 1 .. n /\ f \in 1 .. n /\ f - 1 \in 0 .. n - 1 /\ f - 1 + 1 = f
    BY <1>2 DEF IsScan
<1>4. Kind(ts, j + 1) \in {"EndOfFile", "Semicolon"} /\ j + 1 \in 1 .. n
    BY EndsWith
<1> PICK r : r = f + 1
    OBVIOUS
<1>5. r \in 1 .. n /\ w \in 1 .. n /\ w - 1 \in 0 .. n - 1 /\ w - 1 + 1 = w
    BY <1>2, <1>3, <1>4
<1>6. Kind(ts, w) # "Dot"
    BY <1>2, <1>4
<1>7. ParseSelectList(ts, 2) = Parsed(list, f)
    <2> PICK g : g = f - 1
        OBVIOUS
    <2>1. g \in 0 .. n - 1 /\ g + 1 = f /\ list \in Selections(ts, trees, 2, g)
        BY <1>2, <1>3
    <2>2. Kind(ts, g + 1) # "Comma"
        BY <1>2, <2>1
    <2>3. ParseSelectList(ts, 2) = Parsed(list, g + 1)
        BY <1>3, <2>1, <2>2, SelectListReads DEF trees
    <2>4. QED BY <2>1, <2>3
<1>8. Expect(ts, f, "From").ok /\ Expect(ts, f, "From").behind = r
    BY <1>2 DEF Expect, Parsed
<1>9. ParseTableReference(ts, r) = Parsed(ref, w)
    <2> PICK g : g = w - 1
        OBVIOUS
    <2>1. g \in 0 .. n - 1 /\ g + 1 = w /\ ref \in References(ts, r, g)
        BY <1>2, <1>5
    <2>2. Kind(ts, g + 1) # "Dot"
        BY <1>6, <2>1
    <2>3. ParseTableReference(ts, r) = Parsed(ref, g + 1)
        BY <1>5, <2>1, <2>2, ReferenceReads
    <2>4. QED BY <2>1, <2>3
<1>10. ParseWhere(ts, w) = Parsed(where, j + 1)
    <2>1. CASE w = j + 1
        <3>1. where = NoWhere
            BY <1>2, <2>1 DEF Clauses
        <3>2. Kind(ts, w) # "Where"
            BY <1>4, <2>1
        <3>3. QED BY <1>5, <2>1, <3>1, <3>2, WhereReads
    <2>2. CASE w \in f + 1 .. j - 1 /\ Kind(ts, w) = "Where"
        <3> PICK u : u = w + 1
            OBVIOUS
        <3>1. Reads(ts, u, ParseWhere(ts, w), "disjunction", AfterDisjunction)
            BY <1>5, <2>2, WhereReads
        <3>2. where \in trees[<<"disjunction", u, j>>]
            BY <1>2, <2>2 DEF Clauses
        <3>3. Kind(ts, j + 1) \notin AfterDisjunction
            BY <1>4 DEF AfterDisjunction, ComparisonOperators, OrderingOperators
        <3>4. QED BY <3>1, <3>2, <3>3 DEF Reads, trees
    <2>3. QED BY <1>2, <2>1, <2>2
<1>11. ParseSelect(ts, 2) = FinishStatement(ts, j + 1, tree)
    <2>1. \A x, k : Parsed(x, k).ok /\ Parsed(x, k).tree = x /\ Parsed(x, k).behind = k
        BY DEF Parsed
    <2>2. QED BY <1>2, <1>7, <1>8, <1>9, <1>10, <2>1 DEF ParseSelect, Then
<1>12. j + 1 - 1 = j
    OBVIOUS
<1>13. QED BY <1>4, <1>11, <1>12, FinishReads

(* CREATE TABLE.                                                           *)
IsCreateTable(ts, trees, j, p, ref, columns, tree) ==
    /\ p \in 4 .. j - 1 /\ Kind(ts, p) = "LParen"
    /\ ref \in References(ts, 3, p - 1)
    /\ columns \in ListsInParens(ts, trees, "definitions", p, j)
    /\ tree = CreateTableStatement(ref.schema, ref.table, columns)
LEMMA CreateTableMembers ==
    ASSUME NEW ts, NEW trees, NEW j, NEW tree
    PROVE  tree \in CreateTables(ts, trees, j) <=>
               \E p, ref, columns : IsCreateTable(ts, trees, j, p, ref, columns, tree)
<1>1. \A p : p \in Splits(ts, 3, j, {"LParen"}) <=> p \in 4 .. j - 1 /\ Kind(ts, p) = "LParen"
    BY DEF Splits
<1>2. tree \in CreateTables(ts, trees, j) <=>
          \E p \in Splits(ts, 3, j, {"LParen"}) :
              \E ref \in References(ts, 3, p - 1),
                 columns \in ListsInParens(ts, trees, "definitions", p, j) :
                  tree = CreateTableStatement(ref.schema, ref.table, columns)
    BY DEF CreateTables
<1>3. QED BY <1>1, <1>2 DEF IsCreateTable

LEMMA CreateTableIsDerived ==
    ASSUME NEW ts, IsScan(ts), 3 \in 1 .. Len(ts), ParseCreateTable(ts, 3).ok
    PROVE  \E j \in 2 .. Len(ts) - 1 :
               Ends(ts, j) /\ ParseCreateTable(ts, 3).tree \in CreateTables(ts, Derived(ts), j)
<1> DEFINE ref == ParseTableReference(ts, 3)
           q == ref.behind
           columns == ParseDefinitions(ts, q)
           t == columns.behind
           statement == CreateTableStatement(ref.tree.schema, ref.tree.table, columns.tree)
           finish == FinishStatement(ts, t, statement)
           result == ParseCreateTable(ts, 3)
           trees == Derived(ts)
           n == Len(ts)
<1>1. result = IF ref.ok THEN IF columns.ok THEN finish ELSE columns ELSE ref
    BY DEF ParseCreateTable, Then
<1>2. ref.ok /\ columns.ok /\ finish.ok /\ result = finish
    <2>1. result.ok
        OBVIOUS
    <2> HIDE DEF ref, columns, finish, result
    <2>2. QED BY <1>1, <2>1
<1>3. n \in Nat /\ 3 \in 1 .. n
    BY DEF IsScan
<1>4. q \in 3 + 1 .. n /\ ref.tree \in References(ts, 3, q - 1)
    BY <1>2, <1>3, ReferenceReads
<1>5. q \in 1 .. n
    BY <1>4
<1> HIDE DEF ref, q, trees
<1> PICK j : j = t - 1
    OBVIOUS
<1>6. t \in q + 1 .. n /\ columns.tree \in ListsInParens(ts, trees, "definitions", q, j)
    BY <1>2, <1>5, DefinitionsRead DEF ReadsList, trees
<1> HIDE DEF columns, t
<1>7. q < j /\ Kind(ts, q) = "LParen"
    BY <1>6 DEF ListsInParens, InParens
<1>8. t \in 1 .. n /\ q \in 4 .. j - 1 /\ j \in 2 .. n - 1
    BY <1>3, <1>4, <1>5, <1>6, <1>7
<1>9. Ends(ts, j) /\ finish.tree = statement
    BY <1>2, <1>8, FinishReads
<1>10. IsCreateTable(ts, trees, j, q, ref.tree, columns.tree, statement)
    BY <1>4, <1>6, <1>7, <1>8 DEF IsCreateTable
<1>11. statement \in CreateTables(ts, trees, j)
    <2> HIDE DEF statement
    <2>1. QED BY <1>10, CreateTableMembers
<1> HIDE DEF statement, finish, n
<1>12. QED BY <1>2, <1>8, <1>9, <1>11 DEF result, trees, n

LEMMA CreateTableIsRead ==
    ASSUME NEW ts, IsScan(ts), NEW j \in 0 .. Len(ts) - 1, Ends(ts, j),
           NEW tree \in CreateTables(ts, Derived(ts), j)
    PROVE  ParseCreateTable(ts, 3).ok /\ ParseCreateTable(ts, 3).tree = tree
<1> DEFINE trees == Derived(ts)
           n == Len(ts)
<1>1. PICK p, ref, columns : IsCreateTable(ts, trees, j, p, ref, columns, tree)
    BY CreateTableMembers
<1> HIDE DEF trees
<1>2. /\ p \in 4 .. j - 1 /\ Kind(ts, p) = "LParen"
      /\ ref \in References(ts, 3, p - 1)
      /\ columns \in ListsInParens(ts, trees, "definitions", p, j)
      /\ tree = CreateTableStatement(ref.schema, ref.table, columns)
    BY <1>1 DEF IsCreateTable
<1>3. /\ n \in Nat /\ 3 \in 1 .. n /\ p \in 1 .. n
      /\ j + 1 \in 1 .. n /\ j + 1 - 1 = j
    BY <1>2 DEF IsScan
<1>4. ParseTableReference(ts, 3) = Parsed(ref, p)
    <2> PICK g : g = p - 1
        OBVIOUS
    <2>1. g \in 0 .. n - 1 /\ g + 1 = p /\ ref \in References(ts, 3, g)
        BY <1>2, <1>3
    <2>2. Kind(ts, g + 1) # "Dot"
        BY <1>2, <2>1
    <2>3. ParseTableReference(ts, 3) = Parsed(ref, g + 1)
        BY <1>3, <2>1, <2>2, ReferenceReads
    <2>4. QED BY <2>1, <2>3
<1>5. ParseDefinitions(ts, p) = Parsed(columns, j + 1)
    BY <1>2, <1>3, DefinitionsRead DEF ReadsList, trees
<1>6. ParseCreateTable(ts, 3) = FinishStatement(ts, j + 1, tree)
    <2>1. \A x, k : Parsed(x, k).ok /\ Parsed(x, k).tree = x /\ Parsed(x, k).behind = k
        BY DEF Parsed
    <2>2. QED BY <1>2, <1>4, <1>5, <2>1 DEF ParseCreateTable, Then
<1>7. QED BY <1>3, <1>6, FinishReads

LEMMA CreateSchemaIsDerived ==
    ASSUME NEW ts, IsScan(ts), 3 \in 1 .. Len(ts), ParseCreateSchema(ts, 3).ok
    PROVE  \E j \in 2 .. Len(ts) - 1 :
               /\ Ends(ts, j)
               /\ ParseCreateSchema(ts, 3).tree \in {CreateSchemaStatement(name) : name \in Names(ts, 3, j)}
<1> DEFINE name == Expect(ts, 3, "Identifier")
           finish == FinishStatement(ts, name.behind, CreateSchemaStatement(name.tree))
           result == ParseCreateSchema(ts, 3)
<1>1. result = IF name.ok THEN finish ELSE name
    BY DEF ParseCreateSchema, Then
<1>2. name.ok /\ finish.ok /\ result = finish
    <2>1. result.ok
        OBVIOUS
    <2> HIDE DEF name, finish, result
    <2>2. QED BY <1>1, <2>1
<1>3. "Identifier" # "EndOfFile" /\ Len(ts) \in Nat
    BY DEF IsScan
<1>4. /\ Kind(ts, 3) = "Identifier" /\ name.tree = ts[3].lexeme
      /\ name.behind = 3 + 1 /\ 3 + 1 \in 1 .. Len(ts)
    BY <1>2, <1>3, ExpectGoes
<1> HIDE DEF name
<1> PICK t : t = 3 + 1
    OBVIOUS
<1>5. Ends(ts, t - 1) /\ finish.tree = CreateSchemaStatement(name.tree)
    BY <1>2, <1>4, FinishReads
<1>6. t - 1 = 3 /\ 3 \in 2 .. Len(ts) - 1
    BY <1>3, <1>4
<1>7. name.tree \in Names(ts, 3, 3)
    BY <1>4 DEF Names, IsOne
<1> HIDE DEF finish, result
<1>8. QED BY <1>2, <1>5, <1>6, <1>7 DEF result

LEMMA CreateSchemaIsRead ==
    ASSUME NEW ts, IsScan(ts), NEW j \in 0 .. Len(ts) - 1, Ends(ts, j),
           NEW tree \in {CreateSchemaStatement(name) : name \in Names(ts, 3, j)}
    PROVE  ParseCreateSchema(ts, 3).ok /\ ParseCreateSchema(ts, 3).tree = tree
<1>1. PICK name \in Names(ts, 3, j) : tree = CreateSchemaStatement(name)
    OBVIOUS
<1>2. j = 3 /\ Kind(ts, 3) = "Identifier" /\ name = ts[3].lexeme
    BY DEF Names, IsOne
<1>3. 3 + 1 \in 1 .. Len(ts) /\ 3 + 1 - 1 = j
    BY <1>2 DEF IsScan
<1>4. ParseCreateSchema(ts, 3) = FinishStatement(ts, 3 + 1, tree)
    BY <1>1, <1>2 DEF ParseCreateSchema, Expect, Then, Parsed
<1> PICK t : t = 3 + 1
    OBVIOUS
<1>5. QED BY <1>3, <1>4, FinishReads

LEMMA CreateDatabaseIsDerived ==
    ASSUME NEW ts, IsScan(ts), 3 \in 1 .. Len(ts), ParseCreateDatabase(ts, 3).ok
    PROVE  \E j \in 2 .. Len(ts) - 1 :
               /\ Ends(ts, j)
               /\ ParseCreateDatabase(ts, 3).tree \in {CreateDatabaseStatement(name) : name \in Names(ts, 3, j)}
<1> DEFINE name == Expect(ts, 3, "Identifier")
           finish == FinishStatement(ts, name.behind, CreateDatabaseStatement(name.tree))
           result == ParseCreateDatabase(ts, 3)
<1>1. result = IF name.ok THEN finish ELSE name
    BY DEF ParseCreateDatabase, Then
<1>2. name.ok /\ finish.ok /\ result = finish
    <2>1. result.ok
        OBVIOUS
    <2> HIDE DEF name, finish, result
    <2>2. QED BY <1>1, <2>1
<1>3. "Identifier" # "EndOfFile" /\ Len(ts) \in Nat
    BY DEF IsScan
<1>4. /\ Kind(ts, 3) = "Identifier" /\ name.tree = ts[3].lexeme
      /\ name.behind = 3 + 1 /\ 3 + 1 \in 1 .. Len(ts)
    BY <1>2, <1>3, ExpectGoes
<1> HIDE DEF name
<1> PICK t : t = 3 + 1
    OBVIOUS
<1>5. Ends(ts, t - 1) /\ finish.tree = CreateDatabaseStatement(name.tree)
    BY <1>2, <1>4, FinishReads
<1>6. t - 1 = 3 /\ 3 \in 2 .. Len(ts) - 1
    BY <1>3, <1>4
<1>7. name.tree \in Names(ts, 3, 3)
    BY <1>4 DEF Names, IsOne
<1> HIDE DEF finish, result
<1>8. QED BY <1>2, <1>5, <1>6, <1>7 DEF result

LEMMA CreateDatabaseIsRead ==
    ASSUME NEW ts, IsScan(ts), NEW j \in 0 .. Len(ts) - 1, Ends(ts, j),
           NEW tree \in {CreateDatabaseStatement(name) : name \in Names(ts, 3, j)}
    PROVE  ParseCreateDatabase(ts, 3).ok /\ ParseCreateDatabase(ts, 3).tree = tree
<1>1. PICK name \in Names(ts, 3, j) : tree = CreateDatabaseStatement(name)
    OBVIOUS
<1>2. j = 3 /\ Kind(ts, 3) = "Identifier" /\ name = ts[3].lexeme
    BY DEF Names, IsOne
<1>3. 3 + 1 \in 1 .. Len(ts) /\ 3 + 1 - 1 = j
    BY <1>2 DEF IsScan
<1>4. ParseCreateDatabase(ts, 3) = FinishStatement(ts, 3 + 1, tree)
    BY <1>1, <1>2 DEF ParseCreateDatabase, Expect, Then, Parsed
<1> PICK t : t = 3 + 1
    OBVIOUS
<1>5. QED BY <1>3, <1>4, FinishReads

(* INSERT.                                                                 *)
IsInsert(ts, trees, j, v, ref, values, tree) ==
    /\ v \in 4 .. j - 1 /\ Kind(ts, v) = "Values"
    /\ ref \in References(ts, 3, v - 1)
    /\ values \in ListsInParens(ts, trees, "values", v + 1, j)
    /\ tree = InsertStatement(ref.schema, ref.table, values)
LEMMA InsertMembers ==
    ASSUME NEW ts, NEW trees, NEW j, NEW tree
    PROVE  tree \in Inserts(ts, trees, j) <=>
               \E v, ref, values : IsInsert(ts, trees, j, v, ref, values, tree)
<1>1. \A v : v \in Splits(ts, 3, j, {"Values"}) <=> v \in 4 .. j - 1 /\ Kind(ts, v) = "Values"
    BY DEF Splits
<1>2. tree \in Inserts(ts, trees, j) <=>
          \E v \in Splits(ts, 3, j, {"Values"}) :
              \E ref \in References(ts, 3, v - 1),
                 values \in ListsInParens(ts, trees, "values", v + 1, j) :
                  tree = InsertStatement(ref.schema, ref.table, values)
    BY DEF Inserts
<1>3. QED BY <1>1, <1>2 DEF IsInsert

LEMMA InsertIsDerived ==
    ASSUME NEW ts, IsScan(ts), 2 \in 1 .. Len(ts), ParseInsert(ts, 2).ok
    PROVE  /\ Kind(ts, 2) = "Into"
           /\ \E j \in 2 .. Len(ts) - 1 :
                  Ends(ts, j) /\ ParseInsert(ts, 2).tree \in Inserts(ts, Derived(ts), j)
<1> DEFINE into == Expect(ts, 2, "Into")
           r == into.behind
           ref == ParseTableReference(ts, r)
           v == ref.behind
           values == Expect(ts, v, "Values")
           q == values.behind
           items == ParseValues(ts, q)
           t == items.behind
           statement == InsertStatement(ref.tree.schema, ref.tree.table, items.tree)
           finish == FinishStatement(ts, t, statement)
           result == ParseInsert(ts, 2)
           trees == Derived(ts)
           n == Len(ts)
<1>1. result = IF into.ok
               THEN IF ref.ok
                    THEN IF values.ok THEN IF items.ok THEN finish ELSE items ELSE values
                    ELSE ref
               ELSE into
    BY DEF ParseInsert, Then
<1>2. into.ok /\ ref.ok /\ values.ok /\ items.ok /\ finish.ok /\ result = finish
    <2>1. result.ok
        OBVIOUS
    <2> HIDE DEF into, ref, values, items, finish, result
    <2>2. QED BY <1>1, <2>1
<1>3. n \in Nat /\ 2 \in 1 .. n /\ "Into" # "EndOfFile" /\ "Values" # "EndOfFile"
    BY DEF IsScan
<1>4. Kind(ts, 2) = "Into" /\ r = 2 + 1 /\ 2 + 1 \in 1 .. n
    BY <1>2, <1>3, ExpectGoes
<1> HIDE DEF into, r, trees
<1>5. r = 3 /\ 3 \in 1 .. n
    BY <1>4
<1>6. v \in 3 + 1 .. n /\ ref.tree \in References(ts, 3, v - 1)
    BY <1>2, <1>5, ReferenceReads
<1>7. v \in 1 .. n
    BY <1>6
<1> HIDE DEF ref, v
<1>8. Kind(ts, v) = "Values" /\ q = v + 1 /\ q \in 1 .. n
    BY <1>2, <1>3, <1>7, ExpectGoes
<1> HIDE DEF values, q
<1> PICK j : j = t - 1
    OBVIOUS
<1>9. t \in q + 1 .. n /\ items.tree \in ListsInParens(ts, trees, "values", q, j)
    BY <1>2, <1>8, ValuesRead DEF ReadsList, trees
<1> HIDE DEF items, t
<1>10. t \in 1 .. n /\ v \in 4 .. j - 1 /\ j \in 2 .. n - 1
    <2>1. q < j
        BY <1>9 DEF ListsInParens, InParens
    <2>2. QED BY <1>3, <1>6, <1>7, <1>8, <1>9, <2>1
<1>11. Ends(ts, j) /\ finish.tree = statement
    BY <1>2, <1>10, FinishReads
<1>12. IsInsert(ts, trees, j, v, ref.tree, items.tree, statement)
    BY <1>6, <1>8, <1>9, <1>10 DEF IsInsert
<1>13. statement \in Inserts(ts, trees, j)
    <2> HIDE DEF statement
    <2>1. QED BY <1>12, InsertMembers
<1> HIDE DEF statement, finish, n
<1>14. QED BY <1>2, <1>4, <1>10, <1>11, <1>13 DEF result, trees, n

LEMMA InsertIsRead ==
    ASSUME NEW ts, IsScan(ts), Kind(ts, 2) = "Into", NEW j \in 0 .. Len(ts) - 1, Ends(ts, j),
           NEW tree \in Inserts(ts, Derived(ts), j)
    PROVE  ParseInsert(ts, 2).ok /\ ParseInsert(ts, 2).tree = tree
<1> DEFINE trees == Derived(ts)
           n == Len(ts)
<1>1. PICK v, ref, values : IsInsert(ts, trees, j, v, ref, values, tree)
    BY InsertMembers
<1> HIDE DEF trees
<1> PICK q : q = v + 1
    OBVIOUS
<1>2. /\ v \in 4 .. j - 1 /\ Kind(ts, v) = "Values"
      /\ ref \in References(ts, 3, v - 1)
      /\ values \in ListsInParens(ts, trees, "values", q, j)
      /\ tree = InsertStatement(ref.schema, ref.table, values)
    BY <1>1 DEF IsInsert
<1>3. /\ n \in Nat /\ 3 \in 1 .. n /\ v \in 1 .. n /\ q \in 1 .. n
      /\ j + 1 \in 1 .. n /\ j + 1 - 1 = j
    BY <1>2 DEF IsScan
<1>4. ParseTableReference(ts, 3) = Parsed(ref, v)
    <2> PICK g : g = v - 1
        OBVIOUS
    <2>1. g \in 0 .. n - 1 /\ g + 1 = v /\ ref \in References(ts, 3, g)
        BY <1>2, <1>3
    <2>2. Kind(ts, g + 1) # "Dot"
        BY <1>2, <2>1
    <2>3. ParseTableReference(ts, 3) = Parsed(ref, g + 1)
        BY <1>3, <2>1, <2>2, ReferenceReads
    <2>4. QED BY <2>1, <2>3
<1>5. ParseValues(ts, q) = Parsed(values, j + 1)
    BY <1>2, <1>3, ValuesRead DEF ReadsList, trees
<1>6. /\ Expect(ts, 2, "Into").ok /\ Expect(ts, 2, "Into").behind = 3
      /\ Expect(ts, v, "Values").ok /\ Expect(ts, v, "Values").behind = q
    BY <1>2 DEF Expect, Parsed
<1>7. ParseInsert(ts, 2) = FinishStatement(ts, j + 1, tree)
    <2>1. \A x, k : Parsed(x, k).ok /\ Parsed(x, k).tree = x /\ Parsed(x, k).behind = k
        BY DEF Parsed
    <2>2. QED BY <1>2, <1>4, <1>5, <1>6, <2>1 DEF ParseInsert, Then
<1>8. QED BY <1>3, <1>7, FinishReads

LEMMA StartsWithOne ==
    ASSUME NEW ts, NEW j, NEW one
    PROVE  StartsWith(ts, j, <<one>>) <=> 1 <= j /\ Kind(ts, 1) = one
<1>1. Len(<<one>>) = 1 /\ <<one>>[1] = one
    OBVIOUS
<1>2. QED BY <1>1 DEF StartsWith

LEMMA StartsWithTwo ==
    ASSUME NEW ts, NEW j, NEW one, NEW two
    PROVE  StartsWith(ts, j, <<one, two>>) <=> 2 <= j /\ Kind(ts, 1) = one /\ Kind(ts, 2) = two
<1>1. Len(<<one, two>>) = 2 /\ <<one, two>>[1] = one /\ <<one, two>>[2] = two
    OBVIOUS
<1>2. QED BY <1>1 DEF StartsWith

(* The bodies of statements, by their first tokens.                        *)
LEMMA BodiesAre ==
    ASSUME NEW ts, NEW trees, NEW j
    PROVE  LET one == Kind(ts, 1)
               two == Kind(ts, 2)
               bodies == Bodies(ts, trees, j)
           IN  /\ one = "Select" => bodies = IF 1 <= j THEN Selects(ts, trees, j) ELSE {}
               /\ one = "Create" /\ two = "Table" =>
                     bodies = IF 2 <= j THEN CreateTables(ts, trees, j) ELSE {}
               /\ one = "Create" /\ two = "Schema" =>
                     bodies = IF 2 <= j THEN {CreateSchemaStatement(name) : name \in Names(ts, 3, j)}
                              ELSE {}
               /\ one = "Create" /\ two = "Database" =>
                     bodies = IF 2 <= j THEN {CreateDatabaseStatement(name) : name \in Names(ts, 3, j)}
                              ELSE {}
               /\ one = "Insert" /\ two = "Into" =>
                     bodies = IF 2 <= j THEN Inserts(ts, trees, j) ELSE {}
               /\ one = "Create" /\ two \notin {"Table", "Schema", "Database"} => bodies = {}
               /\ one = "Insert" /\ two # "Into" => bodies = {}
               /\ one \notin {"Select", "Create", "Insert"} => bodies = {}
<1> DEFINE one == Kind(ts, 1)
           two == Kind(ts, 2)
           schemas == {CreateSchemaStatement(name) : name \in Names(ts, 3, j)}
           databases == {CreateDatabaseStatement(name) : name \in Names(ts, 3, j)}
           selects == Selects(ts, trees, j)
           tables == CreateTables(ts, trees, j)
           inserts == Inserts(ts, trees, j)
           S == StartsWith(ts, j, <<"Select">>)
           T == StartsWith(ts, j, <<"Create", "Table">>)
           C == StartsWith(ts, j, <<"Create", "Schema">>)
           D == StartsWith(ts, j, <<"Create", "Database">>)
           I == StartsWith(ts, j, <<"Insert", "Into">>)
           bodies == Bodies(ts, trees, j)
<1>1. S <=> 1 <= j /\ one = "Select"
    BY StartsWithOne
<1>2. /\ T <=> 2 <= j /\ one = "Create" /\ two = "Table"
      /\ C <=> 2 <= j /\ one = "Create" /\ two = "Schema"
      /\ D <=> 2 <= j /\ one = "Create" /\ two = "Database"
      /\ I <=> 2 <= j /\ one = "Insert" /\ two = "Into"
    BY StartsWithTwo
<1>3. bodies = CASE S -> selects
                 [] T -> tables
                 [] C -> schemas
                 [] D -> databases
                 [] I -> inserts
                 [] OTHER -> {}
    BY DEF Bodies
<1> HIDE DEF S, T, C, D, I, selects, tables, inserts, schemas, databases, bodies
<1>4. /\ S => bodies = selects
      /\ T => bodies = tables
      /\ C => bodies = schemas
      /\ D => bodies = databases
      /\ I => bodies = inserts
      /\ ~S /\ ~T /\ ~C /\ ~D /\ ~I => bodies = {}
    BY <1>1, <1>2, <1>3
<1>5. QED BY <1>1, <1>2, <1>4 DEF selects, tables, inserts, schemas, databases, bodies

LEMMA TreesAre ==
    ASSUME NEW ts, IsScan(ts), NEW tree
    PROVE  tree \in Trees(ts) <=>
               \E j \in 0 .. Len(ts) - 1 : Ends(ts, j) /\ tree \in Bodies(ts, Derived(ts), j)
<1> DEFINE n == Len(ts)
           bodies(j) == Bodies(ts, Derived(ts), j)
<1>1. n \in Nat \ {0}
    BY DEF IsScan
<1>2. Trees(ts) = bodies(n - 1) \cup
                  IF n > 1 /\ Kind(ts, n - 1) = "Semicolon" THEN bodies(n - 2) ELSE {}
    BY DEF Trees
<1> HIDE DEF bodies
<1>3. n - 1 \in 0 .. n - 1 /\ (n > 1 => n - 2 \in 0 .. n - 1) /\ n - 2 + 1 = n - 1
    BY <1>1
<1>4. \A j \in 0 .. n - 1 : Ends(ts, j) <=>
          j = n - 1 \/ (j = n - 2 /\ n > 1 /\ Kind(ts, n - 1) = "Semicolon")
    BY <1>1 DEF Ends
<1>5. QED BY <1>2, <1>3, <1>4 DEF bodies

-----------------------------------------------------------------------------
(* Statements: a result agrees with the grammar if it is the tree of all   *)
(* that the grammar derives from the tokens before an end.                 *)
Agrees(ts, result) ==
    /\ result.ok => \E j \in 0 .. Len(ts) - 1 :
                        Ends(ts, j) /\ result.tree \in Bodies(ts, Derived(ts), j)
    /\ \A j \in 0 .. Len(ts) - 1 : Ends(ts, j) =>
          \A tree \in Bodies(ts, Derived(ts), j) : result.ok /\ result.tree = tree

LEMMA NothingAgrees ==
    ASSUME NEW ts, NEW result, ~result.ok, \A j : Bodies(ts, Derived(ts), j) = {}
    PROVE  Agrees(ts, result)
BY DEF Agrees

LEMMA SelectAgrees ==
    ASSUME NEW ts, IsScan(ts), Kind(ts, 1) = "Select"
    PROVE  Agrees(ts, ParseSelect(ts, 2))
<1> DEFINE trees == Derived(ts)
<1>1. \A j : Bodies(ts, trees, j) = IF 1 <= j THEN Selects(ts, trees, j) ELSE {}
    BY BodiesAre
<1>2. \A j \in 1 .. Len(ts) - 1 : j \in 0 .. Len(ts) - 1 /\ 1 <= j
    OBVIOUS
<1>3. ASSUME ParseSelect(ts, 2).ok
      PROVE  \E j \in 0 .. Len(ts) - 1 :
                 Ends(ts, j) /\ ParseSelect(ts, 2).tree \in Bodies(ts, trees, j)
    <2>1. PICK j \in 1 .. Len(ts) - 1 :
              Ends(ts, j) /\ ParseSelect(ts, 2).tree \in Selects(ts, trees, j)
        BY <1>3, SelectIsDerived
    <2> HIDE DEF trees
    <2>2. QED BY <1>1, <1>2, <2>1
<1>4. ASSUME NEW j \in 0 .. Len(ts) - 1, Ends(ts, j), NEW tree \in Bodies(ts, trees, j)
      PROVE  ParseSelect(ts, 2).ok /\ ParseSelect(ts, 2).tree = tree
    <2>1. tree \in Selects(ts, trees, j)
        BY <1>1
    <2>2. QED BY <1>4, <2>1, SelectIsRead
<1>5. QED BY <1>3, <1>4 DEF Agrees

LEMMA CreateTableAgrees ==
    ASSUME NEW ts, IsScan(ts), Kind(ts, 1) = "Create", Kind(ts, 2) = "Table"
    PROVE  Agrees(ts, ParseCreateTable(ts, 3))
<1> DEFINE trees == Derived(ts)
           result == ParseCreateTable(ts, 3)
           bodies(j) == CreateTables(ts, trees, j)
<1>1. \A j : Bodies(ts, trees, j) = IF 2 <= j THEN bodies(j) ELSE {}
    BY BodiesAre
<1>2. \A j \in 2 .. Len(ts) - 1 : j \in 0 .. Len(ts) - 1 /\ 2 <= j
    OBVIOUS
<1>3. 2 \in 1 .. Len(ts) /\ 3 \in 1 .. Len(ts)
    BY DEF IsScan
<1>4. ASSUME result.ok
      PROVE  \E j \in 0 .. Len(ts) - 1 : Ends(ts, j) /\ result.tree \in Bodies(ts, trees, j)
    <2>1. PICK j \in 2 .. Len(ts) - 1 : Ends(ts, j) /\ result.tree \in bodies(j)
        BY <1>3, <1>4, CreateTableIsDerived
    <2> HIDE DEF trees, bodies, result
    <2>2. QED BY <1>1, <1>2, <2>1
<1>5. ASSUME NEW j \in 0 .. Len(ts) - 1, Ends(ts, j), NEW tree \in Bodies(ts, trees, j)
      PROVE  result.ok /\ result.tree = tree
    <2>1. tree \in bodies(j)
        <3> HIDE DEF bodies
        <3>1. QED BY <1>1
    <2>2. QED BY <1>5, <2>1, CreateTableIsRead
<1>6. QED BY <1>4, <1>5 DEF Agrees

LEMMA CreateSchemaAgrees ==
    ASSUME NEW ts, IsScan(ts), Kind(ts, 1) = "Create", Kind(ts, 2) = "Schema"
    PROVE  Agrees(ts, ParseCreateSchema(ts, 3))
<1> DEFINE trees == Derived(ts)
           result == ParseCreateSchema(ts, 3)
           bodies(j) == {CreateSchemaStatement(name) : name \in Names(ts, 3, j)}
<1>1. \A j : Bodies(ts, trees, j) = IF 2 <= j THEN bodies(j) ELSE {}
    BY BodiesAre
<1>2. \A j \in 2 .. Len(ts) - 1 : j \in 0 .. Len(ts) - 1 /\ 2 <= j
    OBVIOUS
<1>3. 2 \in 1 .. Len(ts) /\ 3 \in 1 .. Len(ts)
    BY DEF IsScan
<1>4. ASSUME result.ok
      PROVE  \E j \in 0 .. Len(ts) - 1 : Ends(ts, j) /\ result.tree \in Bodies(ts, trees, j)
    <2>1. PICK j \in 2 .. Len(ts) - 1 : Ends(ts, j) /\ result.tree \in bodies(j)
        BY <1>3, <1>4, CreateSchemaIsDerived
    <2> HIDE DEF trees, bodies, result
    <2>2. QED BY <1>1, <1>2, <2>1
<1>5. ASSUME NEW j \in 0 .. Len(ts) - 1, Ends(ts, j), NEW tree \in Bodies(ts, trees, j)
      PROVE  result.ok /\ result.tree = tree
    <2>1. tree \in bodies(j)
        <3> HIDE DEF bodies
        <3>1. QED BY <1>1
    <2>2. QED BY <1>5, <2>1, CreateSchemaIsRead
<1>6. QED BY <1>4, <1>5 DEF Agrees

LEMMA CreateDatabaseAgrees ==
    ASSUME NEW ts, IsScan(ts), Kind(ts, 1) = "Create", Kind(ts, 2) = "Database"
    PROVE  Agrees(ts, ParseCreateDatabase(ts, 3))
<1> DEFINE trees == Derived(ts)
           result == ParseCreateDatabase(ts, 3)
           bodies(j) == {CreateDatabaseStatement(name) : name \in Names(ts, 3, j)}
<1>1. \A j : Bodies(ts, trees, j) = IF 2 <= j THEN bodies(j) ELSE {}
    BY BodiesAre
<1>2. \A j \in 2 .. Len(ts) - 1 : j \in 0 .. Len(ts) - 1 /\ 2 <= j
    OBVIOUS
<1>3. 2 \in 1 .. Len(ts) /\ 3 \in 1 .. Len(ts)
    BY DEF IsScan
<1>4. ASSUME result.ok
      PROVE  \E j \in 0 .. Len(ts) - 1 : Ends(ts, j) /\ result.tree \in Bodies(ts, trees, j)
    <2>1. PICK j \in 2 .. Len(ts) - 1 : Ends(ts, j) /\ result.tree \in bodies(j)
        BY <1>3, <1>4, CreateDatabaseIsDerived
    <2> HIDE DEF trees, bodies, result
    <2>2. QED BY <1>1, <1>2, <2>1
<1>5. ASSUME NEW j \in 0 .. Len(ts) - 1, Ends(ts, j), NEW tree \in Bodies(ts, trees, j)
      PROVE  result.ok /\ result.tree = tree
    <2>1. tree \in bodies(j)
        <3> HIDE DEF bodies
        <3>1. QED BY <1>1
    <2>2. QED BY <1>5, <2>1, CreateDatabaseIsRead
<1>6. QED BY <1>4, <1>5 DEF Agrees

LEMMA InsertAgrees ==
    ASSUME NEW ts, IsScan(ts), Kind(ts, 1) = "Insert", Kind(ts, 2) = "Into"
    PROVE  Agrees(ts, ParseInsert(ts, 2))
<1> DEFINE trees == Derived(ts)
           result == ParseInsert(ts, 2)
           bodies(j) == Inserts(ts, trees, j)
<1>1. \A j : Bodies(ts, trees, j) = IF 2 <= j THEN bodies(j) ELSE {}
    BY BodiesAre
<1>2. \A j \in 2 .. Len(ts) - 1 : j \in 0 .. Len(ts) - 1 /\ 2 <= j
    OBVIOUS
<1>3. 2 \in 1 .. Len(ts) /\ 3 \in 1 .. Len(ts)
    BY DEF IsScan
<1>4. ASSUME result.ok
      PROVE  \E j \in 0 .. Len(ts) - 1 : Ends(ts, j) /\ result.tree \in Bodies(ts, trees, j)
    <2>1. PICK j \in 2 .. Len(ts) - 1 : Ends(ts, j) /\ result.tree \in bodies(j)
        BY <1>3, <1>4, InsertIsDerived
    <2> HIDE DEF trees, bodies, result
    <2>2. QED BY <1>1, <1>2, <2>1
<1>5. ASSUME NEW j \in 0 .. Len(ts) - 1, Ends(ts, j), NEW tree \in Bodies(ts, trees, j)
      PROVE  result.ok /\ result.tree = tree
    <2>1. tree \in bodies(j)
        <3> HIDE DEF bodies
        <3>1. QED BY <1>1
    <2>2. QED BY <1>5, <2>1, InsertIsRead
<1>6. QED BY <1>4, <1>5 DEF Agrees

LEMMA StatementAgrees ==
    ASSUME NEW ts, IsScan(ts)
    PROVE  Agrees(ts, ParseStatement(ts))
<1> DEFINE one == Kind(ts, 1)
           two == Kind(ts, 2)
           result == ParseStatement(ts)
<1>1. \A p : ~Error(p).ok
    BY DEF Error
<1>2. CASE one = "Select"
    <2>1. result = ParseSelect(ts, 2)
        BY <1>2 DEF ParseStatement
    <2> HIDE DEF result
    <2>2. QED BY <1>2, <2>1, SelectAgrees DEF result
<1>3. CASE one = "Create"
    <2>1. result = ParseCreate(ts, 2) /\ 2 + 1 = 3
        BY <1>3 DEF ParseStatement
    <2>2. CASE two = "Table"
        <3>1. result = ParseCreateTable(ts, 3)
            BY <2>1, <2>2 DEF ParseCreate
        <3> HIDE DEF result
        <3>2. QED BY <1>3, <2>2, <3>1, CreateTableAgrees DEF result
    <2>3. CASE two = "Schema"
        <3>1. result = ParseCreateSchema(ts, 3)
            BY <2>1, <2>3 DEF ParseCreate
        <3> HIDE DEF result
        <3>2. QED BY <1>3, <2>3, <3>1, CreateSchemaAgrees DEF result
    <2>4. CASE two = "Database"
        <3>1. result = ParseCreateDatabase(ts, 3)
            BY <2>1, <2>4 DEF ParseCreate
        <3> HIDE DEF result
        <3>2. QED BY <1>3, <2>4, <3>1, CreateDatabaseAgrees DEF result
    <2>5. CASE two \notin {"Table", "Schema", "Database"}
        <3>1. result = Error(2)
            BY <2>1, <2>5 DEF ParseCreate
        <3>2. \A j : Bodies(ts, Derived(ts), j) = {}
            BY <1>3, <2>5, BodiesAre
        <3> HIDE DEF result
        <3>3. ~result.ok
            BY <1>1, <3>1
        <3>4. QED BY <3>2, <3>3, NothingAgrees DEF result
    <2>6. QED BY <2>2, <2>3, <2>4, <2>5
<1>4. CASE one = "Insert"
    <2>1. result = ParseInsert(ts, 2)
        BY <1>4 DEF ParseStatement
    <2> HIDE DEF result
    <2>2. CASE two = "Into"
        BY <1>4, <2>1, <2>2, InsertAgrees DEF result
    <2>3. CASE two # "Into"
        <3>1. 2 \in 1 .. Len(ts)
            BY <1>4 DEF IsScan
        <3>2. ~result.ok
            BY <2>1, <2>3, <3>1, InsertIsDerived
        <3>3. \A j : Bodies(ts, Derived(ts), j) = {}
            BY <1>4, <2>3, BodiesAre
        <3>4. QED BY <3>2, <3>3, NothingAgrees DEF result
    <2>4. QED BY <2>2, <2>3
<1>5. CASE one \notin {"Select", "Create", "Insert"}
    <2>1. result = Error(1)
        BY <1>5 DEF ParseStatement
    <2>2. \A j : Bodies(ts, Derived(ts), j) = {}
        BY <1>5, BodiesAre
    <2> HIDE DEF result
    <2>3. ~result.ok
        BY <1>1, <2>1
    <2>4. QED BY <2>2, <2>3, NothingAgrees DEF result
<1>6. QED BY <1>2, <1>3, <1>4, <1>5

(* Of whatever the scanner can deliver, the parser makes the one tree that *)
(* the grammar has for it, and fails where the grammar has none            *)
(* (parser.cpp:65-519).                                                    *)
THEOREM ParserReadsGrammar ==
    ASSUME NEW ts, IsScan(ts)
    PROVE  Trees(ts) = IF ParseStatement(ts).ok THEN {ParseStatement(ts).tree} ELSE {}
<1> DEFINE result == ParseStatement(ts)
<1>1. Agrees(ts, result)
    BY StatementAgrees
<1> HIDE DEF result
<1>2. \A tree : tree \in Trees(ts) <=>
          \E j \in 0 .. Len(ts) - 1 : Ends(ts, j) /\ tree \in Bodies(ts, Derived(ts), j)
    BY TreesAre
<1>3. \A tree : tree \in Trees(ts) <=> result.ok /\ tree = result.tree
    BY <1>1, <1>2 DEF Agrees
<1>4. CASE result.ok
    BY <1>3, <1>4 DEF result
<1>5. CASE ~result.ok
    BY <1>3, <1>5 DEF result
<1>6. QED BY <1>4, <1>5

-----------------------------------------------------------------------------
(***************************************************************************)
(* A text on its way through both.                                         *)
(***************************************************************************)

OutcomeIsParse == outcome # Pending => IsScanned /\ outcome = Outcome(tokens)
FrontendInv == ScanInv /\ TokensUsable /\ OutcomeIsParse

(* The scanner's invariant, tokens that the parser can use, and an outcome *)
(* that is that of all tokens, in every state.                             *)
THEOREM FrontendInvariant == FrontendSpec => []FrontendInv
<1>1. FrontendInit => FrontendInv
    <2> SUFFICES ASSUME FrontendInit PROVE FrontendInv
        OBVIOUS
    <2>1. ScanInit /\ outcome = Pending
        BY DEF FrontendInit
    <2>2. ScanInv
        BY <2>1, InitiallyInv
    <2>3. tokens = << >> /\ Len(<< >>) = 0
        BY <2>1 DEF ScanInit
    <2>4. TokensUsable
        BY <2>3 DEF TokensUsable
    <2>5. QED BY <2>1, <2>2, <2>4 DEF FrontendInv, OutcomeIsParse
<1>2. FrontendInv /\ [FrontendNext]_frontendVars => FrontendInv'
    <2> SUFFICES ASSUME FrontendInv, [FrontendNext]_frontendVars
                 PROVE  FrontendInv'
        OBVIOUS
    <2>1. CASE Scan /\ UNCHANGED outcome
        <3>1. outcome = Pending
            BY <2>1 DEF FrontendInv, OutcomeIsParse, Scan
        <3>2. ScanInv' /\ TokensUsable'
            BY <2>1, ScanPreservesInv, ScanKeepsUsable DEF FrontendInv
        <3>3. QED BY <2>1, <3>1, <3>2 DEF FrontendInv, OutcomeIsParse
    <2>2. CASE ParseTokens
        <3>1. UNCHANGED scanVars /\ IsScanned /\ outcome' = Outcome(tokens)
            BY <2>2 DEF ParseTokens
        <3>2. ScanInv'
            BY <3>1, SteppingPreservesInv DEF FrontendInv
        <3>3. UNCHANGED tokens /\ IsScanned'
            BY <3>1 DEF scanVars, IsScanned
        <3>4. QED BY <3>1, <3>2, <3>3 DEF FrontendInv, TokensUsable, OutcomeIsParse
    <2>3. CASE UNCHANGED frontendVars
        <3>1. UNCHANGED scanVars /\ UNCHANGED outcome
            BY <2>3 DEF frontendVars
        <3>2. ScanInv'
            BY <3>1, SteppingPreservesInv DEF FrontendInv
        <3>3. UNCHANGED tokens /\ (IsScanned' <=> IsScanned)
            BY <3>1 DEF scanVars, IsScanned
        <3>4. QED BY <3>1, <3>2, <3>3 DEF FrontendInv, TokensUsable, OutcomeIsParse
    <2>4. QED BY <2>1, <2>2, <2>3 DEF FrontendNext
<1>3. QED BY <1>1, <1>2, PTL DEF FrontendSpec

(* The parser accepts the sentences of the grammar and nothing else, and   *)
(* what it makes of one is the only tree that the grammar has for it       *)
(* (parser.cpp:65-519).                                                    *)
THEOREM ParserMatchesGrammar == FrontendSpec => []ParsesToGrammar
<1>1. FrontendInv => ParsesToGrammar
    <2> SUFFICES ASSUME FrontendInv, outcome # Pending
                 PROVE  Trees(tokens) = IF outcome.status = "Ok" THEN {outcome.tree} ELSE {}
        BY DEF ParsesToGrammar
    <2> DEFINE result == ParseStatement(tokens)
    <2>1. IsScanned /\ outcome = Outcome(tokens)
        BY DEF FrontendInv, OutcomeIsParse
    <2>2. Trees(tokens) = IF result.ok THEN {result.tree} ELSE {}
        BY <2>1, ScannedIsScan, ParserReadsGrammar DEF FrontendInv
    <2>3. /\ result.ok => outcome.status = "Ok" /\ outcome.tree = result.tree
          /\ ~result.ok => outcome.status = "Error"
        <3>1. CASE result.ok
            <4>1. outcome = [status |-> "Ok", tree |-> result.tree]
                BY <2>1, <3>1 DEF Outcome
            <4> HIDE DEF result
            <4>2. QED BY <3>1, <4>1
        <3>2. CASE ~result.ok
            BY <2>1, <3>2 DEF Outcome
        <3>3. QED BY <3>1, <3>2
    <2> HIDE DEF result
    <2>4. QED BY <2>2, <2>3
<1>2. QED BY <1>1, FrontendInvariant, PTL

(* The parser waits for the scanner and does not disturb it: what is       *)
(* proved of every scan holds of the scans that are parsed.                *)
THEOREM FrontendScans == FrontendSpec => ScanSpec
<1>1. FrontendInit => ScanInit
    BY DEF FrontendInit
<1>2. [FrontendNext]_frontendVars => [Scan]_scanVars
    BY DEF FrontendNext, ParseTokens, frontendVars
<1>3. QED BY <1>1, <1>2, PTL DEF FrontendSpec, ScanSpec

-----------------------------------------------------------------------------
(***************************************************************************)
(* Errors.  Three things are proved of every call, from the deepest to the *)
(* longest.  A call that fails does so at a token that it has seen (Stays, *)
(* Late).  It does the same on any other tokens that are alike up to there *)
(* (Same).  And if the tokens break off where it fails, they can be        *)
(* completed: by the rest of one of the shortest statements, or by an      *)
(* operand and the parentheses that are still open (Tracks, ClosingMends,  *)
(* and the lemmas that end in Mends).                                      *)
(*                                                                         *)
(* Where a call fails, and on what tokens it ends.                         *)
(***************************************************************************)
Lasts == {"Identifier", "IntegerLiteral", "StringLiteral", "RParen", "Int", "Text"}

(* A call that succeeds ends with one of these; one that fails does so at  *)
(* a token that it was given, with no fewer parentheses open.              *)
Stays(ts, p, result) ==
    /\ result.ok => Kind(ts, result.behind - 1) \in Lasts
    /\ ~result.ok => result.at \in p .. Len(ts) /\ Depth(ts, result.at) >= Depth(ts, p)
NestedStay(ts, nested, p) == \A q \in p + 1 .. Len(ts) : Stays(ts, q, nested[q])
ItemsStay(ts, items, p) == \A q \in p .. Len(ts) : Stays(ts, q, items[q])

LEMMA DepthIsNumber ==
    ASSUME NEW ts, NEW p \in Nat \ {0}
    PROVE  Depth(ts, p) \in Int
BY DepthStep

LEMMA ErrorStays ==
    ASSUME NEW ts, NEW p \in 1 .. Len(ts)
    PROVE  Stays(ts, p, Error(p)) /\ ~Error(p).ok /\ Error(p).at = p
<1>1. Depth(ts, p) \in Int
    BY DepthIsNumber
<1>2. ~Error(p).ok /\ Error(p).at = p
    BY DEF Error
<1>3. Depth(ts, p) >= Depth(ts, p)
    <2> DEFINE d == Depth(ts, p)
    <2> HIDE DEF d
    <2>1. d >= d
        BY <1>1 DEF d
    <2>2. QED BY <2>1 DEF d
<1>4. QED BY <1>2, <1>3 DEF Stays

LEMMA StaysFarther ==
    ASSUME NEW ts, IsScan(ts), NEW p \in 1 .. Len(ts), NEW q \in p .. Len(ts),
           Depth(ts, q) >= Depth(ts, p), NEW result, Stays(ts, q, result)
    PROVE  Stays(ts, p, result)
<1>1. CASE result.ok
    BY <1>1 DEF Stays
<1>2. CASE ~result.ok
    <2>1. result.at \in q .. Len(ts) /\ Depth(ts, result.at) >= Depth(ts, q)
        BY <1>2 DEF Stays
    <2>2. result.at \in Nat \ {0} /\ q \in Nat \ {0} /\ p \in Nat \ {0}
          /\ result.at \in p .. Len(ts)
        BY <2>1 DEF IsScan
    <2>3. Depth(ts, result.at) \in Int /\ Depth(ts, q) \in Int /\ Depth(ts, p) \in Int
        BY <2>2, DepthIsNumber
    <2>4. Depth(ts, result.at) >= Depth(ts, p)
        <3> DEFINE a == Depth(ts, result.at)
                   b == Depth(ts, q)
                   c == Depth(ts, p)
        <3>1. a >= b /\ b >= c /\ a \in Int /\ b \in Int /\ c \in Int
            BY <2>1, <2>3
        <3> HIDE DEF a, b, c
        <3>2. a >= c
            BY <3>1
        <3>3. QED BY <3>2 DEF a, c
    <2>5. QED BY <1>2, <2>2, <2>4 DEF Stays
<1>3. QED BY <1>1, <1>2

LEMMA LoopStays ==
    ASSUME NEW ts, IsScan(ts), NEW p \in 1 .. Len(ts), NEW items, ItemsGo(ts, items, p),
           ItemsStay(ts, items, p),
           NEW separator \in Separators, NEW list, IsLoop(list, ts, separator, items, p)
    PROVE  \A q \in p .. Len(ts) : Stays(ts, q, list[q])
<1> DEFINE n == Len(ts)
           good == {q \in p .. n : Stays(ts, q, list[q])}
<1>1. n \in Nat /\ p \in 1 .. n
    BY DEF IsScan
<1>2. ASSUME NEW q \in p .. n, \A r \in q + 1 .. n : r \in good
      PROVE  q \in good
    <2> DEFINE item == items[q]
    <2>1. /\ Goes(ts, q, item) /\ Stays(ts, q, item) /\ q \in 1 .. Len(ts)
          /\ list[q] = ListFrom(ts, separator, item, list)
        BY <1>1 DEF ItemsGo, ItemsStay, IsLoop
    <2> HIDE DEF item
    <2>2. CASE ~item.ok
        <3>1. list[q] = item
            BY <2>1, <2>2, ListFails
        <3>2. QED BY <2>1, <3>1
    <2>3. CASE item.ok /\ Kind(ts, item.behind) # separator
        <3>1. list[q] = Parsed(<<item.tree>>, item.behind)
            BY <2>1, <2>3, ListEnds
        <3>2. list[q].ok /\ list[q].behind = item.behind
            BY <3>1 DEF Parsed
        <3>3. QED BY <2>1, <2>3, <3>2 DEF Stays
    <2>4. CASE item.ok /\ Kind(ts, item.behind) = separator
        <3> DEFINE rest == list[item.behind + 1]
        <3>1. PICK m : m = item.behind + 1
            OBVIOUS
        <3>2. m \in q + 1 .. n /\ Depth(ts, m) = Depth(ts, q)
            BY <2>1, <2>4, <3>1, AfterSeparator
        <3>3. list[q] = IF rest.ok THEN Parsed(<<item.tree>> \o rest.tree, rest.behind) ELSE rest
            BY <2>1, <2>4, ListGoesOn
        <3>4. Stays(ts, m, rest)
            BY <1>2, <3>1, <3>2
        <3>5. m \in q .. n /\ Depth(ts, m) >= Depth(ts, q)
            <4>1. q \in Nat \ {0}
                BY <2>1
            <4>2. Depth(ts, q) \in Int
                BY <4>1, DepthIsNumber
            <4>3. m \in q .. n
                BY <1>1, <3>2, <4>1
            <4> DEFINE d == Depth(ts, q)
            <4> HIDE DEF d
            <4>4. d >= d
                BY <4>2 DEF d
            <4>5. QED BY <3>2, <4>3, <4>4 DEF d
        <3>6. Stays(ts, q, rest)
            BY <2>1, <3>4, <3>5, StaysFarther
        <3>7. CASE ~rest.ok
            <4>1. list[q] = rest
                BY <3>3, <3>7
            <4>2. QED BY <3>6, <4>1
        <3>8. CASE rest.ok
            <4>1. list[q] = Parsed(<<item.tree>> \o rest.tree, rest.behind)
                BY <3>3, <3>8
            <4>2. list[q].ok /\ list[q].behind = rest.behind
                BY <4>1 DEF Parsed
            <4>3. QED BY <3>6, <3>8, <4>2 DEF Stays
        <3>9. QED BY <3>7, <3>8
    <2>5. QED BY <2>2, <2>3, <2>4
<1>3. \A q \in p .. n : q \in good
    <2>1. p \in Int /\ n \in Int
        BY <1>1
    <2> HIDE DEF good, n
    <2>2. QED BY <1>2, <2>1, BackwardInduction, Zenon
<1>4. QED BY <1>3

(* One token behind p, or more.                                            *)
LEMMA DepthOver ==
    ASSUME NEW ts, IsScan(ts), NEW p \in 1 .. Len(ts), NEW q \in p .. Len(ts),
           Depth(ts, q) = Depth(ts, p)
    PROVE  Depth(ts, q) >= Depth(ts, p)
<1>1. p \in Nat \ {0}
    OBVIOUS
<1>2. Depth(ts, p) \in Int
    BY <1>1, DepthIsNumber
<1> DEFINE d == Depth(ts, p)
<1> HIDE DEF d
<1>3. d >= d
    BY <1>2 DEF d
<1>4. QED BY <1>3 DEF d

LEMMA TokenStays ==
    ASSUME NEW ts, NEW p \in 1 .. Len(ts), Kind(ts, p) \in Lasts, NEW tree
    PROVE  Stays(ts, p, Parsed(tree, p + 1))
<1>1. Parsed(tree, p + 1).ok /\ Parsed(tree, p + 1).behind = p + 1 /\ p + 1 - 1 = p
    BY DEF Parsed
<1>2. QED BY <1>1 DEF Stays

LEMMA NameStays ==
    ASSUME NEW ts, NEW p \in 1 .. Len(ts)
    PROVE  Stays(ts, p, Expect(ts, p, "Identifier"))
<1>1. CASE Kind(ts, p) = "Identifier"
    <2>1. Expect(ts, p, "Identifier") = Parsed(ts[p].lexeme, p + 1)
        BY <1>1 DEF Expect
    <2>2. QED BY <1>1, <2>1, TokenStays DEF Lasts
<1>2. CASE Kind(ts, p) # "Identifier"
    <2>1. Expect(ts, p, "Identifier") = Error(p)
        BY <1>2 DEF Expect
    <2>2. QED BY <2>1, ErrorStays
<1>3. QED BY <1>1, <1>2

LEMMA ParenthesizedStays ==
    ASSUME NEW ts, IsScan(ts), NEW p \in 1 .. Len(ts), Kind(ts, p) = "LParen",
           NEW nested, NestedMake(ts, nested, p), NestedStay(ts, nested, p)
    PROVE  Stays(ts, p, ParseParenthesized(ts, nested, p))
<1> DEFINE inner == nested[p + 1]
           paren == Expect(ts, inner.behind, "RParen")
           result == ParseParenthesized(ts, nested, p)
<1>1. p + 1 \in 1 .. Len(ts) /\ Depth(ts, p + 1) = Depth(ts, p) + 1 /\ Depth(ts, p) \in Int
    BY StepsOver
<1>2. p + 1 \in p + 1 .. Len(ts) /\ p + 1 \in p .. Len(ts)
    BY <1>1
<1>3. Makes(ts, p + 1, inner) /\ Stays(ts, p + 1, inner)
    BY <1>2 DEF NestedMake, NestedStay
<1>4. result = IF inner.ok
               THEN IF paren.ok THEN Parsed(inner.tree, paren.behind) ELSE paren
               ELSE inner
    BY DEF ParseParenthesized, Then
<1> HIDE DEF inner, result
<1>5. CASE ~inner.ok
    <2>1. result = inner
        BY <1>4, <1>5
    <2>2. Depth(ts, p + 1) >= Depth(ts, p)
        <3> DEFINE d == Depth(ts, p)
        <3> HIDE DEF d
        <3>1. d + 1 >= d
            BY <1>1 DEF d
        <3>2. QED BY <1>1, <3>1 DEF d
    <2>3. QED BY <1>2, <1>3, <2>1, <2>2, StaysFarther DEF result
<1>6. CASE inner.ok
    <2>1. PICK q : q = inner.behind
        OBVIOUS
    <2>2. q \in p + 1 + 1 .. Len(ts) /\ Depth(ts, q) = Depth(ts, p) + 1
        BY <1>1, <1>3, <1>6, <2>1 DEF Makes, Goes
    <2>3. q \in 1 .. Len(ts) /\ q \in p .. Len(ts)
        BY <1>1, <2>2
    <2>4. CASE Kind(ts, q) # "RParen"
        <3>1. result = Error(q)
            <4>1. paren = Error(q) /\ ~Error(q).ok
                BY <2>1, <2>4 DEF Expect, Error
            <4>2. QED BY <1>4, <1>6, <4>1
        <3>2. Depth(ts, q) >= Depth(ts, p)
            <4> DEFINE d == Depth(ts, p)
            <4> HIDE DEF d
            <4>1. d + 1 >= d
                BY <1>1 DEF d
            <4>2. QED BY <2>2, <4>1 DEF d
        <3>3. QED BY <2>3, <3>1, <3>2, ErrorStays, StaysFarther DEF result
    <2>5. CASE Kind(ts, q) = "RParen"
        <3>1. paren = Parsed(ts[q].lexeme, q + 1)
            BY <2>1, <2>5 DEF Expect
        <3>2. paren.ok /\ paren.behind = q + 1
            BY <3>1 DEF Parsed
        <3>3. result = Parsed(inner.tree, q + 1)
            BY <1>4, <1>6, <3>2
        <3>4. Stays(ts, q, result)
            BY <2>3, <2>5, <3>3, TokenStays DEF Lasts
        <3>5. result.ok
            BY <3>3 DEF Parsed
        <3>6. QED BY <3>4, <3>5 DEF Stays, result
    <2>6. QED BY <2>4, <2>5
<1>7. QED BY <1>5, <1>6

LEMMA PrimaryStays ==
    ASSUME NEW ts, IsScan(ts), NEW p \in 1 .. Len(ts),
           NEW nested, NestedMake(ts, nested, p), NestedStay(ts, nested, p)
    PROVE  Stays(ts, p, ParsePrimary(ts, nested, p))
<1> DEFINE lexeme == ts[p].lexeme
           result == ParsePrimary(ts, nested, p)
<1>1. CASE Kind(ts, p) = "Identifier"
    <2>1. result = Parsed(ColumnExpr(lexeme), p + 1)
        BY <1>1 DEF ParsePrimary, ParseColumnReference, Expect, Then, Parsed
    <2> HIDE DEF result
    <2>2. QED BY <1>1, <2>1, TokenStays DEF result, Lasts
<1>2. CASE Kind(ts, p) = "IntegerLiteral"
    <2>1. result = Error(p) \/ \E tree : result = Parsed(tree, p + 1)
        BY <1>2 DEF ParsePrimary, ParseIntegerLiteral
    <2> HIDE DEF result
    <2>2. QED BY <1>2, <2>1, ErrorStays, TokenStays DEF result, Lasts
<1>3. CASE Kind(ts, p) = "StringLiteral"
    <2>1. result = Parsed(LiteralExpr(Text(DecodeStringLiteral(lexeme))), p + 1)
        BY <1>3 DEF ParsePrimary, ParseStringLiteral
    <2> HIDE DEF result
    <2>2. QED BY <1>3, <2>1, TokenStays DEF result, Lasts
<1>4. CASE Kind(ts, p) = "LParen"
    <2>1. result = ParseParenthesized(ts, nested, p)
        BY <1>4 DEF ParsePrimary
    <2> HIDE DEF result
    <2>2. QED BY <1>4, <2>1, ParenthesizedStays DEF result
<1>5. CASE Kind(ts, p) \notin {"Identifier", "IntegerLiteral", "StringLiteral", "LParen"}
    <2>1. result = Error(p)
        BY <1>5 DEF ParsePrimary
    <2> HIDE DEF result
    <2>2. QED BY <2>1, ErrorStays DEF result
<1>6. QED BY <1>1, <1>2, <1>3, <1>4, <1>5

(* A comparison, by its parts.                                             *)
LEMMA ComparisonParts ==
    ASSUME NEW ts, NEW nested, NEW p
    PROVE  LET left == ParsePrimary(ts, nested, p)
               op == Kind(ts, left.behind)
               right == ParsePrimary(ts, nested, left.behind + 1)
               result == ParseComparison(ts, nested, p)
           IN  /\ ~left.ok => result = left
               /\ left.ok /\ op \notin ComparisonOperators => result = Parsed(left.tree, left.behind)
               /\ left.ok /\ op \in ComparisonOperators /\ ~right.ok => result = right
               /\ left.ok /\ op \in ComparisonOperators /\ right.ok =>
                     result = Parsed(Binary(op, left.tree, right.tree), right.behind)
BY DEF ParseComparison, Then, IsComparisonOperator

(* The right side of a comparison.                                         *)
LEMMA RightSide ==
    ASSUME NEW ts, IsScan(ts), NEW p \in 1 .. Len(ts), NEW left, Goes(ts, p, left), left.ok,
           NEW q, q = left.behind, Kind(ts, q) \in ComparisonOperators,
           NEW m, m = q + 1
    PROVE  /\ q \in p + 1 .. Len(ts) /\ m \in q + 1 .. Len(ts) /\ Depth(ts, m) = Depth(ts, p)
           /\ m \in 1 .. Len(ts) /\ m \in p .. Len(ts) /\ m - 1 = q
           /\ Kind(ts, q) \notin Lasts
           /\ \A nested : NestedMake(ts, nested, p) => NestedMake(ts, nested, m)
           /\ \A nested : NestedStay(ts, nested, p) => NestedStay(ts, nested, m)
<1>1. q \in p + 1 .. Len(ts) /\ Depth(ts, q) = Depth(ts, p)
    BY DEF Goes
<1>2. Kind(ts, q) \notin {"EndOfFile", "LParen", "RParen", "Comma"} /\ Kind(ts, q) \notin Lasts
    BY DEF ComparisonOperators, OrderingOperators, Lasts
<1>3. q \in 1 .. Len(ts) /\ Len(ts) \in Nat /\ p \in Int
    BY <1>1 DEF IsScan
<1>4. m \in 1 .. Len(ts) /\ Depth(ts, m) = Depth(ts, q)
    BY <1>2, <1>3, StepsOver
<1>5. m \in q + 1 .. Len(ts) /\ m \in p .. Len(ts) /\ m + 1 .. Len(ts) \subseteq p + 1 .. Len(ts)
      /\ m - 1 = q
    BY <1>1, <1>3, <1>4
<1>6. QED BY <1>1, <1>2, <1>4, <1>5 DEF NestedMake, NestedStay

LEMMA ComparisonStays ==
    ASSUME NEW ts, IsScan(ts), NEW p \in 1 .. Len(ts),
           NEW nested, NestedMake(ts, nested, p), NestedStay(ts, nested, p)
    PROVE  Stays(ts, p, ParseComparison(ts, nested, p))
<1> DEFINE left == ParsePrimary(ts, nested, p)
           op == Kind(ts, left.behind)
           right == ParsePrimary(ts, nested, left.behind + 1)
           result == ParseComparison(ts, nested, p)
<1>1. Makes(ts, p, left) /\ Stays(ts, p, left)
    BY PrimaryMakes, PrimaryStays
<1>2. /\ ~left.ok => result = left
      /\ left.ok /\ op \notin ComparisonOperators => result = Parsed(left.tree, left.behind)
      /\ left.ok /\ op \in ComparisonOperators /\ ~right.ok => result = right
      /\ left.ok /\ op \in ComparisonOperators /\ right.ok =>
            result = Parsed(Binary(op, left.tree, right.tree), right.behind)
    BY ComparisonParts, Zenon
<1> HIDE DEF left, result
<1>3. CASE ~left.ok
    BY <1>1, <1>2, <1>3 DEF result
<1>4. CASE left.ok /\ op \notin ComparisonOperators
    <2>1. result.ok /\ result.behind = left.behind
        BY <1>2, <1>4 DEF Parsed
    <2>2. QED BY <1>1, <1>4, <2>1 DEF Stays, result
<1>5. CASE left.ok /\ op \in ComparisonOperators
    <2>1. PICK q, m : q = left.behind /\ m = q + 1
        OBVIOUS
    <2>2. /\ m \in p .. Len(ts) /\ m \in 1 .. Len(ts) /\ Depth(ts, m) = Depth(ts, p)
          /\ NestedMake(ts, nested, m) /\ NestedStay(ts, nested, m)
        BY <1>1, <1>5, <2>1, RightSide DEF Makes
    <2>3. Stays(ts, m, right)
        BY <2>1, <2>2, PrimaryStays
    <2>4. Stays(ts, p, right)
        BY <2>2, <2>3, DepthOver, StaysFarther
    <2> HIDE DEF right, op
    <2>5. CASE ~right.ok
        BY <1>2, <1>5, <2>4, <2>5 DEF result
    <2>6. CASE right.ok
        <3>1. result.ok /\ result.behind = right.behind
            BY <1>2, <1>5, <2>6 DEF Parsed
        <3>2. QED BY <2>4, <2>6, <3>1 DEF Stays, result
    <2>7. QED BY <2>5, <2>6
<1>6. QED BY <1>3, <1>4, <1>5

LEMMA OperandsStay ==
    ASSUME NEW ts, NEW p, NEW op, NEW list, Stays(ts, p, list)
    PROVE  Stays(ts, p, IF list.ok THEN Parsed(LeftTree(op, list.tree), list.behind) ELSE list)
<1>1. CASE list.ok
    <2>1. Parsed(LeftTree(op, list.tree), list.behind).ok
          /\ Parsed(LeftTree(op, list.tree), list.behind).behind = list.behind
        BY DEF Parsed
    <2>2. QED BY <1>1, <2>1 DEF Stays
<1>2. CASE ~list.ok
    BY <1>2
<1>3. QED BY <1>1, <1>2

LEMMA AndStays ==
    ASSUME NEW ts, IsScan(ts), NEW p \in 1 .. Len(ts),
           NEW nested, NestedMake(ts, nested, p), NestedStay(ts, nested, p)
    PROVE  Stays(ts, p, ParseAnd(ts, nested, p))
<1> DEFINE items == [q \in p .. Len(ts) |-> ParseComparison(ts, nested, q)]
<1>1. \A q \in p .. Len(ts) : Makes(ts, q, items[q])
    BY AndLoop
<1>2. PICK list : /\ IsLoop(list, ts, "And", items, p)
                  /\ ParseAnd(ts, nested, p)
                       = IF list[p].ok
                         THEN Parsed(LeftTree("And", list[p].tree), list[p].behind)
                         ELSE list[p]
    BY AndLoop
<1>3. ItemsStay(ts, items, p)
    <2> SUFFICES ASSUME NEW q \in p .. Len(ts)
                 PROVE  Stays(ts, q, ParseComparison(ts, nested, q))
        BY DEF ItemsStay
    <2>1. q \in 1 .. Len(ts) /\ q + 1 .. Len(ts) \subseteq p + 1 .. Len(ts)
        BY DEF IsScan
    <2>2. NestedMake(ts, nested, q) /\ NestedStay(ts, nested, q)
        BY <2>1 DEF NestedMake, NestedStay
    <2>3. QED BY <2>1, <2>2, ComparisonStays
<1> HIDE DEF items
<1>4. "And" \in Separators /\ ItemsGo(ts, items, p) /\ p \in p .. Len(ts)
    BY <1>1 DEF Separators, ItemsGo, Makes
<1>5. Stays(ts, p, list[p])
    BY <1>2, <1>3, <1>4, LoopStays
<1>6. QED BY <1>2, <1>5, OperandsStay

LEMMA OrStays ==
    ASSUME NEW ts, IsScan(ts), NEW p \in 1 .. Len(ts),
           NEW nested, NestedMake(ts, nested, p), NestedStay(ts, nested, p)
    PROVE  Stays(ts, p, ParseOr(ts, nested, p))
<1> DEFINE items == [q \in p .. Len(ts) |-> ParseAnd(ts, nested, q)]
<1>1. \A q \in p .. Len(ts) : Makes(ts, q, items[q])
    BY OrLoop
<1>2. PICK list : /\ IsLoop(list, ts, "Or", items, p)
                  /\ ParseOr(ts, nested, p)
                       = IF list[p].ok
                         THEN Parsed(LeftTree("Or", list[p].tree), list[p].behind)
                         ELSE list[p]
    BY OrLoop
<1>3. ItemsStay(ts, items, p)
    <2> SUFFICES ASSUME NEW q \in p .. Len(ts)
                 PROVE  Stays(ts, q, ParseAnd(ts, nested, q))
        BY DEF ItemsStay
    <2>1. q \in 1 .. Len(ts) /\ q + 1 .. Len(ts) \subseteq p + 1 .. Len(ts)
        BY DEF IsScan
    <2>2. NestedMake(ts, nested, q) /\ NestedStay(ts, nested, q)
        BY <2>1 DEF NestedMake, NestedStay
    <2>3. QED BY <2>1, <2>2, AndStays
<1> HIDE DEF items
<1>4. "Or" \in Separators /\ ItemsGo(ts, items, p) /\ p \in p .. Len(ts)
    BY <1>1 DEF Separators, ItemsGo, Makes
<1>5. Stays(ts, p, list[p])
    BY <1>2, <1>3, <1>4, LoopStays
<1>6. QED BY <1>2, <1>5, OperandsStay

LEMMA ExpressionsStay ==
    ASSUME NEW ts, IsScan(ts)
    PROVE  /\ \A p \in 1 .. Len(ts) : Stays(ts, p, ParseExpression(ts, p))
           /\ \A p \in 0 .. Len(ts) : NestedStay(ts, Expressions(ts), p)
<1> DEFINE n == Len(ts)
           expression == Expressions(ts)
           good == {p \in 1 .. n : Stays(ts, p, expression[p])}
<1>1. ASSUME NEW p \in 1 .. n, \A q \in p + 1 .. n : q \in good
      PROVE  p \in good
    <2> DEFINE nested == [q \in p + 1 .. n |-> expression[q]]
    <2>1. expression[p] = ParseOr(ts, nested, p)
        BY ExpressionsStepwise
    <2>2. NestedStay(ts, nested, p)
        BY <1>1 DEF NestedStay
    <2>3. NestedMake(ts, nested, p)
        <3>1. p \in 0 .. n
            OBVIOUS
        <3>2. NestedMake(ts, expression, p)
            BY <3>1, ExpressionsMake
        <3> HIDE DEF expression
        <3>3. QED BY <3>2 DEF NestedMake
    <2> HIDE DEF nested, expression
    <2>4. Stays(ts, p, ParseOr(ts, nested, p))
        BY <2>2, <2>3, OrStays
    <2>5. QED BY <2>1, <2>4
<1> HIDE DEF expression
<1>2. \A p \in 1 .. n : p \in good
    <2>1. 1 \in Int /\ n \in Int
        BY DEF IsScan
    <2> HIDE DEF good, n
    <2>2. QED BY <1>1, <2>1, BackwardInduction, Zenon
<1>3. \A p \in 1 .. n : Stays(ts, p, expression[p])
    BY <1>2
<1>4. \A p \in 0 .. n : p + 1 .. n \subseteq 1 .. n
    OBVIOUS
<1>5. QED BY <1>3, <1>4 DEF ParseExpression, NestedStay, expression

-----------------------------------------------------------------------------
(***************************************************************************)
(* Two texts with the same first m tokens, ts and us.  A call with the     *)
(* result r on ts has the result s on us.                                  *)
(***************************************************************************)
Alike(ts, us, m) ==
    /\ IsScan(ts) /\ IsScan(us)
    /\ m \in 0 .. Len(ts) - 1 /\ m \in 0 .. Len(us) - 1
    /\ \A i \in 1 .. m : us[i] = ts[i]

(* Tokens that the parser looks for behind what could end before them.     *)
Continuing == ComparisonOperators \cup {"And", "Or", "Comma", "Dot", "Where"}

(* The first m tokens say what r is, or they and the next one of us.       *)
Settled(us, m, r) ==
    \/ r.ok /\ r.behind <= m
    \/ r.ok /\ r.behind = m + 1 /\ Kind(us, m + 1) \notin Continuing
    \/ ~r.ok /\ r.at <= m

(* What is settled for ts is the same for us, and what fails for ts at the *)
(* token behind the first m succeeds for us, if there is a place (not 0)   *)
(* where it is to stop.                                                    *)
Tracks(us, m, stop, r, s) ==
    /\ Settled(us, m, r) => s = r
    /\ ~r.ok /\ r.at = m + 1 /\ stop # 0 => s.ok /\ s.behind = stop

(* The places to stop for calls that begin at the tokens 1 .. m + 1: they  *)
(* are the same for all items of a list, and the list ends there.          *)
StopsAgree(ts, us, m, stops) ==
    /\ \A q \in 1 .. m + 1 : stops[q] # 0 => Kind(us, stops[q]) \notin Continuing
    /\ \A q, k \in 1 .. m + 1 :
          stops[q] # 0 /\ Depth(ts, k) = Depth(ts, q) /\ Kind(ts, k - 1) \notin Lasts /\ q < k =>
              stops[k] = stops[q]

LEMMA SettledBefore ==
    ASSUME NEW m \in Nat, NEW us, NEW r, r.ok, r.behind \in Nat, r.behind <= m
    PROVE  Settled(us, m, r)
BY DEF Settled

(* The same token next.                                                    *)
LEMMA SameToken ==
    ASSUME NEW ts, NEW us, NEW m, Alike(ts, us, m), NEW q \in 1 .. m
    PROVE  us[q] = ts[q] /\ Kind(us, q) = Kind(ts, q) /\ q \in 1 .. Len(ts) /\ q \in 1 .. Len(us)
<1>1. us[q] = ts[q]
    BY DEF Alike
<1>2. q \in 1 .. Len(ts) /\ q \in 1 .. Len(us)
    BY DEF Alike, IsScan
<1>3. QED BY <1>1, <1>2 DEF Kind

(* Something else than a kind of Continuing, next on both sides.           *)
LEMMA SameEnd ==
    ASSUME NEW ts, NEW us, NEW m, Alike(ts, us, m), NEW r, r.ok, Settled(us, m, r),
           NEW q \in Nat \ {0}, q = r.behind, NEW kinds, kinds \subseteq Continuing,
           Kind(ts, q) \notin kinds
    PROVE  Kind(us, q) \notin kinds
<1>1. CASE q <= m
    <2>1. m \in Nat /\ q \in 1 .. m
        BY <1>1 DEF Alike
    <2>2. QED BY <2>1, SameToken
<1>2. CASE ~(q <= m)
    BY <1>2 DEF Settled
<1>3. QED BY <1>1, <1>2

LEMMA LoopTracks ==
    ASSUME NEW ts, NEW us, NEW m, Alike(ts, us, m), NEW p \in 1 .. m + 1,
           NEW items, NEW itemsU, ItemsGo(ts, items, p), ItemsStay(ts, items, p),
           NEW separator \in Separators,
           NEW list, IsLoop(list, ts, separator, items, p),
           NEW listU, IsLoop(listU, us, separator, itemsU, p),
           NEW stops, StopsAgree(ts, us, m, stops),
           \A q \in p .. m + 1 : Tracks(us, m, stops[q], items[q], itemsU[q])
    PROVE  \A q \in p .. m + 1 : Tracks(us, m, stops[q], list[q], listU[q])
<1> DEFINE good == {q \in p .. m + 1 : Tracks(us, m, stops[q], list[q], listU[q])}
<1>1. /\ m \in Nat /\ p \in Nat \ {0} /\ IsScan(ts) /\ Len(ts) \in Nat /\ Len(us) \in Nat
      /\ p .. m + 1 \subseteq p .. Len(ts) /\ p .. m + 1 \subseteq p .. Len(us)
      /\ p \in 1 .. Len(ts)
    BY DEF Alike, IsScan
<1>2. \A q \in p .. Len(ts) : Goes(ts, q, list[q]) /\ Stays(ts, q, list[q])
    BY <1>1, LoopGoes, LoopStays
<1>3. separator \in Continuing /\ separator \notin Lasts
    BY DEF Separators, Continuing, Lasts
<1>4. ASSUME NEW q \in p .. m + 1, \A k \in q + 1 .. m + 1 : k \in good
      PROVE  q \in good
    <2> DEFINE item == items[q]
               itemU == itemsU[q]
    <2>1. /\ Goes(ts, q, item) /\ Stays(ts, q, item) /\ Tracks(us, m, stops[q], item, itemU)
          /\ list[q] = ListFrom(ts, separator, item, list)
          /\ listU[q] = ListFrom(us, separator, itemU, listU)
        BY <1>1 DEF ItemsGo, ItemsStay, IsLoop
    <2>2. q \in 1 .. m + 1 /\ q \in 1 .. Len(ts)
        BY <1>1
    <2> HIDE DEF item, itemU, good
    <2>3. CASE ~item.ok
        <3>1. list[q] = item
            BY <2>1, <2>3, ListFails
        <3>2. ASSUME Settled(us, m, item) PROVE listU[q] = item
            <4>1. itemU = item
                BY <2>1, <3>2 DEF Tracks
            <4>2. QED BY <2>1, <2>3, <4>1, ListFails
        <3>3. ASSUME item.at = m + 1, stops[q] # 0
              PROVE  listU[q].ok /\ listU[q].behind = stops[q]
            <4>1. itemU.ok /\ itemU.behind = stops[q]
                BY <2>1, <2>3, <3>3 DEF Tracks
            <4>2. Kind(us, stops[q]) # separator
                BY <1>3, <2>2, <3>3 DEF StopsAgree
            <4>3. listU[q] = Parsed(<<itemU.tree>>, itemU.behind)
                BY <2>1, <4>1, <4>2, ListEnds
            <4>4. QED BY <4>1, <4>3 DEF Parsed
        <3>4. QED BY <3>1, <3>2, <3>3 DEF Tracks, good
    <2>4. CASE item.ok
        <3>1. PICK b : b = item.behind
            OBVIOUS
        <3>2. b \in q + 1 .. Len(ts) /\ b \in Nat \ {0}
            BY <2>1, <2>2, <2>4, <3>1 DEF Goes
        <3>3. CASE Kind(ts, b) # separator
            <4>1. list[q] = Parsed(<<item.tree>>, b)
                BY <2>1, <2>4, <3>1, <3>3, ListEnds
            <4>2. list[q].ok /\ list[q].behind = b
                BY <4>1 DEF Parsed
            <4>3. ASSUME Settled(us, m, list[q]) PROVE listU[q] = list[q]
                <5>1. Settled(us, m, item)
                    BY <2>4, <3>1, <4>2, <4>3 DEF Settled
                <5>2. itemU = item
                    BY <2>1, <5>1 DEF Tracks
                <5>3. Kind(us, b) \notin {separator}
                    <6>1. {separator} \subseteq Continuing /\ Kind(ts, b) \notin {separator}
                        BY <1>3, <3>3
                    <6>2. QED BY <2>4, <3>1, <3>2, <5>1, <6>1, SameEnd
                <5>4. listU[q] = Parsed(<<item.tree>>, b)
                    BY <2>1, <2>4, <3>1, <5>2, <5>3, ListEnds
                <5>5. QED BY <4>1, <5>4
            <4>4. QED BY <4>2, <4>3 DEF Tracks, good
        <3>4. CASE Kind(ts, b) = separator
            <4> DEFINE rest == list[item.behind + 1]
                       restU == listU[item.behind + 1]
            <4>1. PICK k : k = item.behind + 1
                OBVIOUS
            <4>2. k \in q + 1 .. Len(ts) /\ Depth(ts, k) = Depth(ts, q)
                BY <1>1, <2>1, <2>2, <2>4, <3>1, <3>4, <4>1, AfterSeparator
            <4>3. k = b + 1 /\ k - 1 = b /\ k \in p .. Len(ts)
                BY <1>1, <2>2, <3>1, <3>2, <4>1, <4>2
            <4>4. list[q] = IF rest.ok THEN Parsed(<<item.tree>> \o rest.tree, rest.behind) ELSE rest
                BY <2>1, <2>4, <3>1, <3>4, ListGoesOn
            <4>5. Goes(ts, k, rest) /\ Stays(ts, k, rest)
                BY <1>2, <4>1, <4>3
            (* If the separator is among the first m tokens.               *)
            <4>6. ASSUME b <= m
                  PROVE  /\ itemU = item /\ k \in 1 .. m + 1 /\ q < k
                         /\ Tracks(us, m, stops[k], rest, restU)
                         /\ listU[q] = IF restU.ok
                                       THEN Parsed(<<item.tree>> \o restU.tree, restU.behind)
                                       ELSE restU
                <5>1. Settled(us, m, item)
                    BY <1>1, <2>4, <3>1, <3>2, <4>6, SettledBefore
                <5>2. itemU = item
                    BY <2>1, <5>1 DEF Tracks
                <5>3. Kind(us, b) = separator
                    <6>1. b \in 1 .. m
                        BY <1>1, <3>2, <4>6
                    <6>2. QED BY <3>4, <6>1, SameToken
                <5>4. k \in q + 1 .. m + 1 /\ k \in 1 .. m + 1 /\ q < k
                    BY <1>1, <2>2, <4>2, <4>3, <4>6
                <5>5. Tracks(us, m, stops[k], rest, restU)
                    BY <1>4, <4>1, <5>4 DEF good
                <5>6. listU[q] = IF restU.ok
                                 THEN Parsed(<<itemU.tree>> \o restU.tree, restU.behind)
                                 ELSE restU
                    BY <2>1, <2>4, <3>1, <5>2, <5>3, ListGoesOn
                <5>7. QED BY <5>2, <5>4, <5>5, <5>6
            <4> HIDE DEF rest, restU
            <4>7. CASE rest.ok
                <5>1. list[q] = Parsed(<<item.tree>> \o rest.tree, rest.behind)
                    BY <4>4, <4>7
                <5>2. list[q].ok /\ list[q].behind = rest.behind
                    BY <5>1 DEF Parsed
                <5>3. ASSUME Settled(us, m, list[q]) PROVE listU[q] = list[q]
                    <6>1. Settled(us, m, rest)
                        BY <4>7, <5>2, <5>3 DEF Settled
                    <6>2. rest.behind \in k + 1 .. Len(ts)
                        BY <4>5, <4>7 DEF Goes
                    <6>3. rest.behind <= m + 1
                        BY <1>1, <4>7, <6>1, <6>2 DEF Settled
                    <6>4. b <= m
                        BY <1>1, <3>2, <4>3, <6>2, <6>3
                    <6>5. restU = rest
                        BY <4>6, <6>1, <6>4 DEF Tracks
                    <6>6. QED BY <4>6, <4>7, <5>1, <6>4, <6>5
                <5>4. QED BY <5>2, <5>3 DEF Tracks, good
            <4>8. CASE ~rest.ok
                <5>1. list[q] = rest
                    BY <4>4, <4>8
                <5>2. rest.at \in k .. Len(ts)
                    BY <4>5, <4>8 DEF Stays
                <5>3. ASSUME Settled(us, m, rest) PROVE listU[q] = rest
                    <6>1. b <= m
                        BY <1>1, <3>2, <4>3, <4>8, <5>2, <5>3 DEF Settled
                    <6>2. restU = rest
                        BY <4>6, <5>3, <6>1 DEF Tracks
                    <6>3. QED BY <4>6, <4>8, <6>1, <6>2
                <5>4. ASSUME rest.at = m + 1, stops[q] # 0
                      PROVE  listU[q].ok /\ listU[q].behind = stops[q]
                    <6>1. b <= m
                        BY <1>1, <3>2, <4>3, <5>2, <5>4
                    <6>2. stops[k] = stops[q]
                        BY <1>3, <2>2, <3>4, <4>2, <4>3, <4>6, <5>4, <6>1 DEF StopsAgree
                    <6>3. restU.ok /\ restU.behind = stops[q]
                        BY <4>6, <4>8, <5>4, <6>1, <6>2 DEF Tracks
                    <6>4. listU[q] = Parsed(<<item.tree>> \o restU.tree, restU.behind)
                        BY <4>6, <6>1, <6>3
                    <6>5. QED BY <6>3, <6>4 DEF Parsed
                <5>5. QED BY <5>1, <5>3, <5>4 DEF Tracks, good
            <4>9. QED BY <4>7, <4>8
        <3>5. QED BY <3>3, <3>4
    <2>5. QED BY <2>3, <2>4
<1>5. \A q \in p .. m + 1 : q \in good
    <2>1. p \in Int /\ m + 1 \in Int
        BY <1>1
    <2> HIDE DEF good
    <2>2. PICK n : n = m + 1
        OBVIOUS
    <2>3. \A q \in p .. n : (\A k \in q + 1 .. n : k \in good) => q \in good
        BY <1>4, <2>2
    <2>4. \A q \in p .. n : q \in good
        BY <2>1, <2>2, <2>3, BackwardInduction, Zenon
    <2>5. QED BY <2>2, <2>4
<1>6. QED BY <1>5

-----------------------------------------------------------------------------
(***************************************************************************)
(* Expressions.  us ends where it is closed: behind the first m tokens     *)
(* there are the parentheses that are open, and a name before them if an   *)
(* expression has to begin.                                                *)
(***************************************************************************)
FirstClose(ts, m) == IF Kind(ts, m) \in Lasts THEN m + 1 ELSE m + 2
ClosedBehind(ts, us, m) ==
    /\ m # 0 /\ Depth(ts, m + 1) \in Nat
    /\ Len(us) = FirstClose(ts, m) + Depth(ts, m + 1)
    /\ \A k \in FirstClose(ts, m) .. Len(us) - 1 : Kind(us, k) = "RParen"
    /\ Kind(ts, m) \notin Lasts => Kind(us, m + 1) = "Identifier"
CanStop(ts, us, m, q) ==
    /\ ClosedBehind(ts, us, m) /\ Kind(ts, q - 1) \notin Lasts
    /\ Depth(ts, q) \in 0 .. Depth(ts, m + 1)
ExprStops(ts, us, m) ==
    [q \in 1 .. m + 1 |-> IF CanStop(ts, us, m, q) THEN Len(us) - Depth(ts, q) ELSE 0]

LEMMA ExprStopIs ==
    ASSUME NEW ts, NEW us, NEW m \in Nat, NEW q \in 1 .. m + 1
    PROVE  /\ CanStop(ts, us, m, q) => ExprStops(ts, us, m)[q] = Len(us) - Depth(ts, q)
           /\ ExprStops(ts, us, m)[q] # 0 => CanStop(ts, us, m, q)
BY DEF ExprStops

(* Behind the closing parentheses there is another one, or the end.        *)
LEMMA ClosedBy ==
    ASSUME NEW ts, NEW us, NEW m, Alike(ts, us, m), ClosedBehind(ts, us, m),
           NEW d \in 0 .. Depth(ts, m + 1)
    PROVE  /\ Len(us) - d \in FirstClose(ts, m) .. Len(us)
           /\ d # 0 => Kind(us, Len(us) - d) = "RParen"
           /\ d = 0 => Kind(us, Len(us) - d) = "EndOfFile"
           /\ FirstClose(ts, m) \in {m + 1, m + 2} /\ m \in Nat /\ Len(us) \in Nat
<1>1. /\ m \in Nat /\ Len(us) \in Nat /\ IsScan(us) /\ Depth(ts, m + 1) \in Nat
      /\ FirstClose(ts, m) \in {m + 1, m + 2}
      /\ Len(us) = FirstClose(ts, m) + Depth(ts, m + 1)
      /\ \A k \in FirstClose(ts, m) .. Len(us) - 1 : Kind(us, k) = "RParen"
    BY DEF Alike, IsScan, ClosedBehind, FirstClose
<1> DEFINE e == Depth(ts, m + 1)
           a == FirstClose(ts, m)
<1>2. Kind(us, Len(us)) = "EndOfFile"
    BY <1>1 DEF IsScan
<1>3. a \in Nat /\ e \in Nat /\ Len(us) = a + e /\ d \in 0 .. e
    BY <1>1
<1> HIDE DEF a, e
<1>4. Len(us) - d \in a .. Len(us) /\ (d # 0 => Len(us) - d \in a .. Len(us) - 1)
    BY <1>3
<1>5. d = 0 => Len(us) - d = Len(us)
    BY <1>1
<1>6. QED BY <1>1, <1>2, <1>4, <1>5 DEF a, e

LEMMA ExprStopsAgree ==
    ASSUME NEW ts, NEW us, NEW m, Alike(ts, us, m)
    PROVE  StopsAgree(ts, us, m, ExprStops(ts, us, m))
<1>1. m \in Nat
    BY DEF Alike, IsScan
<1>2. ASSUME NEW q \in 1 .. m + 1, ExprStops(ts, us, m)[q] # 0
      PROVE  Kind(us, ExprStops(ts, us, m)[q]) \notin Continuing
    <2>1. CanStop(ts, us, m, q) /\ ExprStops(ts, us, m)[q] = Len(us) - Depth(ts, q)
        BY <1>1, <1>2, ExprStopIs
    <2>2. Kind(us, Len(us) - Depth(ts, q)) \in {"RParen", "EndOfFile"}
        BY <2>1, ClosedBy DEF CanStop
    <2>3. QED BY <2>1, <2>2 DEF Continuing, ComparisonOperators, OrderingOperators
<1>3. ASSUME NEW q \in 1 .. m + 1, NEW k \in 1 .. m + 1, ExprStops(ts, us, m)[q] # 0,
             Depth(ts, k) = Depth(ts, q), Kind(ts, k - 1) \notin Lasts
      PROVE  ExprStops(ts, us, m)[k] = ExprStops(ts, us, m)[q]
    <2>1. CanStop(ts, us, m, q) /\ ExprStops(ts, us, m)[q] = Len(us) - Depth(ts, q)
        BY <1>1, <1>3, ExprStopIs
    <2>2. CanStop(ts, us, m, k)
        BY <1>3, <2>1 DEF CanStop
    <2>3. ExprStops(ts, us, m)[k] = Len(us) - Depth(ts, k)
        BY <1>1, <2>2, ExprStopIs
    <2>4. QED BY <1>3, <2>1, <2>3
<1>4. QED BY <1>2, <1>3 DEF StopsAgree

(* A call that begins at the first token that differs.                     *)
LEMMA FirstDiffers ==
    ASSUME NEW ts, NEW us, NEW m, Alike(ts, us, m), NEW p, p = m + 1,
           NEW r, Goes(ts, p, r), Stays(ts, p, r),
           NEW stop, NEW s, stop # 0 => s.ok /\ s.behind = stop
    PROVE  Tracks(us, m, stop, r, s)
<1>1. m \in Nat
    BY DEF Alike, IsScan
<1>2. ~Settled(us, m, r)
    <2>1. CASE r.ok
        <3>1. r.behind \in p + 1 .. Len(ts)
            BY <2>1 DEF Goes
        <3>2. ~(r.behind <= m) /\ r.behind # m + 1
            BY <1>1, <3>1
        <3>3. QED BY <2>1, <3>2 DEF Settled
    <2>2. CASE ~r.ok
        <3>1. r.at \in p .. Len(ts)
            BY <2>2 DEF Stays
        <3>2. ~(r.at <= m)
            BY <1>1, <3>1
        <3>3. QED BY <2>2, <3>2 DEF Settled
    <2>3. QED BY <2>1, <2>2
<1>3. QED BY <1>2 DEF Tracks

(* A call that looks at one token only.                                    *)
LEMMA OneTokenTracks ==
    ASSUME NEW us, NEW m \in Nat, NEW p \in 1 .. m, NEW r, r = Error(p) \/ r.ok, NEW stop
    PROVE  Tracks(us, m, stop, r, r)
<1>1. r.ok \/ r.at # m + 1
    BY DEF Error
<1>2. QED BY <1>1 DEF Tracks

NestedTrack(ts, us, m, p, nested, nestedU) ==
    \A q \in p + 1 .. m + 1 : Tracks(us, m, ExprStops(ts, us, m)[q], nested[q], nestedU[q])

LEMMA ParenthesizedTracks ==
    ASSUME NEW ts, NEW us, NEW m, Alike(ts, us, m), NEW p \in 1 .. m, Kind(ts, p) = "LParen",
           NEW nested, NestedMake(ts, nested, p), NestedStay(ts, nested, p),
           NEW nestedU, NestedTrack(ts, us, m, p, nested, nestedU)
    PROVE  Tracks(us, m, ExprStops(ts, us, m)[p],
                  ParseParenthesized(ts, nested, p), ParseParenthesized(us, nestedU, p))
<1> DEFINE inner == nested[p + 1]
           innerU == nestedU[p + 1]
           paren == Expect(ts, inner.behind, "RParen")
           parenU == Expect(us, innerU.behind, "RParen")
           r == ParseParenthesized(ts, nested, p)
           s == ParseParenthesized(us, nestedU, p)
           stop == ExprStops(ts, us, m)[p]
<1>1. r = IF inner.ok
          THEN IF paren.ok THEN Parsed(inner.tree, paren.behind) ELSE paren
          ELSE inner
    BY DEF ParseParenthesized, Then
<1>2. s = IF innerU.ok
          THEN IF parenU.ok THEN Parsed(innerU.tree, parenU.behind) ELSE parenU
          ELSE innerU
    BY DEF ParseParenthesized, Then
<1>3. /\ m \in Nat /\ IsScan(ts) /\ IsScan(us) /\ Len(ts) \in Nat /\ Len(us) \in Nat
      /\ p \in 1 .. Len(ts) /\ p \in 1 .. m + 1 /\ m + 1 \in 1 .. Len(us)
    BY DEF Alike, IsScan
<1>4. PICK k : k = p + 1
    OBVIOUS
<1>5. k \in 1 .. Len(ts) /\ Depth(ts, k) = Depth(ts, p) + 1 /\ Depth(ts, p) \in Int /\ k - 1 = p
    BY <1>3, <1>4, StepsOver
<1>6. k \in p + 1 .. Len(ts) /\ k \in p + 1 .. m + 1 /\ k \in 1 .. m + 1
    BY <1>3, <1>4, <1>5
<1>7. /\ Makes(ts, k, inner) /\ Stays(ts, k, inner)
      /\ Tracks(us, m, ExprStops(ts, us, m)[k], inner, innerU)
    BY <1>4, <1>6 DEF NestedMake, NestedStay, NestedTrack
<1> HIDE DEF inner, innerU, r, s, stop
(* The place to stop, and the parenthesis before it.                       *)
<1>8. ASSUME stop # 0
      PROVE  CanStop(ts, us, m, p) /\ stop = Len(us) - Depth(ts, p)
    BY <1>3, <1>8, ExprStopIs DEF stop
<1>9. ASSUME ~inner.ok
      PROVE  Tracks(us, m, stop, r, s)
    <2>1. r = inner
        BY <1>1, <1>9
    <2>2. ASSUME Settled(us, m, inner) PROVE s = inner
        BY <1>2, <1>7, <1>9, <2>2 DEF Tracks
    <2>3. ASSUME inner.at = m + 1, stop # 0
          PROVE  s.ok /\ s.behind = stop
        <3>1. Depth(ts, m + 1) >= Depth(ts, k)
            BY <1>7, <1>9, <2>3 DEF Stays
        <3>2. CanStop(ts, us, m, p) /\ stop = Len(us) - Depth(ts, p)
            BY <1>8, <2>3
        <3>3. Depth(ts, m + 1) \in Nat
            BY <3>2 DEF CanStop, ClosedBehind
        <3> DEFINE d == Depth(ts, p)
                   e == Depth(ts, m + 1)
        <3>4. d \in 0 .. e /\ e >= d + 1 /\ e \in Nat /\ d \in Int
            BY <1>5, <3>1, <3>2, <3>3 DEF CanStop
        <3> HIDE DEF d, e
        <3>5. d + 1 \in 0 .. e /\ d + 1 # 0
            BY <3>4
        <3>6. CanStop(ts, us, m, k)
            <4>1. Kind(ts, p) \notin Lasts
                BY DEF Lasts
            <4>2. QED BY <1>5, <3>2, <3>5, <4>1 DEF CanStop, d, e
        <3>7. ExprStops(ts, us, m)[k] = Len(us) - (d + 1)
            BY <1>3, <1>5, <1>6, <3>6, ExprStopIs DEF d
        <3>8. /\ Len(us) - (d + 1) \in FirstClose(ts, m) .. Len(us)
              /\ Kind(us, Len(us) - (d + 1)) = "RParen"
              /\ FirstClose(ts, m) \in {m + 1, m + 2}
            BY <3>2, <3>5, ClosedBy DEF CanStop, e
        <3>9. PICK q : q = Len(us) - (d + 1)
            OBVIOUS
        <3>10. q # 0 /\ q \in 1 .. Len(us) /\ q + 1 = Len(us) - d
            BY <1>3, <3>4, <3>8, <3>9
        <3>11. innerU.ok /\ innerU.behind = q
            BY <1>7, <1>9, <2>3, <3>7, <3>9, <3>10 DEF Tracks
        <3>12. parenU.ok /\ parenU.behind = q + 1
            BY <1>3, <3>8, <3>9, <3>10, <3>11, ExpectGoes
        <3>13. s = Parsed(innerU.tree, q + 1)
            BY <1>2, <3>11, <3>12
        <3>14. QED BY <3>2, <3>10, <3>13 DEF Parsed, d
    <2>4. QED BY <1>9, <2>1, <2>2, <2>3 DEF Tracks
<1>10. ASSUME inner.ok
       PROVE  Tracks(us, m, stop, r, s)
    <2>1. PICK q : q = inner.behind
        OBVIOUS
    <2>2. /\ q \in k + 1 .. Len(ts) /\ q \in 1 .. Len(ts) /\ q \in Nat \ {0}
          /\ Depth(ts, q) = Depth(ts, k) /\ Kind(ts, q - 1) \in Lasts
        BY <1>5, <1>6, <1>7, <1>10, <2>1 DEF Makes, Goes, Stays
    <2>3. ASSUME q <= m
          PROVE  innerU = inner /\ Kind(us, q) = Kind(ts, q) /\ us[q] = ts[q]
        <3>1. q \in 1 .. m /\ Settled(us, m, inner)
            BY <1>3, <1>10, <2>1, <2>2, <2>3, SettledBefore
        <3>2. QED BY <1>7, <3>1, SameToken DEF Tracks
    <2>4. CASE Kind(ts, q) = "RParen"
        <3>1. paren = Parsed(ts[q].lexeme, q + 1) /\ paren.ok /\ paren.behind = q + 1
            BY <2>1, <2>4 DEF Expect, Parsed
        <3>2. r = Parsed(inner.tree, q + 1)
            BY <1>1, <1>10, <3>1
        <3>3. r.ok /\ r.behind = q + 1
            BY <3>2 DEF Parsed
        <3>4. ASSUME Settled(us, m, r) PROVE s = r
            <4>1. q <= m
                BY <1>3, <2>2, <3>3, <3>4 DEF Settled
            <4>2. innerU = inner /\ parenU = Parsed(us[q].lexeme, q + 1)
                BY <2>1, <2>3, <2>4, <4>1 DEF Expect
            <4>3. parenU.ok /\ parenU.behind = q + 1
                BY <4>2 DEF Parsed
            <4>4. QED BY <1>2, <1>10, <3>2, <4>2, <4>3
        <3>5. QED BY <3>3, <3>4 DEF Tracks
    <2>5. CASE Kind(ts, q) # "RParen"
        <3>1. paren = Error(q) /\ ~Error(q).ok /\ Error(q).at = q
            BY <2>1, <2>5 DEF Expect, Error
        <3>2. r = Error(q)
            BY <1>1, <1>10, <3>1
        <3>3. ASSUME Settled(us, m, r) PROVE s = r
            <4>1. q <= m
                BY <3>1, <3>2, <3>3 DEF Settled
            <4>2. innerU = inner /\ parenU = Error(q)
                BY <2>1, <2>3, <2>5, <4>1 DEF Expect
            <4>3. QED BY <1>2, <1>10, <3>1, <3>2, <4>2
        <3>4. ASSUME q = m + 1, stop # 0
              PROVE  s.ok /\ s.behind = stop
            <4>1. CanStop(ts, us, m, p) /\ stop = Len(us) - Depth(ts, p) /\ ClosedBehind(ts, us, m)
                BY <1>8, <3>4 DEF CanStop
            <4>2. q - 1 = m
                BY <1>3, <3>4
            <4>3. FirstClose(ts, m) = m + 1
                BY <2>2, <4>2 DEF FirstClose
            <4> DEFINE d == Depth(ts, p)
            <4>4. Depth(ts, m + 1) = d + 1 /\ d \in 0 .. d + 1
                BY <1>5, <2>2, <3>4, <4>1 DEF CanStop
            <4>5. Len(us) = q + (d + 1)
                BY <3>4, <4>1, <4>3, <4>4 DEF ClosedBehind
            <4>6. d + 1 \in 0 .. Depth(ts, m + 1) /\ d + 1 # 0
                BY <4>4
            <4>7. Kind(us, Len(us) - (d + 1)) = "RParen"
                BY <4>1, <4>6, ClosedBy
            <4> HIDE DEF d
            <4>8. Len(us) - (d + 1) = q /\ Len(us) - d = q + 1 /\ q \in 1 .. Len(us)
                BY <1>3, <2>2, <4>4, <4>5
            <4>9. Kind(us, q) = "RParen"
                BY <4>7, <4>8
            <4>10. Settled(us, m, inner)
                <5>1. "RParen" \notin Continuing
                    BY DEF Continuing, ComparisonOperators, OrderingOperators
                <5>2. QED BY <1>10, <2>1, <3>4, <4>9, <5>1 DEF Settled
            <4>11. innerU = inner
                BY <1>7, <4>10 DEF Tracks
            <4>12. parenU.ok /\ parenU.behind = q + 1
                BY <1>3, <2>1, <4>8, <4>9, <4>11, ExpectGoes
            <4>13. s = Parsed(inner.tree, q + 1)
                BY <1>2, <1>10, <4>11, <4>12
            <4>14. QED BY <4>1, <4>8, <4>13 DEF Parsed, d
        <3>5. QED BY <3>1, <3>2, <3>3, <3>4 DEF Tracks
    <2>6. QED BY <2>4, <2>5
<1>11. QED BY <1>9, <1>10 DEF r, s, stop

LEMMA PrimaryTracks ==
    ASSUME NEW ts, NEW us, NEW m, Alike(ts, us, m), NEW p \in 1 .. m + 1,
           NEW nested, NestedMake(ts, nested, p), NestedStay(ts, nested, p),
           NEW nestedU, NestedTrack(ts, us, m, p, nested, nestedU)
    PROVE  Tracks(us, m, ExprStops(ts, us, m)[p],
                  ParsePrimary(ts, nested, p), ParsePrimary(us, nestedU, p))
<1> DEFINE r == ParsePrimary(ts, nested, p)
           s == ParsePrimary(us, nestedU, p)
           stop == ExprStops(ts, us, m)[p]
<1>1. m \in Nat /\ IsScan(ts) /\ p \in 1 .. Len(ts) /\ Len(us) \in Nat
    BY DEF Alike, IsScan
<1>2. CASE p = m + 1
    <2>1. Goes(ts, p, r) /\ Stays(ts, p, r)
        BY <1>1, PrimaryMakes, PrimaryStays DEF Makes
    <2> HIDE DEF r
    <2>2. ASSUME stop # 0
          PROVE  s.ok /\ s.behind = stop
        <3>1. CanStop(ts, us, m, p) /\ stop = Len(us) - Depth(ts, p)
            BY <1>1, <2>2, ExprStopIs
        <3>2. ClosedBehind(ts, us, m) /\ Kind(ts, m) \notin Lasts
            <4>1. p - 1 = m
                BY <1>1, <1>2
            <4>2. QED BY <3>1, <4>1 DEF CanStop
        <3>3. Kind(us, p) = "Identifier" /\ Len(us) = m + 2 + Depth(ts, p) /\ Depth(ts, p) \in Nat
            BY <1>2, <3>2 DEF ClosedBehind, FirstClose
        <3>4. s = Parsed(ColumnExpr(us[p].lexeme), p + 1)
            BY <3>3 DEF ParsePrimary, ParseColumnReference, Expect, Then, Parsed
        <3>5. stop = p + 1
            <4> DEFINE d == Depth(ts, p)
            <4> HIDE DEF stop, d
            <4>1. stop = Len(us) - d /\ Len(us) = m + 2 + d /\ d \in Nat
                BY <3>1, <3>3 DEF d
            <4>2. QED BY <1>1, <1>2, <4>1
        <3> HIDE DEF s, stop
        <3>6. QED BY <3>4, <3>5 DEF Parsed
    <2> HIDE DEF s, stop
    <2>3. Tracks(us, m, stop, r, s)
        BY <1>2, <2>1, <2>2, FirstDiffers
    <2>4. QED BY <2>3 DEF r, s, stop
<1>3. CASE p # m + 1
    <2>1. p \in 1 .. m
        BY <1>1, <1>3
    <2>2. us[p] = ts[p] /\ Kind(us, p) = Kind(ts, p)
        BY <2>1, SameToken
    <2>3. CASE Kind(ts, p) = "LParen"
        <3>1. r = ParseParenthesized(ts, nested, p) /\ s = ParseParenthesized(us, nestedU, p)
            BY <2>2, <2>3 DEF ParsePrimary
        <3>2. QED BY <2>1, <2>3, <3>1, ParenthesizedTracks
    <2>4. CASE Kind(ts, p) # "LParen"
        <3>1. s = r
            BY <2>2, <2>4 DEF ParsePrimary, ParseColumnReference, ParseIntegerLiteral,
                              ParseStringLiteral, Expect, Then, Parsed
        <3>2. r = Error(p) \/ r.ok
            <4>1. r = Error(p) \/ \E tree : r = Parsed(tree, p + 1)
                BY <2>4 DEF ParsePrimary, ParseColumnReference, ParseIntegerLiteral,
                            ParseStringLiteral, Expect, Then, Parsed
            <4> HIDE DEF r
            <4>2. QED BY <4>1 DEF Parsed
        <3> HIDE DEF r, s
        <3>3. Tracks(us, m, stop, r, r)
            BY <1>1, <2>1, <3>2, OneTokenTracks
        <3>4. QED BY <3>1, <3>3 DEF r, s
    <2>5. QED BY <2>3, <2>4
<1>4. QED BY <1>2, <1>3

LEMMA ComparisonTracks ==
    ASSUME NEW ts, NEW us, NEW m, Alike(ts, us, m), NEW p \in 1 .. m + 1,
           NEW nested, NestedMake(ts, nested, p), NestedStay(ts, nested, p),
           NEW nestedU, NestedTrack(ts, us, m, p, nested, nestedU)
    PROVE  Tracks(us, m, ExprStops(ts, us, m)[p],
                  ParseComparison(ts, nested, p), ParseComparison(us, nestedU, p))
<1> DEFINE left == ParsePrimary(ts, nested, p)
           leftU == ParsePrimary(us, nestedU, p)
           op == Kind(ts, left.behind)
           opU == Kind(us, leftU.behind)
           right == ParsePrimary(ts, nested, left.behind + 1)
           rightU == ParsePrimary(us, nestedU, leftU.behind + 1)
           r == ParseComparison(ts, nested, p)
           s == ParseComparison(us, nestedU, p)
           stops == ExprStops(ts, us, m)
<1>1. m \in Nat /\ IsScan(ts) /\ p \in 1 .. Len(ts) /\ StopsAgree(ts, us, m, stops)
    BY ExprStopsAgree DEF Alike, IsScan
<1>2. Makes(ts, p, left) /\ Tracks(us, m, stops[p], left, leftU)
    BY <1>1, PrimaryMakes, PrimaryTracks
<1>3. /\ ~left.ok => r = left
      /\ left.ok /\ op \notin ComparisonOperators => r = Parsed(left.tree, left.behind)
      /\ left.ok /\ op \in ComparisonOperators /\ ~right.ok => r = right
      /\ left.ok /\ op \in ComparisonOperators /\ right.ok =>
            r = Parsed(Binary(op, left.tree, right.tree), right.behind)
    BY ComparisonParts, Zenon
<1>4. /\ ~leftU.ok => s = leftU
      /\ leftU.ok /\ opU \notin ComparisonOperators => s = Parsed(leftU.tree, leftU.behind)
      /\ leftU.ok /\ opU \in ComparisonOperators /\ ~rightU.ok => s = rightU
      /\ leftU.ok /\ opU \in ComparisonOperators /\ rightU.ok =>
            s = Parsed(Binary(opU, leftU.tree, rightU.tree), rightU.behind)
    BY ComparisonParts, Zenon
<1> HIDE DEF left, leftU, r, s, stops
<1>5. CASE ~left.ok
    <2>1. r = left
        BY <1>3, <1>5
    <2>2. ASSUME Settled(us, m, left) PROVE s = left
        <3>1. leftU = left
            BY <1>2, <2>2 DEF Tracks
        <3>2. QED BY <1>4, <1>5, <3>1
    <2>3. ASSUME left.at = m + 1, stops[p] # 0
          PROVE  s.ok /\ s.behind = stops[p]
        <3>1. leftU.ok /\ leftU.behind = stops[p]
            BY <1>2, <1>5, <2>3 DEF Tracks
        <3>2. opU \notin ComparisonOperators
            BY <1>1, <2>3, <3>1 DEF StopsAgree, Continuing
        <3>3. s = Parsed(leftU.tree, stops[p])
            BY <1>4, <3>1, <3>2
        <3>4. QED BY <3>3 DEF Parsed
    <2>4. Tracks(us, m, stops[p], r, s)
        BY <1>5, <2>1, <2>2, <2>3 DEF Tracks
    <2>5. QED BY <2>4 DEF r, s, stops
<1>6. CASE left.ok
    <2>1. PICK q, k : q = left.behind /\ k = q + 1
        OBVIOUS
    <2>2. q \in p + 1 .. Len(ts) /\ q \in Nat \ {0} /\ Goes(ts, p, left)
        BY <1>1, <1>2, <1>6, <2>1 DEF Makes, Goes
    <2>3. CASE op \notin ComparisonOperators
        <3>1. r = Parsed(left.tree, q)
            BY <1>3, <1>6, <2>1, <2>3
        <3>2. r.ok /\ r.behind = q
            BY <3>1 DEF Parsed
        <3>3. ASSUME Settled(us, m, r) PROVE s = r
            <4>1. Settled(us, m, left)
                BY <1>6, <2>1, <3>2, <3>3 DEF Settled
            <4>2. leftU = left
                BY <1>2, <4>1 DEF Tracks
            <4>3. Kind(us, q) \notin ComparisonOperators
                <5>1. ComparisonOperators \subseteq Continuing
                    BY DEF Continuing
                <5>2. QED BY <1>6, <2>1, <2>2, <2>3, <4>1, <5>1, SameEnd
            <4>4. QED BY <1>4, <1>6, <2>1, <3>1, <4>2, <4>3
        <3>4. Tracks(us, m, stops[p], r, s)
            BY <3>2, <3>3 DEF Tracks
        <3>5. QED BY <3>4 DEF r, s, stops
    <2>4. CASE op \in ComparisonOperators
        <3>1. /\ k \in q + 1 .. Len(ts) /\ Depth(ts, k) = Depth(ts, p)
              /\ k \in 1 .. Len(ts) /\ k - 1 = q /\ Kind(ts, q) \notin Lasts
              /\ NestedMake(ts, nested, k) /\ NestedStay(ts, nested, k)
            BY <1>1, <1>6, <2>1, <2>2, <2>4, RightSide
        <3>2. Makes(ts, k, right) /\ Stays(ts, k, right)
            BY <1>1, <2>1, <3>1, PrimaryMakes, PrimaryStays
        <3>3. ASSUME q <= m
              PROVE  /\ leftU = left /\ opU = op /\ k \in 1 .. m + 1 /\ p < k
                     /\ Tracks(us, m, stops[k], right, rightU)
            <4>1. Settled(us, m, left) /\ q \in 1 .. m
                BY <1>1, <1>6, <2>1, <2>2, <3>3, SettledBefore
            <4>2. leftU = left /\ Kind(us, q) = Kind(ts, q)
                BY <1>2, <4>1, SameToken DEF Tracks
            <4>3. k \in 1 .. m + 1 /\ p < k /\ k + 1 .. m + 1 \subseteq p + 1 .. m + 1
                BY <1>1, <2>1, <2>2, <3>3
            <4>4. NestedTrack(ts, us, m, k, nested, nestedU)
                BY <4>3 DEF NestedTrack
            <4>5. Tracks(us, m, stops[k], right, rightU)
                BY <2>1, <3>1, <4>2, <4>3, <4>4, PrimaryTracks DEF stops
            <4>6. QED BY <2>1, <4>2, <4>3, <4>5
        <3> HIDE DEF right, rightU, op, opU
        <3>4. CASE right.ok
            <4>1. r = Parsed(Binary(op, left.tree, right.tree), right.behind)
                BY <1>3, <1>6, <2>4, <3>4
            <4>2. r.ok /\ r.behind = right.behind
                BY <4>1 DEF Parsed
            <4>3. ASSUME Settled(us, m, r) PROVE s = r
                <5>1. Settled(us, m, right)
                    BY <3>4, <4>2, <4>3 DEF Settled
                <5>2. right.behind \in k + 1 .. Len(ts) /\ right.behind <= m + 1
                    BY <1>1, <3>2, <3>4, <5>1 DEF Settled, Makes, Goes
                <5>3. q <= m
                    BY <1>1, <2>1, <2>2, <5>2
                <5>4. rightU = right
                    BY <3>3, <5>1, <5>3 DEF Tracks
                <5>5. QED BY <1>4, <1>6, <2>4, <3>3, <3>4, <4>1, <5>3, <5>4
            <4>4. Tracks(us, m, stops[p], r, s)
                BY <4>2, <4>3 DEF Tracks
            <4>5. QED BY <4>4 DEF r, s, stops
        <3>5. CASE ~right.ok
            <4>1. r = right
                BY <1>3, <1>6, <2>4, <3>5
            <4>2. right.at \in k .. Len(ts)
                BY <3>2, <3>5 DEF Stays
            <4>3. ASSUME Settled(us, m, right) PROVE s = right
                <5>1. q <= m
                    BY <1>1, <2>1, <2>2, <3>5, <4>2, <4>3 DEF Settled
                <5>2. rightU = right
                    BY <3>3, <4>3, <5>1 DEF Tracks
                <5>3. QED BY <1>4, <1>6, <2>4, <3>3, <3>5, <5>1, <5>2
            <4>4. ASSUME right.at = m + 1, stops[p] # 0
                  PROVE  s.ok /\ s.behind = stops[p]
                <5>1. q <= m
                    BY <1>1, <2>1, <2>2, <4>2, <4>4
                <5>2. stops[k] = stops[p]
                    BY <1>1, <3>1, <3>3, <4>4, <5>1 DEF StopsAgree
                <5>3. rightU.ok /\ rightU.behind = stops[p]
                    BY <3>3, <3>5, <4>4, <5>1, <5>2 DEF Tracks
                <5>4. s = Parsed(Binary(op, left.tree, rightU.tree), rightU.behind)
                    BY <1>4, <1>6, <2>4, <3>3, <5>1, <5>3
                <5>5. QED BY <5>3, <5>4 DEF Parsed
            <4>5. Tracks(us, m, stops[p], r, s)
                BY <3>5, <4>1, <4>3, <4>4 DEF Tracks
            <4>6. QED BY <4>5 DEF r, s, stops
        <3>6. QED BY <3>4, <3>5
    <2>5. QED BY <2>3, <2>4
<1>7. QED BY <1>5, <1>6

LEMMA OperandsTrack ==
    ASSUME NEW us, NEW m, NEW stop, NEW op, NEW r, NEW s, Tracks(us, m, stop, r, s)
    PROVE  Tracks(us, m, stop, IF r.ok THEN Parsed(LeftTree(op, r.tree), r.behind) ELSE r,
                               IF s.ok THEN Parsed(LeftTree(op, s.tree), s.behind) ELSE s)
<1> DEFINE R == IF r.ok THEN Parsed(LeftTree(op, r.tree), r.behind) ELSE r
           S == IF s.ok THEN Parsed(LeftTree(op, s.tree), s.behind) ELSE s
<1>1. (R.ok <=> r.ok) /\ (r.ok => R.behind = r.behind) /\ (~r.ok => R = r)
    BY DEF Parsed
<1>2. s.ok => S.ok /\ S.behind = s.behind
    BY DEF Parsed
<1>3. s = r => S = R
    OBVIOUS
<1> HIDE DEF R, S
<1>4. Settled(us, m, R) => Settled(us, m, r)
    BY <1>1 DEF Settled
<1>5. Tracks(us, m, stop, R, S)
    BY <1>1, <1>2, <1>3, <1>4 DEF Tracks
<1>6. QED BY <1>5 DEF R, S

LEMMA AndTracks ==
    ASSUME NEW ts, NEW us, NEW m, Alike(ts, us, m), NEW p \in 1 .. m + 1,
           NEW nested, NestedMake(ts, nested, p), NestedStay(ts, nested, p),
           NEW nestedU, NestedMake(us, nestedU, p), NestedTrack(ts, us, m, p, nested, nestedU)
    PROVE  Tracks(us, m, ExprStops(ts, us, m)[p], ParseAnd(ts, nested, p), ParseAnd(us, nestedU, p))
<1> DEFINE items == [q \in p .. Len(ts) |-> ParseComparison(ts, nested, q)]
           itemsU == [q \in p .. Len(us) |-> ParseComparison(us, nestedU, q)]
           stops == ExprStops(ts, us, m)
<1>1. /\ m \in Nat /\ IsScan(ts) /\ IsScan(us) /\ p \in 1 .. Len(ts) /\ p \in 1 .. Len(us)
      /\ p .. m + 1 \subseteq p .. Len(ts) /\ p .. m + 1 \subseteq p .. Len(us)
      /\ StopsAgree(ts, us, m, stops)
    BY ExprStopsAgree DEF Alike, IsScan
<1>2. PICK list : /\ IsLoop(list, ts, "And", items, p)
                  /\ ParseAnd(ts, nested, p)
                       = IF list[p].ok
                         THEN Parsed(LeftTree("And", list[p].tree), list[p].behind)
                         ELSE list[p]
    BY <1>1, AndLoop
<1>3. PICK listU : /\ IsLoop(listU, us, "And", itemsU, p)
                   /\ ParseAnd(us, nestedU, p)
                        = IF listU[p].ok
                          THEN Parsed(LeftTree("And", listU[p].tree), listU[p].behind)
                          ELSE listU[p]
    BY <1>1, AndLoop
<1>4. \A q \in p .. Len(ts) : Makes(ts, q, items[q])
    BY <1>1, AndLoop
<1>5. ASSUME NEW q \in p .. Len(ts)
      PROVE  q \in 1 .. Len(ts) /\ NestedMake(ts, nested, q) /\ NestedStay(ts, nested, q)
    <2>1. q \in 1 .. Len(ts) /\ q + 1 .. Len(ts) \subseteq p + 1 .. Len(ts)
        BY <1>1 DEF IsScan
    <2>2. QED BY <2>1 DEF NestedMake, NestedStay
<1>6. ItemsStay(ts, items, p)
    BY <1>1, <1>5, ComparisonStays DEF ItemsStay
<1>7. ASSUME NEW q \in p .. m + 1
      PROVE  Tracks(us, m, stops[q], items[q], itemsU[q])
    <2>1. q \in 1 .. m + 1 /\ q + 1 .. m + 1 \subseteq p + 1 .. m + 1
          /\ q \in p .. Len(ts) /\ q \in p .. Len(us) /\ q + 1 .. Len(us) \subseteq p + 1 .. Len(us)
        BY <1>1 DEF IsScan
    <2>2. NestedTrack(ts, us, m, q, nested, nestedU) /\ NestedMake(us, nestedU, q)
        BY <2>1 DEF NestedTrack, NestedMake
    <2>3. Tracks(us, m, stops[q], ParseComparison(ts, nested, q), ParseComparison(us, nestedU, q))
        BY <1>5, <2>1, <2>2, ComparisonTracks
    <2>4. QED BY <2>1, <2>3
<1> HIDE DEF items, itemsU, stops
<1>8. "And" \in Separators /\ ItemsGo(ts, items, p) /\ p \in p .. m + 1
    BY <1>1, <1>4 DEF Separators, ItemsGo, Makes
<1>9. Tracks(us, m, stops[p], list[p], listU[p])
    BY <1>1, <1>2, <1>3, <1>6, <1>7, <1>8, LoopTracks
<1>10. QED BY <1>2, <1>3, <1>9, OperandsTrack DEF stops

LEMMA OrTracks ==
    ASSUME NEW ts, NEW us, NEW m, Alike(ts, us, m), NEW p \in 1 .. m + 1,
           NEW nested, NestedMake(ts, nested, p), NestedStay(ts, nested, p),
           NEW nestedU, NestedMake(us, nestedU, p), NestedTrack(ts, us, m, p, nested, nestedU)
    PROVE  Tracks(us, m, ExprStops(ts, us, m)[p], ParseOr(ts, nested, p), ParseOr(us, nestedU, p))
<1> DEFINE items == [q \in p .. Len(ts) |-> ParseAnd(ts, nested, q)]
           itemsU == [q \in p .. Len(us) |-> ParseAnd(us, nestedU, q)]
           stops == ExprStops(ts, us, m)
<1>1. /\ m \in Nat /\ IsScan(ts) /\ IsScan(us) /\ p \in 1 .. Len(ts) /\ p \in 1 .. Len(us)
      /\ p .. m + 1 \subseteq p .. Len(ts) /\ p .. m + 1 \subseteq p .. Len(us)
      /\ StopsAgree(ts, us, m, stops)
    BY ExprStopsAgree DEF Alike, IsScan
<1>2. PICK list : /\ IsLoop(list, ts, "Or", items, p)
                  /\ ParseOr(ts, nested, p)
                       = IF list[p].ok
                         THEN Parsed(LeftTree("Or", list[p].tree), list[p].behind)
                         ELSE list[p]
    BY <1>1, OrLoop
<1>3. PICK listU : /\ IsLoop(listU, us, "Or", itemsU, p)
                   /\ ParseOr(us, nestedU, p)
                        = IF listU[p].ok
                          THEN Parsed(LeftTree("Or", listU[p].tree), listU[p].behind)
                          ELSE listU[p]
    BY <1>1, OrLoop
<1>4. \A q \in p .. Len(ts) : Makes(ts, q, items[q])
    BY <1>1, OrLoop
<1>5. ASSUME NEW q \in p .. Len(ts)
      PROVE  q \in 1 .. Len(ts) /\ NestedMake(ts, nested, q) /\ NestedStay(ts, nested, q)
    <2>1. q \in 1 .. Len(ts) /\ q + 1 .. Len(ts) \subseteq p + 1 .. Len(ts)
        BY <1>1 DEF IsScan
    <2>2. QED BY <2>1 DEF NestedMake, NestedStay
<1>6. ItemsStay(ts, items, p)
    BY <1>1, <1>5, AndStays DEF ItemsStay
<1>7. ASSUME NEW q \in p .. m + 1
      PROVE  Tracks(us, m, stops[q], items[q], itemsU[q])
    <2>1. q \in 1 .. m + 1 /\ q + 1 .. m + 1 \subseteq p + 1 .. m + 1
          /\ q \in p .. Len(ts) /\ q \in p .. Len(us) /\ q + 1 .. Len(us) \subseteq p + 1 .. Len(us)
        BY <1>1 DEF IsScan
    <2>2. NestedTrack(ts, us, m, q, nested, nestedU) /\ NestedMake(us, nestedU, q)
        BY <2>1 DEF NestedTrack, NestedMake
    <2>3. Tracks(us, m, stops[q], ParseAnd(ts, nested, q), ParseAnd(us, nestedU, q))
        BY <1>5, <2>1, <2>2, AndTracks
    <2>4. QED BY <2>1, <2>3
<1> HIDE DEF items, itemsU, stops
<1>8. "Or" \in Separators /\ ItemsGo(ts, items, p) /\ p \in p .. m + 1
    BY <1>1, <1>4 DEF Separators, ItemsGo, Makes
<1>9. Tracks(us, m, stops[p], list[p], listU[p])
    BY <1>1, <1>2, <1>3, <1>6, <1>7, <1>8, LoopTracks
<1>10. QED BY <1>2, <1>3, <1>9, OperandsTrack DEF stops

LEMMA ExpressionsTrack ==
    ASSUME NEW ts, NEW us, NEW m, Alike(ts, us, m)
    PROVE  /\ \A p \in 1 .. m + 1 : Tracks(us, m, ExprStops(ts, us, m)[p],
                                           ParseExpression(ts, p), ParseExpression(us, p))
           /\ \A p \in 0 .. m + 1 :
                 NestedTrack(ts, us, m, p, Expressions(ts), Expressions(us))
<1> DEFINE expression == Expressions(ts)
           expressionU == Expressions(us)
           stops == ExprStops(ts, us, m)
           good == {p \in 1 .. m + 1 : Tracks(us, m, stops[p], expression[p], expressionU[p])}
<1>1. /\ m \in Nat /\ IsScan(ts) /\ IsScan(us) /\ Len(ts) \in Nat /\ Len(us) \in Nat
      /\ 1 .. m + 1 \subseteq 1 .. Len(ts) /\ 1 .. m + 1 \subseteq 1 .. Len(us)
    BY DEF Alike, IsScan
<1>2. /\ \A p \in 0 .. Len(ts) : NestedMake(ts, expression, p) /\ NestedStay(ts, expression, p)
      /\ \A p \in 0 .. Len(us) : NestedMake(us, expressionU, p)
    BY <1>1, ExpressionsMake, ExpressionsStay
<1>3. ASSUME NEW p \in 1 .. m + 1, \A q \in p + 1 .. m + 1 : q \in good
      PROVE  p \in good
    <2> DEFINE nested == [q \in p + 1 .. Len(ts) |-> expression[q]]
               nestedU == [q \in p + 1 .. Len(us) |-> expressionU[q]]
    <2>1. expression[p] = ParseOr(ts, nested, p) /\ expressionU[p] = ParseOr(us, nestedU, p)
        BY <1>1, ExpressionsStepwise
    <2>2. p \in 0 .. Len(ts) /\ p \in 0 .. Len(us)
          /\ p + 1 .. m + 1 \subseteq p + 1 .. Len(ts) /\ p + 1 .. m + 1 \subseteq p + 1 .. Len(us)
        BY <1>1
    <2> HIDE DEF expression, expressionU, stops
    <2>3. NestedMake(ts, nested, p) /\ NestedStay(ts, nested, p) /\ NestedMake(us, nestedU, p)
        BY <1>2, <2>2 DEF NestedMake, NestedStay
    <2>4. NestedTrack(ts, us, m, p, nested, nestedU)
        BY <1>3, <2>2 DEF NestedTrack, stops
    <2> HIDE DEF nested, nestedU
    <2>5. Tracks(us, m, stops[p], ParseOr(ts, nested, p), ParseOr(us, nestedU, p))
        BY <2>3, <2>4, OrTracks DEF stops
    <2>6. QED BY <2>1, <2>5
<1> HIDE DEF expression, expressionU, stops
<1>4. \A p \in 1 .. m + 1 : p \in good
    <2> HIDE DEF good
    <2>1. PICK n : n = m + 1
        OBVIOUS
    <2>2. 1 \in Int /\ n \in Int
        BY <1>1, <2>1
    <2>3. \A p \in 1 .. n : (\A q \in p + 1 .. n : q \in good) => p \in good
        BY <1>3, <2>1
    <2>4. \A p \in 1 .. n : p \in good
        BY <2>2, <2>3, BackwardInduction, Zenon
    <2>5. QED BY <2>1, <2>4
<1>5. \A p \in 1 .. m + 1 : Tracks(us, m, stops[p], expression[p], expressionU[p])
    BY <1>4
<1>6. \A p \in 0 .. m + 1 : p + 1 .. m + 1 \subseteq 1 .. m + 1
    BY <1>1
<1>7. QED BY <1>5, <1>6 DEF ParseExpression, NestedTrack, expression, expressionU, stops

-----------------------------------------------------------------------------
(* Names.                                                                  *)
LEMMA ExpectTracks ==
    ASSUME NEW ts, NEW us, NEW m, Alike(ts, us, m), NEW p \in 1 .. m + 1,
           NEW kind, kind # "EndOfFile",
           NEW stop, stop # 0 => Kind(us, m + 1) = kind /\ stop = m + 2
    PROVE  Tracks(us, m, stop, Expect(ts, p, kind), Expect(us, p, kind))
<1> DEFINE r == Expect(ts, p, kind)
           s == Expect(us, p, kind)
<1>1. m \in Nat /\ IsScan(ts) /\ p \in 1 .. Len(ts)
    BY DEF Alike, IsScan
<1>2. /\ Kind(ts, p) = kind => r = Parsed(ts[p].lexeme, p + 1)
      /\ Kind(ts, p) # kind => r = Error(p)
      /\ Kind(us, p) = kind => s = Parsed(us[p].lexeme, p + 1)
      /\ Kind(us, p) # kind => s = Error(p)
    BY DEF Expect
<1> HIDE DEF r, s
<1>3. /\ Kind(ts, p) = kind => r.ok /\ r.behind = p + 1
      /\ Kind(ts, p) # kind => ~r.ok /\ r.at = p
      /\ Kind(us, p) = kind => s.ok /\ s.behind = p + 1
    BY <1>2 DEF Parsed, Error
<1>4. CASE p = m + 1
    <2>1. ~Settled(us, m, r)
        <3>1. r.ok => ~(r.behind <= m) /\ r.behind # m + 1
            BY <1>1, <1>3, <1>4
        <3>2. ~r.ok => ~(r.at <= m)
            BY <1>1, <1>3, <1>4
        <3>3. QED BY <3>1, <3>2 DEF Settled
    <2>2. stop # 0 => s.ok /\ s.behind = stop
        <3>1. p + 1 = m + 2
            BY <1>1, <1>4
        <3>2. QED BY <1>3, <1>4, <3>1
    <2>3. Tracks(us, m, stop, r, s)
        BY <2>1, <2>2 DEF Tracks
    <2>4. QED BY <2>3 DEF r, s
<1>5. CASE p # m + 1
    <2>1. p \in 1 .. m
        BY <1>1, <1>5
    <2>2. us[p] = ts[p] /\ Kind(us, p) = Kind(ts, p)
        BY <2>1, SameToken
    <2>3. s = r /\ (r = Error(p) \/ r.ok)
        BY <1>2, <1>3, <2>2
    <2>4. Tracks(us, m, stop, r, r)
        BY <1>1, <2>1, <2>3, OneTokenTracks
    <2>5. QED BY <2>3, <2>4 DEF r, s
<1>6. QED BY <1>4, <1>5

(* A result of which something is made.                                    *)
LEMMA WrapTracks ==
    ASSUME NEW us, NEW m, NEW stop, NEW r, NEW s, Tracks(us, m, stop, r, s),
           NEW x, NEW y, r.ok => x.ok /\ x.behind = r.behind, ~r.ok => x = r,
           s.ok => y.ok /\ y.behind = s.behind, s = r => y = x
    PROVE  Tracks(us, m, stop, x, y)
<1>1. Settled(us, m, x) => Settled(us, m, r)
    BY DEF Settled
<1>2. ~x.ok => ~r.ok /\ x = r
    OBVIOUS
<1>3. QED BY <1>1, <1>2 DEF Tracks

NameStop(us, m) ==
    IF Kind(us, m + 1) = "Identifier" /\ Kind(us, m + 2) \notin Continuing THEN m + 2 ELSE 0

LEMMA NameStopIs ==
    ASSUME NEW us, NEW m \in Nat
    PROVE  NameStop(us, m) # 0 => /\ Kind(us, m + 1) = "Identifier" /\ NameStop(us, m) = m + 2
                                  /\ Kind(us, m + 2) \notin Continuing
BY DEF NameStop

LEMMA NameTracks ==
    ASSUME NEW ts, NEW us, NEW m, Alike(ts, us, m), NEW p \in 1 .. m + 1
    PROVE  Tracks(us, m, NameStop(us, m), Expect(ts, p, "Identifier"), Expect(us, p, "Identifier"))
<1>1. m \in Nat
    BY DEF Alike
<1>2. NameStop(us, m) # 0 => Kind(us, m + 1) = "Identifier" /\ NameStop(us, m) = m + 2
    BY <1>1, NameStopIs
<1>3. QED BY <1>2, ExpectTracks

LEMMA OneResultTracks ==
    ASSUME NEW us, NEW m, NEW r, r.ok \/ r.at # m + 1, NEW stop
    PROVE  Tracks(us, m, stop, r, r)
BY DEF Tracks

(* A table reference: names, and where it goes on.                         *)
LEMMA ReferenceCases ==
    ASSUME NEW ts, NEW p, NEW q, q = p + 1, NEW k, k = q + 1
    PROVE  LET r == ParseTableReference(ts, p)
           IN  /\ Kind(ts, p) # "Identifier" => r = Error(p)
               /\ Kind(ts, p) = "Identifier" /\ Kind(ts, q) # "Dot" =>
                     r = Parsed(TableReference(EmptyName, ts[p].lexeme), q)
               /\ Kind(ts, p) = "Identifier" /\ Kind(ts, q) = "Dot"
                  /\ Kind(ts, k) # "Identifier" => r = Error(k)
               /\ Kind(ts, p) = "Identifier" /\ Kind(ts, q) = "Dot"
                  /\ Kind(ts, k) = "Identifier" =>
                     r = Parsed(TableReference(ts[p].lexeme, ts[k].lexeme), k + 1)
BY DEF ParseTableReference, Expect, Then, Parsed, Error

LEMMA ReferenceStays ==
    ASSUME NEW ts, IsScan(ts), NEW p \in 1 .. Len(ts)
    PROVE  /\ Stays(ts, p, ParseTableReference(ts, p))
           /\ Goes(ts, p, ParseTableReference(ts, p))
<1> DEFINE r == ParseTableReference(ts, p)
<1>0. Goes(ts, p, r)
    <2> HIDE DEF r
    <2>1. r.ok => Reached(ts, p, r.behind)
        BY TableReferenceGoes DEF r
    <2>2. QED BY <2>1, GoesReaches
<1>1. PICK q, k : q = p + 1 /\ k = q + 1
    OBVIOUS
<1>2. CASE Kind(ts, p) # "Identifier"
    <2>1. r = Error(p)
        BY <1>1, <1>2, ReferenceCases
    <2>2. QED BY <1>0, <2>1, ErrorStays
<1>3. CASE Kind(ts, p) = "Identifier" /\ Kind(ts, q) # "Dot"
    <2>1. r = Parsed(TableReference(EmptyName, ts[p].lexeme), p + 1)
        BY <1>1, <1>3, ReferenceCases
    <2>2. QED BY <1>0, <1>3, <2>1, TokenStays DEF Lasts
<1>4. CASE Kind(ts, p) = "Identifier" /\ Kind(ts, q) = "Dot"
    <2>1. q \in 1 .. Len(ts) /\ Depth(ts, q) = Depth(ts, p)
        BY <1>1, <1>4, StepsOver
    <2>2. k \in 1 .. Len(ts) /\ Depth(ts, k) = Depth(ts, p)
        BY <1>1, <1>4, <2>1, StepsOver
    <2>3. k \in p .. Len(ts) /\ Depth(ts, k) >= Depth(ts, p)
        <3>1. k \in p .. Len(ts)
            BY <1>1, <2>2
        <3>2. QED BY <2>2, <3>1, DepthOver
    <2>4. r = Error(k) \/ \E tree : Kind(ts, k) = "Identifier" /\ r = Parsed(tree, k + 1)
        BY <1>1, <1>4, ReferenceCases
    <2> HIDE DEF r
    <2>5. Stays(ts, k, r)
        BY <2>2, <2>4, ErrorStays, TokenStays DEF Lasts
    <2>6. Stays(ts, p, r)
        BY <2>3, <2>5, StaysFarther
    <2>7. QED BY <1>0, <2>6 DEF r
<1>5. QED BY <1>2, <1>3, <1>4

LEMMA ReferenceTracks ==
    ASSUME NEW ts, NEW us, NEW m, Alike(ts, us, m), NEW p \in 1 .. m + 1
    PROVE  Tracks(us, m, NameStop(us, m), ParseTableReference(ts, p), ParseTableReference(us, p))
<1> DEFINE r == ParseTableReference(ts, p)
           s == ParseTableReference(us, p)
           stop == NameStop(us, m)
<1>1. m \in Nat /\ IsScan(ts) /\ p \in 1 .. Len(ts)
    BY DEF Alike, IsScan
<1>2. PICK q, k : q = p + 1 /\ k = q + 1
    OBVIOUS
<1>3. stop # 0 => /\ Kind(us, m + 1) = "Identifier" /\ stop = m + 2
                  /\ Kind(us, m + 2) \notin Continuing
    BY <1>1, NameStopIs
<1>4. "Dot" \in Continuing
    BY DEF Continuing
<1>5. CASE p = m + 1
    <2>1. ASSUME stop # 0
          PROVE  s.ok /\ s.behind = stop
        <3>1. q = m + 2
            BY <1>1, <1>2, <1>5
        <3>2. s = Parsed(TableReference(EmptyName, us[p].lexeme), stop)
            BY <1>2, <1>3, <1>4, <1>5, <2>1, <3>1, ReferenceCases
        <3>3. QED BY <3>2 DEF Parsed
    <2>2. Goes(ts, p, r) /\ Stays(ts, p, r)
        BY <1>1, ReferenceStays
    <2> HIDE DEF r, s, stop
    <2>3. Tracks(us, m, stop, r, s)
        BY <1>5, <2>1, <2>2, FirstDiffers
    <2>4. QED BY <2>3 DEF r, s, stop
<1>6. CASE p # m + 1
    <2>1. p \in 1 .. m /\ q \in 1 .. m + 1
        BY <1>1, <1>2, <1>6
    <2>2. us[p] = ts[p] /\ Kind(us, p) = Kind(ts, p)
        BY <2>1, SameToken
    <2>3. CASE Kind(ts, p) # "Identifier"
        <3>1. r = Error(p) /\ s = Error(p)
            BY <1>2, <2>2, <2>3, ReferenceCases
        <3>2. Error(p).at = p
            BY DEF Error
        <3>3. QED BY <1>6, <3>1, <3>2, OneResultTracks
    <2>4. CASE Kind(ts, p) = "Identifier" /\ Kind(ts, q) # "Dot"
        <3>1. r = Parsed(TableReference(EmptyName, ts[p].lexeme), q)
            BY <1>2, <2>4, ReferenceCases
        <3>2. Kind(us, q) # "Dot" => s = r
            BY <1>2, <2>2, <2>4, <3>1, ReferenceCases
        <3> HIDE DEF r, s, stop
        <3>3. r.ok /\ r.behind = q
            BY <3>1 DEF Parsed
        <3>4. Settled(us, m, r) => s = r
            <4>1. {"Dot"} \subseteq Continuing /\ Kind(ts, q) \notin {"Dot"} /\ q \in Nat \ {0}
                BY <1>4, <2>1, <2>4
            <4>2. Settled(us, m, r) => Kind(us, q) \notin {"Dot"}
                BY <3>3, <4>1, SameEnd
            <4>3. QED BY <3>2, <4>2
        <3>5. Tracks(us, m, stop, r, s)
            BY <3>3, <3>4 DEF Tracks
        <3>6. QED BY <3>5 DEF r, s, stop
    <2>5. CASE Kind(ts, p) = "Identifier" /\ Kind(ts, q) = "Dot"
        <3>1. /\ Kind(ts, k) # "Identifier" => r = Error(k)
              /\ Kind(ts, k) = "Identifier" =>
                    r = Parsed(TableReference(ts[p].lexeme, ts[k].lexeme), k + 1)
            BY <1>2, <2>5, ReferenceCases
        <3>2. q <= m => /\ Kind(us, k) # "Identifier" => s = Error(k)
                        /\ Kind(us, k) = "Identifier" =>
                              s = Parsed(TableReference(ts[p].lexeme, us[k].lexeme), k + 1)
            <4>1. q <= m => Kind(us, q) = "Dot"
                <5>1. q <= m => q \in 1 .. m
                    BY <2>1
                <5>2. QED BY <2>5, <5>1, SameToken
            <4>2. QED BY <1>2, <2>2, <2>5, <4>1, ReferenceCases
        <3> HIDE DEF r, s, stop
        <3>3. /\ Kind(ts, k) # "Identifier" => ~r.ok /\ r.at = k
              /\ Kind(ts, k) = "Identifier" => r.ok /\ r.behind = k + 1
            BY <3>1 DEF Parsed, Error
        <3>4. CASE k <= m
            <4>1. k \in 1 .. m /\ q <= m
                BY <1>1, <1>2, <2>1, <3>4
            <4>2. s = r
                BY <3>1, <3>2, <4>1, SameToken
            <4>3. r.ok \/ r.at # m + 1
                BY <1>1, <3>3, <3>4, <4>1
            <4>4. Tracks(us, m, stop, r, r)
                BY <4>3, OneResultTracks
            <4>5. QED BY <4>2, <4>4 DEF r, s, stop
        <3>5. CASE ~(k <= m)
            <4>1. ~Settled(us, m, r)
                <5>1. r.ok => ~(r.behind <= m) /\ r.behind # m + 1
                    BY <1>1, <1>2, <2>1, <3>3, <3>5
                <5>2. ~r.ok => ~(r.at <= m)
                    BY <3>3, <3>5
                <5>3. QED BY <5>1, <5>2 DEF Settled
            <4>2. ASSUME ~r.ok, r.at = m + 1, stop # 0
                  PROVE  s.ok /\ s.behind = stop
                <5>1. k = m + 1 /\ q <= m /\ k + 1 = stop
                    BY <1>1, <1>2, <1>3, <2>1, <3>3, <4>2
                <5>2. s = Parsed(TableReference(ts[p].lexeme, us[k].lexeme), stop)
                    BY <1>3, <3>2, <4>2, <5>1
                <5>3. QED BY <5>2 DEF Parsed
            <4>3. Tracks(us, m, stop, r, s)
                BY <4>1, <4>2 DEF Tracks
            <4>4. QED BY <4>3 DEF r, s, stop
        <3>6. QED BY <3>4, <3>5
    <2>6. QED BY <2>3, <2>4, <2>5
<1>7. QED BY <1>5, <1>6

(* The columns of a SELECT.                                                *)
NameStops(us, m) == [q \in 1 .. m + 1 |-> NameStop(us, m)]

LEMMA ColumnsTrack ==
    ASSUME NEW ts, NEW us, NEW m, Alike(ts, us, m), NEW p \in 1 .. m + 1
    PROVE  /\ Tracks(us, m, NameStop(us, m), ParseColumns(ts, p), ParseColumns(us, p))
           /\ Goes(ts, p, ParseColumns(ts, p)) /\ Stays(ts, p, ParseColumns(ts, p))
<1> DEFINE items == [q \in p .. Len(ts) |-> Expect(ts, q, "Identifier")]
           itemsU == [q \in p .. Len(us) |-> Expect(us, q, "Identifier")]
           stops == NameStops(us, m)
<1>1. /\ m \in Nat /\ IsScan(ts) /\ IsScan(us) /\ p \in 1 .. Len(ts) /\ p \in 1 .. Len(us)
      /\ p .. m + 1 \subseteq p .. Len(ts) /\ p .. m + 1 \subseteq p .. Len(us)
      /\ p .. m + 1 \subseteq 1 .. m + 1 /\ p .. Len(ts) \subseteq 1 .. Len(ts)
      /\ p \in p .. m + 1 /\ p \in p .. Len(ts)
    BY DEF Alike, IsScan
<1>2. ItemsGo(ts, items, p) /\ "Comma" \in Separators
    BY <1>1, ColumnsLoop DEF Separators
<1>3. PICK list : IsLoop(list, ts, "Comma", items, p) /\ ParseColumns(ts, p) = list[p]
    BY <1>1, ColumnsLoop
<1>4. PICK listU : IsLoop(listU, us, "Comma", itemsU, p) /\ ParseColumns(us, p) = listU[p]
    BY <1>1, ColumnsLoop
<1>5. ItemsStay(ts, items, p)
    BY <1>1, NameStays DEF ItemsStay
<1>6. \A q \in 1 .. m + 1 : stops[q] = NameStop(us, m)
    BY DEF NameStops
<1>7. StopsAgree(ts, us, m, stops)
    <2> HIDE DEF stops
    <2>1. NameStop(us, m) # 0 => Kind(us, NameStop(us, m)) \notin Continuing
        BY <1>1, NameStopIs
    <2>2. QED BY <1>6, <2>1 DEF StopsAgree
<1>8. ASSUME NEW q \in p .. m + 1
      PROVE  Tracks(us, m, stops[q], items[q], itemsU[q])
    <2>1. q \in 1 .. m + 1 /\ q \in p .. Len(ts) /\ q \in p .. Len(us)
        BY <1>1
    <2>2. Tracks(us, m, NameStop(us, m), Expect(ts, q, "Identifier"), Expect(us, q, "Identifier"))
        BY <2>1, NameTracks
    <2>3. QED BY <1>6, <2>1, <2>2
<1> HIDE DEF items, itemsU, stops
<1>9. Tracks(us, m, stops[p], list[p], listU[p])
    BY <1>1, <1>2, <1>3, <1>4, <1>5, <1>7, <1>8, LoopTracks
<1>10. Goes(ts, p, list[p]) /\ Stays(ts, p, list[p])
    BY <1>1, <1>2, <1>3, <1>5, LoopGoes, LoopStays
<1>11. QED BY <1>3, <1>4, <1>6, <1>9, <1>10

LEMMA SelectListStays ==
    ASSUME NEW ts, IsScan(ts), NEW p \in 1 .. Len(ts)
    PROVE  LET r == ParseSelectList(ts, p)
           IN  /\ r.ok => Reached(ts, p, r.behind)
               /\ ~r.ok => r.at \in p .. Len(ts)
<1> DEFINE r == ParseSelectList(ts, p)
           columns == ParseColumns(ts, p)
<1>1. CASE Kind(ts, p) = "Star"
    <2>1. r = Parsed([all |-> TRUE, columns |-> << >>], p + 1)
        BY <1>1 DEF ParseSelectList
    <2>2. Reached(ts, p, p + 1)
        <3>1. Kind(ts, p) \notin {"EndOfFile", "LParen", "RParen", "Comma"}
            BY <1>1
        <3>2. QED BY <3>1, TokenReaches
    <2> HIDE DEF r
    <2>3. r.ok /\ r.behind = p + 1
        BY <2>1 DEF Parsed
    <2>4. QED BY <2>2, <2>3 DEF r
<1>2. CASE Kind(ts, p) # "Star"
    <2>1. r = IF columns.ok
              THEN Parsed([all |-> FALSE, columns |-> columns.tree], columns.behind)
              ELSE columns
        BY <1>2 DEF ParseSelectList, Then
    <2>2. Goes(ts, p, columns) /\ Stays(ts, p, columns)
        <3>1. PICK m : m = p - 1
            OBVIOUS
        <3>2. Alike(ts, ts, m) /\ p \in 1 .. m + 1
            BY <3>1 DEF Alike, IsScan
        <3>3. QED BY <3>2, ColumnsTrack
    <2> HIDE DEF r, columns
    <2>3. columns.ok => r.ok /\ r.behind = columns.behind
        BY <2>1 DEF Parsed
    <2>4. QED BY <2>1, <2>2, <2>3, GoesReaches DEF Stays, r
<1>3. QED BY <1>1, <1>2

LEMMA SelectListTracks ==
    ASSUME NEW ts, NEW us, NEW m, Alike(ts, us, m), NEW p \in 1 .. m + 1
    PROVE  Tracks(us, m, NameStop(us, m), ParseSelectList(ts, p), ParseSelectList(us, p))
<1> DEFINE r == ParseSelectList(ts, p)
           s == ParseSelectList(us, p)
           columns == ParseColumns(ts, p)
           columnsU == ParseColumns(us, p)
           stop == NameStop(us, m)
           some == IF columns.ok
                   THEN Parsed([all |-> FALSE, columns |-> columns.tree], columns.behind)
                   ELSE columns
           someU == IF columnsU.ok
                    THEN Parsed([all |-> FALSE, columns |-> columnsU.tree], columnsU.behind)
                    ELSE columnsU
<1>1. m \in Nat /\ IsScan(ts) /\ p \in 1 .. Len(ts)
    BY DEF Alike, IsScan
<1>2. /\ Kind(ts, p) = "Star" => r = Parsed([all |-> TRUE, columns |-> << >>], p + 1)
      /\ Kind(us, p) = "Star" => s = Parsed([all |-> TRUE, columns |-> << >>], p + 1)
      /\ Kind(ts, p) # "Star" => r = some
      /\ Kind(us, p) # "Star" => s = someU
    BY DEF ParseSelectList, Then
<1>3. /\ Tracks(us, m, stop, columns, columnsU)
      /\ Goes(ts, p, columns) /\ Stays(ts, p, columns)
    BY ColumnsTrack
<1> HIDE DEF r, s, columns, columnsU
<1>4. Tracks(us, m, stop, some, someU)
    <2>1. columns.ok => some.ok /\ some.behind = columns.behind
        BY DEF Parsed
    <2>2. columnsU.ok => someU.ok /\ someU.behind = columnsU.behind
        BY DEF Parsed
    <2>3. ~columns.ok => some = columns
        OBVIOUS
    <2>4. columnsU = columns => someU = some
        OBVIOUS
    <2> HIDE DEF some, someU, stop
    <2>5. QED BY <1>3, <2>1, <2>2, <2>3, <2>4, WrapTracks
<1>5. CASE Kind(ts, p) = "Star"
    <2>1. r.ok /\ r.behind = p + 1
        BY <1>2, <1>5 DEF Parsed
    <2>2. Settled(us, m, r) => s = r
        <3>1. Settled(us, m, r) => p \in 1 .. m
            BY <1>1, <2>1 DEF Settled
        <3>2. QED BY <1>2, <1>5, <3>1, SameToken
    <2>3. Tracks(us, m, stop, r, s)
        BY <2>1, <2>2 DEF Tracks
    <2>4. QED BY <2>3 DEF r, s
<1>6. CASE Kind(ts, p) # "Star" /\ Kind(us, p) # "Star"
    BY <1>2, <1>4, <1>6 DEF r, s
<1>7. CASE Kind(ts, p) # "Star" /\ Kind(us, p) = "Star"
    <2>1. p = m + 1
        <3>1. p # m + 1 => p \in 1 .. m
            BY <1>1
        <3>2. QED BY <1>7, <3>1, SameToken
    <2>2. stop = 0
        BY <1>1, <1>7, <2>1, NameStopIs
    <2>3. ~Settled(us, m, columns)
        <3>1. columns.ok => ~(columns.behind <= m) /\ columns.behind # m + 1
            BY <1>1, <1>3, <2>1 DEF Goes
        <3>2. ~columns.ok => ~(columns.at <= m)
            BY <1>1, <1>3, <2>1 DEF Stays
        <3>3. QED BY <3>1, <3>2 DEF Settled
    <2>4. (some.ok <=> columns.ok) /\ (columns.ok => some.behind = columns.behind)
          /\ (~columns.ok => some = columns)
        BY DEF Parsed
    <2> HIDE DEF some, stop
    <2>5. ~Settled(us, m, some)
        BY <2>3, <2>4 DEF Settled
    <2>6. Tracks(us, m, stop, some, s)
        BY <2>2, <2>5 DEF Tracks
    <2>7. QED BY <1>2, <1>7, <2>6 DEF r, s, stop
<1>8. QED BY <1>5, <1>6, <1>7

(* The last of these is how lists end.                                     *)
LEMMA LoopEnds ==
    ASSUME NEW ts, IsScan(ts), NEW p \in 1 .. Len(ts), NEW items, ItemsGo(ts, items, p),
           NEW ends, \A q \in p .. Len(ts) :
                         items[q].ok => Kind(ts, items[q].behind - 1) \in ends,
           NEW separator \in Separators, NEW list, IsLoop(list, ts, separator, items, p)
    PROVE  \A q \in p .. Len(ts) : list[q].ok => Kind(ts, list[q].behind - 1) \in ends
<1> DEFINE n == Len(ts)
           good == {q \in p .. n : list[q].ok => Kind(ts, list[q].behind - 1) \in ends}
<1>1. n \in Nat /\ p \in 1 .. n
    BY DEF IsScan
<1>2. ASSUME NEW q \in p .. n, \A r \in q + 1 .. n : r \in good
      PROVE  q \in good
    <2> DEFINE item == items[q]
    <2>1. /\ Goes(ts, q, item) /\ q \in 1 .. Len(ts)
          /\ item.ok => Kind(ts, item.behind - 1) \in ends
          /\ list[q] = ListFrom(ts, separator, item, list)
        BY <1>1 DEF ItemsGo, IsLoop
    <2> HIDE DEF item
    <2>2. CASE ~item.ok
        <3>1. list[q] = item
            BY <2>1, <2>2, ListFails
        <3>2. QED BY <2>2, <3>1
    <2>3. CASE item.ok /\ Kind(ts, item.behind) # separator
        <3>1. list[q] = Parsed(<<item.tree>>, item.behind)
            BY <2>1, <2>3, ListEnds
        <3>2. list[q].ok /\ list[q].behind = item.behind
            BY <3>1 DEF Parsed
        <3>3. QED BY <2>1, <2>3, <3>2
    <2>4. CASE item.ok /\ Kind(ts, item.behind) = separator
        <3> DEFINE rest == list[item.behind + 1]
        <3>1. PICK k : k = item.behind + 1
            OBVIOUS
        <3>2. k \in q + 1 .. n
            BY <2>1, <2>4, <3>1, AfterSeparator
        <3>3. list[q] = IF rest.ok THEN Parsed(<<item.tree>> \o rest.tree, rest.behind) ELSE rest
            BY <2>1, <2>4, ListGoesOn
        <3>4. rest.ok => Kind(ts, rest.behind - 1) \in ends
            BY <1>2, <3>1, <3>2
        <3> HIDE DEF rest
        <3>5. CASE ~rest.ok
            <4>1. list[q] = rest
                BY <3>3, <3>5
            <4>2. QED BY <3>5, <4>1
        <3>6. CASE rest.ok
            <4>1. list[q] = Parsed(<<item.tree>> \o rest.tree, rest.behind)
                BY <3>3, <3>6
            <4>2. list[q].behind = rest.behind
                BY <4>1 DEF Parsed
            <4>3. QED BY <3>4, <3>6, <4>2
        <3>7. QED BY <3>5, <3>6
    <2>5. QED BY <2>2, <2>3, <2>4
<1> HIDE DEF good
<1>3. p \in Int /\ n \in Int
    BY <1>1
<1>4. \A q \in p .. n : q \in good
    BY <1>2, <1>3, BackwardInduction, Zenon
<1>5. QED BY <1>4 DEF good

(* The definition of a column.                                             *)
LEMMA DefinitionCases ==
    ASSUME NEW ts, NEW p, NEW q, q = p + 1
    PROVE  LET r == ParseColumnDefinition(ts, p)
           IN  /\ Kind(ts, p) # "Identifier" => r = Error(p)
               /\ Kind(ts, p) = "Identifier" /\ Kind(ts, q) \notin {"Int", "Text"} => r = Error(q)
               /\ Kind(ts, p) = "Identifier" /\ Kind(ts, q) \in {"Int", "Text"} =>
                     r = Parsed(ColumnDefinition(ts[p].lexeme, Kind(ts, q)), q + 1)
BY DEF ParseColumnDefinition, ParseColumnType, Expect, Then, Parsed, Error

LEMMA DefinitionStays ==
    ASSUME NEW ts, IsScan(ts), NEW p \in 1 .. Len(ts)
    PROVE  LET r == ParseColumnDefinition(ts, p)
           IN  /\ Stays(ts, p, r)
               /\ r.ok => Kind(ts, r.behind - 1) \in {"Int", "Text"}
<1> DEFINE r == ParseColumnDefinition(ts, p)
<1>1. PICK q : q = p + 1
    OBVIOUS
<1>2. CASE Kind(ts, p) # "Identifier"
    <2>1. r = Error(p)
        BY <1>1, <1>2, DefinitionCases
    <2> HIDE DEF r
    <2>2. Stays(ts, p, r) /\ ~r.ok
        BY <2>1, ErrorStays
    <2>3. QED BY <2>2 DEF r
<1>3. CASE Kind(ts, p) = "Identifier"
    <2>1. q \in 1 .. Len(ts) /\ Depth(ts, q) = Depth(ts, p)
        BY <1>1, <1>3, StepsOver
    <2>2. q \in p .. Len(ts)
        BY <1>1, <2>1
    <2>3. Depth(ts, q) >= Depth(ts, p)
        BY <2>1, <2>2, DepthOver
    <2>4. r = Error(q) \/ \E tree : Kind(ts, q) \in {"Int", "Text"} /\ r = Parsed(tree, q + 1)
        BY <1>1, <1>3, DefinitionCases
    <2> HIDE DEF r
    <2>5. Stays(ts, q, r)
        BY <2>1, <2>4, ErrorStays, TokenStays DEF Lasts
    <2>6. r.ok => Kind(ts, q) \in {"Int", "Text"} /\ r.behind = q + 1 /\ q + 1 - 1 = q
        BY <2>1, <2>4, ErrorStays DEF Parsed
    <2>7. Stays(ts, p, r)
        BY <2>2, <2>3, <2>5, StaysFarther
    <2>8. r.ok => Kind(ts, r.behind - 1) \in {"Int", "Text"}
        <3>1. r.ok => r.behind - 1 = q
            BY <2>1, <2>6
        <3>2. QED BY <2>6, <3>1
    <2>9. QED BY <2>7, <2>8 DEF r
<1>4. QED BY <1>2, <1>3

(* What us has behind the first m tokens: a type, or a name and a type, if *)
(* there is none yet, and a parenthesis.                                   *)
EndOfDefinition(ts, m) ==
    IF Kind(ts, m) \in {"Int", "Text"} THEN m + 1
    ELSE IF Kind(ts, m) = "Identifier" THEN m + 2 ELSE m + 3
EndsDefinition(ts, us, m) ==
    /\ Kind(us, EndOfDefinition(ts, m)) = "RParen"
    /\ Kind(ts, m) = "Identifier" => Kind(us, m + 1) = "Int"
    /\ Kind(ts, m) \notin {"Identifier", "Int", "Text"} =>
          Kind(us, m + 1) = "Identifier" /\ Kind(us, m + 2) = "Int"
DefinitionStop(ts, us, m) == IF EndsDefinition(ts, us, m) THEN EndOfDefinition(ts, m) ELSE 0
DefinitionStops(ts, us, m) ==
    [q \in 1 .. m + 1 |-> IF Kind(ts, q - 1) \in Lasts THEN 0 ELSE DefinitionStop(ts, us, m)]

LEMMA DefinitionStopIs ==
    ASSUME NEW ts, NEW us, NEW m \in Nat, NEW q \in 1 .. m + 1,
           NEW stop, stop = DefinitionStops(ts, us, m)[q], stop # 0
    PROVE  /\ Kind(ts, q - 1) \notin Lasts
           /\ EndsDefinition(ts, us, m) /\ stop = EndOfDefinition(ts, m)
<1>1. stop = IF Kind(ts, q - 1) \in Lasts THEN 0 ELSE DefinitionStop(ts, us, m)
    BY DEF DefinitionStops
<1>2. QED BY <1>1 DEF DefinitionStop

LEMMA DefinitionStopsAgree ==
    ASSUME NEW ts, NEW us, NEW m \in Nat
    PROVE  StopsAgree(ts, us, m, DefinitionStops(ts, us, m))
<1> DEFINE stops == DefinitionStops(ts, us, m)
<1>1. ASSUME NEW q \in 1 .. m + 1, stops[q] # 0
      PROVE  Kind(us, stops[q]) \notin Continuing
    <2>1. EndsDefinition(ts, us, m) /\ stops[q] = EndOfDefinition(ts, m)
        BY <1>1, DefinitionStopIs
    <2>2. Kind(us, stops[q]) = "RParen"
        BY <2>1 DEF EndsDefinition
    <2>3. QED BY <2>2 DEF Continuing, ComparisonOperators, OrderingOperators
<1>2. ASSUME NEW q \in 1 .. m + 1, NEW k \in 1 .. m + 1, stops[q] # 0, Kind(ts, k - 1) \notin Lasts
      PROVE  stops[k] = stops[q]
    BY <1>2 DEF DefinitionStops
<1> HIDE DEF stops
<1>3. QED BY <1>1, <1>2 DEF StopsAgree, stops

LEMMA DefinitionTracks ==
    ASSUME NEW ts, NEW us, NEW m, Alike(ts, us, m), NEW p \in 1 .. m + 1
    PROVE  Tracks(us, m, DefinitionStops(ts, us, m)[p],
                  ParseColumnDefinition(ts, p), ParseColumnDefinition(us, p))
<1> DEFINE r == ParseColumnDefinition(ts, p)
           s == ParseColumnDefinition(us, p)
<1>1. m \in Nat /\ IsScan(ts) /\ p \in 1 .. Len(ts)
    BY DEF Alike, IsScan
<1>2. PICK q : q = p + 1
    OBVIOUS
<1>3. PICK stop : stop = DefinitionStops(ts, us, m)[p]
    OBVIOUS
<1>4. stop # 0 => /\ Kind(ts, p - 1) \notin Lasts
                  /\ EndsDefinition(ts, us, m) /\ stop = EndOfDefinition(ts, m)
    BY <1>1, <1>3, DefinitionStopIs
<1>5. CASE p = m + 1
    <2>1. ASSUME stop # 0
          PROVE  s.ok /\ s.behind = stop
        <3>1. p - 1 = m /\ q = m + 2 /\ q + 1 = m + 3
            BY <1>1, <1>2, <1>5
        <3>2. Kind(ts, m) \notin {"Identifier", "Int", "Text"}
            BY <1>4, <2>1, <3>1 DEF Lasts
        <3>3. Kind(us, p) = "Identifier" /\ Kind(us, q) = "Int" /\ stop = q + 1
            BY <1>4, <1>5, <2>1, <3>1, <3>2 DEF EndsDefinition, EndOfDefinition
        <3>4. s = Parsed(ColumnDefinition(us[p].lexeme, Kind(us, q)), stop)
            BY <1>2, <3>3, DefinitionCases
        <3>5. QED BY <3>4 DEF Parsed
    <2>2. Goes(ts, p, r) /\ Stays(ts, p, r)
        BY <1>1, ColumnDefinitionGoes, DefinitionStays
    <2> HIDE DEF r, s
    <2>3. Tracks(us, m, stop, r, s)
        BY <1>5, <2>1, <2>2, FirstDiffers
    <2>4. QED BY <1>3, <2>3 DEF r, s
<1>6. CASE p # m + 1
    <2>1. p \in 1 .. m /\ q \in 1 .. m + 1
        BY <1>1, <1>2, <1>6
    <2>2. us[p] = ts[p] /\ Kind(us, p) = Kind(ts, p)
        BY <2>1, SameToken
    <2>3. CASE Kind(ts, p) # "Identifier"
        <3>1. r = Error(p) /\ s = Error(p)
            BY <1>2, <2>2, <2>3, DefinitionCases
        <3>2. Error(p).at = p
            BY DEF Error
        <3>3. QED BY <1>6, <3>1, <3>2, OneResultTracks
    <2>4. CASE Kind(ts, p) = "Identifier" /\ q <= m
        <3>1. Kind(us, q) = Kind(ts, q)
            <4>1. q \in 1 .. m
                BY <2>1, <2>4
            <4>2. QED BY <4>1, SameToken
        <3>2. s = r
            <4>1. CASE Kind(ts, q) \in {"Int", "Text"}
                BY <1>2, <2>2, <2>4, <3>1, <4>1, DefinitionCases
            <4>2. CASE Kind(ts, q) \notin {"Int", "Text"}
                BY <1>2, <2>2, <2>4, <3>1, <4>2, DefinitionCases
            <4>3. QED BY <4>1, <4>2
        <3>3. r = Error(q) \/ r.ok
            <4>1. r = Error(q) \/ \E tree : r = Parsed(tree, q + 1)
                BY <1>2, <2>4, DefinitionCases
            <4> HIDE DEF r
            <4>2. QED BY <4>1 DEF Parsed
        <3> HIDE DEF r, s
        <3>4. r.ok \/ r.at # m + 1
            <4>1. Error(q).at = q /\ q # m + 1
                BY <1>1, <2>1, <2>4 DEF Error
            <4>2. QED BY <3>3, <4>1
        <3>5. Tracks(us, m, stop, r, r)
            BY <3>4, OneResultTracks
        <3>6. QED BY <1>3, <3>2, <3>5 DEF r, s
    <2>5. CASE Kind(ts, p) = "Identifier" /\ ~(q <= m)
        <3>1. q = m + 1 /\ p = m
            BY <1>1, <1>2, <2>1, <2>5
        <3>2. /\ r = Error(q) \/ \E tree : r = Parsed(tree, q + 1)
              /\ Kind(us, q) = "Int" =>
                    s = Parsed(ColumnDefinition(us[p].lexeme, Kind(us, q)), q + 1)
            BY <1>2, <2>2, <2>5, DefinitionCases
        <3> HIDE DEF r, s
        <3>3. ~Settled(us, m, r)
            <4>1. r.ok => r.behind = m + 2
                <5>1. ~Error(q).ok /\ q + 1 = m + 2
                    BY <1>1, <3>1 DEF Error
                <5>2. QED BY <3>2, <5>1 DEF Parsed
            <4>2. ~r.ok => r.at = m + 1
                <5>1. \A tree : Parsed(tree, q + 1).ok
                    BY DEF Parsed
                <5>2. QED BY <3>1, <3>2, <5>1 DEF Error
            <4>3. ~(m + 2 <= m) /\ m + 2 # m + 1 /\ ~(m + 1 <= m)
                BY <1>1
            <4>4. QED BY <4>1, <4>2, <4>3 DEF Settled
        <3>4. ASSUME stop # 0
              PROVE  s.ok /\ s.behind = stop
            <4>1. Kind(us, q) = "Int" /\ stop = q + 1
                <5>1. Kind(us, m + 1) = "Int" /\ stop = m + 2
                    BY <1>4, <2>5, <3>1, <3>4 DEF EndsDefinition, EndOfDefinition
                <5>2. m + 2 = q + 1
                    BY <1>1, <3>1
                <5>3. QED BY <3>1, <5>1, <5>2
            <4>2. QED BY <3>2, <4>1 DEF Parsed
        <3>5. Tracks(us, m, stop, r, s)
            BY <3>3, <3>4 DEF Tracks
        <3>6. QED BY <1>3, <3>5 DEF r, s
    <2>6. QED BY <2>3, <2>4, <2>5
<1>7. QED BY <1>5, <1>6

(* Lists in parentheses.                                                   *)
LEMMA CloseIs ==
    ASSUME NEW ts, NEW inner
    PROVE  /\ ~inner.ok => WithClose(ts, inner) = inner
           /\ inner.ok /\ Kind(ts, inner.behind) = "RParen" =>
                 WithClose(ts, inner) = Parsed(inner.tree, inner.behind + 1)
           /\ inner.ok /\ Kind(ts, inner.behind) # "RParen" =>
                 WithClose(ts, inner) = Error(inner.behind)
<1> DEFINE q == inner.behind
           close == Expect(ts, q, "RParen")
<1>1. WithClose(ts, inner) =
          IF inner.ok THEN IF close.ok THEN Parsed(inner.tree, close.behind) ELSE close ELSE inner
    BY DEF WithClose
<1>2. /\ Kind(ts, q) = "RParen" => close = Parsed(ts[q].lexeme, q + 1)
      /\ Kind(ts, q) # "RParen" => close = Error(q)
    BY DEF Expect
<1> HIDE DEF q, close
<1>3. /\ Kind(ts, q) = "RParen" => close.ok /\ close.behind = q + 1
      /\ Kind(ts, q) # "RParen" => ~close.ok
    BY <1>2 DEF Parsed, Error
<1>4. QED BY <1>1, <1>2, <1>3 DEF q

LEMMA CloseTracks ==
    ASSUME NEW ts, NEW us, NEW m, Alike(ts, us, m), NEW stop, NEW stopIn,
           NEW inner, NEW innerU, Tracks(us, m, stopIn, inner, innerU),
           inner.ok => inner.behind \in 1 .. Len(ts),
           ~inner.ok /\ inner.at = m + 1 /\ stop # 0 =>
               stopIn # 0 /\ Kind(us, stopIn) = "RParen" /\ stop = stopIn + 1,
           inner.ok /\ inner.behind = m + 1 /\ stop # 0 =>
               Kind(us, m + 1) = "RParen" /\ stop = m + 2
    PROVE  Tracks(us, m, stop, WithClose(ts, inner), WithClose(us, innerU))
<1> DEFINE r == WithClose(ts, inner)
           s == WithClose(us, innerU)
<1>1. m \in Nat /\ Len(ts) \in Nat
    BY DEF Alike, IsScan
<1>2. CASE ~inner.ok
    <2>1. r = inner
        BY <1>2, CloseIs
    <2>2. Settled(us, m, inner) => s = inner
        BY <1>2, CloseIs DEF Tracks
    <2>3. ASSUME inner.at = m + 1, stop # 0
          PROVE  s.ok /\ s.behind = stop
        <3>1. innerU.ok /\ Kind(us, innerU.behind) = "RParen" /\ innerU.behind + 1 = stop
            BY <1>2, <2>3 DEF Tracks
        <3>2. s = Parsed(innerU.tree, stop)
            BY <3>1, CloseIs
        <3>3. QED BY <3>2 DEF Parsed
    <2> HIDE DEF r, s
    <2>4. Tracks(us, m, stop, r, s)
        BY <1>2, <2>1, <2>2, <2>3 DEF Tracks
    <2>5. QED BY <2>4 DEF r, s
<1>3. CASE inner.ok
    <2>1. PICK q : q = inner.behind
        OBVIOUS
    <2>2. q \in 1 .. Len(ts)
        BY <1>3, <2>1
    <2>3. q <= m => innerU = inner /\ Kind(us, q) = Kind(ts, q)
        <3>1. q <= m => Settled(us, m, inner) /\ q \in 1 .. m
            BY <1>3, <2>1, <2>2 DEF Settled
        <3>2. QED BY <3>1, SameToken DEF Tracks
    <2>4. q <= m => s = r
        <3>1. CASE Kind(ts, q) = "RParen"
            BY <1>3, <2>1, <2>3, <3>1, CloseIs
        <3>2. CASE Kind(ts, q) # "RParen"
            BY <1>3, <2>1, <2>3, <3>2, CloseIs
        <3>3. QED BY <3>1, <3>2
    <2>5. CASE Kind(ts, q) = "RParen"
        <3>1. r = Parsed(inner.tree, q + 1)
            BY <1>3, <2>1, <2>5, CloseIs
        <3> HIDE DEF r, s
        <3>2. r.ok /\ r.behind = q + 1
            BY <3>1 DEF Parsed
        <3>3. Settled(us, m, r) => q <= m
            BY <1>1, <2>2, <3>2 DEF Settled
        <3>4. Tracks(us, m, stop, r, s)
            BY <2>4, <3>2, <3>3 DEF Tracks
        <3>5. QED BY <3>4 DEF r, s
    <2>6. CASE Kind(ts, q) # "RParen"
        <3>1. r = Error(q)
            BY <1>3, <2>1, <2>6, CloseIs
        <3>2. ASSUME q = m + 1, stop # 0
              PROVE  s.ok /\ s.behind = stop
            <4>1. Kind(us, q) = "RParen" /\ q + 1 = stop
                BY <1>1, <1>3, <2>1, <3>2
            <4>2. "RParen" \notin Continuing
                BY DEF Continuing, ComparisonOperators, OrderingOperators
            <4>3. Settled(us, m, inner)
                BY <1>3, <2>1, <3>2, <4>1, <4>2 DEF Settled
            <4>4. innerU = inner
                BY <4>3 DEF Tracks
            <4>5. s = Parsed(inner.tree, stop)
                BY <1>3, <2>1, <4>1, <4>4, CloseIs
            <4>6. QED BY <4>5 DEF Parsed
        <3> HIDE DEF r, s
        <3>3. ~r.ok /\ r.at = q
            BY <3>1 DEF Error
        <3>4. Tracks(us, m, stop, r, s)
            BY <2>4, <3>2, <3>3 DEF Tracks, Settled
        <3>5. QED BY <3>4 DEF r, s
    <2>7. QED BY <2>5, <2>6
<1>4. QED BY <1>2, <1>3

LEMMA NoList ==
    ASSUME NEW ts, NEW p, Kind(ts, p) # "LParen"
    PROVE  /\ ParseDefinitions(ts, p) = Error(p)
           /\ ParseValues(ts, p) = Error(p)
BY DEF ParseDefinitions, ParseValues, ParseInParens, Expect, Then, Error

(* A loop in parentheses: where its call ends or fails.                    *)
LEMMA CloseStays ==
    ASSUME NEW ts, IsScan(ts), NEW p \in 1 .. Len(ts), NEW k \in 1 .. Len(ts), k = p + 1,
           Kind(ts, p) = "LParen",
           NEW inner, Goes(ts, k, inner), Stays(ts, k, inner)
    PROVE  LET r == WithClose(ts, inner)
           IN  /\ r.ok => Reached(ts, p, r.behind)
               /\ ~r.ok => r.at \in p .. Len(ts)
<1> DEFINE r == WithClose(ts, inner)
<1>1. Len(ts) \in Nat
    BY DEF IsScan
<1>2. CASE ~inner.ok
    <2>1. r = inner
        BY <1>2, CloseIs
    <2>2. inner.at \in k .. Len(ts)
        BY <1>2 DEF Stays
    <2> HIDE DEF r
    <2>3. inner.at \in p .. Len(ts)
        BY <1>1, <2>2
    <2>4. QED BY <1>2, <2>1, <2>3 DEF r
<1>3. CASE inner.ok
    <2>1. PICK q : q = inner.behind
        OBVIOUS
    <2>2. Reached(ts, k, q)
        BY <1>3, <2>1, GoesReaches
    <2>3. q \in k + 1 .. Len(ts)
        BY <2>2 DEF Reached
    <2>4. q \in p .. Len(ts)
        BY <1>1, <2>3
    <2>5. CASE Kind(ts, q) = "RParen"
        <3>1. r = Parsed(inner.tree, q + 1)
            BY <1>3, <2>1, <2>5, CloseIs
        <3> HIDE DEF r
        <3>2. r.ok /\ r.behind = q + 1
            BY <3>1 DEF Parsed
        <3>3. Reached(ts, p, q + 1)
            BY <2>2, <2>5, InParensReach
        <3>4. QED BY <3>2, <3>3 DEF r
    <2>6. CASE Kind(ts, q) # "RParen"
        <3>1. r = Error(q)
            BY <1>3, <2>1, <2>6, CloseIs
        <3> HIDE DEF r
        <3>2. ~r.ok /\ r.at = q
            BY <3>1 DEF Error
        <3>3. QED BY <2>4, <3>2 DEF r
    <2>7. QED BY <2>5, <2>6
<1>4. QED BY <1>2, <1>3

(* The loop of the definitions of columns, with what is known of it.       *)
LEMMA DefinitionsInside ==
    ASSUME NEW ts, IsScan(ts), NEW p \in 1 .. Len(ts), Kind(ts, p) = "LParen", NEW k, k = p + 1
    PROVE  LET items == [q \in k .. Len(ts) |-> ParseColumnDefinition(ts, q)]
           IN  /\ k \in 1 .. Len(ts) /\ ItemsGo(ts, items, k) /\ ItemsStay(ts, items, k)
               /\ \E list : /\ IsLoop(list, ts, "Comma", items, k)
                            /\ ParseDefinitions(ts, p) = WithClose(ts, list[k])
                            /\ Goes(ts, k, list[k]) /\ Stays(ts, k, list[k])
                            /\ list[k].ok => Kind(ts, list[k].behind - 1) \in {"Int", "Text"}
<1> DEFINE items == [q \in k .. Len(ts) |-> ParseColumnDefinition(ts, q)]
<1>1. k \in 1 .. Len(ts) /\ ItemsGo(ts, items, k) /\ "Comma" \in Separators
    BY DefinitionsLoop DEF Separators
<1>2. PICK list : IsLoop(list, ts, "Comma", items, k) /\ ParseDefinitions(ts, p) = WithClose(ts, list[k])
    BY DefinitionsLoop
<1>3. \A q \in k .. Len(ts) : q \in 1 .. Len(ts)
    BY <1>1
<1>4. \A q \in k .. Len(ts) : /\ Stays(ts, q, items[q])
                              /\ items[q].ok => Kind(ts, items[q].behind - 1) \in {"Int", "Text"}
    BY <1>3, DefinitionStays
<1>5. ItemsStay(ts, items, k)
    BY <1>4 DEF ItemsStay
<1> HIDE DEF items
<1>6. k \in k .. Len(ts)
    BY <1>1
<1>7. /\ Goes(ts, k, list[k]) /\ Stays(ts, k, list[k])
      /\ list[k].ok => Kind(ts, list[k].behind - 1) \in {"Int", "Text"}
    BY <1>1, <1>2, <1>4, <1>5, <1>6, LoopGoes, LoopStays, LoopEnds
<1>8. QED BY <1>1, <1>2, <1>5, <1>7 DEF items

LEMMA DefinitionsStay ==
    ASSUME NEW ts, IsScan(ts), NEW p \in 1 .. Len(ts)
    PROVE  LET r == ParseDefinitions(ts, p)
           IN  /\ r.ok => Reached(ts, p, r.behind)
               /\ ~r.ok => r.at \in p .. Len(ts)
<1> DEFINE r == ParseDefinitions(ts, p)
<1>1. CASE Kind(ts, p) # "LParen"
    <2>1. r = Error(p)
        BY <1>1, NoList
    <2> HIDE DEF r
    <2>2. ~r.ok /\ r.at = p
        BY <2>1 DEF Error
    <2>3. QED BY <2>2 DEF r
<1>2. CASE Kind(ts, p) = "LParen"
    <2>1. PICK k : k = p + 1
        OBVIOUS
    <2>2. PICK inner : /\ k \in 1 .. Len(ts) /\ r = WithClose(ts, inner)
                       /\ Goes(ts, k, inner) /\ Stays(ts, k, inner)
        BY <1>2, <2>1, DefinitionsInside
    <2>3. QED BY <1>2, <2>1, <2>2, CloseStays
<1>3. QED BY <1>1, <1>2

(* The shortest lists in parentheses.                                      *)
LEMMA ShortDefinitions ==
    ASSUME NEW ts, IsScan(ts), NEW p \in 1 .. Len(ts), Kind(ts, p) = "LParen",
           Kind(ts, p + 1) = "Identifier", Kind(ts, p + 2) = "Int", Kind(ts, p + 3) = "RParen"
    PROVE  ParseDefinitions(ts, p).ok /\ ParseDefinitions(ts, p).behind = p + 4
<1>1. PICK k, q, e : k = p + 1 /\ q = p + 2 /\ e = p + 3
    OBVIOUS
<1>2. q = k + 1 /\ e = q + 1 /\ p + 4 = e + 1
    BY <1>1
<1> DEFINE items == [i \in k .. Len(ts) |-> ParseColumnDefinition(ts, i)]
<1>3. k \in 1 .. Len(ts)
    BY <1>1, DefinitionsLoop
<1>4. PICK list : /\ IsLoop(list, ts, "Comma", items, k)
                  /\ ParseDefinitions(ts, p) = WithClose(ts, list[k])
    BY <1>1, DefinitionsLoop
<1>5. list[k] = ListFrom(ts, "Comma", ParseColumnDefinition(ts, k), list)
    BY <1>3, <1>4 DEF IsLoop
<1>6. ParseColumnDefinition(ts, k) = Parsed(ColumnDefinition(ts[k].lexeme, Kind(ts, q)), e)
    BY <1>1, <1>2, DefinitionCases
<1> DEFINE item == ParseColumnDefinition(ts, k)
<1> HIDE DEF item
<1>7. item.ok /\ item.behind = e
    BY <1>6 DEF item, Parsed
<1>8. list[k] = Parsed(<<item.tree>>, e)
    BY <1>1, <1>5, <1>7, ListEnds DEF item
<1>9. list[k].ok /\ list[k].behind = e
    BY <1>8 DEF Parsed
<1>10. ParseDefinitions(ts, p) = Parsed(list[k].tree, p + 4)
    BY <1>1, <1>2, <1>4, <1>9, CloseIs
<1>11. QED BY <1>10 DEF Parsed

LEMMA ShortValues ==
    ASSUME NEW ts, IsScan(ts), NEW p \in 1 .. Len(ts), Kind(ts, p) = "LParen",
           Kind(ts, p + 1) = "Identifier", Kind(ts, p + 2) = "RParen"
    PROVE  ParseValues(ts, p).ok /\ ParseValues(ts, p).behind = p + 3
<1>1. PICK k, e : k = p + 1 /\ e = p + 2
    OBVIOUS
<1>2. e = k + 1 /\ p + 3 = e + 1
    BY <1>1
<1> DEFINE items == [i \in k .. Len(ts) |-> ParsePrimary(ts, Expressions(ts), i)]
<1>3. k \in 1 .. Len(ts)
    BY <1>1, ValuesLoop
<1>4. PICK list : /\ IsLoop(list, ts, "Comma", items, k)
                  /\ ParseValues(ts, p) = WithClose(ts, list[k])
    BY <1>1, ValuesLoop
<1>5. list[k] = ListFrom(ts, "Comma", ParsePrimary(ts, Expressions(ts), k), list)
    BY <1>3, <1>4 DEF IsLoop
<1>6. ParsePrimary(ts, Expressions(ts), k) = Parsed(ColumnExpr(ts[k].lexeme), e)
    BY <1>1, <1>2 DEF ParsePrimary, ParseColumnReference, Expect, Then, Parsed
<1> DEFINE item == ParsePrimary(ts, Expressions(ts), k)
<1> HIDE DEF item
<1>7. item.ok /\ item.behind = e
    BY <1>6 DEF item, Parsed
<1>8. list[k] = Parsed(<<item.tree>>, e)
    BY <1>1, <1>5, <1>7, ListEnds DEF item
<1>9. list[k].ok /\ list[k].behind = e
    BY <1>8 DEF Parsed
<1>10. ParseValues(ts, p) = Parsed(list[k].tree, p + 3)
    BY <1>1, <1>2, <1>4, <1>9, CloseIs
<1>11. QED BY <1>10 DEF Parsed

(* The columns of a CREATE TABLE.                                          *)
DefinitionsEnd(ts, us, m, p) ==
    IF p = m + 1
    THEN /\ Kind(us, p) = "LParen" /\ Kind(us, p + 1) = "Identifier"
         /\ Kind(us, p + 2) = "Int" /\ Kind(us, p + 3) = "RParen"
    ELSE EndsDefinition(ts, us, m)
BehindDefinitions(ts, m, p) == IF p = m + 1 THEN p + 4 ELSE EndOfDefinition(ts, m) + 1

LEMMA DefinitionsTrack ==
    ASSUME NEW ts, NEW us, NEW m, Alike(ts, us, m), NEW p \in 1 .. m + 1,
           NEW stop, stop # 0 => DefinitionsEnd(ts, us, m, p) /\ stop = BehindDefinitions(ts, m, p)
    PROVE  Tracks(us, m, stop, ParseDefinitions(ts, p), ParseDefinitions(us, p))
<1> DEFINE r == ParseDefinitions(ts, p)
           s == ParseDefinitions(us, p)
<1>1. /\ m \in Nat /\ IsScan(ts) /\ IsScan(us) /\ p \in 1 .. Len(ts) /\ p \in 1 .. Len(us)
      /\ Len(ts) \in Nat
    BY DEF Alike, IsScan
<1>2. CASE p = m + 1
    <2>1. ~Settled(us, m, r)
        <3>1. /\ r.ok => r.behind \in p + 1 .. Len(ts)
              /\ ~r.ok => r.at \in p .. Len(ts)
            BY <1>1, DefinitionsStay DEF Reached
        <3> HIDE DEF r
        <3>2. /\ r.ok => ~(r.behind <= m) /\ r.behind # m + 1
              /\ ~r.ok => ~(r.at <= m)
            BY <1>1, <1>2, <3>1
        <3>3. QED BY <3>2 DEF Settled
    <2>2. stop # 0 => s.ok /\ s.behind = stop
        BY <1>1, <1>2, ShortDefinitions DEF DefinitionsEnd, BehindDefinitions
    <2> HIDE DEF r, s
    <2>3. Tracks(us, m, stop, r, s)
        BY <2>1, <2>2 DEF Tracks
    <2>4. QED BY <2>3 DEF r, s
<1>3. CASE p # m + 1
    <2>1. p \in 1 .. m
        BY <1>1, <1>3
    <2>2. Kind(us, p) = Kind(ts, p)
        BY <2>1, SameToken
    <2>3. CASE Kind(ts, p) # "LParen"
        <3>1. r = Error(p) /\ s = Error(p)
            BY <2>2, <2>3, NoList
        <3>2. Error(p).at = p
            BY DEF Error
        <3>3. QED BY <1>3, <3>1, <3>2, OneResultTracks
    <2>4. CASE Kind(ts, p) = "LParen"
        <3>1. PICK k : k = p + 1
            OBVIOUS
        <3> DEFINE items == [q \in k .. Len(ts) |-> ParseColumnDefinition(ts, q)]
                   itemsU == [q \in k .. Len(us) |-> ParseColumnDefinition(us, q)]
                   stops == DefinitionStops(ts, us, m)
        <3>2. /\ k \in 1 .. Len(ts) /\ k \in 1 .. Len(us)
              /\ ItemsGo(ts, items, k) /\ ItemsStay(ts, items, k)
            BY <1>1, <2>2, <2>4, <3>1, DefinitionsInside
        <3>3. PICK list : /\ IsLoop(list, ts, "Comma", items, k) /\ r = WithClose(ts, list[k])
                          /\ Goes(ts, k, list[k])
                          /\ list[k].ok => Kind(ts, list[k].behind - 1) \in {"Int", "Text"}
            BY <1>1, <2>4, <3>1, DefinitionsInside
        <3>4. PICK listU : IsLoop(listU, us, "Comma", itemsU, k) /\ s = WithClose(us, listU[k])
            BY <1>1, <2>2, <2>4, <3>1, DefinitionsInside
        <3>5. /\ k \in k .. m + 1 /\ k .. m + 1 \subseteq 1 .. m + 1 /\ k \in 1 .. m + 1
              /\ k .. m + 1 \subseteq k .. Len(ts) /\ k .. m + 1 \subseteq k .. Len(us)
              /\ k - 1 = p
            <4>1. m + 1 <= Len(ts) /\ m + 1 <= Len(us) /\ Len(us) \in Nat
                BY DEF Alike, IsScan
            <4>2. QED BY <1>1, <2>1, <3>1, <4>1
        <3>6. ASSUME NEW q \in k .. m + 1
              PROVE  Tracks(us, m, stops[q], items[q], itemsU[q])
            <4>1. q \in 1 .. m + 1 /\ q \in k .. Len(ts) /\ q \in k .. Len(us)
                BY <3>5
            <4>2. Tracks(us, m, stops[q], ParseColumnDefinition(ts, q), ParseColumnDefinition(us, q))
                BY <4>1, DefinitionTracks
            <4>3. QED BY <4>1, <4>2
        <3>7. StopsAgree(ts, us, m, stops)
            BY <1>1, DefinitionStopsAgree
        <3> HIDE DEF r, s, items, itemsU, stops
        <3>8. Tracks(us, m, stops[k], list[k], listU[k])
            BY <3>2, <3>3, <3>4, <3>5, <3>6, <3>7, LoopTracks DEF Separators
        <3>9. stop # 0 => EndsDefinition(ts, us, m) /\ stop = EndOfDefinition(ts, m) + 1
            BY <1>3 DEF DefinitionsEnd, BehindDefinitions
        <3>10. stop # 0 => /\ stops[k] # 0 /\ Kind(us, stops[k]) = "RParen"
                           /\ stop = stops[k] + 1
            <4>1. Kind(ts, p) \notin Lasts
                BY <2>4 DEF Lasts
            <4>2. stops[k] = DefinitionStop(ts, us, m)
                BY <3>5, <4>1 DEF stops, DefinitionStops
            <4>3. EndOfDefinition(ts, m) # 0
                BY <1>1 DEF EndOfDefinition
            <4>4. QED BY <3>9, <4>2, <4>3 DEF DefinitionStop, EndsDefinition
        <3>11. ASSUME list[k].ok, list[k].behind = m + 1, stop # 0
               PROVE  Kind(us, m + 1) = "RParen" /\ stop = m + 2
            <4>1. Kind(ts, m) \in {"Int", "Text"}
                <5>1. list[k].behind - 1 = m
                    BY <1>1, <3>11
                <5>2. QED BY <3>3, <3>11, <5>1
            <4>2. EndOfDefinition(ts, m) = m + 1 /\ m + 1 + 1 = m + 2
                BY <1>1, <4>1 DEF EndOfDefinition
            <4>3. QED BY <3>9, <3>11, <4>2 DEF EndsDefinition
        <3>12. list[k].ok => list[k].behind \in 1 .. Len(ts)
            <4>1. list[k].ok => list[k].behind \in k + 1 .. Len(ts)
                BY <3>3 DEF Goes
            <4>2. QED BY <1>1, <3>2, <4>1
        <3>13. Tracks(us, m, stop, r, s)
            BY <3>3, <3>4, <3>8, <3>10, <3>11, <3>12, CloseTracks
        <3>14. QED BY <3>13 DEF r, s
    <2>5. QED BY <2>3, <2>4
<1>4. QED BY <1>2, <1>3

(* The values of an INSERT.                                                *)
LEMMA ValuesInside ==
    ASSUME NEW ts, IsScan(ts), NEW p \in 1 .. Len(ts), Kind(ts, p) = "LParen", NEW k, k = p + 1
    PROVE  LET items == [q \in k .. Len(ts) |-> ParsePrimary(ts, Expressions(ts), q)]
           IN  /\ k \in 1 .. Len(ts) /\ ItemsGo(ts, items, k) /\ ItemsStay(ts, items, k)
               /\ \E list : /\ IsLoop(list, ts, "Comma", items, k)
                            /\ ParseValues(ts, p) = WithClose(ts, list[k])
                            /\ Goes(ts, k, list[k]) /\ Stays(ts, k, list[k])
<1> DEFINE items == [q \in k .. Len(ts) |-> ParsePrimary(ts, Expressions(ts), q)]
<1>1. k \in 1 .. Len(ts) /\ ItemsGo(ts, items, k) /\ "Comma" \in Separators
    BY ValuesLoop DEF Separators
<1>2. PICK list : IsLoop(list, ts, "Comma", items, k) /\ ParseValues(ts, p) = WithClose(ts, list[k])
    BY ValuesLoop
<1>3. \A q \in k .. Len(ts) : q \in 1 .. Len(ts) /\ q \in 0 .. Len(ts)
    BY <1>1
<1>4. \A q \in k .. Len(ts) : NestedMake(ts, Expressions(ts), q) /\ NestedStay(ts, Expressions(ts), q)
    BY <1>3, ExpressionsMake, ExpressionsStay
<1>5. \A q \in k .. Len(ts) : Stays(ts, q, ParsePrimary(ts, Expressions(ts), q))
    BY <1>3, <1>4, PrimaryStays
<1>6. ItemsStay(ts, items, k)
    BY <1>5 DEF ItemsStay
<1> HIDE DEF items
<1>7. k \in k .. Len(ts)
    BY <1>1
<1>8. Goes(ts, k, list[k]) /\ Stays(ts, k, list[k])
    BY <1>1, <1>2, <1>6, <1>7, LoopGoes, LoopStays
<1>9. QED BY <1>1, <1>2, <1>6, <1>8 DEF items

LEMMA ValuesStay ==
    ASSUME NEW ts, IsScan(ts), NEW p \in 1 .. Len(ts)
    PROVE  LET r == ParseValues(ts, p)
           IN  /\ r.ok => Reached(ts, p, r.behind)
               /\ ~r.ok => r.at \in p .. Len(ts)
<1> DEFINE r == ParseValues(ts, p)
<1>1. CASE Kind(ts, p) # "LParen"
    <2>1. r = Error(p)
        BY <1>1, NoList
    <2> HIDE DEF r
    <2>2. ~r.ok /\ r.at = p
        BY <2>1 DEF Error
    <2>3. QED BY <2>2 DEF r
<1>2. CASE Kind(ts, p) = "LParen"
    <2>1. PICK k : k = p + 1
        OBVIOUS
    <2>2. PICK inner : /\ k \in 1 .. Len(ts) /\ r = WithClose(ts, inner)
                       /\ Goes(ts, k, inner) /\ Stays(ts, k, inner)
        BY <1>2, <2>1, ValuesInside
    <2>3. QED BY <1>2, <2>1, <2>2, CloseStays
<1>3. QED BY <1>1, <1>2

ValuesEnd(ts, us, m, p) ==
    IF p = m + 1
    THEN /\ Kind(us, p) = "LParen" /\ Kind(us, p + 1) = "Identifier"
         /\ Kind(us, p + 2) = "RParen" /\ Len(us) = p + 3
    ELSE ClosedBehind(ts, us, m)

LEMMA ValuesTrack ==
    ASSUME NEW ts, NEW us, NEW m, Alike(ts, us, m), NEW p \in 1 .. m + 1, Depth(ts, p) = 0,
           NEW stop, stop # 0 => ValuesEnd(ts, us, m, p) /\ stop = Len(us)
    PROVE  Tracks(us, m, stop, ParseValues(ts, p), ParseValues(us, p))
<1> DEFINE r == ParseValues(ts, p)
           s == ParseValues(us, p)
<1>1. /\ m \in Nat /\ IsScan(ts) /\ IsScan(us) /\ p \in 1 .. Len(ts) /\ p \in 1 .. Len(us)
      /\ Len(ts) \in Nat /\ Len(us) \in Nat
    BY DEF Alike, IsScan
<1>2. CASE p = m + 1
    <2>1. ~Settled(us, m, r)
        <3>1. /\ r.ok => r.behind \in p + 1 .. Len(ts)
              /\ ~r.ok => r.at \in p .. Len(ts)
            BY <1>1, ValuesStay DEF Reached
        <3> HIDE DEF r
        <3>2. /\ r.ok => ~(r.behind <= m) /\ r.behind # m + 1
              /\ ~r.ok => ~(r.at <= m)
            BY <1>1, <1>2, <3>1
        <3>3. QED BY <3>2 DEF Settled
    <2>2. stop # 0 => s.ok /\ s.behind = stop
        BY <1>1, <1>2, ShortValues DEF ValuesEnd
    <2> HIDE DEF r, s
    <2>3. Tracks(us, m, stop, r, s)
        BY <2>1, <2>2 DEF Tracks
    <2>4. QED BY <2>3 DEF r, s
<1>3. CASE p # m + 1
    <2>1. p \in 1 .. m
        BY <1>1, <1>3
    <2>2. Kind(us, p) = Kind(ts, p)
        BY <2>1, SameToken
    <2>3. CASE Kind(ts, p) # "LParen"
        <3>1. r = Error(p) /\ s = Error(p)
            BY <2>2, <2>3, NoList
        <3>2. Error(p).at = p
            BY DEF Error
        <3>3. QED BY <1>3, <3>1, <3>2, OneResultTracks
    <2>4. CASE Kind(ts, p) = "LParen"
        <3>1. PICK k : k = p + 1
            OBVIOUS
        <3> DEFINE items == [q \in k .. Len(ts) |-> ParsePrimary(ts, Expressions(ts), q)]
                   itemsU == [q \in k .. Len(us) |-> ParsePrimary(us, Expressions(us), q)]
                   stops == ExprStops(ts, us, m)
        <3>2. /\ k \in 1 .. Len(ts) /\ k \in 1 .. Len(us)
              /\ ItemsGo(ts, items, k) /\ ItemsStay(ts, items, k)
            BY <1>1, <2>2, <2>4, <3>1, ValuesInside
        <3>3. PICK list : /\ IsLoop(list, ts, "Comma", items, k) /\ r = WithClose(ts, list[k])
                          /\ Goes(ts, k, list[k]) /\ Stays(ts, k, list[k])
            BY <1>1, <2>4, <3>1, ValuesInside
        <3>4. PICK listU : IsLoop(listU, us, "Comma", itemsU, k) /\ s = WithClose(us, listU[k])
            BY <1>1, <2>2, <2>4, <3>1, ValuesInside
        <3>5. /\ k \in k .. m + 1 /\ k .. m + 1 \subseteq 1 .. m + 1 /\ k \in 1 .. m + 1
              /\ k .. m + 1 \subseteq k .. Len(ts) /\ k .. m + 1 \subseteq k .. Len(us)
              /\ k - 1 = p /\ m # 0
            <4>1. m + 1 <= Len(ts) /\ m + 1 <= Len(us)
                BY DEF Alike, IsScan
            <4>2. QED BY <1>1, <2>1, <3>1, <4>1
        <3>6. ASSUME NEW q \in k .. m + 1
              PROVE  Tracks(us, m, stops[q], items[q], itemsU[q])
            <4>1. q \in 1 .. m + 1 /\ q \in k .. Len(ts) /\ q \in k .. Len(us)
                  /\ q \in 0 .. Len(ts) /\ q \in 0 .. m + 1
                BY <1>1, <3>2, <3>5
            <4>2. /\ NestedMake(ts, Expressions(ts), q) /\ NestedStay(ts, Expressions(ts), q)
                  /\ NestedTrack(ts, us, m, q, Expressions(ts), Expressions(us))
                BY <1>1, <4>1, ExpressionsMake, ExpressionsStay, ExpressionsTrack
            <4>3. Tracks(us, m, stops[q], ParsePrimary(ts, Expressions(ts), q),
                                          ParsePrimary(us, Expressions(us), q))
                BY <4>1, <4>2, PrimaryTracks
            <4>4. QED BY <4>1, <4>3
        <3>7. StopsAgree(ts, us, m, stops)
            BY ExprStopsAgree
        <3> HIDE DEF r, s, items, itemsU, stops
        <3>8. Tracks(us, m, stops[k], list[k], listU[k])
            BY <3>2, <3>3, <3>4, <3>5, <3>6, <3>7, LoopTracks DEF Separators
        <3>9. stop # 0 => ClosedBehind(ts, us, m) /\ stop = Len(us)
            BY <1>3 DEF ValuesEnd
        <3>10. Depth(ts, k) = 1
            <4>1. Depth(ts, p + 1) = Depth(ts, p) + 1
                BY <1>1, <2>4, StepsOver
            <4>2. QED BY <3>1, <4>1
        <3>11. ASSUME ~list[k].ok, list[k].at = m + 1, stop # 0
               PROVE  stops[k] # 0 /\ Kind(us, stops[k]) = "RParen" /\ stop = stops[k] + 1
            <4> DEFINE e == Depth(ts, m + 1)
            <4>1. e >= 1 /\ e \in Nat
                BY <3>3, <3>9, <3>10, <3>11 DEF Stays, ClosedBehind
            <4>2. 1 \in 0 .. e
                <5> HIDE DEF e
                <5>1. QED BY <4>1
            <4>3. CanStop(ts, us, m, k)
                BY <2>4, <3>5, <3>9, <3>10, <3>11, <4>2 DEF CanStop, Lasts
            <4>4. stops[k] = Len(us) - 1
                BY <1>1, <3>5, <3>10, <4>3, ExprStopIs DEF stops
            <4>5. Kind(us, Len(us) - 1) = "RParen"
                BY <3>9, <3>11, <4>2, ClosedBy
            <4>6. Len(us) - 1 # 0 /\ Len(us) = Len(us) - 1 + 1
                <5>1. PICK n : n = Len(us)
                    OBVIOUS
                <5>2. n - 1 \in m + 1 .. n \/ n - 1 \in m + 2 .. n
                    BY <3>9, <3>11, <4>2, <5>1, ClosedBy
                <5>3. n \in Nat /\ n - 1 # 0 /\ n = n - 1 + 1
                    BY <1>1, <5>1, <5>2
                <5>4. QED BY <5>1, <5>3
            <4>7. QED BY <3>9, <3>11, <4>4, <4>5, <4>6
        <3>12. ASSUME list[k].ok, list[k].behind = m + 1, stop # 0
               PROVE  Kind(us, m + 1) = "RParen" /\ stop = m + 2
            <4>1. Depth(ts, m + 1) = 1 /\ Kind(ts, m) \in Lasts
                <5>1. list[k].behind - 1 = m
                    BY <1>1, <3>12
                <5>2. QED BY <3>3, <3>10, <3>12, <5>1 DEF Goes, Stays
            <4>2. FirstClose(ts, m) = m + 1
                BY <4>1 DEF FirstClose
            <4>3. Len(us) = m + 1 + 1 /\ \A i \in m + 1 .. Len(us) - 1 : Kind(us, i) = "RParen"
                BY <3>9, <3>12, <4>1, <4>2 DEF ClosedBehind
            <4>4. m + 1 \in m + 1 .. Len(us) - 1 /\ Len(us) = m + 2
                BY <1>1, <4>3
            <4>5. QED BY <3>9, <3>12, <4>3, <4>4
        <3>13. list[k].ok => list[k].behind \in 1 .. Len(ts)
            <4>1. list[k].ok => list[k].behind \in k + 1 .. Len(ts)
                BY <3>3 DEF Goes
            <4>2. QED BY <1>1, <3>2, <4>1
        <3>14. Tracks(us, m, stop, r, s)
            BY <3>3, <3>4, <3>8, <3>11, <3>12, <3>13, CloseTracks
        <3>15. QED BY <3>14 DEF r, s
    <2>5. QED BY <2>3, <2>4
<1>4. QED BY <1>2, <1>3

(* The WHERE clause.                                                       *)
LEMMA WhereStays ==
    ASSUME NEW ts, IsScan(ts), NEW p \in 1 .. Len(ts)
    PROVE  LET r == ParseWhere(ts, p)
           IN  /\ r.ok => r.behind = p \/ Reached(ts, p, r.behind)
               /\ ~r.ok => r.at \in p .. Len(ts)
<1> DEFINE r == ParseWhere(ts, p)
<1>1. CASE Kind(ts, p) = "Where"
    <2>1. PICK k : k = p + 1
        OBVIOUS
    <2>2. r = ParseExpression(ts, k)
        BY <1>1, <2>1 DEF ParseWhere
    <2>3. Kind(ts, p) \notin {"EndOfFile", "LParen", "RParen", "Comma"}
        BY <1>1
    <2>4. Reached(ts, p, k) /\ k \in 1 .. Len(ts) /\ k \in 0 .. Len(ts)
        BY <2>1, <2>3, TokenReaches
    <2>5. Goes(ts, k, r) /\ Stays(ts, k, r)
        BY <2>2, <2>4, ExpressionsMake, ExpressionsStay DEF Makes
    <2> HIDE DEF r
    <2>6. r.ok => Reached(ts, p, r.behind)
        BY <2>4, <2>5, GoesReaches, ReachedFarther
    <2>7. ~r.ok => r.at \in p .. Len(ts)
        <3>1. ~r.ok => r.at \in k .. Len(ts)
            BY <2>5 DEF Stays
        <3>2. Len(ts) \in Nat
            BY DEF IsScan
        <3>3. QED BY <2>1, <3>1, <3>2
    <2>8. QED BY <2>6, <2>7 DEF r
<1>2. CASE Kind(ts, p) # "Where"
    <2>1. r = Parsed(NoWhere, p)
        BY <1>2 DEF ParseWhere
    <2> HIDE DEF r
    <2>2. r.ok /\ r.behind = p
        BY <2>1 DEF Parsed
    <2>3. QED BY <2>2 DEF r
<1>3. QED BY <1>1, <1>2

LEMMA WhereTracks ==
    ASSUME NEW ts, NEW us, NEW m, Alike(ts, us, m), NEW p \in 1 .. m + 1, Depth(ts, p) = 0,
           NEW stop, stop # 0 => ClosedBehind(ts, us, m) /\ stop = Len(us)
    PROVE  Tracks(us, m, stop, ParseWhere(ts, p), ParseWhere(us, p))
<1> DEFINE r == ParseWhere(ts, p)
           s == ParseWhere(us, p)
<1>1. /\ m \in Nat /\ IsScan(ts) /\ p \in 1 .. Len(ts) /\ Len(ts) \in Nat /\ Len(us) \in Nat
    BY DEF Alike, IsScan
<1>2. PICK k : k = p + 1
    OBVIOUS
<1>3. CASE Kind(ts, p) # "Where"
    <2>1. r = Parsed(NoWhere, p) /\ (Kind(us, p) # "Where" => s = Parsed(NoWhere, p))
        BY <1>3 DEF ParseWhere
    <2> HIDE DEF r, s
    <2>2. r.ok /\ r.behind = p
        BY <2>1 DEF Parsed
    <2>3. Settled(us, m, r) => s = r
        <3>1. {"Where"} \subseteq Continuing /\ Kind(ts, p) \notin {"Where"} /\ p \in Nat \ {0}
            BY <1>3 DEF Continuing
        <3>2. Settled(us, m, r) => Kind(us, p) \notin {"Where"}
            BY <2>2, <3>1, SameEnd
        <3>3. QED BY <2>1, <3>2
    <2>4. Tracks(us, m, stop, r, s)
        BY <2>2, <2>3 DEF Tracks
    <2>5. QED BY <2>4 DEF r, s
<1>4. CASE Kind(ts, p) = "Where" /\ p # m + 1
    <2>1. p \in 1 .. m /\ k \in 1 .. m + 1 /\ k - 1 = p /\ m # 0
        BY <1>1, <1>2, <1>4
    <2>2. Kind(us, p) = Kind(ts, p)
        BY <2>1, SameToken
    <2>3. r = ParseExpression(ts, k) /\ s = ParseExpression(us, k)
        BY <1>2, <1>4, <2>2 DEF ParseWhere
    <2>4. Tracks(us, m, ExprStops(ts, us, m)[k], r, s)
        BY <2>1, <2>3, ExpressionsTrack
    <2>5. ASSUME stop # 0
          PROVE  stop = ExprStops(ts, us, m)[k]
        <3>1. Depth(ts, k) = 0
            BY <1>1, <1>2, <1>4, StepsOver
        <3>2. ClosedBehind(ts, us, m) /\ stop = Len(us)
            BY <2>5
        <3>3. CanStop(ts, us, m, k)
            <4> DEFINE e == Depth(ts, m + 1)
            <4>1. e \in Nat
                BY <3>2 DEF ClosedBehind
            <4>2. 0 \in 0 .. e
                <5> HIDE DEF e
                <5>1. QED BY <4>1
            <4>3. QED BY <1>4, <2>1, <3>1, <3>2, <4>2 DEF CanStop, Lasts
        <3>4. ExprStops(ts, us, m)[k] = Len(us) - 0
            BY <1>1, <2>1, <3>1, <3>3, ExprStopIs
        <3>5. QED BY <1>1, <3>2, <3>4
    <2> HIDE DEF r, s
    <2>6. Tracks(us, m, stop, r, s)
        BY <2>4, <2>5 DEF Tracks
    <2>7. QED BY <2>6 DEF r, s
<1>5. CASE Kind(ts, p) = "Where" /\ p = m + 1
    <2>1. r = ParseExpression(ts, k)
        BY <1>2, <1>5 DEF ParseWhere
    <2>2. k \in 1 .. Len(ts)
        BY <1>1, <1>2, <1>5, StepsOver
    <2>3. k \in 0 .. Len(ts) /\ k = m + 2
        BY <1>1, <1>2, <1>5, <2>2
    <2>4. Goes(ts, k, r) /\ Stays(ts, k, r)
        BY <1>1, <2>1, <2>2, ExpressionsMake, ExpressionsStay DEF Makes
    <2> HIDE DEF r, s
    <2>5. /\ r.ok => ~(r.behind <= m) /\ r.behind # m + 1
          /\ ~r.ok => ~(r.at <= m) /\ r.at # m + 1
        BY <1>1, <2>3, <2>4 DEF Goes, Stays
    <2>6. Tracks(us, m, stop, r, s)
        BY <2>5 DEF Tracks, Settled
    <2>7. QED BY <2>6 DEF r, s
<1>6. QED BY <1>3, <1>4, <1>5

-----------------------------------------------------------------------------
(* The rest of a statement from p on: it fails at p or later.              *)
Late(ts, p, r) == ~r.ok => r.at \in p .. Len(ts)

LEMMA ThenLate ==
    ASSUME NEW ts, Len(ts) \in Nat, NEW p \in 1 .. Len(ts), NEW f, NEW g, Late(ts, p, f),
           f.ok => f.behind \in p .. Len(ts) /\ Late(ts, f.behind, g)
    PROVE  Late(ts, p, IF f.ok THEN g ELSE f)
<1>1. CASE ~f.ok
    BY <1>1
<1>2. CASE f.ok
    <2>1. ~g.ok => g.at \in f.behind .. Len(ts)
        BY <1>2 DEF Late
    <2>2. ~g.ok => g.at \in p .. Len(ts)
        BY <1>2, <2>1
    <2>3. QED BY <1>2, <2>2 DEF Late
<1>3. QED BY <1>1, <1>2

LEMMA FinishIs ==
    ASSUME NEW ts, NEW p, NEW statement, NEW q, q = IF Kind(ts, p) = "Semicolon" THEN p + 1 ELSE p
    PROVE  LET r == FinishStatement(ts, p, statement)
           IN  /\ r.ok <=> Kind(ts, q) = "EndOfFile"
               /\ ~r.ok => r = Error(q) /\ r.at = q
<1> DEFINE r == FinishStatement(ts, p, statement)
<1>1. r = IF Kind(ts, q) = "EndOfFile" THEN Parsed(statement, q) ELSE Error(q)
    BY DEF FinishStatement
<1> HIDE DEF r
<1>2. Parsed(statement, q).ok /\ ~Error(q).ok /\ Error(q).at = q
    BY DEF Parsed, Error
<1>3. /\ r.ok <=> Kind(ts, q) = "EndOfFile"
      /\ ~r.ok => r = Error(q) /\ r.at = q
    BY <1>1, <1>2
<1>4. QED BY <1>3 DEF r

LEMMA FinishAtEnd ==
    ASSUME NEW ts, IsScan(ts), NEW statement
    PROVE  FinishStatement(ts, Len(ts), statement).ok
<1>1. Kind(ts, Len(ts)) = "EndOfFile"
    BY DEF IsScan
<1>2. QED BY <1>1, FinishIs

LEMMA FinishLate ==
    ASSUME NEW ts, IsScan(ts), NEW p \in 1 .. Len(ts), NEW statement
    PROVE  Late(ts, p, FinishStatement(ts, p, statement))
<1>1. PICK q : q = IF Kind(ts, p) = "Semicolon" THEN p + 1 ELSE p
    OBVIOUS
<1>2. q \in p .. Len(ts)
    <2>1. Kind(ts, p) = "Semicolon" => p + 1 \in 1 .. Len(ts)
        BY StepsOver
    <2>2. QED BY <1>1, <2>1
<1>3. QED BY <1>1, <1>2, FinishIs DEF Late

-----------------------------------------------------------------------------
(***************************************************************************)
(* Completions.  us has these kinds of tokens behind the first m, or from  *)
(* q on the kinds of a shortest statement from the k-th on, and then its   *)
(* end.                                                                    *)
(***************************************************************************)
Ending(us, m, kinds) ==
    Len(us) = m + Len(kinds) + 1 /\ \A k \in 1 .. Len(kinds) : Kind(us, m + k) = kinds[k]
Rests(us, q, kinds, k) ==
    Len(us) = q + 1 + Len(kinds) - k /\ \A i \in k .. Len(kinds) : Kind(us, q + i - k) = kinds[i]
Mended(ts, us, m, kinds) == Alike(ts, us, m) /\ Ending(us, m, kinds)

SelectKinds == <<"Select", "Identifier", "From", "Identifier">>
SchemaKinds == <<"Create", "Schema", "Identifier">>
TableKinds  == <<"Create", "Table", "Identifier", "LParen", "Identifier", "Int", "RParen">>
InsertKinds == <<"Insert", "Into", "Identifier", "Values", "LParen", "Identifier", "RParen">>
PlainKinds  == {"Select", "Create", "Insert", "From", "Schema", "Table", "Into", "Values",
                "Identifier", "Int", "LParen", "RParen"}

LEMMA ShortestFacts ==
    /\ Shortest = {SelectKinds, SchemaKinds, TableKinds, InsertKinds}
    /\ Len(SelectKinds) = 4 /\ Len(SchemaKinds) = 3 /\ Len(TableKinds) = 7 /\ Len(InsertKinds) = 7
    /\ \A kinds \in Shortest : Len(kinds) \in Nat /\ \A i \in 1 .. Len(kinds) : kinds[i] \in PlainKinds
<1>1. Shortest = {SelectKinds, SchemaKinds, TableKinds, InsertKinds}
    BY DEF Shortest, SelectKinds, SchemaKinds, TableKinds, InsertKinds
<1>2. Len(SelectKinds) = 4 /\ \A i \in 1 .. 4 : SelectKinds[i] \in PlainKinds
    BY DEF SelectKinds, PlainKinds
<1>3. Len(SchemaKinds) = 3 /\ \A i \in 1 .. 3 : SchemaKinds[i] \in PlainKinds
    BY DEF SchemaKinds, PlainKinds
<1>4. Len(TableKinds) = 7 /\ \A i \in 1 .. 7 : TableKinds[i] \in PlainKinds
    BY DEF TableKinds, PlainKinds
<1>5. Len(InsertKinds) = 7 /\ \A i \in 1 .. 7 : InsertKinds[i] \in PlainKinds
    BY DEF InsertKinds, PlainKinds
<1>6. ASSUME NEW kinds \in Shortest
      PROVE  Len(kinds) \in Nat /\ \A i \in 1 .. Len(kinds) : kinds[i] \in PlainKinds
    <2>1. PICK n \in Nat : Len(kinds) = n /\ \A i \in 1 .. n : kinds[i] \in PlainKinds
        <3>1. CASE kinds = SelectKinds
            BY <1>2, <3>1
        <3>2. CASE kinds = SchemaKinds
            BY <1>3, <3>2
        <3>3. CASE kinds = TableKinds
            BY <1>4, <3>3
        <3>4. CASE kinds = InsertKinds
            BY <1>5, <3>4
        <3>5. QED BY <1>1, <3>1, <3>2, <3>3, <3>4
    <2>2. QED BY <2>1
<1>7. QED BY <1>1, <1>2, <1>3, <1>4, <1>5, <1>6

LEMMA SuffixCompletes ==
    ASSUME NEW kinds \in Shortest, NEW k \in 1 .. Len(kinds), NEW n
    PROVE  SubSeq(kinds, k, Len(kinds)) \in Completions(n)
<1> DEFINE EndsOf(all) == {SubSeq(all, i, Len(all)) : i \in 1 .. Len(all)}
<1>1. SubSeq(kinds, k, Len(kinds)) \in EndsOf(kinds)
    OBVIOUS
<1>2. EndsOf(kinds) \in {EndsOf(all) : all \in Shortest}
    OBVIOUS
<1> HIDE DEF EndsOf
<1>3. SubSeq(kinds, k, Len(kinds)) \in UNION {EndsOf(all) : all \in Shortest}
    BY <1>1, <1>2
<1>4. QED BY <1>3 DEF Completions, EndsOf

LEMMA SuffixIs ==
    ASSUME NEW kinds \in Shortest, NEW k \in 1 .. Len(kinds)
    PROVE  LET rest == SubSeq(kinds, k, Len(kinds))
           IN  /\ rest \in Seq(PlainKinds) /\ Len(rest) = Len(kinds) - k + 1
               /\ \A i \in 1 .. Len(kinds) - k + 1 : rest[i] = kinds[k + i - 1]
<1>1. PICK n : n = Len(kinds)
    OBVIOUS
<1>2. n \in Nat /\ \A i \in 1 .. n : kinds[i] \in PlainKinds
    BY <1>1, ShortestFacts
<1>3. k \in Int /\ n \in Int /\ k <= n /\ \A i \in k .. n : kinds[i] \in PlainKinds
    BY <1>1, <1>2
<1>4. /\ SubSeq(kinds, k, n) \in Seq(PlainKinds)
      /\ Len(SubSeq(kinds, k, n)) = n - k + 1
      /\ \A i \in 1 .. n - k + 1 : SubSeq(kinds, k, n)[i] = kinds[k + i - 1]
    BY <1>3, SubSeqProperties
<1>5. QED BY <1>1, <1>4

LEMMA SuffixRests ==
    ASSUME NEW kinds \in Shortest, NEW k \in 1 .. Len(kinds), NEW us, NEW m \in Nat,
           Ending(us, m, SubSeq(kinds, k, Len(kinds)))
    PROVE  Rests(us, m + 1, kinds, k)
<1> DEFINE rest == SubSeq(kinds, k, Len(kinds))
<1>1. PICK n : n = Len(kinds)
    OBVIOUS
<1>2. n \in Nat
    BY <1>1, ShortestFacts
<1>3. Len(rest) = n - k + 1 /\ \A i \in 1 .. n - k + 1 : rest[i] = kinds[k + i - 1]
    BY <1>1, SuffixIs
<1>4. Len(us) = m + Len(rest) + 1 /\ \A i \in 1 .. Len(rest) : Kind(us, m + i) = rest[i]
    BY DEF Ending
<1> HIDE DEF rest
<1>5. ASSUME NEW i \in k .. n
      PROVE  Kind(us, m + 1 + i - k) = kinds[i]
    <2>1. PICK j : j = i - k + 1
        OBVIOUS
    <2>2. j \in 1 .. n - k + 1 /\ k + j - 1 = i /\ m + j = m + 1 + i - k
        BY <1>1, <1>2, <2>1
    <2>3. QED BY <1>3, <1>4, <2>2
<1>6. Len(us) = m + 1 + 1 + n - k
    BY <1>1, <1>2, <1>3, <1>4
<1>7. QED BY <1>1, <1>5, <1>6 DEF Rests

LEMMA RestsStep ==
    ASSUME NEW kinds \in Shortest, NEW k \in 1 .. Len(kinds), NEW us, NEW q \in Nat,
           Rests(us, q, kinds, k)
    PROVE  /\ Kind(us, q) = kinds[k]
           /\ k # Len(kinds) => Rests(us, q + 1, kinds, k + 1)
           /\ k = Len(kinds) => q + 1 = Len(us)
<1>1. PICK n : n = Len(kinds)
    OBVIOUS
<1>2. n \in Nat
    BY <1>1, ShortestFacts
<1>3. Len(us) = q + 1 + n - k /\ \A i \in k .. n : Kind(us, q + i - k) = kinds[i]
    BY <1>1 DEF Rests
<1>4. Kind(us, q) = kinds[k]
    <2>1. k \in k .. n /\ q + k - k = q
        BY <1>1, <1>2
    <2>2. QED BY <1>3, <2>1
<1>5. ASSUME k # n
      PROVE  Rests(us, q + 1, kinds, k + 1)
    <2>1. ASSUME NEW i \in k + 1 .. n
          PROVE  Kind(us, q + 1 + i - (k + 1)) = kinds[i]
        <3>1. i \in k .. n /\ q + i - k = q + 1 + i - (k + 1)
            BY <1>1, <1>2
        <3>2. QED BY <1>3, <3>1
    <2>2. Len(us) = q + 1 + 1 + n - (k + 1)
        BY <1>1, <1>2, <1>3
    <2>3. QED BY <1>1, <2>1, <2>2 DEF Rests
<1>6. k = n => q + 1 = Len(us)
    BY <1>1, <1>2, <1>3
<1>7. QED BY <1>1, <1>4, <1>5, <1>6

(* No completion begins with what the parser looks for behind the rest.    *)
LEMMA ClosingIs ==
    ASSUME NEW n \in Int
    PROVE  /\ Closing(n) \in Seq(PlainKinds)
           /\ \A i \in 1 .. n : Closing(n)[i] = "RParen"
           /\ n \in Nat => Len(Closing(n)) = n
<1>1. \A i \in 1 .. n : Closing(n)[i] = "RParen"
    BY DEF Closing
<1>2. CASE n \in Nat
    <2>1. Closing(n) \in [1 .. n -> PlainKinds]
        BY DEF Closing, PlainKinds
    <2>2. Len(Closing(n)) = n /\ Closing(n) \in Seq(PlainKinds)
        BY <1>2, <2>1
    <2>3. QED BY <1>1, <2>2
<1>3. CASE n \notin Nat
    <2>1. 1 .. n = {}
        BY <1>3
    <2>2. 1 .. 0 = {}
        OBVIOUS
    <2>3. Closing(n) \in [1 .. 0 -> PlainKinds]
        BY <2>1, <2>2 DEF Closing
    <2>4. QED BY <1>1, <1>3, <2>3
<1>4. QED BY <1>2, <1>3

LEMMA NameClosingIs ==
    ASSUME NEW n \in Int
    PROVE  LET kinds == <<"Identifier">> \o Closing(n)
           IN  /\ kinds \in Seq(PlainKinds) /\ kinds[1] = "Identifier"
               /\ n \in Nat => /\ Len(kinds) = n + 1
                               /\ \A i \in 1 .. n : kinds[i + 1] = "RParen"
<1> DEFINE kinds == <<"Identifier">> \o Closing(n)
           c == Closing(n)
           name == <<"Identifier">>
<1>1. /\ c \in Seq(PlainKinds) /\ \A i \in 1 .. n : c[i] = "RParen"
      /\ n \in Nat => Len(c) = n
    BY ClosingIs
<1>2. name \in Seq(PlainKinds) /\ Len(name) = 1 /\ name[1] = "Identifier"
    BY DEF PlainKinds
<1>3. Len(c) \in Nat
    BY <1>1, LenProperties
<1> HIDE DEF c, name
<1>4. /\ kinds \in Seq(PlainKinds) /\ Len(kinds) = Len(name) + Len(c)
      /\ \A i \in 1 .. Len(name) + Len(c) :
            kinds[i] = IF i <= Len(name) THEN name[i] ELSE c[i - Len(name)]
    BY <1>1, <1>2, ConcatProperties DEF c, name
<1> HIDE DEF kinds
<1>5. kinds[1] = "Identifier"
    BY <1>2, <1>3, <1>4
<1>6. ASSUME n \in Nat, NEW i \in 1 .. n
      PROVE  kinds[i + 1] = "RParen"
    <2>1. i + 1 \in 1 .. Len(name) + Len(c) /\ ~(i + 1 <= Len(name)) /\ i + 1 - Len(name) = i
        BY <1>1, <1>2, <1>3, <1>6
    <2>2. QED BY <1>1, <1>4, <2>1
<1>7. n \in Nat => Len(kinds) = n + 1
    BY <1>1, <1>2, <1>4
<1>8. QED BY <1>4, <1>5, <1>6, <1>7 DEF kinds

LEMMA CompletionsPlain ==
    ASSUME NEW n \in Int, NEW kinds \in Completions(n)
    PROVE  kinds \in Seq(PlainKinds)
<1> DEFINE EndsOf(all) == {SubSeq(all, i, Len(all)) : i \in 1 .. Len(all)}
<1>1. CASE kinds \in UNION {EndsOf(all) : all \in Shortest}
    <2>1. PICK all \in Shortest : kinds \in EndsOf(all)
        BY <1>1
    <2>2. PICK i \in 1 .. Len(all) : kinds = SubSeq(all, i, Len(all))
        BY <2>1
    <2>3. QED BY <2>2, SuffixIs
<1>2. CASE kinds \in {Closing(n), <<"Identifier">> \o Closing(n)}
    BY <1>2, ClosingIs, NameClosingIs
<1>3. kinds \in (UNION {EndsOf(all) : all \in Shortest}) \cup {Closing(n), <<"Identifier">> \o Closing(n)}
    BY DEF Completions
<1> HIDE DEF EndsOf
<1>4. QED BY <1>1, <1>2, <1>3

LEMMA MendedGoesOn ==
    ASSUME NEW ts, NEW us, NEW m, NEW n \in Int, NEW kinds \in Completions(n),
           Mended(ts, us, m, kinds)
    PROVE  Kind(us, m + 1) \notin Continuing
<1>1. /\ Len(us) = m + Len(kinds) + 1 /\ \A k \in 1 .. Len(kinds) : Kind(us, m + k) = kinds[k]
      /\ m \in Nat /\ IsScan(us)
    BY DEF Mended, Ending, Alike
<1>2. kinds \in Seq(PlainKinds) /\ Len(kinds) \in Nat
    BY CompletionsPlain, LenProperties
<1>3. CASE Len(kinds) = 0
    <2>1. m + 1 = Len(us)
        BY <1>1, <1>3
    <2>2. m + 1 \in 1 .. Len(us)
        BY <1>1, <2>1
    <2>3. Kind(us, m + 1) = "EndOfFile"
        BY <1>1, <2>1, <2>2 DEF IsScan
    <2>4. QED BY <2>3 DEF Continuing, ComparisonOperators, OrderingOperators
<1>4. CASE Len(kinds) # 0
    <2>1. 1 \in 1 .. Len(kinds)
        BY <1>2, <1>4
    <2>2. Kind(us, m + 1) \in PlainKinds
        BY <1>1, <1>2, <2>1, ElementOfSeq
    <2>3. QED BY <2>2 DEF PlainKinds, Continuing, ComparisonOperators, OrderingOperators
<1>5. QED BY <1>3, <1>4

-----------------------------------------------------------------------------
(***************************************************************************)
(* Statements.  A call that fails at one of the first m tokens does so for *)
(* us too; one that fails behind them succeeds with a completion.          *)
(***************************************************************************)
Same(m, r, s) == ~r.ok /\ r.at <= m => s = r

LEMMA ThenSame ==
    ASSUME NEW ts, Len(ts) \in Nat, NEW p \in 1 .. Len(ts), NEW us, NEW m \in Nat,
           NEW stop, NEW f, NEW fU, Tracks(us, m, stop, f, fU), NEW g, NEW gU,
           f.ok => f.behind \in p .. Len(ts) /\ Late(ts, f.behind, g),
           f.ok /\ fU = f /\ f.behind \in 1 .. m => Same(m, g, gU)
    PROVE  Same(m, IF f.ok THEN g ELSE f, IF fU.ok THEN gU ELSE fU)
<1>1. CASE ~f.ok
    BY <1>1 DEF Tracks, Settled, Same
<1>2. CASE f.ok
    <2>1. ASSUME ~g.ok, g.at <= m
          PROVE  fU = f /\ gU = g
        <3>1. f.behind \in 1 .. m
            BY <1>2, <2>1 DEF Late
        <3>2. fU = f
            BY <1>2, <3>1 DEF Tracks, Settled
        <3>3. QED BY <1>2, <2>1, <3>1, <3>2 DEF Same
    <2>2. QED BY <1>2, <2>1 DEF Same
<1>3. QED BY <1>1, <1>2

LEMMA MendedKeeps ==
    ASSUME NEW ts, NEW us, NEW m, NEW n \in Int, NEW kinds \in Completions(n),
           Mended(ts, us, m, kinds), NEW stop, NEW f, NEW fU, Tracks(us, m, stop, f, fU),
           f.ok, f.behind \in 1 .. m + 1
    PROVE  f = fU
<1>1. Kind(us, m + 1) \notin Continuing
    BY MendedGoesOn
<1>2. m \in Nat
    BY DEF Mended, Alike
<1>3. f.behind <= m \/ f.behind = m + 1
    BY <1>2
<1>4. Settled(us, m, f)
    BY <1>1, <1>3 DEF Settled
<1>5. QED BY <1>4 DEF Tracks

(* The end of a statement.                                                 *)
LEMMA FinishSame ==
    ASSUME NEW ts, NEW us, NEW m, Alike(ts, us, m), NEW p \in 1 .. m, NEW statement
    PROVE  Same(m, FinishStatement(ts, p, statement), FinishStatement(us, p, statement))
<1> DEFINE r == FinishStatement(ts, p, statement)
           s == FinishStatement(us, p, statement)
<1>1. PICK q : q = IF Kind(ts, p) = "Semicolon" THEN p + 1 ELSE p
    OBVIOUS
<1>2. q = IF Kind(us, p) = "Semicolon" THEN p + 1 ELSE p
    BY <1>1, SameToken
<1>3. /\ r.ok <=> Kind(ts, q) = "EndOfFile"
      /\ ~r.ok => r = Error(q) /\ r.at = q
    BY <1>1, FinishIs
<1>4. /\ s.ok <=> Kind(us, q) = "EndOfFile"
      /\ ~s.ok => s = Error(q)
    BY <1>2, FinishIs
<1> HIDE DEF r, s
<1>5. q <= m => q \in 1 .. m
    BY <1>1
<1>6. Same(m, r, s)
    BY <1>3, <1>4, <1>5, SameToken DEF Same
<1>7. QED BY <1>6 DEF r, s

LEMMA FinishMends ==
    ASSUME NEW ts, IsScan(ts), NEW p \in 1 .. Len(ts), Depth(ts, p) = 0, NEW statement,
           NEW m \in Nat, ~FinishStatement(ts, p, statement).ok,
           FinishStatement(ts, p, statement).at = m + 1
    PROVE  \E kinds \in Completions(Depth(ts, m + 1)) :
               \A us : Mended(ts, us, m, kinds) => FinishStatement(us, p, statement).ok
<1>1. PICK q : q = IF Kind(ts, p) = "Semicolon" THEN p + 1 ELSE p
    OBVIOUS
<1>2. q = m + 1
    BY <1>1, FinishIs
<1>3. Depth(ts, m + 1) = 0
    <2>1. CASE Kind(ts, p) = "Semicolon"
        BY <1>1, <1>2, <2>1, StepsOver
    <2>2. CASE Kind(ts, p) # "Semicolon"
        BY <1>1, <1>2, <2>2
    <2>3. QED BY <2>1, <2>2
<1>4. Closing(0) \in Completions(Depth(ts, m + 1)) /\ Len(Closing(0)) = 0
    BY <1>3, ClosingIs DEF Completions
<1>5. ASSUME NEW us, Mended(ts, us, m, Closing(0))
      PROVE  FinishStatement(us, p, statement).ok
    <2>1. IsScan(us) /\ Len(us) = m + 1 /\ Alike(ts, us, m)
        BY <1>4, <1>5 DEF Mended, Alike, Ending
    <2>2. Kind(us, q) = "EndOfFile"
        BY <1>2, <2>1 DEF IsScan
    <2>3. q = IF Kind(us, p) = "Semicolon" THEN p + 1 ELSE p
        <3>1. CASE Kind(ts, p) = "Semicolon"
            <4>1. p \in 1 .. m
                BY <1>1, <1>2, <3>1
            <4>2. QED BY <1>1, <2>1, <3>1, <4>1, SameToken
        <3>2. CASE Kind(ts, p) # "Semicolon"
            BY <1>1, <2>2, <3>2
        <3>3. QED BY <3>1, <3>2
    <2>4. QED BY <2>2, <2>3, FinishIs
<1>6. QED BY <1>4, <1>5

(* A place outside of all parentheses, and a call that moves from one to   *)
(* another.                                                                *)
Top(ts, p) == p \in 1 .. Len(ts) /\ Depth(ts, p) = 0
Moves(ts, p, f) == Late(ts, p, f) /\ (f.ok => f.behind \in p .. Len(ts) /\ Top(ts, f.behind))

LEMMA StartIsTop ==
    ASSUME NEW ts, IsScan(ts)
    PROVE  Top(ts, 1)
<1>1. Depth(ts, 1) = 0
    <2>1. \A kind : Before(ts, 1, kind) = {}
        BY DEF Before
    <2>2. QED BY <2>1, FS_EmptySet DEF Depth
<1>2. QED BY <1>1 DEF Top, IsScan

LEMMA ReachedIsTop ==
    ASSUME NEW ts, IsScan(ts), NEW p, Top(ts, p), NEW f,
           f.ok => f.behind = p \/ Reached(ts, p, f.behind),
           ~f.ok => f.at \in p .. Len(ts)
    PROVE  Moves(ts, p, f)
<1>1. Len(ts) \in Nat /\ p \in 1 .. Len(ts) /\ p \in p .. Len(ts)
    BY DEF IsScan, Top
<1>2. ASSUME f.ok, f.behind # p
      PROVE  f.behind \in p .. Len(ts) /\ Top(ts, f.behind)
    <2>1. f.behind \in p + 1 .. Len(ts) /\ Depth(ts, f.behind) = Depth(ts, p)
        BY <1>2 DEF Reached
    <2>2. f.behind \in 1 .. Len(ts) /\ f.behind \in p .. Len(ts)
        BY <1>1, <2>1
    <2>3. QED BY <2>1, <2>2 DEF Top
<1>3. QED BY <1>1, <1>2 DEF Moves, Late

LEMMA ExpectMoves ==
    ASSUME NEW ts, IsScan(ts), NEW p, Top(ts, p),
           NEW kind, kind \notin {"EndOfFile", "LParen", "RParen", "Comma"}
    PROVE  LET f == Expect(ts, p, kind)
           IN  /\ Moves(ts, p, f)
               /\ ~f.ok => f.at = p
               /\ Kind(ts, p) = kind => f.ok /\ f.behind = p + 1
<1> DEFINE f == Expect(ts, p, kind)
<1>1. p \in 1 .. Len(ts) /\ Len(ts) \in Nat
    BY DEF Top, IsScan
<1>2. f = IF Kind(ts, p) = kind THEN Parsed(ts[p].lexeme, p + 1) ELSE Error(p)
    BY DEF Expect
<1>3. f.ok => Reached(ts, p, f.behind)
    BY <1>1, ExpectReaches
<1> HIDE DEF f
<1>4. /\ ~f.ok => f.at = p
      /\ Kind(ts, p) = kind => f.ok /\ f.behind = p + 1
    BY <1>2 DEF Parsed, Error
<1>5. Moves(ts, p, f)
    BY <1>1, <1>3, <1>4, ReachedIsTop
<1>6. QED BY <1>4, <1>5 DEF f

LEMMA ReferenceMoves ==
    ASSUME NEW ts, IsScan(ts), NEW p, Top(ts, p)
    PROVE  Moves(ts, p, ParseTableReference(ts, p))
<1> DEFINE f == ParseTableReference(ts, p)
<1>1. Stays(ts, p, f) /\ Goes(ts, p, f)
    BY ReferenceStays DEF Top
<1> HIDE DEF f
<1>2. f.ok => Reached(ts, p, f.behind)
    BY <1>1, GoesReaches
<1>3. ~f.ok => f.at \in p .. Len(ts)
    BY <1>1 DEF Stays
<1>4. Moves(ts, p, f)
    BY <1>2, <1>3, ReachedIsTop
<1>5. QED BY <1>4 DEF f

LEMMA ListsMove ==
    ASSUME NEW ts, IsScan(ts), NEW p, Top(ts, p)
    PROVE  /\ Moves(ts, p, ParseSelectList(ts, p))
           /\ Moves(ts, p, ParseWhere(ts, p))
           /\ Moves(ts, p, ParseDefinitions(ts, p))
           /\ Moves(ts, p, ParseValues(ts, p))
<1>1. p \in 1 .. Len(ts)
    BY DEF Top
<1>2. Moves(ts, p, ParseSelectList(ts, p))
    BY <1>1, SelectListStays, ReachedIsTop
<1>3. Moves(ts, p, ParseWhere(ts, p))
    BY <1>1, WhereStays, ReachedIsTop
<1>4. Moves(ts, p, ParseDefinitions(ts, p))
    BY <1>1, DefinitionsStay, ReachedIsTop
<1>5. Moves(ts, p, ParseValues(ts, p))
    BY <1>1, ValuesStay, ReachedIsTop
<1>6. QED BY <1>2, <1>3, <1>4, <1>5

(* A call, and another one behind it: where they fail.                     *)
LEMMA MovesOn ==
    ASSUME NEW ts, IsScan(ts), NEW p, Top(ts, p), NEW f, Moves(ts, p, f),
           NEW g, f.ok => Late(ts, f.behind, g),
           NEW r, r = IF f.ok THEN g ELSE f
    PROVE  /\ Late(ts, p, r)
           /\ \A m \in Nat : ~r.ok /\ r.at = m + 1 =>
                 p \in 1 .. m + 1 /\ (f.ok => f.behind \in 1 .. m + 1)
<1>1. Len(ts) \in Nat /\ p \in 1 .. Len(ts)
    BY DEF IsScan, Top
<1>2. Late(ts, p, r)
    BY <1>1, ThenLate DEF Moves
<1>3. ASSUME NEW m \in Nat, ~r.ok, r.at = m + 1
      PROVE  p \in 1 .. m + 1 /\ (f.ok => f.behind \in 1 .. m + 1)
    <2>1. p \in 1 .. m + 1
        BY <1>1, <1>2, <1>3 DEF Late
    <2>2. ASSUME f.ok
          PROVE  f.behind \in 1 .. m + 1
        <3>1. f.behind \in 1 .. Len(ts) /\ r.at \in f.behind .. Len(ts)
            BY <1>3, <2>2 DEF Late, Moves, Top
        <3>2. QED BY <1>1, <1>3, <3>1
    <2>3. QED BY <2>1, <2>2
<1>4. QED BY <1>2, <1>3

LEMMA MovesSame ==
    ASSUME NEW ts, IsScan(ts), NEW p, Top(ts, p), NEW f, Moves(ts, p, f),
           NEW us, NEW m \in Nat, NEW stop, NEW fU, Tracks(us, m, stop, f, fU), NEW g, NEW gU,
           f.ok => Late(ts, f.behind, g),
           f.ok /\ fU = f /\ f.behind \in 1 .. m /\ Top(ts, f.behind) => Same(m, g, gU)
    PROVE  Same(m, IF f.ok THEN g ELSE f, IF fU.ok THEN gU ELSE fU)
<1>1. Len(ts) \in Nat /\ p \in 1 .. Len(ts)
    BY DEF IsScan, Top
<1>2. QED BY <1>1, ThenSame DEF Moves

-----------------------------------------------------------------------------
(* CREATE SCHEMA and CREATE DATABASE, behind these words.                  *)
NameToEnd(ts, p, schema) ==
    LET name == Expect(ts, p, "Identifier")
        statement == IF schema THEN CreateSchemaStatement(name.tree)
                     ELSE CreateDatabaseStatement(name.tree)
    IN  IF name.ok THEN FinishStatement(ts, name.behind, statement) ELSE name

LEMMA NamesToEnd ==
    ASSUME NEW ts, NEW p
    PROVE  /\ ParseCreateSchema(ts, p) = NameToEnd(ts, p, TRUE)
           /\ ParseCreateDatabase(ts, p) = NameToEnd(ts, p, FALSE)
BY DEF ParseCreateSchema, ParseCreateDatabase, NameToEnd, Then

LEMMA NameLate ==
    ASSUME NEW ts, IsScan(ts), NEW p, Top(ts, p), NEW schema
    PROVE  Late(ts, p, NameToEnd(ts, p, schema))
<1> DEFINE f == Expect(ts, p, "Identifier")
           statement == IF schema THEN CreateSchemaStatement(f.tree)
                        ELSE CreateDatabaseStatement(f.tree)
           g == FinishStatement(ts, f.behind, statement)
<1>1. NameToEnd(ts, p, schema) = IF f.ok THEN g ELSE f
    BY DEF NameToEnd
<1>2. Moves(ts, p, f)
    BY ExpectMoves
<1>3. f.ok => Late(ts, f.behind, g)
    BY <1>2, FinishLate DEF Moves, Top
<1> HIDE DEF f, g
<1>4. QED BY <1>1, <1>2, <1>3, MovesOn

LEMMA NameSame ==
    ASSUME NEW ts, NEW us, NEW m, Alike(ts, us, m), NEW p \in 1 .. m + 1, Top(ts, p), NEW schema
    PROVE  Same(m, NameToEnd(ts, p, schema), NameToEnd(us, p, schema))
<1> DEFINE f == Expect(ts, p, "Identifier")
           fU == Expect(us, p, "Identifier")
           statement == IF schema THEN CreateSchemaStatement(f.tree)
                        ELSE CreateDatabaseStatement(f.tree)
           statementU == IF schema THEN CreateSchemaStatement(fU.tree)
                         ELSE CreateDatabaseStatement(fU.tree)
           g == FinishStatement(ts, f.behind, statement)
           gU == FinishStatement(us, fU.behind, statementU)
<1>1. /\ NameToEnd(ts, p, schema) = IF f.ok THEN g ELSE f
      /\ NameToEnd(us, p, schema) = IF fU.ok THEN gU ELSE fU
    BY DEF NameToEnd
<1>2. IsScan(ts) /\ m \in Nat
    BY DEF Alike
<1>3. Moves(ts, p, f) /\ Tracks(us, m, NameStop(us, m), f, fU)
    BY <1>2, ExpectMoves, NameTracks
<1>4. f.ok => Late(ts, f.behind, g)
    BY <1>2, <1>3, FinishLate DEF Moves, Top
<1>5. fU = f /\ f.behind \in 1 .. m => Same(m, g, gU)
    BY FinishSame
<1> HIDE DEF f, fU, g, gU
<1>6. QED BY <1>1, <1>2, <1>3, <1>4, <1>5, MovesSame

LEMMA NameRests ==
    ASSUME NEW us, IsScan(us), NEW q \in Nat \ {0}, Rests(us, q, SchemaKinds, 3), NEW schema
    PROVE  NameToEnd(us, q, schema).ok
<1> DEFINE f == Expect(us, q, "Identifier")
           statement == IF schema THEN CreateSchemaStatement(f.tree)
                        ELSE CreateDatabaseStatement(f.tree)
<1>1. Kind(us, q) = "Identifier" /\ q + 1 = Len(us)
    <2>1. 3 = Len(SchemaKinds) /\ SchemaKinds \in Shortest /\ SchemaKinds[3] = "Identifier"
        BY ShortestFacts DEF SchemaKinds
    <2>2. 3 \in 1 .. Len(SchemaKinds)
        BY <2>1
    <2>3. QED BY <2>1, <2>2, RestsStep
<1>2. f = Parsed(us[q].lexeme, Len(us))
    BY <1>1 DEF Expect
<1>3. NameToEnd(us, q, schema) = IF f.ok THEN FinishStatement(us, f.behind, statement) ELSE f
    BY DEF NameToEnd
<1> HIDE DEF f
<1>4. f.ok /\ f.behind = Len(us)
    BY <1>2 DEF Parsed
<1>5. QED BY <1>3, <1>4, FinishAtEnd

LEMMA NameMends ==
    ASSUME NEW ts, IsScan(ts), NEW p, Top(ts, p), NEW schema,
           NEW m \in Nat, ~NameToEnd(ts, p, schema).ok, NameToEnd(ts, p, schema).at = m + 1
    PROVE  \E kinds \in Completions(Depth(ts, m + 1)) :
               \A us : Mended(ts, us, m, kinds) => NameToEnd(us, p, schema).ok
<1> DEFINE f == Expect(ts, p, "Identifier")
           statement == IF schema THEN CreateSchemaStatement(f.tree)
                        ELSE CreateDatabaseStatement(f.tree)
           g == FinishStatement(ts, f.behind, statement)
           r == NameToEnd(ts, p, schema)
<1>1. r = IF f.ok THEN g ELSE f
    BY DEF NameToEnd
<1>2. Moves(ts, p, f) /\ (~f.ok => f.at = p)
    BY ExpectMoves
<1>3. f.ok => Late(ts, f.behind, g)
    BY <1>2, FinishLate DEF Moves, Top
<1>4. p \in 1 .. m + 1 /\ (f.ok => f.behind \in 1 .. m + 1)
    <2> HIDE DEF f, g, r
    <2>1. ~r.ok /\ r.at = m + 1
        BY DEF r
    <2>2. QED BY <1>1, <1>2, <1>3, <2>1, MovesOn
<1>5. CASE f.ok
    <2>1. r = g /\ Top(ts, f.behind)
        BY <1>1, <1>2, <1>5 DEF Moves
    <2>2. PICK kinds \in Completions(Depth(ts, m + 1)) :
              \A us : Mended(ts, us, m, kinds) => FinishStatement(us, f.behind, statement).ok
        BY <2>1, FinishMends DEF Top
    <2>3. ASSUME NEW us, Mended(ts, us, m, kinds)
          PROVE  NameToEnd(us, p, schema).ok
        <3>1. Alike(ts, us, m)
            BY <2>3 DEF Mended
        <3>2. Tracks(us, m, NameStop(us, m), f, Expect(us, p, "Identifier"))
            BY <1>4, <3>1, NameTracks
        <3>3. f = Expect(us, p, "Identifier")
            BY <1>4, <1>5, <2>3, <3>2, DepthIsNumber, MendedKeeps
        <3>4. NameToEnd(us, p, schema) = FinishStatement(us, f.behind, statement)
            BY <1>5, <3>3 DEF NameToEnd
        <3>5. QED BY <2>2, <2>3, <3>4
    <2>4. QED BY <2>3
<1>6. CASE ~f.ok
    <2>1. p = m + 1
        BY <1>1, <1>2, <1>6
    <2>2. SchemaKinds \in Shortest /\ 3 \in 1 .. Len(SchemaKinds)
        BY ShortestFacts
    <2> DEFINE kinds == SubSeq(SchemaKinds, 3, Len(SchemaKinds))
    <2>3. kinds \in Completions(Depth(ts, m + 1))
        BY <2>2, SuffixCompletes
    <2>4. ASSUME NEW us, Mended(ts, us, m, kinds)
          PROVE  NameToEnd(us, p, schema).ok
        <3>1. IsScan(us) /\ Rests(us, m + 1, SchemaKinds, 3)
            BY <2>2, <2>4, SuffixRests DEF Mended, Alike
        <3>2. QED BY <2>1, <3>1, NameRests
    <2> HIDE DEF kinds
    <2>5. QED BY <2>3, <2>4
<1>7. QED BY <1>5, <1>6

-----------------------------------------------------------------------------
(* What closes the parentheses that are open.                              *)
LEMMA ClosingMends ==
    ASSUME NEW ts, NEW m \in Nat, m # 0, Depth(ts, m + 1) \in Nat
    PROVE  \E kinds \in Completions(Depth(ts, m + 1)) :
               \A us : Mended(ts, us, m, kinds) => ClosedBehind(ts, us, m)
<1>1. PICK d \in Nat : d = Depth(ts, m + 1)
    OBVIOUS
<1>2. CASE Kind(ts, m) \in Lasts
    <2>1. Closing(d) \in Completions(d)
        BY DEF Completions
    <2>2. Len(Closing(d)) = d /\ \A i \in 1 .. d : Closing(d)[i] = "RParen"
        BY ClosingIs
    <2>3. ASSUME NEW us, Mended(ts, us, m, Closing(d))
          PROVE  ClosedBehind(ts, us, m)
        <3>1. Len(us) = m + d + 1 /\ \A i \in 1 .. d : Kind(us, m + i) = "RParen"
            BY <2>2, <2>3 DEF Mended, Ending
        <3>2. FirstClose(ts, m) = m + 1
            BY <1>2 DEF FirstClose
        <3>3. ASSUME NEW k \in m + 1 .. Len(us) - 1
              PROVE  Kind(us, k) = "RParen"
            <4>1. PICK i : i = k - m
                OBVIOUS
            <4>2. i \in 1 .. d /\ m + i = k
                BY <3>1, <4>1
            <4>3. QED BY <3>1, <4>2
        <3>4. Len(us) = m + 1 + d
            BY <3>1
        <3>5. QED BY <1>1, <1>2, <3>2, <3>3, <3>4 DEF ClosedBehind
    <2>4. QED BY <1>1, <2>1, <2>3
<1>3. CASE Kind(ts, m) \notin Lasts
    <2> DEFINE kinds == <<"Identifier">> \o Closing(d)
    <2>1. kinds \in Completions(d)
        BY DEF Completions
    <2>2. /\ Len(kinds) = d + 1 /\ kinds[1] = "Identifier"
          /\ \A i \in 1 .. d : kinds[i + 1] = "RParen"
        <3>1. d \in Int
            OBVIOUS
        <3>2. QED BY <3>1, NameClosingIs, Zenon
    <2> HIDE DEF kinds
    <2>3. ASSUME NEW us, Mended(ts, us, m, kinds)
          PROVE  ClosedBehind(ts, us, m)
        <3>1. Len(us) = m + (d + 1) + 1 /\ \A i \in 1 .. d + 1 : Kind(us, m + i) = kinds[i]
            BY <2>2, <2>3 DEF Mended, Ending
        <3>2. FirstClose(ts, m) = m + 2
            BY <1>3 DEF FirstClose
        <3>3. ASSUME NEW k \in m + 2 .. Len(us) - 1
              PROVE  Kind(us, k) = "RParen"
            <4>1. PICK i : i = k - m - 1
                OBVIOUS
            <4>2. i \in 1 .. d /\ i + 1 \in 1 .. d + 1 /\ m + (i + 1) = k
                BY <3>1, <4>1
            <4>3. Kind(us, m + (i + 1)) = kinds[i + 1]
                BY <3>1, <4>2
            <4>4. QED BY <2>2, <4>2, <4>3
        <3>4. Len(us) = m + 2 + d /\ 1 \in 1 .. d + 1
            BY <3>1
        <3>5. Kind(us, m + 1) = "Identifier"
            BY <2>2, <3>1, <3>4
        <3>6. QED BY <1>1, <1>3, <3>2, <3>3, <3>4, <3>5 DEF ClosedBehind
    <2>4. QED BY <1>1, <2>1, <2>3
<1>4. QED BY <1>2, <1>3

LEMMA WhereDeep ==
    ASSUME NEW ts, IsScan(ts), NEW p, Top(ts, p), ~ParseWhere(ts, p).ok
    PROVE  LET f == ParseWhere(ts, p)
           IN  f.at \in p + 1 .. Len(ts) /\ Depth(ts, f.at) \in Nat
<1> DEFINE f == ParseWhere(ts, p)
<1>1. PICK k : k = p + 1
    OBVIOUS
<1>2. p \in 1 .. Len(ts) /\ Len(ts) \in Nat /\ Depth(ts, p) = 0
    BY DEF Top, IsScan
<1>3. Kind(ts, p) = "Where"
    <2>1. Kind(ts, p) # "Where" => f = Parsed(NoWhere, p)
        BY DEF ParseWhere
    <2>2. Parsed(NoWhere, p).ok
        BY DEF Parsed
    <2>3. QED BY <2>1, <2>2
<1>4. f = ParseExpression(ts, k)
    BY <1>1, <1>3 DEF ParseWhere
<1>5. k \in 1 .. Len(ts) /\ Depth(ts, k) = 0
    BY <1>1, <1>2, <1>3, StepsOver
<1>6. Stays(ts, k, f)
    BY <1>4, <1>5, ExpressionsStay
<1>7. ~f.ok
    OBVIOUS
<1> HIDE DEF f
<1>8. f.at \in p + 1 .. Len(ts) /\ Depth(ts, f.at) >= 0
    BY <1>1, <1>5, <1>6, <1>7 DEF Stays
<1>9. f.at \in Nat \ {0}
    BY <1>2, <1>8
<1>10. Depth(ts, f.at) \in Nat
    <2>1. PICK d \in Int : d = Depth(ts, f.at)
        BY <1>9, DepthIsNumber
    <2>2. QED BY <1>8, <2>1
<1>11. QED BY <1>8, <1>10 DEF f

-----------------------------------------------------------------------------
(* The parts of a SELECT, each with the rest of the statement.             *)
WhereToEnd(ts, p, list, ref) ==
    LET where == ParseWhere(ts, p)
    IN  IF where.ok
        THEN FinishStatement(ts, where.behind,
                 SelectStatement(ref.schema, ref.table, list.all, list.columns, where.tree))
        ELSE where
ReferenceToEnd(ts, p, list) ==
    LET ref == ParseTableReference(ts, p)
    IN  IF ref.ok THEN WhereToEnd(ts, ref.behind, list, ref.tree) ELSE ref
FromToEnd(ts, p, list) ==
    LET from == Expect(ts, p, "From")
    IN  IF from.ok THEN ReferenceToEnd(ts, from.behind, list) ELSE from

LEMMA SelectToEnd ==
    ASSUME NEW ts, NEW p
    PROVE  LET list == ParseSelectList(ts, p)
           IN  ParseSelect(ts, p)
                   = IF list.ok THEN FromToEnd(ts, list.behind, list.tree) ELSE list
BY DEF ParseSelect, FromToEnd, ReferenceToEnd, WhereToEnd, Then

LEMMA SelectKindsAre ==
    /\ SelectKinds \in Shortest /\ 4 = Len(SelectKinds)
    /\ 2 \in 1 .. Len(SelectKinds) /\ 3 \in 1 .. Len(SelectKinds) /\ 4 \in 1 .. Len(SelectKinds)
    /\ SelectKinds[2] = "Identifier" /\ SelectKinds[3] = "From" /\ SelectKinds[4] = "Identifier"
<1>1. SelectKinds \in Shortest /\ Len(SelectKinds) = 4
    BY ShortestFacts
<1>2. SelectKinds[2] = "Identifier" /\ SelectKinds[3] = "From" /\ SelectKinds[4] = "Identifier"
    BY DEF SelectKinds
<1>3. QED BY <1>1, <1>2

LEMMA WhereAtEnd ==
    ASSUME NEW us, IsScan(us), NEW list, NEW ref
    PROVE  WhereToEnd(us, Len(us), list, ref).ok
<1> DEFINE f == ParseWhere(us, Len(us))
<1>1. Kind(us, Len(us)) = "EndOfFile"
    BY DEF IsScan
<1>2. f = Parsed(NoWhere, Len(us))
    BY <1>1 DEF ParseWhere
<1>3. f.ok /\ f.behind = Len(us)
    BY <1>2 DEF Parsed
<1>4. WhereToEnd(us, Len(us), list, ref)
          = FinishStatement(us, Len(us),
                SelectStatement(ref.schema, ref.table, list.all, list.columns, f.tree))
    BY <1>3 DEF WhereToEnd
<1>5. QED BY <1>4, FinishAtEnd

LEMMA WhereLate ==
    ASSUME NEW ts, IsScan(ts), NEW p, Top(ts, p), NEW list, NEW ref
    PROVE  Late(ts, p, WhereToEnd(ts, p, list, ref))
<1> DEFINE f == ParseWhere(ts, p)
           g == FinishStatement(ts, f.behind,
                    SelectStatement(ref.schema, ref.table, list.all, list.columns, f.tree))
<1>1. WhereToEnd(ts, p, list, ref) = IF f.ok THEN g ELSE f
    BY DEF WhereToEnd
<1>2. Moves(ts, p, f)
    BY ListsMove
<1>3. f.ok => Late(ts, f.behind, g)
    BY <1>2, FinishLate DEF Moves, Top
<1> HIDE DEF f, g
<1>4. QED BY <1>1, <1>2, <1>3, MovesOn

LEMMA WhereSame ==
    ASSUME NEW ts, NEW us, NEW m, Alike(ts, us, m), NEW p \in 1 .. m + 1, Top(ts, p), NEW list, NEW ref
    PROVE  Same(m, WhereToEnd(ts, p, list, ref), WhereToEnd(us, p, list, ref))
<1> DEFINE f == ParseWhere(ts, p)
           fU == ParseWhere(us, p)
           g == FinishStatement(ts, f.behind,
                    SelectStatement(ref.schema, ref.table, list.all, list.columns, f.tree))
           gU == FinishStatement(us, fU.behind,
                    SelectStatement(ref.schema, ref.table, list.all, list.columns, fU.tree))
<1>1. /\ WhereToEnd(ts, p, list, ref) = IF f.ok THEN g ELSE f
      /\ WhereToEnd(us, p, list, ref) = IF fU.ok THEN gU ELSE fU
    BY DEF WhereToEnd
<1>2. IsScan(ts) /\ m \in Nat
    BY DEF Alike
<1>3. Moves(ts, p, f) /\ Tracks(us, m, 0, f, fU)
    BY <1>2, ListsMove, WhereTracks DEF Top
<1>4. f.ok => Late(ts, f.behind, g)
    BY <1>2, <1>3, FinishLate DEF Moves, Top
<1>5. fU = f /\ f.behind \in 1 .. m /\ Top(ts, f.behind) => Same(m, g, gU)
    <2>1. f.behind \in 1 .. m => f.behind \in 1 .. m + 1
        BY <1>2
    <2>2. QED BY <2>1, FinishSame
<1> HIDE DEF f, fU, g, gU
<1>6. QED BY <1>1, <1>2, <1>3, <1>4, <1>5, MovesSame

LEMMA WhereMends ==
    ASSUME NEW ts, IsScan(ts), NEW p, Top(ts, p), NEW list, NEW ref,
           NEW m \in Nat, ~WhereToEnd(ts, p, list, ref).ok, WhereToEnd(ts, p, list, ref).at = m + 1
    PROVE  \E kinds \in Completions(Depth(ts, m + 1)) :
               \A us : Mended(ts, us, m, kinds) => WhereToEnd(us, p, list, ref).ok
<1> DEFINE f == ParseWhere(ts, p)
           g == FinishStatement(ts, f.behind,
                    SelectStatement(ref.schema, ref.table, list.all, list.columns, f.tree))
           r == WhereToEnd(ts, p, list, ref)
<1>1. r = IF f.ok THEN g ELSE f
    BY DEF WhereToEnd
<1>2. Moves(ts, p, f)
    BY ListsMove
<1>3. f.ok => Late(ts, f.behind, g)
    BY <1>2, FinishLate DEF Moves, Top
<1>4. p \in 1 .. m + 1 /\ (f.ok => f.behind \in 1 .. m + 1)
    <2> HIDE DEF f, g, r
    <2>1. ~r.ok /\ r.at = m + 1
        BY DEF r
    <2>2. QED BY <1>1, <1>2, <1>3, <2>1, MovesOn
<1>5. CASE f.ok
    <2>1. r = g /\ Top(ts, f.behind)
        BY <1>1, <1>2, <1>5 DEF Moves
    <2>2. PICK kinds \in Completions(Depth(ts, m + 1)) :
              \A us : Mended(ts, us, m, kinds) => FinishStatement(us, f.behind,
                    SelectStatement(ref.schema, ref.table, list.all, list.columns, f.tree)).ok
        BY <2>1, FinishMends DEF Top
    <2>3. ASSUME NEW us, Mended(ts, us, m, kinds)
          PROVE  WhereToEnd(us, p, list, ref).ok
        <3>1. Alike(ts, us, m)
            BY <2>3 DEF Mended
        <3>2. Tracks(us, m, 0, f, ParseWhere(us, p))
            BY <1>4, <3>1, WhereTracks DEF Top
        <3>3. f = ParseWhere(us, p)
            BY <1>4, <1>5, <2>3, <3>2, DepthIsNumber, MendedKeeps
        <3>4. WhereToEnd(us, p, list, ref) = FinishStatement(us, f.behind,
                    SelectStatement(ref.schema, ref.table, list.all, list.columns, f.tree))
            BY <1>5, <3>3 DEF WhereToEnd
        <3>5. QED BY <2>2, <2>3, <3>4
    <2>4. QED BY <2>3
<1>6. CASE ~f.ok
    <2>1. f.at = m + 1 /\ f.at \in p + 1 .. Len(ts) /\ Depth(ts, m + 1) \in Nat
        BY <1>1, <1>6, WhereDeep
    <2>2. m # 0
        BY <1>4, <2>1
    <2>3. PICK kinds \in Completions(Depth(ts, m + 1)) :
              \A us : Mended(ts, us, m, kinds) => ClosedBehind(ts, us, m)
        BY <2>1, <2>2, ClosingMends
    <2>4. ASSUME NEW us, Mended(ts, us, m, kinds)
          PROVE  WhereToEnd(us, p, list, ref).ok
        <3>1. Alike(ts, us, m) /\ ClosedBehind(ts, us, m) /\ IsScan(us) /\ Len(us) # 0
            BY <2>3, <2>4 DEF Mended, Alike, IsScan
        <3> DEFINE fU == ParseWhere(us, p)
        <3>2. Tracks(us, m, Len(us), f, fU)
            BY <1>4, <3>1, WhereTracks DEF Top
        <3> HIDE DEF f, fU
        <3>3. fU.ok /\ fU.behind = Len(us)
            BY <1>6, <2>1, <3>1, <3>2 DEF Tracks
        <3>4. WhereToEnd(us, p, list, ref)
                  = FinishStatement(us, Len(us),
                        SelectStatement(ref.schema, ref.table, list.all, list.columns, fU.tree))
            BY <3>3 DEF WhereToEnd, fU
        <3>5. QED BY <3>1, <3>4, FinishAtEnd
    <2>5. QED BY <2>4
<1>7. QED BY <1>5, <1>6

LEMMA ReferenceLate ==
    ASSUME NEW ts, IsScan(ts), NEW p, Top(ts, p), NEW list
    PROVE  Late(ts, p, ReferenceToEnd(ts, p, list))
<1> DEFINE f == ParseTableReference(ts, p)
           g == WhereToEnd(ts, f.behind, list, f.tree)
<1>1. ReferenceToEnd(ts, p, list) = IF f.ok THEN g ELSE f
    BY DEF ReferenceToEnd
<1>2. Moves(ts, p, f)
    BY ReferenceMoves
<1>3. f.ok => Late(ts, f.behind, g)
    BY <1>2, WhereLate DEF Moves
<1> HIDE DEF f, g
<1>4. QED BY <1>1, <1>2, <1>3, MovesOn

LEMMA ReferenceSame ==
    ASSUME NEW ts, NEW us, NEW m, Alike(ts, us, m), NEW p \in 1 .. m + 1, Top(ts, p), NEW list
    PROVE  Same(m, ReferenceToEnd(ts, p, list), ReferenceToEnd(us, p, list))
<1> DEFINE f == ParseTableReference(ts, p)
           fU == ParseTableReference(us, p)
           g == WhereToEnd(ts, f.behind, list, f.tree)
           gU == WhereToEnd(us, fU.behind, list, fU.tree)
<1>1. /\ ReferenceToEnd(ts, p, list) = IF f.ok THEN g ELSE f
      /\ ReferenceToEnd(us, p, list) = IF fU.ok THEN gU ELSE fU
    BY DEF ReferenceToEnd
<1>2. IsScan(ts) /\ m \in Nat
    BY DEF Alike
<1>3. Moves(ts, p, f) /\ Tracks(us, m, NameStop(us, m), f, fU)
    BY <1>2, ReferenceMoves, ReferenceTracks
<1>4. f.ok => Late(ts, f.behind, g)
    BY <1>2, <1>3, WhereLate DEF Moves
<1>5. fU = f /\ f.behind \in 1 .. m /\ Top(ts, f.behind) => Same(m, g, gU)
    <2>1. f.behind \in 1 .. m => f.behind \in 1 .. m + 1
        BY <1>2
    <2>2. QED BY <2>1, WhereSame
<1> HIDE DEF f, fU, g, gU
<1>6. QED BY <1>1, <1>2, <1>3, <1>4, <1>5, MovesSame

LEMMA ReferenceRests ==
    ASSUME NEW us, IsScan(us), NEW q \in Nat, Rests(us, q, SelectKinds, 4), NEW list
    PROVE  ReferenceToEnd(us, q, list).ok
<1> DEFINE f == ParseTableReference(us, q)
<1>1. Kind(us, q) = "Identifier" /\ q + 1 = Len(us)
    BY SelectKindsAre, RestsStep
<1>2. PICK k : k = q + 1
    OBVIOUS
<1>3. Kind(us, k) # "Dot"
    BY <1>1, <1>2 DEF IsScan
<1>4. f = Parsed(TableReference(EmptyName, us[q].lexeme), Len(us))
    BY <1>1, <1>2, <1>3, ReferenceCases
<1> HIDE DEF f
<1>5. f.ok /\ f.behind = Len(us)
    BY <1>4 DEF Parsed
<1>6. ReferenceToEnd(us, q, list) = WhereToEnd(us, Len(us), list, f.tree)
    BY <1>5 DEF ReferenceToEnd, f
<1>7. QED BY <1>6, WhereAtEnd

LEMMA ReferenceMends ==
    ASSUME NEW ts, IsScan(ts), NEW p, Top(ts, p), NEW list,
           NEW m \in Nat, ~ReferenceToEnd(ts, p, list).ok, ReferenceToEnd(ts, p, list).at = m + 1
    PROVE  \E kinds \in Completions(Depth(ts, m + 1)) :
               \A us : Mended(ts, us, m, kinds) => ReferenceToEnd(us, p, list).ok
<1> DEFINE f == ParseTableReference(ts, p)
           g == WhereToEnd(ts, f.behind, list, f.tree)
           r == ReferenceToEnd(ts, p, list)
<1>1. r = IF f.ok THEN g ELSE f
    BY DEF ReferenceToEnd
<1>2. Moves(ts, p, f)
    BY ReferenceMoves
<1>3. f.ok => Late(ts, f.behind, g)
    BY <1>2, WhereLate DEF Moves
<1>4. p \in 1 .. m + 1 /\ (f.ok => f.behind \in 1 .. m + 1)
    <2> HIDE DEF f, g, r
    <2>1. ~r.ok /\ r.at = m + 1
        BY DEF r
    <2>2. QED BY <1>1, <1>2, <1>3, <2>1, MovesOn
<1>5. CASE f.ok
    <2>1. r = g /\ Top(ts, f.behind)
        BY <1>1, <1>2, <1>5 DEF Moves
    <2>2. PICK kinds \in Completions(Depth(ts, m + 1)) :
              \A us : Mended(ts, us, m, kinds) => WhereToEnd(us, f.behind, list, f.tree).ok
        BY <2>1, WhereMends
    <2>3. ASSUME NEW us, Mended(ts, us, m, kinds)
          PROVE  ReferenceToEnd(us, p, list).ok
        <3>1. Alike(ts, us, m)
            BY <2>3 DEF Mended
        <3>2. Tracks(us, m, NameStop(us, m), f, ParseTableReference(us, p))
            BY <1>4, <3>1, ReferenceTracks
        <3>3. f = ParseTableReference(us, p)
            BY <1>4, <1>5, <2>3, <3>2, DepthIsNumber, MendedKeeps
        <3>4. ReferenceToEnd(us, p, list) = WhereToEnd(us, f.behind, list, f.tree)
            BY <1>5, <3>3 DEF ReferenceToEnd
        <3>5. QED BY <2>2, <2>3, <3>4
    <2>4. QED BY <2>3
<1>6. CASE ~f.ok
    <2>1. f.at = m + 1
        BY <1>1, <1>6
    <2> DEFINE kinds == SubSeq(SelectKinds, 4, Len(SelectKinds))
    <2>2. kinds \in Completions(Depth(ts, m + 1))
        BY SelectKindsAre, SuffixCompletes
    <2>3. ASSUME NEW us, Mended(ts, us, m, kinds)
          PROVE  ReferenceToEnd(us, p, list).ok
        <3>1. IsScan(us) /\ Alike(ts, us, m) /\ Rests(us, m + 1, SelectKinds, 4) /\ m + 1 \in Nat
            BY <2>3, SelectKindsAre, SuffixRests DEF Mended, Alike
        <3> DEFINE fU == ParseTableReference(us, p)
        <3>2. Kind(us, m + 1) = "Identifier" /\ m + 1 + 1 = Len(us) /\ m + 1 + 1 = m + 2
            BY <3>1, SelectKindsAre, RestsStep
        <3>3. Kind(us, m + 2) \notin Continuing
            <4>1. Kind(us, m + 2) = "EndOfFile"
                BY <3>1, <3>2 DEF IsScan
            <4>2. QED BY <4>1 DEF Continuing, ComparisonOperators, OrderingOperators
        <3>4. NameStop(us, m) = Len(us) /\ Len(us) # 0
            BY <3>1, <3>2, <3>3 DEF NameStop, IsScan
        <3>5. Tracks(us, m, NameStop(us, m), f, fU)
            BY <1>4, <3>1, ReferenceTracks
        <3> HIDE DEF f, fU
        <3>6. fU.ok /\ fU.behind = Len(us)
            BY <1>6, <2>1, <3>4, <3>5 DEF Tracks
        <3>7. ReferenceToEnd(us, p, list) = WhereToEnd(us, Len(us), list, fU.tree)
            BY <3>6 DEF ReferenceToEnd, fU
        <3>8. QED BY <3>1, <3>7, WhereAtEnd
    <2> HIDE DEF kinds
    <2>4. QED BY <2>2, <2>3
<1>7. QED BY <1>5, <1>6

LEMMA FromLate ==
    ASSUME NEW ts, IsScan(ts), NEW p, Top(ts, p), NEW list
    PROVE  Late(ts, p, FromToEnd(ts, p, list))
<1> DEFINE f == Expect(ts, p, "From")
           g == ReferenceToEnd(ts, f.behind, list)
<1>1. FromToEnd(ts, p, list) = IF f.ok THEN g ELSE f
    BY DEF FromToEnd
<1>2. Moves(ts, p, f)
    BY ExpectMoves
<1>3. f.ok => Late(ts, f.behind, g)
    BY <1>2, ReferenceLate DEF Moves
<1> HIDE DEF f, g
<1>4. QED BY <1>1, <1>2, <1>3, MovesOn

LEMMA FromSame ==
    ASSUME NEW ts, NEW us, NEW m, Alike(ts, us, m), NEW p \in 1 .. m + 1, Top(ts, p), NEW list
    PROVE  Same(m, FromToEnd(ts, p, list), FromToEnd(us, p, list))
<1> DEFINE f == Expect(ts, p, "From")
           fU == Expect(us, p, "From")
           g == ReferenceToEnd(ts, f.behind, list)
           gU == ReferenceToEnd(us, fU.behind, list)
<1>1. /\ FromToEnd(ts, p, list) = IF f.ok THEN g ELSE f
      /\ FromToEnd(us, p, list) = IF fU.ok THEN gU ELSE fU
    BY DEF FromToEnd
<1>2. IsScan(ts) /\ m \in Nat
    BY DEF Alike
<1>3. Moves(ts, p, f) /\ Tracks(us, m, 0, f, fU)
    BY <1>2, ExpectMoves, ExpectTracks
<1>4. f.ok => Late(ts, f.behind, g)
    BY <1>2, <1>3, ReferenceLate DEF Moves
<1>5. fU = f /\ f.behind \in 1 .. m /\ Top(ts, f.behind) => Same(m, g, gU)
    <2>1. f.behind \in 1 .. m => f.behind \in 1 .. m + 1
        BY <1>2
    <2>2. QED BY <2>1, ReferenceSame
<1> HIDE DEF f, fU, g, gU
<1>6. QED BY <1>1, <1>2, <1>3, <1>4, <1>5, MovesSame

LEMMA FromRests ==
    ASSUME NEW us, IsScan(us), NEW q \in Nat, Rests(us, q, SelectKinds, 3), NEW list
    PROVE  FromToEnd(us, q, list).ok
<1> DEFINE f == Expect(us, q, "From")
<1>1. PICK k \in Nat : k = q + 1
    OBVIOUS
<1>2. Kind(us, q) = "From" /\ Rests(us, k, SelectKinds, 4)
    BY <1>1, SelectKindsAre, RestsStep
<1>3. f = Parsed(us[q].lexeme, k)
    BY <1>1, <1>2 DEF Expect
<1> HIDE DEF f
<1>4. f.ok /\ f.behind = k
    BY <1>3 DEF Parsed
<1>5. FromToEnd(us, q, list) = ReferenceToEnd(us, k, list)
    BY <1>4 DEF FromToEnd, f
<1>6. QED BY <1>2, <1>5, ReferenceRests

LEMMA FromMends ==
    ASSUME NEW ts, IsScan(ts), NEW p, Top(ts, p), NEW list,
           NEW m \in Nat, ~FromToEnd(ts, p, list).ok, FromToEnd(ts, p, list).at = m + 1
    PROVE  \E kinds \in Completions(Depth(ts, m + 1)) :
               \A us : Mended(ts, us, m, kinds) => FromToEnd(us, p, list).ok
<1> DEFINE f == Expect(ts, p, "From")
           g == ReferenceToEnd(ts, f.behind, list)
           r == FromToEnd(ts, p, list)
<1>1. r = IF f.ok THEN g ELSE f
    BY DEF FromToEnd
<1>2. Moves(ts, p, f)
    BY ExpectMoves
<1>3. f.ok => Late(ts, f.behind, g)
    BY <1>2, ReferenceLate DEF Moves
<1>4. p \in 1 .. m + 1 /\ (f.ok => f.behind \in 1 .. m + 1)
    <2> HIDE DEF f, g, r
    <2>1. ~r.ok /\ r.at = m + 1
        BY DEF r
    <2>2. QED BY <1>1, <1>2, <1>3, <2>1, MovesOn
<1>5. CASE f.ok
    <2>1. r = g /\ Top(ts, f.behind)
        BY <1>1, <1>2, <1>5 DEF Moves
    <2>2. PICK kinds \in Completions(Depth(ts, m + 1)) :
              \A us : Mended(ts, us, m, kinds) => ReferenceToEnd(us, f.behind, list).ok
        BY <2>1, ReferenceMends
    <2>3. ASSUME NEW us, Mended(ts, us, m, kinds)
          PROVE  FromToEnd(us, p, list).ok
        <3>1. Alike(ts, us, m)
            BY <2>3 DEF Mended
        <3>2. Tracks(us, m, 0, f, Expect(us, p, "From"))
            BY <1>4, <3>1, ExpectTracks
        <3>3. f = Expect(us, p, "From")
            BY <1>4, <1>5, <2>3, <3>2, DepthIsNumber, MendedKeeps
        <3>4. FromToEnd(us, p, list) = ReferenceToEnd(us, f.behind, list)
            BY <1>5, <3>3 DEF FromToEnd
        <3>5. QED BY <2>2, <2>3, <3>4
    <2>4. QED BY <2>3
<1>6. CASE ~f.ok
    <2>1. f.at = m + 1
        BY <1>1, <1>6
    <2> DEFINE kinds == SubSeq(SelectKinds, 3, Len(SelectKinds))
    <2>2. kinds \in Completions(Depth(ts, m + 1))
        BY SelectKindsAre, SuffixCompletes
    <2>3. ASSUME NEW us, Mended(ts, us, m, kinds)
          PROVE  FromToEnd(us, p, list).ok
        <3>1. IsScan(us) /\ Alike(ts, us, m) /\ Rests(us, m + 1, SelectKinds, 3) /\ m + 1 \in Nat
            BY <2>3, SelectKindsAre, SuffixRests DEF Mended, Alike
        <3>2. p = m + 1
            BY <1>6, <2>1, ExpectMoves
        <3>3. QED BY <3>1, <3>2, FromRests
    <2> HIDE DEF kinds
    <2>4. QED BY <2>2, <2>3
<1>7. QED BY <1>5, <1>6

LEMMA SelectLate ==
    ASSUME NEW ts, IsScan(ts), NEW p, Top(ts, p)
    PROVE  Late(ts, p, ParseSelect(ts, p))
<1> DEFINE f == ParseSelectList(ts, p)
           g == FromToEnd(ts, f.behind, f.tree)
<1>1. ParseSelect(ts, p) = IF f.ok THEN g ELSE f
    BY SelectToEnd
<1>2. Moves(ts, p, f)
    BY ListsMove
<1>3. f.ok => Late(ts, f.behind, g)
    BY <1>2, FromLate DEF Moves
<1> HIDE DEF f, g
<1>4. QED BY <1>1, <1>2, <1>3, MovesOn

LEMMA SelectSame ==
    ASSUME NEW ts, NEW us, NEW m, Alike(ts, us, m), NEW p \in 1 .. m + 1, Top(ts, p)
    PROVE  Same(m, ParseSelect(ts, p), ParseSelect(us, p))
<1> DEFINE f == ParseSelectList(ts, p)
           fU == ParseSelectList(us, p)
           g == FromToEnd(ts, f.behind, f.tree)
           gU == FromToEnd(us, fU.behind, fU.tree)
<1>1. /\ ParseSelect(ts, p) = IF f.ok THEN g ELSE f
      /\ ParseSelect(us, p) = IF fU.ok THEN gU ELSE fU
    BY SelectToEnd
<1>2. IsScan(ts) /\ m \in Nat
    BY DEF Alike
<1>3. Moves(ts, p, f) /\ Tracks(us, m, NameStop(us, m), f, fU)
    BY <1>2, ListsMove, SelectListTracks
<1>4. f.ok => Late(ts, f.behind, g)
    BY <1>2, <1>3, FromLate DEF Moves
<1>5. fU = f /\ f.behind \in 1 .. m /\ Top(ts, f.behind) => Same(m, g, gU)
    <2>1. f.behind \in 1 .. m => f.behind \in 1 .. m + 1
        BY <1>2
    <2>2. QED BY <2>1, FromSame
<1> HIDE DEF f, fU, g, gU
<1>6. QED BY <1>1, <1>2, <1>3, <1>4, <1>5, MovesSame

LEMMA SelectMends ==
    ASSUME NEW ts, IsScan(ts), NEW p, Top(ts, p),
           NEW m \in Nat, ~ParseSelect(ts, p).ok, ParseSelect(ts, p).at = m + 1
    PROVE  \E kinds \in Completions(Depth(ts, m + 1)) :
               \A us : Mended(ts, us, m, kinds) => ParseSelect(us, p).ok
<1> DEFINE f == ParseSelectList(ts, p)
           g == FromToEnd(ts, f.behind, f.tree)
           r == ParseSelect(ts, p)
<1>1. r = IF f.ok THEN g ELSE f
    BY SelectToEnd
<1>2. Moves(ts, p, f)
    BY ListsMove
<1>3. f.ok => Late(ts, f.behind, g)
    BY <1>2, FromLate DEF Moves
<1>4. p \in 1 .. m + 1 /\ (f.ok => f.behind \in 1 .. m + 1)
    <2> HIDE DEF f, g, r
    <2>1. ~r.ok /\ r.at = m + 1
        BY DEF r
    <2>2. QED BY <1>1, <1>2, <1>3, <2>1, MovesOn
<1>5. CASE f.ok
    <2>1. r = g /\ Top(ts, f.behind)
        BY <1>1, <1>2, <1>5 DEF Moves
    <2>2. PICK kinds \in Completions(Depth(ts, m + 1)) :
              \A us : Mended(ts, us, m, kinds) => FromToEnd(us, f.behind, f.tree).ok
        BY <2>1, FromMends
    <2>3. ASSUME NEW us, Mended(ts, us, m, kinds)
          PROVE  ParseSelect(us, p).ok
        <3>1. Alike(ts, us, m)
            BY <2>3 DEF Mended
        <3>2. Tracks(us, m, NameStop(us, m), f, ParseSelectList(us, p))
            BY <1>4, <3>1, SelectListTracks
        <3>3. f = ParseSelectList(us, p)
            BY <1>4, <1>5, <2>3, <3>2, DepthIsNumber, MendedKeeps
        <3>4. ParseSelect(us, p) = FromToEnd(us, f.behind, f.tree)
            BY <1>5, <3>3, SelectToEnd
        <3>5. QED BY <2>2, <2>3, <3>4
    <2>4. QED BY <2>3
<1>6. CASE ~f.ok
    <2>1. f.at = m + 1
        BY <1>1, <1>6
    <2> DEFINE kinds == SubSeq(SelectKinds, 2, Len(SelectKinds))
    <2>2. kinds \in Completions(Depth(ts, m + 1))
        BY SelectKindsAre, SuffixCompletes
    <2>3. ASSUME NEW us, Mended(ts, us, m, kinds)
          PROVE  ParseSelect(us, p).ok
        <3>1. IsScan(us) /\ Alike(ts, us, m) /\ Rests(us, m + 1, SelectKinds, 2) /\ m + 1 \in Nat
            BY <2>3, SelectKindsAre, SuffixRests DEF Mended, Alike
        <3> DEFINE fU == ParseSelectList(us, p)
        <3>2. /\ Kind(us, m + 1) = "Identifier" /\ Rests(us, m + 2, SelectKinds, 3)
              /\ m + 2 \in Nat
            <4>1. m + 1 + 1 = m + 2
                OBVIOUS
            <4>2. QED BY <3>1, <4>1, SelectKindsAre, RestsStep
        <3>3. Kind(us, m + 2) \notin Continuing
            <4>1. Kind(us, m + 2) = "From"
                BY <3>2, SelectKindsAre, RestsStep
            <4>2. QED BY <4>1 DEF Continuing, ComparisonOperators, OrderingOperators
        <3>4. NameStop(us, m) = m + 2 /\ m + 2 # 0
            BY <3>2, <3>3 DEF NameStop
        <3>5. Tracks(us, m, NameStop(us, m), f, fU)
            BY <1>4, <3>1, SelectListTracks
        <3>6. fU.ok /\ fU.behind = m + 2
            <4> HIDE DEF f, fU
            <4>1. QED BY <1>6, <2>1, <3>4, <3>5 DEF Tracks
        <3>7. ParseSelect(us, p) = FromToEnd(us, m + 2, fU.tree)
            BY <3>6, SelectToEnd
        <3>8. QED BY <3>1, <3>2, <3>7, FromRests
    <2> HIDE DEF kinds
    <2>4. QED BY <2>2, <2>3
<1>7. QED BY <1>5, <1>6

-----------------------------------------------------------------------------
(* The parts of a CREATE TABLE, each with the rest of the statement.       *)
DefinitionsToEnd(ts, p, ref) ==
    LET columns == ParseDefinitions(ts, p)
    IN  IF columns.ok
        THEN FinishStatement(ts, columns.behind,
                 CreateTableStatement(ref.schema, ref.table, columns.tree))
        ELSE columns

LEMMA CreateTableToEnd ==
    ASSUME NEW ts, NEW p
    PROVE  LET ref == ParseTableReference(ts, p)
           IN  ParseCreateTable(ts, p)
                   = IF ref.ok THEN DefinitionsToEnd(ts, ref.behind, ref.tree) ELSE ref
BY DEF ParseCreateTable, DefinitionsToEnd, Then

LEMMA TableKindsAre ==
    /\ TableKinds \in Shortest /\ 7 = Len(TableKinds)
    /\ 3 \in 1 .. Len(TableKinds) /\ 4 \in 1 .. Len(TableKinds) /\ 5 \in 1 .. Len(TableKinds)
    /\ 6 \in 1 .. Len(TableKinds) /\ 7 \in 1 .. Len(TableKinds)
    /\ TableKinds[3] = "Identifier" /\ TableKinds[4] = "LParen" /\ TableKinds[5] = "Identifier"
    /\ TableKinds[6] = "Int" /\ TableKinds[7] = "RParen"
<1>1. TableKinds \in Shortest /\ Len(TableKinds) = 7
    BY ShortestFacts
<1>2. /\ TableKinds[3] = "Identifier" /\ TableKinds[4] = "LParen" /\ TableKinds[5] = "Identifier"
      /\ TableKinds[6] = "Int" /\ TableKinds[7] = "RParen"
    BY DEF TableKinds
<1>3. QED BY <1>1, <1>2

(* The last tokens of a list of definitions.                               *)
LEMMA DefinitionRests ==
    ASSUME NEW us, NEW q \in Nat
    PROVE  /\ Rests(us, q, TableKinds, 7) => Kind(us, q) = "RParen" /\ Len(us) = q + 1
           /\ Rests(us, q, TableKinds, 6) =>
                 Kind(us, q) = "Int" /\ Kind(us, q + 1) = "RParen" /\ Len(us) = q + 2
           /\ Rests(us, q, TableKinds, 5) =>
                 /\ Kind(us, q) = "Identifier" /\ Kind(us, q + 1) = "Int"
                 /\ Kind(us, q + 2) = "RParen" /\ Len(us) = q + 3
           /\ Rests(us, q, TableKinds, 4) =>
                 /\ Kind(us, q) = "LParen" /\ Kind(us, q + 1) = "Identifier"
                 /\ Kind(us, q + 2) = "Int" /\ Kind(us, q + 3) = "RParen" /\ Len(us) = q + 4
<1>1. \A n \in Nat : Rests(us, n, TableKinds, 7) => Kind(us, n) = "RParen" /\ Len(us) = n + 1
    BY TableKindsAre, RestsStep
<1>2. \A n \in Nat : Rests(us, n, TableKinds, 6) => Kind(us, n) = "Int" /\ Rests(us, n + 1, TableKinds, 7)
    BY TableKindsAre, RestsStep
<1>3. \A n \in Nat : Rests(us, n, TableKinds, 5) =>
          Kind(us, n) = "Identifier" /\ Rests(us, n + 1, TableKinds, 6)
    BY TableKindsAre, RestsStep
<1>4. \A n \in Nat : Rests(us, n, TableKinds, 4) =>
          Kind(us, n) = "LParen" /\ Rests(us, n + 1, TableKinds, 5)
    BY TableKindsAre, RestsStep
<1>5. PICK a \in Nat, b \in Nat, c \in Nat : a = q + 1 /\ b = q + 2 /\ c = q + 3
    OBVIOUS
<1>6. a + 1 = b /\ b + 1 = c /\ c + 1 = q + 4 /\ a + 1 = q + 2 /\ b + 1 = q + 3
    BY <1>5
<1>7. Rests(us, q, TableKinds, 6) => /\ Kind(us, q) = "Int" /\ Kind(us, a) = "RParen"
                                     /\ Len(us) = q + 2
    BY <1>1, <1>2, <1>5, <1>6
<1>8. Rests(us, a, TableKinds, 6) => /\ Kind(us, a) = "Int" /\ Kind(us, b) = "RParen"
                                     /\ Len(us) = q + 3
    BY <1>1, <1>2, <1>5, <1>6
<1>9. Rests(us, q, TableKinds, 5) => /\ Kind(us, q) = "Identifier" /\ Kind(us, a) = "Int"
                                     /\ Kind(us, b) = "RParen" /\ Len(us) = q + 3
    BY <1>3, <1>5, <1>8
<1>10. Rests(us, a, TableKinds, 5) => /\ Kind(us, a) = "Identifier" /\ Kind(us, b) = "Int"
                                      /\ Kind(us, c) = "RParen" /\ Len(us) = q + 4
    <2>1. Rests(us, b, TableKinds, 6) => /\ Kind(us, b) = "Int" /\ Kind(us, c) = "RParen"
                                         /\ Len(us) = q + 4
        BY <1>1, <1>2, <1>5, <1>6
    <2>2. QED BY <1>3, <1>5, <1>6, <2>1
<1>11. Rests(us, q, TableKinds, 4) =>
           /\ Kind(us, q) = "LParen" /\ Kind(us, a) = "Identifier"
           /\ Kind(us, b) = "Int" /\ Kind(us, c) = "RParen" /\ Len(us) = q + 4
    BY <1>4, <1>5, <1>10
<1>12. QED BY <1>1, <1>5, <1>7, <1>9, <1>11

LEMMA DefinitionsMended ==
    ASSUME NEW ts, NEW m \in Nat, NEW p \in 1 .. m + 1, NEW n
    PROVE  \E kinds \in Completions(n) :
               \A us : Mended(ts, us, m, kinds) =>
                   DefinitionsEnd(ts, us, m, p) /\ BehindDefinitions(ts, m, p) = Len(us)
<1> DEFINE k == IF p = m + 1 THEN 4
                ELSE IF Kind(ts, m) \in {"Int", "Text"} THEN 7
                ELSE IF Kind(ts, m) = "Identifier" THEN 6 ELSE 5
           kinds == SubSeq(TableKinds, k, Len(TableKinds))
<1>1. k \in 1 .. Len(TableKinds)
    BY TableKindsAre
<1>2. kinds \in Completions(n)
    <2> HIDE DEF k
    <2>1. QED BY <1>1, TableKindsAre, SuffixCompletes
<1>3. ASSUME NEW us, Mended(ts, us, m, kinds)
      PROVE  DefinitionsEnd(ts, us, m, p) /\ BehindDefinitions(ts, m, p) = Len(us)
    <2>1. PICK q \in Nat : q = m + 1
        OBVIOUS
    <2>2. Rests(us, q, TableKinds, k)
        <3> HIDE DEF k
        <3>1. QED BY <1>1, <1>3, <2>1, TableKindsAre, SuffixRests DEF Mended
    <2>3. CASE p = m + 1
        <3>1. Rests(us, p, TableKinds, 4) /\ p \in Nat
            BY <2>1, <2>2, <2>3
        <3>2. /\ Kind(us, p) = "LParen" /\ Kind(us, p + 1) = "Identifier"
              /\ Kind(us, p + 2) = "Int" /\ Kind(us, p + 3) = "RParen" /\ Len(us) = p + 4
            BY <3>1, DefinitionRests
        <3>3. QED BY <2>3, <3>2 DEF DefinitionsEnd, BehindDefinitions
    <2>4. CASE p # m + 1 /\ Kind(ts, m) \in {"Int", "Text"}
        <3>1. Rests(us, q, TableKinds, 7)
            BY <2>2, <2>4
        <3>2. Kind(us, m + 1) = "RParen" /\ Len(us) = m + 1 + 1
            BY <2>1, <3>1, DefinitionRests
        <3>3. EndOfDefinition(ts, m) = m + 1
            BY <2>4 DEF EndOfDefinition
        <3>4. QED BY <2>4, <3>2, <3>3 DEF DefinitionsEnd, BehindDefinitions, EndsDefinition
    <2>5. CASE p # m + 1 /\ Kind(ts, m) = "Identifier"
        <3>1. Rests(us, q, TableKinds, 6)
            BY <2>2, <2>5
        <3>2. Kind(us, q) = "Int" /\ Kind(us, q + 1) = "RParen" /\ Len(us) = q + 2
            BY <3>1, DefinitionRests
        <3>3. Kind(us, m + 1) = "Int" /\ Kind(us, m + 2) = "RParen" /\ Len(us) = m + 2 + 1
            <4>1. q + 1 = m + 2 /\ q + 2 = m + 2 + 1
                BY <2>1
            <4>2. QED BY <2>1, <3>2, <4>1
        <3>4. EndOfDefinition(ts, m) = m + 2
            BY <2>5 DEF EndOfDefinition
        <3>5. QED BY <2>5, <3>3, <3>4 DEF DefinitionsEnd, BehindDefinitions, EndsDefinition
    <2>6. CASE p # m + 1 /\ Kind(ts, m) \notin {"Identifier", "Int", "Text"}
        <3>1. Rests(us, q, TableKinds, 5)
            BY <2>2, <2>6
        <3>2. /\ Kind(us, q) = "Identifier" /\ Kind(us, q + 1) = "Int"
              /\ Kind(us, q + 2) = "RParen" /\ Len(us) = q + 3
            BY <3>1, DefinitionRests
        <3>3. /\ Kind(us, m + 1) = "Identifier" /\ Kind(us, m + 2) = "Int"
              /\ Kind(us, m + 3) = "RParen" /\ Len(us) = m + 3 + 1
            <4>1. q + 1 = m + 2 /\ q + 2 = m + 3 /\ q + 3 = m + 3 + 1
                BY <2>1
            <4>2. QED BY <2>1, <3>2, <4>1
        <3>4. EndOfDefinition(ts, m) = m + 3
            BY <2>6 DEF EndOfDefinition
        <3>5. QED BY <2>6, <3>3, <3>4 DEF DefinitionsEnd, BehindDefinitions, EndsDefinition
    <2>7. QED BY <2>3, <2>4, <2>5, <2>6
<1> HIDE DEF kinds
<1>4. QED BY <1>2, <1>3

LEMMA DefinitionsLate ==
    ASSUME NEW ts, IsScan(ts), NEW p, Top(ts, p), NEW ref
    PROVE  Late(ts, p, DefinitionsToEnd(ts, p, ref))
<1> DEFINE f == ParseDefinitions(ts, p)
           g == FinishStatement(ts, f.behind,
                    CreateTableStatement(ref.schema, ref.table, f.tree))
<1>1. DefinitionsToEnd(ts, p, ref) = IF f.ok THEN g ELSE f
    BY DEF DefinitionsToEnd
<1>2. Moves(ts, p, f)
    BY ListsMove
<1>3. f.ok => Late(ts, f.behind, g)
    BY <1>2, FinishLate DEF Moves, Top
<1> HIDE DEF f, g
<1>4. QED BY <1>1, <1>2, <1>3, MovesOn

LEMMA DefinitionsSame ==
    ASSUME NEW ts, NEW us, NEW m, Alike(ts, us, m), NEW p \in 1 .. m + 1, Top(ts, p), NEW ref
    PROVE  Same(m, DefinitionsToEnd(ts, p, ref), DefinitionsToEnd(us, p, ref))
<1> DEFINE f == ParseDefinitions(ts, p)
           fU == ParseDefinitions(us, p)
           g == FinishStatement(ts, f.behind,
                    CreateTableStatement(ref.schema, ref.table, f.tree))
           gU == FinishStatement(us, fU.behind,
                    CreateTableStatement(ref.schema, ref.table, fU.tree))
<1>1. /\ DefinitionsToEnd(ts, p, ref) = IF f.ok THEN g ELSE f
      /\ DefinitionsToEnd(us, p, ref) = IF fU.ok THEN gU ELSE fU
    BY DEF DefinitionsToEnd
<1>2. IsScan(ts) /\ m \in Nat
    BY DEF Alike
<1>3. Moves(ts, p, f) /\ Tracks(us, m, 0, f, fU)
    BY <1>2, ListsMove, DefinitionsTrack
<1>4. f.ok => Late(ts, f.behind, g)
    BY <1>2, <1>3, FinishLate DEF Moves, Top
<1>5. fU = f /\ f.behind \in 1 .. m /\ Top(ts, f.behind) => Same(m, g, gU)
    <2>1. f.behind \in 1 .. m => f.behind \in 1 .. m + 1
        BY <1>2
    <2>2. QED BY <2>1, FinishSame
<1> HIDE DEF f, fU, g, gU
<1>6. QED BY <1>1, <1>2, <1>3, <1>4, <1>5, MovesSame

LEMMA DefinitionsRest ==
    ASSUME NEW us, IsScan(us), NEW q \in 1 .. Len(us), Rests(us, q, TableKinds, 4), NEW ref
    PROVE  DefinitionsToEnd(us, q, ref).ok
<1> DEFINE f == ParseDefinitions(us, q)
<1>1. /\ Kind(us, q) = "LParen" /\ Kind(us, q + 1) = "Identifier"
      /\ Kind(us, q + 2) = "Int" /\ Kind(us, q + 3) = "RParen" /\ Len(us) = q + 4
    BY DefinitionRests
<1>2. f.ok /\ f.behind = Len(us)
    BY <1>1, ShortDefinitions
<1>3. DefinitionsToEnd(us, q, ref)
          = FinishStatement(us, Len(us), CreateTableStatement(ref.schema, ref.table, f.tree))
    BY <1>2 DEF DefinitionsToEnd
<1>4. QED BY <1>3, FinishAtEnd

LEMMA DefinitionsMends ==
    ASSUME NEW ts, IsScan(ts), NEW p, Top(ts, p), NEW ref,
           NEW m \in Nat, ~DefinitionsToEnd(ts, p, ref).ok, DefinitionsToEnd(ts, p, ref).at = m + 1
    PROVE  \E kinds \in Completions(Depth(ts, m + 1)) :
               \A us : Mended(ts, us, m, kinds) => DefinitionsToEnd(us, p, ref).ok
<1> DEFINE f == ParseDefinitions(ts, p)
           g == FinishStatement(ts, f.behind,
                    CreateTableStatement(ref.schema, ref.table, f.tree))
           r == DefinitionsToEnd(ts, p, ref)
<1>1. r = IF f.ok THEN g ELSE f
    BY DEF DefinitionsToEnd
<1>2. Moves(ts, p, f)
    BY ListsMove
<1>3. f.ok => Late(ts, f.behind, g)
    BY <1>2, FinishLate DEF Moves, Top
<1>4. p \in 1 .. m + 1 /\ (f.ok => f.behind \in 1 .. m + 1)
    <2> HIDE DEF f, g, r
    <2>1. ~r.ok /\ r.at = m + 1
        BY DEF r
    <2>2. QED BY <1>1, <1>2, <1>3, <2>1, MovesOn
<1>5. CASE f.ok
    <2>1. r = g /\ Top(ts, f.behind)
        BY <1>1, <1>2, <1>5 DEF Moves
    <2>2. PICK kinds \in Completions(Depth(ts, m + 1)) :
              \A us : Mended(ts, us, m, kinds) => FinishStatement(us, f.behind,
                    CreateTableStatement(ref.schema, ref.table, f.tree)).ok
        BY <2>1, FinishMends DEF Top
    <2>3. ASSUME NEW us, Mended(ts, us, m, kinds)
          PROVE  DefinitionsToEnd(us, p, ref).ok
        <3>1. Alike(ts, us, m)
            BY <2>3 DEF Mended
        <3>2. Tracks(us, m, 0, f, ParseDefinitions(us, p))
            BY <1>4, <3>1, DefinitionsTrack
        <3>3. f = ParseDefinitions(us, p)
            BY <1>4, <1>5, <2>3, <3>2, DepthIsNumber, MendedKeeps
        <3>4. DefinitionsToEnd(us, p, ref) = FinishStatement(us, f.behind,
                    CreateTableStatement(ref.schema, ref.table, f.tree))
            BY <1>5, <3>3 DEF DefinitionsToEnd
        <3>5. QED BY <2>2, <2>3, <3>4
    <2>4. QED BY <2>3
<1>6. CASE ~f.ok
    <2>1. f.at = m + 1
        BY <1>1, <1>6
    <2>2. PICK kinds \in Completions(Depth(ts, m + 1)) :
              \A us : Mended(ts, us, m, kinds) =>
                  DefinitionsEnd(ts, us, m, p) /\ BehindDefinitions(ts, m, p) = Len(us)
        BY <1>4, DefinitionsMended
    <2>3. ASSUME NEW us, Mended(ts, us, m, kinds)
          PROVE  DefinitionsToEnd(us, p, ref).ok
        <3>1. Alike(ts, us, m) /\ IsScan(us) /\ Len(us) # 0
            BY <2>3 DEF Mended, Alike, IsScan
        <3> DEFINE fU == ParseDefinitions(us, p)
        <3>2. Tracks(us, m, Len(us), f, fU)
            BY <1>4, <2>2, <2>3, <3>1, DefinitionsTrack
        <3> HIDE DEF f, fU
        <3>3. fU.ok /\ fU.behind = Len(us)
            BY <1>6, <2>1, <3>1, <3>2 DEF Tracks
        <3>4. DefinitionsToEnd(us, p, ref)
                  = FinishStatement(us, Len(us),
                        CreateTableStatement(ref.schema, ref.table, fU.tree))
            BY <3>3 DEF DefinitionsToEnd, fU
        <3>5. QED BY <3>1, <3>4, FinishAtEnd
    <2>4. QED BY <2>3
<1>7. QED BY <1>5, <1>6

LEMMA CreateTableLate ==
    ASSUME NEW ts, IsScan(ts), NEW p, Top(ts, p)
    PROVE  Late(ts, p, ParseCreateTable(ts, p))
<1> DEFINE f == ParseTableReference(ts, p)
           g == DefinitionsToEnd(ts, f.behind, f.tree)
<1>1. ParseCreateTable(ts, p) = IF f.ok THEN g ELSE f
    BY CreateTableToEnd
<1>2. Moves(ts, p, f)
    BY ReferenceMoves
<1>3. f.ok => Late(ts, f.behind, g)
    BY <1>2, DefinitionsLate DEF Moves
<1> HIDE DEF f, g
<1>4. QED BY <1>1, <1>2, <1>3, MovesOn

LEMMA CreateTableSame ==
    ASSUME NEW ts, NEW us, NEW m, Alike(ts, us, m), NEW p \in 1 .. m + 1, Top(ts, p)
    PROVE  Same(m, ParseCreateTable(ts, p), ParseCreateTable(us, p))
<1> DEFINE f == ParseTableReference(ts, p)
           fU == ParseTableReference(us, p)
           g == DefinitionsToEnd(ts, f.behind, f.tree)
           gU == DefinitionsToEnd(us, fU.behind, fU.tree)
<1>1. /\ ParseCreateTable(ts, p) = IF f.ok THEN g ELSE f
      /\ ParseCreateTable(us, p) = IF fU.ok THEN gU ELSE fU
    BY CreateTableToEnd
<1>2. IsScan(ts) /\ m \in Nat
    BY DEF Alike
<1>3. Moves(ts, p, f) /\ Tracks(us, m, NameStop(us, m), f, fU)
    BY <1>2, ReferenceMoves, ReferenceTracks
<1>4. f.ok => Late(ts, f.behind, g)
    BY <1>2, <1>3, DefinitionsLate DEF Moves
<1>5. fU = f /\ f.behind \in 1 .. m /\ Top(ts, f.behind) => Same(m, g, gU)
    <2>1. f.behind \in 1 .. m => f.behind \in 1 .. m + 1
        BY <1>2
    <2>2. QED BY <2>1, DefinitionsSame
<1> HIDE DEF f, fU, g, gU
<1>6. QED BY <1>1, <1>2, <1>3, <1>4, <1>5, MovesSame

LEMMA CreateTableMends ==
    ASSUME NEW ts, IsScan(ts), NEW p, Top(ts, p),
           NEW m \in Nat, ~ParseCreateTable(ts, p).ok, ParseCreateTable(ts, p).at = m + 1
    PROVE  \E kinds \in Completions(Depth(ts, m + 1)) :
               \A us : Mended(ts, us, m, kinds) => ParseCreateTable(us, p).ok
<1> DEFINE f == ParseTableReference(ts, p)
           g == DefinitionsToEnd(ts, f.behind, f.tree)
           r == ParseCreateTable(ts, p)
<1>1. r = IF f.ok THEN g ELSE f
    BY CreateTableToEnd
<1>2. Moves(ts, p, f)
    BY ReferenceMoves
<1>3. f.ok => Late(ts, f.behind, g)
    BY <1>2, DefinitionsLate DEF Moves
<1>4. p \in 1 .. m + 1 /\ (f.ok => f.behind \in 1 .. m + 1)
    <2> HIDE DEF f, g, r
    <2>1. ~r.ok /\ r.at = m + 1
        BY DEF r
    <2>2. QED BY <1>1, <1>2, <1>3, <2>1, MovesOn
<1>5. CASE f.ok
    <2>1. r = g /\ Top(ts, f.behind)
        BY <1>1, <1>2, <1>5 DEF Moves
    <2>2. PICK kinds \in Completions(Depth(ts, m + 1)) :
              \A us : Mended(ts, us, m, kinds) => DefinitionsToEnd(us, f.behind, f.tree).ok
        BY <2>1, DefinitionsMends
    <2>3. ASSUME NEW us, Mended(ts, us, m, kinds)
          PROVE  ParseCreateTable(us, p).ok
        <3>1. Alike(ts, us, m)
            BY <2>3 DEF Mended
        <3>2. Tracks(us, m, NameStop(us, m), f, ParseTableReference(us, p))
            BY <1>4, <3>1, ReferenceTracks
        <3>3. f = ParseTableReference(us, p)
            BY <1>4, <1>5, <2>3, <3>2, DepthIsNumber, MendedKeeps
        <3>4. ParseCreateTable(us, p) = DefinitionsToEnd(us, f.behind, f.tree)
            BY <1>5, <3>3, CreateTableToEnd
        <3>5. QED BY <2>2, <2>3, <3>4
    <2>4. QED BY <2>3
<1>6. CASE ~f.ok
    <2>1. f.at = m + 1
        BY <1>1, <1>6
    <2> DEFINE kinds == SubSeq(TableKinds, 3, Len(TableKinds))
    <2>2. kinds \in Completions(Depth(ts, m + 1))
        BY TableKindsAre, SuffixCompletes
    <2>3. ASSUME NEW us, Mended(ts, us, m, kinds)
          PROVE  ParseCreateTable(us, p).ok
        <3>1. IsScan(us) /\ Alike(ts, us, m) /\ Rests(us, m + 1, TableKinds, 3) /\ m + 1 \in Nat
            BY <2>3, TableKindsAre, SuffixRests DEF Mended, Alike
        <3> DEFINE fU == ParseTableReference(us, p)
        <3>2. /\ Kind(us, m + 1) = "Identifier" /\ Rests(us, m + 2, TableKinds, 4)
              /\ m + 2 \in Nat /\ m + 2 \in 1 .. Len(us)
            <4>1. m + 1 + 1 = m + 2 /\ m + 2 \in Nat
                BY <3>1
            <4>2. Kind(us, m + 1) = "Identifier" /\ Rests(us, m + 2, TableKinds, 4)
                BY <3>1, <4>1, TableKindsAre, RestsStep
            <4>3. m + 2 \in 1 .. Len(us)
                BY <4>1, <4>2, TableKindsAre DEF Rests
            <4>4. QED BY <4>1, <4>2, <4>3
        <3>3. Kind(us, m + 2) \notin Continuing
            <4>1. Kind(us, m + 2) = "LParen"
                BY <3>2, TableKindsAre, RestsStep
            <4>2. QED BY <4>1 DEF Continuing, ComparisonOperators, OrderingOperators
        <3>4. NameStop(us, m) = m + 2 /\ m + 2 # 0
            BY <3>2, <3>3 DEF NameStop
        <3>5. Tracks(us, m, NameStop(us, m), f, fU)
            BY <1>4, <3>1, ReferenceTracks
        <3>6. fU.ok /\ fU.behind = m + 2
            <4> HIDE DEF f, fU
            <4>1. QED BY <1>6, <2>1, <3>4, <3>5 DEF Tracks
        <3>7. ParseCreateTable(us, p) = DefinitionsToEnd(us, m + 2, fU.tree)
            BY <3>6, CreateTableToEnd
        <3>8. QED BY <3>1, <3>2, <3>7, DefinitionsRest
    <2> HIDE DEF kinds
    <2>4. QED BY <2>2, <2>3
<1>7. QED BY <1>5, <1>6

-----------------------------------------------------------------------------
(* The parts of an INSERT, each with the rest of the statement.            *)
ValuesToEnd(ts, p, ref) ==
    LET items == ParseValues(ts, p)
    IN  IF items.ok
        THEN FinishStatement(ts, items.behind, InsertStatement(ref.schema, ref.table, items.tree))
        ELSE items
KeywordToEnd(ts, p, ref) ==
    LET values == Expect(ts, p, "Values")
    IN  IF values.ok THEN ValuesToEnd(ts, values.behind, ref) ELSE values
TargetToEnd(ts, p) ==
    LET ref == ParseTableReference(ts, p)
    IN  IF ref.ok THEN KeywordToEnd(ts, ref.behind, ref.tree) ELSE ref

LEMMA InsertToEnd ==
    ASSUME NEW ts, NEW p
    PROVE  LET into == Expect(ts, p, "Into")
           IN  ParseInsert(ts, p) = IF into.ok THEN TargetToEnd(ts, into.behind) ELSE into
BY DEF ParseInsert, TargetToEnd, KeywordToEnd, ValuesToEnd, Then

LEMMA InsertKindsAre ==
    /\ InsertKinds \in Shortest /\ 7 = Len(InsertKinds)
    /\ 2 \in 1 .. Len(InsertKinds) /\ 3 \in 1 .. Len(InsertKinds) /\ 4 \in 1 .. Len(InsertKinds)
    /\ 5 \in 1 .. Len(InsertKinds) /\ 6 \in 1 .. Len(InsertKinds) /\ 7 \in 1 .. Len(InsertKinds)
    /\ InsertKinds[2] = "Into" /\ InsertKinds[3] = "Identifier" /\ InsertKinds[4] = "Values"
    /\ InsertKinds[5] = "LParen" /\ InsertKinds[6] = "Identifier" /\ InsertKinds[7] = "RParen"
<1>1. InsertKinds \in Shortest /\ Len(InsertKinds) = 7
    BY ShortestFacts
<1>2. /\ InsertKinds[2] = "Into" /\ InsertKinds[3] = "Identifier" /\ InsertKinds[4] = "Values"
      /\ InsertKinds[5] = "LParen" /\ InsertKinds[6] = "Identifier" /\ InsertKinds[7] = "RParen"
    BY DEF InsertKinds
<1>3. QED BY <1>1, <1>2

LEMMA ListRests ==
    ASSUME NEW us, NEW q \in Nat, Rests(us, q, InsertKinds, 5)
    PROVE  /\ Kind(us, q) = "LParen" /\ Kind(us, q + 1) = "Identifier"
           /\ Kind(us, q + 2) = "RParen" /\ Len(us) = q + 3
<1>1. PICK a \in Nat, b \in Nat : a = q + 1 /\ b = q + 2
    OBVIOUS
<1>2. Kind(us, q) = "LParen" /\ Rests(us, a, InsertKinds, 6)
    BY <1>1, InsertKindsAre, RestsStep
<1>3. a + 1 = b /\ b + 1 = q + 3
    BY <1>1
<1>4. Kind(us, a) = "Identifier" /\ Rests(us, b, InsertKinds, 7)
    BY <1>2, <1>3, InsertKindsAre, RestsStep
<1>5. Kind(us, b) = "RParen" /\ b + 1 = Len(us)
    BY <1>4, InsertKindsAre, RestsStep
<1>6. QED BY <1>1, <1>2, <1>3, <1>4, <1>5

LEMMA ValuesDeep ==
    ASSUME NEW ts, IsScan(ts), NEW p, Top(ts, p), Kind(ts, p) = "LParen", ~ParseValues(ts, p).ok
    PROVE  LET f == ParseValues(ts, p)
           IN  f.at \in p + 1 .. Len(ts) /\ Depth(ts, f.at) \in Nat
<1> DEFINE f == ParseValues(ts, p)
<1>1. PICK k : k = p + 1
    OBVIOUS
<1>2. p \in 1 .. Len(ts) /\ Len(ts) \in Nat /\ Depth(ts, p) = 0
    BY DEF Top, IsScan
<1>3. k \in 1 .. Len(ts) /\ Depth(ts, k) = 1
    BY <1>1, <1>2, StepsOver
<1>4. PICK inner : f = WithClose(ts, inner) /\ Goes(ts, k, inner) /\ Stays(ts, k, inner)
    BY <1>1, <1>2, ValuesInside
<1>5. ~f.ok
    OBVIOUS
<1> HIDE DEF f
<1>6. f.at \in p + 1 .. Len(ts) /\ Depth(ts, f.at) >= 1
    <2>1. CASE ~inner.ok
        <3>1. f = inner
            BY <1>4, <2>1, CloseIs
        <3>2. QED BY <1>1, <1>3, <1>4, <2>1, <3>1 DEF Stays
    <2>2. CASE inner.ok
        <3>1. PICK q : q = inner.behind
            OBVIOUS
        <3>2. q \in k + 1 .. Len(ts) /\ Depth(ts, q) = 1
            BY <1>3, <1>4, <2>2, <3>1 DEF Goes
        <3>3. CASE Kind(ts, q) = "RParen"
            <4>1. f = Parsed(inner.tree, q + 1)
                BY <1>4, <2>2, <3>1, <3>3, CloseIs
            <4>2. f.ok
                BY <4>1 DEF Parsed
            <4>3. QED BY <1>5, <4>2
        <3>4. CASE Kind(ts, q) # "RParen"
            <4>1. f = Error(q)
                BY <1>4, <2>2, <3>1, <3>4, CloseIs
            <4>2. f.at = q
                BY <4>1 DEF Error
            <4>3. q \in p + 1 .. Len(ts)
                BY <1>1, <1>2, <3>2
            <4>4. QED BY <3>2, <4>2, <4>3
        <3>5. QED BY <3>3, <3>4
    <2>3. QED BY <2>1, <2>2
<1>7. f.at \in Nat \ {0}
    BY <1>2, <1>6
<1>8. Depth(ts, f.at) \in Nat
    <2>1. PICK d \in Int : d = Depth(ts, f.at)
        BY <1>7, DepthIsNumber
    <2>2. QED BY <1>6, <2>1
<1>9. QED BY <1>6, <1>8 DEF f

LEMMA ValuesMended ==
    ASSUME NEW ts, IsScan(ts), NEW p, Top(ts, p), NEW m \in Nat, p \in 1 .. m + 1,
           ~ParseValues(ts, p).ok, ParseValues(ts, p).at = m + 1
    PROVE  \E kinds \in Completions(Depth(ts, m + 1)) :
               \A us : Mended(ts, us, m, kinds) => ValuesEnd(ts, us, m, p)
<1>1. CASE Kind(ts, p) = "LParen"
    <2>1. m + 1 \in p + 1 .. Len(ts) /\ Depth(ts, m + 1) \in Nat
        BY <1>1, ValuesDeep
    <2>2. m # 0 /\ p # m + 1
        BY <2>1
    <2>3. QED BY <2>1, <2>2, ClosingMends DEF ValuesEnd
<1>2. CASE Kind(ts, p) # "LParen"
    <2>1. p = m + 1
        <3>1. ParseValues(ts, p) = Error(p)
            BY <1>2, NoList
        <3>2. Error(p).at = p
            BY DEF Error
        <3>3. QED BY <3>1, <3>2
    <2> DEFINE kinds == SubSeq(InsertKinds, 5, Len(InsertKinds))
    <2>2. kinds \in Completions(Depth(ts, m + 1))
        BY InsertKindsAre, SuffixCompletes
    <2>3. ASSUME NEW us, Mended(ts, us, m, kinds)
          PROVE  ValuesEnd(ts, us, m, p)
        <3>1. Rests(us, p, InsertKinds, 5) /\ p \in Nat
            BY <2>1, <2>3, InsertKindsAre, SuffixRests DEF Mended
        <3>2. QED BY <2>1, <3>1, ListRests DEF ValuesEnd
    <2> HIDE DEF kinds
    <2>4. QED BY <2>2, <2>3
<1>3. QED BY <1>1, <1>2

LEMMA ValuesLate ==
    ASSUME NEW ts, IsScan(ts), NEW p, Top(ts, p), NEW ref
    PROVE  Late(ts, p, ValuesToEnd(ts, p, ref))
<1> DEFINE f == ParseValues(ts, p)
           g == FinishStatement(ts, f.behind,
                    InsertStatement(ref.schema, ref.table, f.tree))
<1>1. ValuesToEnd(ts, p, ref) = IF f.ok THEN g ELSE f
    BY DEF ValuesToEnd
<1>2. Moves(ts, p, f)
    BY ListsMove
<1>3. f.ok => Late(ts, f.behind, g)
    BY <1>2, FinishLate DEF Moves, Top
<1> HIDE DEF f, g
<1>4. QED BY <1>1, <1>2, <1>3, MovesOn

LEMMA ValuesSame ==
    ASSUME NEW ts, NEW us, NEW m, Alike(ts, us, m), NEW p \in 1 .. m + 1, Top(ts, p), NEW ref
    PROVE  Same(m, ValuesToEnd(ts, p, ref), ValuesToEnd(us, p, ref))
<1> DEFINE f == ParseValues(ts, p)
           fU == ParseValues(us, p)
           g == FinishStatement(ts, f.behind,
                    InsertStatement(ref.schema, ref.table, f.tree))
           gU == FinishStatement(us, fU.behind,
                    InsertStatement(ref.schema, ref.table, fU.tree))
<1>1. /\ ValuesToEnd(ts, p, ref) = IF f.ok THEN g ELSE f
      /\ ValuesToEnd(us, p, ref) = IF fU.ok THEN gU ELSE fU
    BY DEF ValuesToEnd
<1>2. IsScan(ts) /\ m \in Nat
    BY DEF Alike
<1>3. Moves(ts, p, f) /\ Tracks(us, m, 0, f, fU)
    BY <1>2, ListsMove, ValuesTrack DEF Top
<1>4. f.ok => Late(ts, f.behind, g)
    BY <1>2, <1>3, FinishLate DEF Moves, Top
<1>5. fU = f /\ f.behind \in 1 .. m /\ Top(ts, f.behind) => Same(m, g, gU)
    <2>1. f.behind \in 1 .. m => f.behind \in 1 .. m + 1
        BY <1>2
    <2>2. QED BY <2>1, FinishSame
<1> HIDE DEF f, fU, g, gU
<1>6. QED BY <1>1, <1>2, <1>3, <1>4, <1>5, MovesSame

LEMMA ValuesRest ==
    ASSUME NEW us, IsScan(us), NEW q \in 1 .. Len(us), Rests(us, q, InsertKinds, 5), NEW ref
    PROVE  ValuesToEnd(us, q, ref).ok
<1> DEFINE f == ParseValues(us, q)
<1>1. /\ Kind(us, q) = "LParen" /\ Kind(us, q + 1) = "Identifier"
      /\ Kind(us, q + 2) = "RParen" /\ Len(us) = q + 3
    BY ListRests
<1>2. f.ok /\ f.behind = Len(us)
    BY <1>1, ShortValues
<1>3. ValuesToEnd(us, q, ref)
          = FinishStatement(us, Len(us), InsertStatement(ref.schema, ref.table, f.tree))
    BY <1>2 DEF ValuesToEnd
<1>4. QED BY <1>3, FinishAtEnd

LEMMA ValuesMends ==
    ASSUME NEW ts, IsScan(ts), NEW p, Top(ts, p), NEW ref,
           NEW m \in Nat, ~ValuesToEnd(ts, p, ref).ok, ValuesToEnd(ts, p, ref).at = m + 1
    PROVE  \E kinds \in Completions(Depth(ts, m + 1)) :
               \A us : Mended(ts, us, m, kinds) => ValuesToEnd(us, p, ref).ok
<1> DEFINE f == ParseValues(ts, p)
           g == FinishStatement(ts, f.behind,
                    InsertStatement(ref.schema, ref.table, f.tree))
           r == ValuesToEnd(ts, p, ref)
<1>1. r = IF f.ok THEN g ELSE f
    BY DEF ValuesToEnd
<1>2. Moves(ts, p, f)
    BY ListsMove
<1>3. f.ok => Late(ts, f.behind, g)
    BY <1>2, FinishLate DEF Moves, Top
<1>4. p \in 1 .. m + 1 /\ (f.ok => f.behind \in 1 .. m + 1)
    <2> HIDE DEF f, g, r
    <2>1. ~r.ok /\ r.at = m + 1
        BY DEF r
    <2>2. QED BY <1>1, <1>2, <1>3, <2>1, MovesOn
<1>5. CASE f.ok
    <2>1. r = g /\ Top(ts, f.behind)
        BY <1>1, <1>2, <1>5 DEF Moves
    <2>2. PICK kinds \in Completions(Depth(ts, m + 1)) :
              \A us : Mended(ts, us, m, kinds) => FinishStatement(us, f.behind,
                    InsertStatement(ref.schema, ref.table, f.tree)).ok
        BY <2>1, FinishMends DEF Top
    <2>3. ASSUME NEW us, Mended(ts, us, m, kinds)
          PROVE  ValuesToEnd(us, p, ref).ok
        <3>1. Alike(ts, us, m)
            BY <2>3 DEF Mended
        <3>2. Tracks(us, m, 0, f, ParseValues(us, p))
            BY <1>4, <3>1, ValuesTrack DEF Top
        <3>3. f = ParseValues(us, p)
            BY <1>4, <1>5, <2>3, <3>2, DepthIsNumber, MendedKeeps
        <3>4. ValuesToEnd(us, p, ref) = FinishStatement(us, f.behind,
                    InsertStatement(ref.schema, ref.table, f.tree))
            BY <1>5, <3>3 DEF ValuesToEnd
        <3>5. QED BY <2>2, <2>3, <3>4
    <2>4. QED BY <2>3
<1>6. CASE ~f.ok
    <2>1. f.at = m + 1
        BY <1>1, <1>6
    <2>2. PICK kinds \in Completions(Depth(ts, m + 1)) :
              \A us : Mended(ts, us, m, kinds) => ValuesEnd(ts, us, m, p)
        BY <1>4, <1>6, <2>1, ValuesMended
    <2>3. ASSUME NEW us, Mended(ts, us, m, kinds)
          PROVE  ValuesToEnd(us, p, ref).ok
        <3>1. Alike(ts, us, m) /\ IsScan(us) /\ Len(us) # 0
            BY <2>3 DEF Mended, Alike, IsScan
        <3> DEFINE fU == ParseValues(us, p)
        <3>2. Tracks(us, m, Len(us), f, fU)
            BY <1>4, <2>2, <2>3, <3>1, ValuesTrack DEF Top
        <3> HIDE DEF f, fU
        <3>3. fU.ok /\ fU.behind = Len(us)
            BY <1>6, <2>1, <3>1, <3>2 DEF Tracks
        <3>4. ValuesToEnd(us, p, ref)
                  = FinishStatement(us, Len(us),
                        InsertStatement(ref.schema, ref.table, fU.tree))
            BY <3>3 DEF ValuesToEnd, fU
        <3>5. QED BY <3>1, <3>4, FinishAtEnd
    <2>4. QED BY <2>3
<1>7. QED BY <1>5, <1>6

LEMMA KeywordLate ==
    ASSUME NEW ts, IsScan(ts), NEW p, Top(ts, p), NEW ref
    PROVE  Late(ts, p, KeywordToEnd(ts, p, ref))
<1> DEFINE f == Expect(ts, p, "Values")
           g == ValuesToEnd(ts, f.behind, ref)
<1>1. KeywordToEnd(ts, p, ref) = IF f.ok THEN g ELSE f
    BY DEF KeywordToEnd
<1>2. Moves(ts, p, f)
    BY ExpectMoves
<1>3. f.ok => Late(ts, f.behind, g)
    BY <1>2, ValuesLate DEF Moves
<1> HIDE DEF f, g
<1>4. QED BY <1>1, <1>2, <1>3, MovesOn

LEMMA KeywordSame ==
    ASSUME NEW ts, NEW us, NEW m, Alike(ts, us, m), NEW p \in 1 .. m + 1, Top(ts, p), NEW ref
    PROVE  Same(m, KeywordToEnd(ts, p, ref), KeywordToEnd(us, p, ref))
<1> DEFINE f == Expect(ts, p, "Values")
           fU == Expect(us, p, "Values")
           g == ValuesToEnd(ts, f.behind, ref)
           gU == ValuesToEnd(us, fU.behind, ref)
<1>1. /\ KeywordToEnd(ts, p, ref) = IF f.ok THEN g ELSE f
      /\ KeywordToEnd(us, p, ref) = IF fU.ok THEN gU ELSE fU
    BY DEF KeywordToEnd
<1>2. IsScan(ts) /\ m \in Nat
    BY DEF Alike
<1>3. Moves(ts, p, f) /\ Tracks(us, m, 0, f, fU)
    BY <1>2, ExpectMoves, ExpectTracks
<1>4. f.ok => Late(ts, f.behind, g)
    BY <1>2, <1>3, ValuesLate DEF Moves
<1>5. fU = f /\ f.behind \in 1 .. m /\ Top(ts, f.behind) => Same(m, g, gU)
    <2>1. f.behind \in 1 .. m => f.behind \in 1 .. m + 1
        BY <1>2
    <2>2. QED BY <2>1, ValuesSame
<1> HIDE DEF f, fU, g, gU
<1>6. QED BY <1>1, <1>2, <1>3, <1>4, <1>5, MovesSame

LEMMA KeywordRests ==
    ASSUME NEW us, IsScan(us), NEW q \in 1 .. Len(us), Rests(us, q, InsertKinds, 4), NEW ref
    PROVE  KeywordToEnd(us, q, ref).ok
<1> DEFINE f == Expect(us, q, "Values")
<1>1. PICK k : k = q + 1
    OBVIOUS
<1>2. Kind(us, q) = "Values" /\ Rests(us, k, InsertKinds, 5)
    BY <1>1, InsertKindsAre, RestsStep
<1>3. k \in 1 .. Len(us)
    BY <1>1, <1>2, InsertKindsAre DEF Rests
<1>4. f = Parsed(us[q].lexeme, k)
    BY <1>1, <1>2 DEF Expect
<1>5. f.ok /\ f.behind = k
    <2> HIDE DEF f
    <2>1. QED BY <1>4 DEF Parsed
<1>6. KeywordToEnd(us, q, ref) = ValuesToEnd(us, k, ref)
    BY <1>5 DEF KeywordToEnd
<1>7. QED BY <1>2, <1>3, <1>6, ValuesRest

LEMMA KeywordMends ==
    ASSUME NEW ts, IsScan(ts), NEW p, Top(ts, p), NEW ref,
           NEW m \in Nat, ~KeywordToEnd(ts, p, ref).ok, KeywordToEnd(ts, p, ref).at = m + 1
    PROVE  \E kinds \in Completions(Depth(ts, m + 1)) :
               \A us : Mended(ts, us, m, kinds) => KeywordToEnd(us, p, ref).ok
<1> DEFINE f == Expect(ts, p, "Values")
           g == ValuesToEnd(ts, f.behind, ref)
           r == KeywordToEnd(ts, p, ref)
<1>1. r = IF f.ok THEN g ELSE f
    BY DEF KeywordToEnd
<1>2. Moves(ts, p, f)
    BY ExpectMoves
<1>3. f.ok => Late(ts, f.behind, g)
    BY <1>2, ValuesLate DEF Moves
<1>4. p \in 1 .. m + 1 /\ (f.ok => f.behind \in 1 .. m + 1)
    <2> HIDE DEF f, g, r
    <2>1. ~r.ok /\ r.at = m + 1
        BY DEF r
    <2>2. QED BY <1>1, <1>2, <1>3, <2>1, MovesOn
<1>5. CASE f.ok
    <2>1. r = g /\ Top(ts, f.behind)
        BY <1>1, <1>2, <1>5 DEF Moves
    <2>2. PICK kinds \in Completions(Depth(ts, m + 1)) :
              \A us : Mended(ts, us, m, kinds) => ValuesToEnd(us, f.behind, ref).ok
        BY <2>1, ValuesMends
    <2>3. ASSUME NEW us, Mended(ts, us, m, kinds)
          PROVE  KeywordToEnd(us, p, ref).ok
        <3>1. Alike(ts, us, m)
            BY <2>3 DEF Mended
        <3>2. Tracks(us, m, 0, f, Expect(us, p, "Values"))
            BY <1>4, <3>1, ExpectTracks
        <3>3. f = Expect(us, p, "Values")
            BY <1>4, <1>5, <2>3, <3>2, DepthIsNumber, MendedKeeps
        <3>4. KeywordToEnd(us, p, ref) = ValuesToEnd(us, f.behind, ref)
            BY <1>5, <3>3 DEF KeywordToEnd
        <3>5. QED BY <2>2, <2>3, <3>4
    <2>4. QED BY <2>3
<1>6. CASE ~f.ok
    <2>1. f.at = m + 1
        BY <1>1, <1>6
    <2> DEFINE kinds == SubSeq(InsertKinds, 4, Len(InsertKinds))
    <2>2. kinds \in Completions(Depth(ts, m + 1))
        BY InsertKindsAre, SuffixCompletes
    <2>3. ASSUME NEW us, Mended(ts, us, m, kinds)
          PROVE  KeywordToEnd(us, p, ref).ok
        <3>1. IsScan(us) /\ Alike(ts, us, m) /\ Rests(us, m + 1, InsertKinds, 4) /\ m + 1 \in Nat
            BY <2>3, InsertKindsAre, SuffixRests DEF Mended, Alike
        <3>2. p = m + 1 /\ p \in 1 .. Len(us)
            <4>1. p = m + 1
                BY <1>6, <2>1, ExpectMoves
            <4>2. m + 1 \in 1 .. Len(us)
                BY <3>1 DEF Alike
            <4>3. QED BY <4>1, <4>2
        <3>3. QED BY <3>1, <3>2, KeywordRests
    <2> HIDE DEF kinds
    <2>4. QED BY <2>2, <2>3
<1>7. QED BY <1>5, <1>6

LEMMA TargetLate ==
    ASSUME NEW ts, IsScan(ts), NEW p, Top(ts, p)
    PROVE  Late(ts, p, TargetToEnd(ts, p))
<1> DEFINE f == ParseTableReference(ts, p)
           g == KeywordToEnd(ts, f.behind, f.tree)
<1>1. TargetToEnd(ts, p) = IF f.ok THEN g ELSE f
    BY DEF TargetToEnd
<1>2. Moves(ts, p, f)
    BY ReferenceMoves
<1>3. f.ok => Late(ts, f.behind, g)
    BY <1>2, KeywordLate DEF Moves
<1> HIDE DEF f, g
<1>4. QED BY <1>1, <1>2, <1>3, MovesOn

LEMMA TargetSame ==
    ASSUME NEW ts, NEW us, NEW m, Alike(ts, us, m), NEW p \in 1 .. m + 1, Top(ts, p)
    PROVE  Same(m, TargetToEnd(ts, p), TargetToEnd(us, p))
<1> DEFINE f == ParseTableReference(ts, p)
           fU == ParseTableReference(us, p)
           g == KeywordToEnd(ts, f.behind, f.tree)
           gU == KeywordToEnd(us, fU.behind, fU.tree)
<1>1. /\ TargetToEnd(ts, p) = IF f.ok THEN g ELSE f
      /\ TargetToEnd(us, p) = IF fU.ok THEN gU ELSE fU
    BY DEF TargetToEnd
<1>2. IsScan(ts) /\ m \in Nat
    BY DEF Alike
<1>3. Moves(ts, p, f) /\ Tracks(us, m, NameStop(us, m), f, fU)
    BY <1>2, ReferenceMoves, ReferenceTracks
<1>4. f.ok => Late(ts, f.behind, g)
    BY <1>2, <1>3, KeywordLate DEF Moves
<1>5. fU = f /\ f.behind \in 1 .. m /\ Top(ts, f.behind) => Same(m, g, gU)
    <2>1. f.behind \in 1 .. m => f.behind \in 1 .. m + 1
        BY <1>2
    <2>2. QED BY <2>1, KeywordSame
<1> HIDE DEF f, fU, g, gU
<1>6. QED BY <1>1, <1>2, <1>3, <1>4, <1>5, MovesSame

LEMMA TargetRests ==
    ASSUME NEW us, IsScan(us), NEW q \in 1 .. Len(us), Rests(us, q, InsertKinds, 3)
    PROVE  TargetToEnd(us, q).ok
<1> DEFINE f == ParseTableReference(us, q)
<1>1. PICK k : k = q + 1
    OBVIOUS
<1>2. Kind(us, q) = "Identifier" /\ Rests(us, k, InsertKinds, 4)
    BY <1>1, InsertKindsAre, RestsStep
<1>3. k \in 1 .. Len(us) /\ k \in Nat
    BY <1>1, <1>2, InsertKindsAre DEF Rests
<1>4. Kind(us, k) = "Values"
    BY <1>2, <1>3, InsertKindsAre, RestsStep
<1>5. f = Parsed(TableReference(EmptyName, us[q].lexeme), k)
    BY <1>1, <1>2, <1>4, ReferenceCases
<1>6. f.ok /\ f.behind = k
    <2> HIDE DEF f
    <2>1. QED BY <1>5 DEF Parsed
<1>7. TargetToEnd(us, q) = KeywordToEnd(us, k, f.tree)
    BY <1>6 DEF TargetToEnd
<1>8. QED BY <1>2, <1>3, <1>7, KeywordRests

LEMMA TargetMends ==
    ASSUME NEW ts, IsScan(ts), NEW p, Top(ts, p),
           NEW m \in Nat, ~TargetToEnd(ts, p).ok, TargetToEnd(ts, p).at = m + 1
    PROVE  \E kinds \in Completions(Depth(ts, m + 1)) :
               \A us : Mended(ts, us, m, kinds) => TargetToEnd(us, p).ok
<1> DEFINE f == ParseTableReference(ts, p)
           g == KeywordToEnd(ts, f.behind, f.tree)
           r == TargetToEnd(ts, p)
<1>1. r = IF f.ok THEN g ELSE f
    BY DEF TargetToEnd
<1>2. Moves(ts, p, f)
    BY ReferenceMoves
<1>3. f.ok => Late(ts, f.behind, g)
    BY <1>2, KeywordLate DEF Moves
<1>4. p \in 1 .. m + 1 /\ (f.ok => f.behind \in 1 .. m + 1)
    <2> HIDE DEF f, g, r
    <2>1. ~r.ok /\ r.at = m + 1
        BY DEF r
    <2>2. QED BY <1>1, <1>2, <1>3, <2>1, MovesOn
<1>5. CASE f.ok
    <2>1. r = g /\ Top(ts, f.behind)
        BY <1>1, <1>2, <1>5 DEF Moves
    <2>2. PICK kinds \in Completions(Depth(ts, m + 1)) :
              \A us : Mended(ts, us, m, kinds) => KeywordToEnd(us, f.behind, f.tree).ok
        BY <2>1, KeywordMends
    <2>3. ASSUME NEW us, Mended(ts, us, m, kinds)
          PROVE  TargetToEnd(us, p).ok
        <3>1. Alike(ts, us, m)
            BY <2>3 DEF Mended
        <3>2. Tracks(us, m, NameStop(us, m), f, ParseTableReference(us, p))
            BY <1>4, <3>1, ReferenceTracks
        <3>3. f = ParseTableReference(us, p)
            BY <1>4, <1>5, <2>3, <3>2, DepthIsNumber, MendedKeeps
        <3>4. TargetToEnd(us, p) = KeywordToEnd(us, f.behind, f.tree)
            BY <1>5, <3>3 DEF TargetToEnd
        <3>5. QED BY <2>2, <2>3, <3>4
    <2>4. QED BY <2>3
<1>6. CASE ~f.ok
    <2>1. f.at = m + 1
        BY <1>1, <1>6
    <2> DEFINE kinds == SubSeq(InsertKinds, 3, Len(InsertKinds))
    <2>2. kinds \in Completions(Depth(ts, m + 1))
        BY InsertKindsAre, SuffixCompletes
    <2>3. ASSUME NEW us, Mended(ts, us, m, kinds)
          PROVE  TargetToEnd(us, p).ok
        <3>1. IsScan(us) /\ Alike(ts, us, m) /\ Rests(us, m + 1, InsertKinds, 3) /\ m + 1 \in Nat
            BY <2>3, InsertKindsAre, SuffixRests DEF Mended, Alike
        <3> DEFINE fU == ParseTableReference(us, p)
        <3>2. /\ Kind(us, m + 1) = "Identifier" /\ Rests(us, m + 2, InsertKinds, 4)
              /\ m + 2 \in Nat /\ m + 2 \in 1 .. Len(us)
            <4>1. m + 1 + 1 = m + 2 /\ m + 2 \in Nat
                BY <3>1
            <4>2. Kind(us, m + 1) = "Identifier" /\ Rests(us, m + 2, InsertKinds, 4)
                BY <3>1, <4>1, InsertKindsAre, RestsStep
            <4>3. m + 2 \in 1 .. Len(us)
                BY <4>1, <4>2, InsertKindsAre DEF Rests
            <4>4. QED BY <4>1, <4>2, <4>3
        <3>3. Kind(us, m + 2) \notin Continuing
            <4>1. Kind(us, m + 2) = "Values"
                BY <3>2, InsertKindsAre, RestsStep
            <4>2. QED BY <4>1 DEF Continuing, ComparisonOperators, OrderingOperators
        <3>4. NameStop(us, m) = m + 2 /\ m + 2 # 0
            BY <3>2, <3>3 DEF NameStop
        <3>5. Tracks(us, m, NameStop(us, m), f, fU)
            BY <1>4, <3>1, ReferenceTracks
        <3>6. fU.ok /\ fU.behind = m + 2
            <4> HIDE DEF f, fU
            <4>1. QED BY <1>6, <2>1, <3>4, <3>5 DEF Tracks
        <3>7. TargetToEnd(us, p) = KeywordToEnd(us, m + 2, fU.tree)
            BY <3>6 DEF TargetToEnd
        <3>8. QED BY <3>1, <3>2, <3>7, KeywordRests
    <2> HIDE DEF kinds
    <2>4. QED BY <2>2, <2>3
<1>7. QED BY <1>5, <1>6

LEMMA InsertLate ==
    ASSUME NEW ts, IsScan(ts), NEW p, Top(ts, p)
    PROVE  Late(ts, p, ParseInsert(ts, p))
<1> DEFINE f == Expect(ts, p, "Into")
           g == TargetToEnd(ts, f.behind)
<1>1. ParseInsert(ts, p) = IF f.ok THEN g ELSE f
    BY InsertToEnd
<1>2. Moves(ts, p, f)
    BY ExpectMoves
<1>3. f.ok => Late(ts, f.behind, g)
    BY <1>2, TargetLate DEF Moves
<1> HIDE DEF f, g
<1>4. QED BY <1>1, <1>2, <1>3, MovesOn

LEMMA InsertSame ==
    ASSUME NEW ts, NEW us, NEW m, Alike(ts, us, m), NEW p \in 1 .. m + 1, Top(ts, p)
    PROVE  Same(m, ParseInsert(ts, p), ParseInsert(us, p))
<1> DEFINE f == Expect(ts, p, "Into")
           fU == Expect(us, p, "Into")
           g == TargetToEnd(ts, f.behind)
           gU == TargetToEnd(us, fU.behind)
<1>1. /\ ParseInsert(ts, p) = IF f.ok THEN g ELSE f
      /\ ParseInsert(us, p) = IF fU.ok THEN gU ELSE fU
    BY InsertToEnd
<1>2. IsScan(ts) /\ m \in Nat
    BY DEF Alike
<1>3. Moves(ts, p, f) /\ Tracks(us, m, 0, f, fU)
    BY <1>2, ExpectMoves, ExpectTracks
<1>4. f.ok => Late(ts, f.behind, g)
    BY <1>2, <1>3, TargetLate DEF Moves
<1>5. fU = f /\ f.behind \in 1 .. m /\ Top(ts, f.behind) => Same(m, g, gU)
    <2>1. f.behind \in 1 .. m => f.behind \in 1 .. m + 1
        BY <1>2
    <2>2. QED BY <2>1, TargetSame
<1> HIDE DEF f, fU, g, gU
<1>6. QED BY <1>1, <1>2, <1>3, <1>4, <1>5, MovesSame

LEMMA InsertRests ==
    ASSUME NEW us, IsScan(us), NEW q \in 1 .. Len(us), Rests(us, q, InsertKinds, 2)
    PROVE  ParseInsert(us, q).ok
<1> DEFINE f == Expect(us, q, "Into")
<1>1. PICK k : k = q + 1
    OBVIOUS
<1>2. Kind(us, q) = "Into" /\ Rests(us, k, InsertKinds, 3)
    BY <1>1, InsertKindsAre, RestsStep
<1>3. k \in 1 .. Len(us)
    BY <1>1, <1>2, InsertKindsAre DEF Rests
<1>4. f = Parsed(us[q].lexeme, k)
    BY <1>1, <1>2 DEF Expect
<1>5. f.ok /\ f.behind = k
    <2> HIDE DEF f
    <2>1. QED BY <1>4 DEF Parsed
<1>6. ParseInsert(us, q) = TargetToEnd(us, k)
    BY <1>5, InsertToEnd
<1>7. QED BY <1>2, <1>3, <1>6, TargetRests

LEMMA InsertMends ==
    ASSUME NEW ts, IsScan(ts), NEW p, Top(ts, p),
           NEW m \in Nat, ~ParseInsert(ts, p).ok, ParseInsert(ts, p).at = m + 1
    PROVE  \E kinds \in Completions(Depth(ts, m + 1)) :
               \A us : Mended(ts, us, m, kinds) => ParseInsert(us, p).ok
<1> DEFINE f == Expect(ts, p, "Into")
           g == TargetToEnd(ts, f.behind)
           r == ParseInsert(ts, p)
<1>1. r = IF f.ok THEN g ELSE f
    BY InsertToEnd
<1>2. Moves(ts, p, f)
    BY ExpectMoves
<1>3. f.ok => Late(ts, f.behind, g)
    BY <1>2, TargetLate DEF Moves
<1>4. p \in 1 .. m + 1 /\ (f.ok => f.behind \in 1 .. m + 1)
    <2> HIDE DEF f, g, r
    <2>1. ~r.ok /\ r.at = m + 1
        BY DEF r
    <2>2. QED BY <1>1, <1>2, <1>3, <2>1, MovesOn
<1>5. CASE f.ok
    <2>1. r = g /\ Top(ts, f.behind)
        BY <1>1, <1>2, <1>5 DEF Moves
    <2>2. PICK kinds \in Completions(Depth(ts, m + 1)) :
              \A us : Mended(ts, us, m, kinds) => TargetToEnd(us, f.behind).ok
        BY <2>1, TargetMends
    <2>3. ASSUME NEW us, Mended(ts, us, m, kinds)
          PROVE  ParseInsert(us, p).ok
        <3>1. Alike(ts, us, m)
            BY <2>3 DEF Mended
        <3>2. Tracks(us, m, 0, f, Expect(us, p, "Into"))
            BY <1>4, <3>1, ExpectTracks
        <3>3. f = Expect(us, p, "Into")
            BY <1>4, <1>5, <2>3, <3>2, DepthIsNumber, MendedKeeps
        <3>4. ParseInsert(us, p) = TargetToEnd(us, f.behind)
            BY <1>5, <3>3, InsertToEnd
        <3>5. QED BY <2>2, <2>3, <3>4
    <2>4. QED BY <2>3
<1>6. CASE ~f.ok
    <2>1. f.at = m + 1
        BY <1>1, <1>6
    <2> DEFINE kinds == SubSeq(InsertKinds, 2, Len(InsertKinds))
    <2>2. kinds \in Completions(Depth(ts, m + 1))
        BY InsertKindsAre, SuffixCompletes
    <2>3. ASSUME NEW us, Mended(ts, us, m, kinds)
          PROVE  ParseInsert(us, p).ok
        <3>1. IsScan(us) /\ Alike(ts, us, m) /\ Rests(us, m + 1, InsertKinds, 2) /\ m + 1 \in Nat
            BY <2>3, InsertKindsAre, SuffixRests DEF Mended, Alike
        <3>2. p = m + 1 /\ p \in 1 .. Len(us)
            <4>1. p = m + 1
                BY <1>6, <2>1, ExpectMoves
            <4>2. m + 1 \in 1 .. Len(us)
                BY <3>1 DEF Alike
            <4>3. QED BY <4>1, <4>2
        <3>3. QED BY <3>1, <3>2, InsertRests
    <2> HIDE DEF kinds
    <2>4. QED BY <2>2, <2>3
<1>7. QED BY <1>5, <1>6

-----------------------------------------------------------------------------
(* The words that statements begin with.                                   *)
LEMMA SchemaKindsAre ==
    /\ SchemaKinds \in Shortest /\ 3 = Len(SchemaKinds)
    /\ 1 \in 1 .. Len(SchemaKinds) /\ 2 \in 1 .. Len(SchemaKinds) /\ 3 \in 1 .. Len(SchemaKinds)
    /\ SchemaKinds[1] = "Create" /\ SchemaKinds[2] = "Schema" /\ SchemaKinds[3] = "Identifier"
<1>1. SchemaKinds \in Shortest /\ Len(SchemaKinds) = 3
    BY ShortestFacts
<1>2. SchemaKinds[1] = "Create" /\ SchemaKinds[2] = "Schema" /\ SchemaKinds[3] = "Identifier"
    BY DEF SchemaKinds
<1>3. QED BY <1>1, <1>2

LEMMA CreateIs ==
    ASSUME NEW ts, NEW p, NEW k, k = p + 1
    PROVE  /\ Kind(ts, p) = "Database" => ParseCreate(ts, p) = NameToEnd(ts, k, FALSE)
           /\ Kind(ts, p) = "Schema" => ParseCreate(ts, p) = NameToEnd(ts, k, TRUE)
           /\ Kind(ts, p) = "Table" => ParseCreate(ts, p) = ParseCreateTable(ts, k)
           /\ Kind(ts, p) \notin {"Database", "Schema", "Table"} => ParseCreate(ts, p) = Error(p)
<1>1. CASE Kind(ts, p) = "Database"
    BY <1>1, NamesToEnd DEF ParseCreate
<1>2. CASE Kind(ts, p) = "Schema"
    BY <1>2, NamesToEnd DEF ParseCreate
<1>3. CASE Kind(ts, p) = "Table"
    BY <1>3 DEF ParseCreate
<1>4. CASE Kind(ts, p) \notin {"Database", "Schema", "Table"}
    BY <1>4 DEF ParseCreate
<1>5. QED BY <1>1, <1>2, <1>3, <1>4

LEMMA StatementIs ==
    ASSUME NEW ts
    PROVE  /\ Kind(ts, 1) = "Select" => ParseStatement(ts) = ParseSelect(ts, 2)
           /\ Kind(ts, 1) = "Create" => ParseStatement(ts) = ParseCreate(ts, 2)
           /\ Kind(ts, 1) = "Insert" => ParseStatement(ts) = ParseInsert(ts, 2)
           /\ Kind(ts, 1) \notin {"Select", "Create", "Insert"} => ParseStatement(ts) = Error(1)
<1>1. CASE Kind(ts, 1) = "Select"
    BY <1>1 DEF ParseStatement
<1>2. CASE Kind(ts, 1) = "Create"
    BY <1>2 DEF ParseStatement
<1>3. CASE Kind(ts, 1) = "Insert"
    BY <1>3 DEF ParseStatement
<1>4. CASE Kind(ts, 1) \notin {"Select", "Create", "Insert"}
    BY <1>4 DEF ParseStatement
<1>5. QED BY <1>1, <1>2, <1>3, <1>4

(* The place behind such a word.                                           *)
LEMMA WordMoves ==
    ASSUME NEW ts, IsScan(ts), NEW p, Top(ts, p), NEW k, k = p + 1,
           Kind(ts, p) \notin {"EndOfFile", "LParen", "RParen"}
    PROVE  /\ Top(ts, k)
           /\ \A r : Late(ts, k, r) => Late(ts, p, r)
           /\ \A r, m : ~r.ok /\ r.at = m + 1 /\ m \in Nat /\ Late(ts, k, r) => p \in 1 .. m
<1>1. p \in 1 .. Len(ts) /\ Len(ts) \in Nat /\ Depth(ts, p) = 0
    BY DEF Top, IsScan
<1>2. k \in 1 .. Len(ts) /\ Depth(ts, k) = 0
    BY <1>1, StepsOver
<1>3. k .. Len(ts) \subseteq p .. Len(ts)
    BY <1>1
<1>4. ASSUME NEW r, NEW m, ~r.ok, r.at = m + 1, m \in Nat, Late(ts, k, r)
      PROVE  p \in 1 .. m
    <2>1. m + 1 \in k .. Len(ts)
        BY <1>4 DEF Late
    <2>2. QED BY <1>1, <1>4, <2>1
<1>5. QED BY <1>2, <1>3, <1>4 DEF Top, Late

LEMMA ErrorLate ==
    ASSUME NEW ts, IsScan(ts), NEW p, Top(ts, p)
    PROVE  Late(ts, p, Error(p)) /\ ~Error(p).ok /\ Error(p).at = p
BY DEF Late, Error, Top, IsScan

LEMMA CreateLate ==
    ASSUME NEW ts, IsScan(ts), NEW p, Top(ts, p)
    PROVE  Late(ts, p, ParseCreate(ts, p))
<1>1. PICK k : k = p + 1
    OBVIOUS
<1>2. CASE Kind(ts, p) \notin {"Database", "Schema", "Table"}
    <2>1. ParseCreate(ts, p) = Error(p)
        BY <1>1, <1>2, CreateIs
    <2>2. QED BY <2>1, ErrorLate
<1>3. CASE Kind(ts, p) \in {"Database", "Schema", "Table"}
    <2>1. Top(ts, k) /\ \A r : Late(ts, k, r) => Late(ts, p, r)
        BY <1>1, <1>3, WordMoves
    <2>2. /\ Late(ts, k, NameToEnd(ts, k, TRUE)) /\ Late(ts, k, NameToEnd(ts, k, FALSE))
          /\ Late(ts, k, ParseCreateTable(ts, k))
        BY <2>1, NameLate, CreateTableLate
    <2>3. Late(ts, k, ParseCreate(ts, p))
        BY <1>1, <1>3, <2>2, CreateIs
    <2>4. QED BY <2>1, <2>3
<1>4. QED BY <1>2, <1>3

LEMMA StatementLate ==
    ASSUME NEW ts, IsScan(ts)
    PROVE  Late(ts, 1, ParseStatement(ts))
<1>1. Top(ts, 1) /\ 2 = 1 + 1
    BY StartIsTop
<1>2. CASE Kind(ts, 1) \notin {"Select", "Create", "Insert"}
    BY <1>1, <1>2, StatementIs, ErrorLate
<1>3. CASE Kind(ts, 1) \in {"Select", "Create", "Insert"}
    <2>1. Top(ts, 2) /\ \A r : Late(ts, 2, r) => Late(ts, 1, r)
        BY <1>1, <1>3, WordMoves
    <2>2. /\ Late(ts, 2, ParseSelect(ts, 2)) /\ Late(ts, 2, ParseCreate(ts, 2))
          /\ Late(ts, 2, ParseInsert(ts, 2))
        BY <2>1, SelectLate, CreateLate, InsertLate
    <2>3. Late(ts, 2, ParseStatement(ts))
        BY <1>3, <2>2, StatementIs
    <2>4. QED BY <2>1, <2>3
<1>4. QED BY <1>2, <1>3

LEMMA CreateSame ==
    ASSUME NEW ts, NEW us, NEW m, Alike(ts, us, m), NEW p \in 1 .. m + 1, Top(ts, p)
    PROVE  Same(m, ParseCreate(ts, p), ParseCreate(us, p))
<1> DEFINE r == ParseCreate(ts, p)
           s == ParseCreate(us, p)
<1>1. PICK k : k = p + 1
    OBVIOUS
<1>2. IsScan(ts) /\ m \in Nat
    BY DEF Alike
<1>3. CASE p \notin 1 .. m
    <2>1. Late(ts, p, r)
        BY <1>2, CreateLate
    <2> HIDE DEF r, s
    <2>2. Same(m, r, s)
        BY <1>2, <1>3, <2>1 DEF Late, Same
    <2>3. QED BY <2>2 DEF r, s
<1>4. CASE p \in 1 .. m
    <2>1. Kind(us, p) = Kind(ts, p) /\ k \in 1 .. m + 1
        BY <1>1, <1>2, <1>4, SameToken
    <2>2. CASE Kind(ts, p) \notin {"Database", "Schema", "Table"}
        BY <1>1, <2>1, <2>2, CreateIs DEF Same
    <2>3. CASE Kind(ts, p) \in {"Database", "Schema", "Table"}
        <3>1. Top(ts, k)
            BY <1>1, <1>2, <2>3, WordMoves
        <3>2. /\ Same(m, NameToEnd(ts, k, TRUE), NameToEnd(us, k, TRUE))
              /\ Same(m, NameToEnd(ts, k, FALSE), NameToEnd(us, k, FALSE))
              /\ Same(m, ParseCreateTable(ts, k), ParseCreateTable(us, k))
            BY <2>1, <3>1, NameSame, CreateTableSame
        <3>3. QED BY <1>1, <2>1, <2>3, <3>2, CreateIs
    <2>4. QED BY <2>2, <2>3
<1>5. QED BY <1>3, <1>4

LEMMA StatementSame ==
    ASSUME NEW ts, NEW us, NEW m, Alike(ts, us, m)
    PROVE  Same(m, ParseStatement(ts), ParseStatement(us))
<1> DEFINE r == ParseStatement(ts)
           s == ParseStatement(us)
<1>1. IsScan(ts) /\ m \in Nat /\ 2 = 1 + 1
    BY DEF Alike
<1>2. CASE m = 0
    <2>1. Late(ts, 1, r)
        BY <1>1, StatementLate
    <2> HIDE DEF r, s
    <2>2. Same(m, r, s)
        BY <1>2, <2>1 DEF Late, Same
    <2>3. QED BY <2>2 DEF r, s
<1>3. CASE m # 0
    <2>1. Kind(us, 1) = Kind(ts, 1) /\ 2 \in 1 .. m + 1
        <3>1. 1 \in 1 .. m
            BY <1>1, <1>3
        <3>2. QED BY <1>1, <3>1, SameToken
    <2>2. CASE Kind(ts, 1) \notin {"Select", "Create", "Insert"}
        BY <2>1, <2>2, StatementIs DEF Same
    <2>3. CASE Kind(ts, 1) \in {"Select", "Create", "Insert"}
        <3>1. Top(ts, 2)
            BY <1>1, <2>3, StartIsTop, WordMoves
        <3>2. /\ Same(m, ParseSelect(ts, 2), ParseSelect(us, 2))
              /\ Same(m, ParseCreate(ts, 2), ParseCreate(us, 2))
              /\ Same(m, ParseInsert(ts, 2), ParseInsert(us, 2))
            BY <2>1, <3>1, SelectSame, CreateSame, InsertSame
        <3>3. QED BY <2>1, <2>3, <3>2, StatementIs
    <2>4. QED BY <2>2, <2>3
<1>4. QED BY <1>2, <1>3

LEMMA CreateRests ==
    ASSUME NEW us, IsScan(us), NEW q \in Nat, Rests(us, q, SchemaKinds, 2)
    PROVE  ParseCreate(us, q).ok
<1>1. PICK k \in Nat \ {0} : k = q + 1
    OBVIOUS
<1>2. Kind(us, q) = "Schema" /\ Rests(us, k, SchemaKinds, 3)
    BY <1>1, SchemaKindsAre, RestsStep
<1>3. ParseCreate(us, q) = NameToEnd(us, k, TRUE)
    BY <1>1, <1>2, CreateIs
<1>4. QED BY <1>2, <1>3, NameRests

LEMMA CreateMends ==
    ASSUME NEW ts, IsScan(ts), NEW p, Top(ts, p),
           NEW m \in Nat, ~ParseCreate(ts, p).ok, ParseCreate(ts, p).at = m + 1
    PROVE  \E kinds \in Completions(Depth(ts, m + 1)) :
               \A us : Mended(ts, us, m, kinds) => ParseCreate(us, p).ok
<1>1. PICK k : k = p + 1
    OBVIOUS
<1>2. CASE Kind(ts, p) \notin {"Database", "Schema", "Table"}
    <2>1. p = m + 1
        BY <1>1, <1>2, CreateIs, ErrorLate
    <2> DEFINE kinds == SubSeq(SchemaKinds, 2, Len(SchemaKinds))
    <2>2. kinds \in Completions(Depth(ts, m + 1))
        BY SchemaKindsAre, SuffixCompletes
    <2>3. ASSUME NEW us, Mended(ts, us, m, kinds)
          PROVE  ParseCreate(us, p).ok
        <3>1. IsScan(us) /\ Rests(us, p, SchemaKinds, 2) /\ p \in Nat
            BY <2>1, <2>3, SchemaKindsAre, SuffixRests DEF Mended, Alike
        <3>2. QED BY <3>1, CreateRests
    <2> HIDE DEF kinds
    <2>4. QED BY <2>2, <2>3
<1>3. CASE Kind(ts, p) \in {"Database", "Schema", "Table"}
    <2> DEFINE r == ParseCreate(ts, p)
    <2>1. /\ Top(ts, k)
          /\ \A f : ~f.ok /\ f.at = m + 1 /\ Late(ts, k, f) => p \in 1 .. m
        BY <1>1, <1>3, WordMoves
    <2>2. /\ Late(ts, k, NameToEnd(ts, k, TRUE)) /\ Late(ts, k, NameToEnd(ts, k, FALSE))
          /\ Late(ts, k, ParseCreateTable(ts, k))
        BY <2>1, NameLate, CreateTableLate
    <2>3. p \in 1 .. m
        <3>1. Late(ts, k, r)
            BY <1>1, <1>3, <2>2, CreateIs
        <3>2. ~r.ok /\ r.at = m + 1
            OBVIOUS
        <3> HIDE DEF r
        <3>3. QED BY <2>1, <3>1, <3>2
    <2>4. \A us, kinds : Mended(ts, us, m, kinds) => Kind(us, p) = Kind(ts, p)
        BY <2>3, SameToken DEF Mended
    <2>5. CASE Kind(ts, p) = "Database"
        <3>1. r = NameToEnd(ts, k, FALSE)
            BY <1>1, <2>5, CreateIs
        <3>2. PICK kinds \in Completions(Depth(ts, m + 1)) :
                  \A us : Mended(ts, us, m, kinds) => NameToEnd(us, k, FALSE).ok
            BY <2>1, <3>1, NameMends
        <3>3. ASSUME NEW us, Mended(ts, us, m, kinds)
              PROVE  ParseCreate(us, p).ok
            <4>1. ParseCreate(us, p) = NameToEnd(us, k, FALSE)
                BY <1>1, <2>4, <2>5, <3>3, CreateIs
            <4>2. QED BY <3>2, <3>3, <4>1
        <3>4. QED BY <3>3
    <2>6. CASE Kind(ts, p) = "Schema"
        <3>1. r = NameToEnd(ts, k, TRUE)
            BY <1>1, <2>6, CreateIs
        <3>2. PICK kinds \in Completions(Depth(ts, m + 1)) :
                  \A us : Mended(ts, us, m, kinds) => NameToEnd(us, k, TRUE).ok
            BY <2>1, <3>1, NameMends
        <3>3. ASSUME NEW us, Mended(ts, us, m, kinds)
              PROVE  ParseCreate(us, p).ok
            <4>1. ParseCreate(us, p) = NameToEnd(us, k, TRUE)
                BY <1>1, <2>4, <2>6, <3>3, CreateIs
            <4>2. QED BY <3>2, <3>3, <4>1
        <3>4. QED BY <3>3
    <2>7. CASE Kind(ts, p) = "Table"
        <3>1. r = ParseCreateTable(ts, k)
            BY <1>1, <2>7, CreateIs
        <3>2. PICK kinds \in Completions(Depth(ts, m + 1)) :
                  \A us : Mended(ts, us, m, kinds) => ParseCreateTable(us, k).ok
            BY <2>1, <3>1, CreateTableMends
        <3>3. ASSUME NEW us, Mended(ts, us, m, kinds)
              PROVE  ParseCreate(us, p).ok
            <4>1. ParseCreate(us, p) = ParseCreateTable(us, k)
                BY <1>1, <2>4, <2>7, <3>3, CreateIs
            <4>2. QED BY <3>2, <3>3, <4>1
        <3>4. QED BY <3>3
    <2>8. QED BY <1>3, <2>5, <2>6, <2>7
<1>4. QED BY <1>2, <1>3

LEMMA StatementMends ==
    ASSUME NEW ts, IsScan(ts), NEW m \in Nat, ~ParseStatement(ts).ok, ParseStatement(ts).at = m + 1
    PROVE  \E kinds \in Completions(Depth(ts, m + 1)) :
               \A us : Mended(ts, us, m, kinds) => ParseStatement(us).ok
<1>1. Top(ts, 1) /\ 2 = 1 + 1
    BY StartIsTop
<1>2. CASE Kind(ts, 1) \notin {"Select", "Create", "Insert"}
    <2>1. 1 = m + 1
        BY <1>1, <1>2, StatementIs, ErrorLate
    <2> DEFINE kinds == SubSeq(SchemaKinds, 1, Len(SchemaKinds))
    <2>2. kinds \in Completions(Depth(ts, m + 1))
        BY SchemaKindsAre, SuffixCompletes
    <2>3. ASSUME NEW us, Mended(ts, us, m, kinds)
          PROVE  ParseStatement(us).ok
        <3>1. IsScan(us) /\ Rests(us, 1, SchemaKinds, 1)
            BY <2>1, <2>3, SchemaKindsAre, SuffixRests DEF Mended, Alike
        <3>2. Kind(us, 1) = "Create" /\ Rests(us, 2, SchemaKinds, 2)
            BY <1>1, <3>1, SchemaKindsAre, RestsStep
        <3>3. ParseStatement(us) = ParseCreate(us, 2)
            BY <3>2, StatementIs
        <3>4. QED BY <3>1, <3>2, <3>3, CreateRests
    <2> HIDE DEF kinds
    <2>4. QED BY <2>2, <2>3
<1>3. CASE Kind(ts, 1) \in {"Select", "Create", "Insert"}
    <2> DEFINE r == ParseStatement(ts)
    <2>1. /\ Top(ts, 2)
          /\ \A f : ~f.ok /\ f.at = m + 1 /\ Late(ts, 2, f) => 1 \in 1 .. m
        BY <1>1, <1>3, WordMoves
    <2>2. /\ Late(ts, 2, ParseSelect(ts, 2)) /\ Late(ts, 2, ParseCreate(ts, 2))
          /\ Late(ts, 2, ParseInsert(ts, 2))
        BY <2>1, SelectLate, CreateLate, InsertLate
    <2>3. 1 \in 1 .. m
        <3>1. Late(ts, 2, r)
            BY <1>3, <2>2, StatementIs
        <3>2. ~r.ok /\ r.at = m + 1
            OBVIOUS
        <3> HIDE DEF r
        <3>3. QED BY <2>1, <3>1, <3>2
    <2>4. \A us, kinds : Mended(ts, us, m, kinds) => Kind(us, 1) = Kind(ts, 1)
        BY <2>3, SameToken DEF Mended
    <2>5. CASE Kind(ts, 1) = "Select"
        <3>1. PICK kinds \in Completions(Depth(ts, m + 1)) :
                  \A us : Mended(ts, us, m, kinds) => ParseSelect(us, 2).ok
            BY <2>1, <2>5, StatementIs, SelectMends
        <3>2. QED BY <2>4, <2>5, <3>1, StatementIs
    <2>6. CASE Kind(ts, 1) = "Create"
        <3>1. PICK kinds \in Completions(Depth(ts, m + 1)) :
                  \A us : Mended(ts, us, m, kinds) => ParseCreate(us, 2).ok
            BY <2>1, <2>6, StatementIs, CreateMends
        <3>2. QED BY <2>4, <2>6, <3>1, StatementIs
    <2>7. CASE Kind(ts, 1) = "Insert"
        <3>1. PICK kinds \in Completions(Depth(ts, m + 1)) :
                  \A us : Mended(ts, us, m, kinds) => ParseInsert(us, 2).ok
            BY <2>1, <2>7, StatementIs, InsertMends
        <3>2. QED BY <2>4, <2>7, <3>1, StatementIs
    <2>8. QED BY <1>3, <2>5, <2>6, <2>7
<1>4. QED BY <1>2, <1>3

(* The text that is made of the first m tokens and these kinds behind it.  *)
LEMMA FirstTokens ==
    ASSUME NEW ts, IsScan(ts), NEW m \in 0 .. Len(ts)
    PROVE  LET us == SubSeq(ts, 1, m)
           IN  /\ IsSequence(us) /\ Len(us) = m /\ \A i \in 1 .. m : us[i] = ts[i]
               /\ Depth(us, m + 1) = Depth(ts, m + 1)
<1> DEFINE us == SubSeq(ts, 1, m)
           S == {ts[i] : i \in 1 .. m}
<1>1. 1 \in Int /\ m \in Int /\ m \in Nat /\ Len(ts) \in Nat
    BY DEF IsScan
<1>2. \A i \in 1 .. m : ts[i] \in S
    OBVIOUS
<1>3. /\ us \in Seq(S) /\ Len(us) = IF 1 <= m THEN m - 1 + 1 ELSE 0
      /\ \A i \in 1 .. m - 1 + 1 : us[i] = ts[1 + i - 1]
    <2> HIDE DEF S
    <2>1. QED BY <1>1, <1>2, SubSeqProperties
<1>4. IsSequence(us)
    BY <1>3, SeqIsSequence
<1> HIDE DEF us, S
<1>5. Len(us) = m /\ \A i \in 1 .. m : us[i] = ts[i]
    BY <1>1, <1>3
<1>6. \A kind : Before(us, m + 1, kind) = Before(ts, m + 1, kind)
    <2>1. m + 1 - 1 = m
        BY <1>1
    <2>2. \A kind : \A i \in 1 .. m : Kind(us, i) = kind <=> Kind(ts, i) = kind
        BY <1>5 DEF Kind
    <2>3. QED BY <2>1, <2>2 DEF Before
<1>7. Depth(us, m + 1) = Depth(ts, m + 1)
    BY <1>6 DEF Depth
<1>8. QED BY <1>4, <1>5, <1>7 DEF us

LEMMA AnyTokens ==
    ASSUME NEW kinds \in Seq(PlainKinds)
    PROVE  LET us == [k \in 1 .. Len(kinds) |-> AnyToken(kinds[k])]
           IN  IsSequence(us) /\ Len(us) = Len(kinds) /\ Len(kinds) \in Nat
               /\ \A k \in 1 .. Len(kinds) : us[k] = AnyToken(kinds[k]) /\ kinds[k] \in PlainKinds
<1> DEFINE us == [k \in 1 .. Len(kinds) |-> AnyToken(kinds[k])]
           S == {AnyToken(kind) : kind \in PlainKinds}
<1>1. PICK n \in Nat : n = Len(kinds)
    BY LenProperties
<1>2. \A k \in 1 .. n : kinds[k] \in PlainKinds
    BY <1>1, ElementOfSeq
<1>3. us \in [1 .. n -> S]
    BY <1>1, <1>2
<1>4. us \in Seq(S) /\ Len(us) = n
    <2> HIDE DEF us, S
    <2>1. QED BY <1>3
<1>5. IsSequence(us)
    BY <1>4, SeqIsSequence
<1>6. \A k \in 1 .. n : us[k] = AnyToken(kinds[k])
    BY <1>1
<1> HIDE DEF us
<1>7. QED BY <1>1, <1>2, <1>4, <1>5, <1>6 DEF us

(* us is the text s with the text t behind it.                            *)
OneBehind(s, t, us) ==
    /\ IsSequence(us) /\ Len(us) = Len(s) + Len(t)
    /\ \A i \in 1 .. Len(s) : us[i] = s[i]
    /\ \A i \in 1 .. Len(t) : us[Len(s) + i] = t[i]

LEMMA OneBehindIs ==
    ASSUME NEW s, NEW t, NEW us, IsSequence(s), IsSequence(t), us = s \o t
    PROVE  OneBehind(s, t, us)
<1>1. /\ IsSequence(s \o t) /\ Len(s \o t) = Len(s) + Len(t)
      /\ \A i \in 1 .. Len(s) : (s \o t)[i] = s[i]
      /\ \A i \in 1 .. Len(t) : (s \o t)[Len(s) + i] = t[i]
    BY ConcatIsSequence
<1>2. QED BY <1>1 DEF OneBehind

LEMMA CompletedMends ==
    ASSUME NEW ts, IsScan(ts), NEW m \in 0 .. Len(ts) - 1, NEW n \in Int, NEW kinds \in Completions(n)
    PROVE  Mended(ts, Completed(SubSeq(ts, 1, m), kinds), m, kinds)
<1> DEFINE first == SubSeq(ts, 1, m)
           more == [k \in 1 .. Len(kinds) |-> AnyToken(kinds[k])]
           end == <<AnyToken("EndOfFile")>>
           both == first \o more
           us == Completed(first, kinds)
<1>1. /\ Len(ts) \in Nat /\ m \in Nat /\ m \in 0 .. Len(ts)
      /\ \A i \in 1 .. Len(ts) : /\ Kind(ts, i) = "EndOfFile" <=> i = Len(ts)
                                 /\ Kind(ts, i) = "Identifier" => ts[i].lexeme # EmptyName
                                 /\ Kind(ts, i) = "IntegerLiteral" => ts[i].lexeme \in Seq(Digits)
    BY DEF IsScan
<1>2. IsSequence(first) /\ Len(first) = m /\ \A i \in 1 .. m : first[i] = ts[i]
    BY <1>1, FirstTokens
<1>3. PICK l \in Nat : /\ l = Len(kinds) /\ IsSequence(more) /\ Len(more) = l
                       /\ \A k \in 1 .. l : more[k] = AnyToken(kinds[k]) /\ kinds[k] \in PlainKinds
    BY CompletionsPlain, AnyTokens
<1>4. IsSequence(end) /\ Len(end) = 1 /\ end[1] = AnyToken("EndOfFile")
    BY SingletonSequence
<1>5. us = both \o end
    BY DEF Completed
<1> HIDE DEF first, more, end, us
<1>6. /\ IsSequence(both) /\ Len(both) = m + l
      /\ \A i \in 1 .. m : both[i] = ts[i]
      /\ \A k \in 1 .. l : both[m + k] = AnyToken(kinds[k])
    <2>1. OneBehind(first, more, both)
        BY <1>2, <1>3, OneBehindIs
    <2> HIDE DEF both
    <2>2. \A k \in 1 .. l : k \in 1 .. Len(more)
        BY <1>3
    <2>3. QED BY <1>2, <1>3, <2>1, <2>2 DEF OneBehind
<1> HIDE DEF both
<1>7. /\ Len(us) = m + l + 1
      /\ \A i \in 1 .. m + l : us[i] = both[i]
      /\ us[m + l + 1] = AnyToken("EndOfFile")
    <2>1. /\ Len(us) = Len(both) + Len(end)
          /\ \A i \in 1 .. Len(both) : us[i] = both[i]
          /\ \A i \in 1 .. Len(end) : us[Len(both) + i] = end[i]
        <3>1. IsSequence(both) /\ IsSequence(end)
            BY <1>4, <1>6
        <3>2. OneBehind(both, end, us)
            BY <1>5, <3>1, OneBehindIs, Zenon
        <3>3. QED BY <3>2 DEF OneBehind
    <2>2. 1 \in 1 .. Len(end)
        BY <1>4
    <2>3. QED BY <1>4, <1>6, <2>1, <2>2
<1>8. \A i \in 1 .. m : us[i] = ts[i]
    <2>1. \A i \in 1 .. m : i \in 1 .. m + l
        BY <1>1
    <2>2. QED BY <1>6, <1>7, <2>1
<1>9. \A k \in 1 .. l : us[m + k] = AnyToken(kinds[k])
    <2>1. \A k \in 1 .. l : m + k \in 1 .. m + l
        BY <1>1
    <2>2. QED BY <1>6, <1>7, <2>1
<1>10. \A kind : /\ AnyToken(kind).kind = kind /\ AnyToken(kind).lexeme # EmptyName
    BY EmptyNameAssumption DEF AnyToken
<1>11. ASSUME NEW k \in 1 .. l
       PROVE  Kind(us, m + k) = kinds[k] /\ us[m + k].lexeme # EmptyName
    BY <1>9, <1>10 DEF Kind
<1>12. Ending(us, m, kinds)
    BY <1>1, <1>3, <1>7, <1>11 DEF Ending
<1>13. IsScan(us)
    <2>1. ASSUME NEW i \in 1 .. m + l + 1
          PROVE  /\ Kind(us, i) = "EndOfFile" <=> i = m + l + 1
                 /\ Kind(us, i) = "Identifier" => us[i].lexeme # EmptyName
                 /\ Kind(us, i) = "IntegerLiteral" => us[i].lexeme \in Seq(Digits)
        <3>1. CASE i \in 1 .. m
            <4>1. i \in 1 .. Len(ts) /\ i # Len(ts) /\ i # m + l + 1
                BY <1>1, <3>1
            <4>2. us[i] = ts[i] /\ Kind(us, i) = Kind(ts, i)
                BY <1>8, <3>1 DEF Kind
            <4>3. QED BY <1>1, <4>1, <4>2
        <3>2. CASE i \in m + 1 .. m + l
            <4>1. PICK k : k = i - m
                OBVIOUS
            <4>2. k \in 1 .. l /\ m + k = i /\ i # m + l + 1
                BY <1>1, <3>2, <4>1
            <4>3. Kind(us, i) \in PlainKinds /\ us[i].lexeme # EmptyName
                BY <1>3, <1>11, <4>2
            <4>4. Kind(us, i) \notin {"EndOfFile", "IntegerLiteral"}
                BY <4>3 DEF PlainKinds
            <4>5. QED BY <4>2, <4>3, <4>4
        <3>3. CASE i = m + l + 1
            BY <1>7, <1>10, <3>3 DEF Kind
        <3>4. QED BY <1>1, <3>1, <3>2, <3>3
    <2>2. Len(us) \in Nat \ {0}
        BY <1>1, <1>7
    <2>3. QED BY <1>7, <2>1, <2>2 DEF IsScan
<1>14. m \in 0 .. Len(us) - 1
    BY <1>1, <1>7
<1>15. Mended(ts, us, m, kinds)
    BY <1>8, <1>12, <1>13, <1>14 DEF Mended, Alike
<1>16. QED BY <1>15 DEF us, first

(* What a failed call says of the beginnings of its text.                  *)
LEMMA CompletableBy ==
    ASSUME NEW ts, IsScan(ts), NEW m \in 0 .. Len(ts) - 1
    PROVE  CanBeCompleted(SubSeq(ts, 1, m)) <=>
               \E kinds \in Completions(Depth(ts, m + 1)) :
                   ParseStatement(Completed(SubSeq(ts, 1, m), kinds)).ok
<1> DEFINE first == SubSeq(ts, 1, m)
<1>1. m \in 0 .. Len(ts) /\ m + 1 \in Nat \ {0}
    BY DEF IsScan
<1>2. Len(first) = m /\ Depth(first, m + 1) = Depth(ts, m + 1)
    BY <1>1, FirstTokens
<1>3. Depth(ts, m + 1) \in Int
    BY <1>1, DepthIsNumber
<1>4. ASSUME NEW kinds \in Completions(Depth(ts, m + 1))
      PROVE  Trees(Completed(first, kinds)) # {} <=> ParseStatement(Completed(first, kinds)).ok
    <2>1. IsScan(Completed(first, kinds))
        BY <1>3, CompletedMends DEF Mended, Alike
    <2> HIDE DEF first
    <2>2. QED BY <2>1, ParserReadsGrammar
<1> HIDE DEF first
<1>5. CanBeCompleted(first) <=>
          \E kinds \in Completions(Depth(ts, m + 1)) : Trees(Completed(first, kinds)) # {}
    BY <1>2 DEF CanBeCompleted
<1>6. QED BY <1>4, <1>5 DEF first

(* The parser stops at the first token that makes the text no beginning of *)
(* a statement, whatever the tokens: what stands before it can be          *)
(* completed, and no scan that begins with the tokens up to it is a        *)
(* statement, so that none of the completions makes it one                 *)
(* (parser.cpp:43-49, and every call of make_error).                       *)
THEOREM ParserStopsAtCulprit ==
    ASSUME NEW ts, IsScan(ts), ~ParseStatement(ts).ok
    PROVE  LET at == ParseStatement(ts).at
           IN  /\ at \in 1 .. Len(ts)
               /\ CanBeCompleted(SubSeq(ts, 1, at - 1))
               /\ \A us : Alike(ts, us, at) => Trees(us) = {}
               /\ at < Len(ts) => ~CanBeCompleted(SubSeq(ts, 1, at))
<1> DEFINE r == ParseStatement(ts)
           at == r.at
<1>1. at \in 1 .. Len(ts) /\ Len(ts) \in Nat /\ ~r.ok
    BY StatementLate DEF Late, IsScan
<1>2. CanBeCompleted(SubSeq(ts, 1, at - 1))
    <2> HIDE DEF r
    <2>1. PICK m \in 0 .. Len(ts) - 1 : at = m + 1 /\ m = at - 1 /\ m \in Nat
        BY <1>1
    <2>2. PICK kinds \in Completions(Depth(ts, m + 1)) :
              \A us : Mended(ts, us, m, kinds) => ParseStatement(us).ok
        BY <1>1, <2>1, StatementMends DEF r
    <2>3. Depth(ts, m + 1) \in Int
        BY <2>1, DepthIsNumber
    <2>4. ParseStatement(Completed(SubSeq(ts, 1, m), kinds)).ok
        BY <2>2, <2>3, CompletedMends
    <2>5. CanBeCompleted(SubSeq(ts, 1, m))
        BY <2>4, CompletableBy
    <2>6. QED BY <2>1, <2>5
<1>3. ASSUME NEW us, Alike(ts, us, at)
      PROVE  ~ParseStatement(us).ok /\ Trees(us) = {}
    <2>1. IsScan(us) /\ at \in 0 .. Len(ts) - 1
        BY <1>3 DEF Alike
    <2>2. Same(at, r, ParseStatement(us))
        BY <1>3, StatementSame
    <2> HIDE DEF r
    <2>3. at <= at
        BY <2>1
    <2>4. ParseStatement(us) = r
        BY <1>1, <2>2, <2>3 DEF Same
    <2>5. ~ParseStatement(us).ok
        BY <1>1, <2>4
    <2>6. QED BY <2>1, <2>5, ParserReadsGrammar
<1>4. ASSUME at < Len(ts)
      PROVE  ~CanBeCompleted(SubSeq(ts, 1, at))
    <2> HIDE DEF r
    <2>1. at \in 0 .. Len(ts) - 1 /\ at \in Nat
        BY <1>1, <1>4
    <2>2. Depth(ts, at + 1) \in Int
        BY <2>1, DepthIsNumber
    <2>3. ASSUME NEW kinds \in Completions(Depth(ts, at + 1))
          PROVE  ~ParseStatement(Completed(SubSeq(ts, 1, at), kinds)).ok
        <3>1. Alike(ts, Completed(SubSeq(ts, 1, at), kinds), at)
            BY <2>1, <2>2, CompletedMends DEF Mended
        <3>2. QED BY <1>3, <3>1
    <2>4. QED BY <2>1, <2>3, CompletableBy
<1>5. QED BY <1>1, <1>2, <1>3, <1>4

(* Every error is reported at the place of the first token that makes the  *)
(* text no beginning of a statement.                                       *)
THEOREM ErrorsAtCulprit == FrontendSpec => []ErrorsPointAtCulprit
<1>1. FrontendInv => ErrorsPointAtCulprit
    <2> SUFFICES ASSUME FrontendInv, outcome.status \notin {"Pending", "Ok"}
                 PROVE  \E at \in 1 .. Len(tokens) :
                            /\ tokens[at].line = outcome.line /\ tokens[at].column = outcome.column
                            /\ CanBeCompleted(SubSeq(tokens, 1, at - 1))
                            /\ at < Len(tokens) => ~CanBeCompleted(SubSeq(tokens, 1, at))
        BY DEF ErrorsPointAtCulprit
    <2> DEFINE result == ParseStatement(tokens)
    <2>1. outcome # Pending
        BY DEF Pending
    <2>2. IsScanned /\ outcome = Outcome(tokens) /\ IsScan(tokens)
        BY <2>1, ScannedIsScan DEF FrontendInv, OutcomeIsParse
    <2>3. ~result.ok
        <3>1. result.ok => outcome = [status |-> "Ok", tree |-> result.tree]
            BY <2>2 DEF Outcome
        <3> HIDE DEF result
        <3>2. QED BY <3>1
    <2>4. PICK at : at = result.at
        OBVIOUS
    <2>5. outcome.line = tokens[at].line /\ outcome.column = tokens[at].column
        <3>1. outcome = [status |-> "Error", line |-> tokens[at].line, column |-> tokens[at].column]
            BY <2>2, <2>3, <2>4 DEF Outcome
        <3>2. QED BY <3>1
    <2>6. /\ at \in 1 .. Len(tokens)
          /\ CanBeCompleted(SubSeq(tokens, 1, at - 1))
          /\ at < Len(tokens) => ~CanBeCompleted(SubSeq(tokens, 1, at))
        BY <2>2, <2>3, <2>4, ParserStopsAtCulprit
    <2>7. QED BY <2>5, <2>6
<1>2. QED BY <1>1, FrontendInvariant, PTL

=============================================================================
