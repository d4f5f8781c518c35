----------------------------- MODULE ShellProofs -----------------------------
(***************************************************************************)
(* The scanner, the parser as far as its callers depend on it, and the     *)
(* shell, for every alphabet, every table of keywords, every text, every   *)
(* set of lines and every number of them.                                  *)
(*                                                                         *)
(* The scanner ends, skips the blanks and nothing else, cuts the longest   *)
(* tokens, places them, and its string literals decode to what was quoted. *)
(* A call of the parser that succeeds takes a balanced piece of the tokens *)
(* and makes a tree or a list.  So a statement that the shell parses is    *)
(* one that Sessions expects, it executes nothing but what it has just     *)
(* bound, it asks for more lines only if there is no statement, and the    *)
(* lines it joins keep their tokens.                                       *)
(*                                                                         *)
(* Loops and recursive calls are recursive functions on the positions of   *)
(* the text or of the tokens.  Each is shown to satisfy its equation       *)
(* (LooksAhead, LooksBack), and a property of it is proved from the end    *)
(* backwards (BackwardInduction) or from the beginning.                    *)
(***************************************************************************)
EXTENDS Shell, Scanning, Grammar, SessionsProofs, FiniteSetTheorems

-----------------------------------------------------------------------------
(* Intervals of positions.                                                 *)

(* A set of naturals with 0 and all successors is Nat.                     *)
LEMMA NatSetInduction ==
    ASSUME NEW T \in SUBSET Nat, 0 \in T, \A k \in T : k + 1 \in T
    PROVE  T = Nat
<1> DEFINE Less == {pair \in Nat \X Nat : pair[1] < pair[2]}
<1>1. SUFFICES ASSUME Nat \ T # {} PROVE FALSE
    OBVIOUS
<1>2. IsWellFoundedOn(Less, Nat)
    BY NatLessThanWellFounded DEF OpToRel
<1>3. PICK x \in Nat \ T : \A y \in Nat \ T : <<y, x>> \notin Less
    <2> HIDE DEF Less
    <2>1. QED BY <1>1, <1>2, WFMin
<1>4. \A y \in Nat \ T : ~(y < x)
    BY <1>3
<1>5. x - 1 \in T
    BY <1>3, <1>4
<1>6. QED BY <1>3, <1>5

(* What holds of a position if it holds of all behind it holds of all.     *)
LEMMA BackwardInduction ==
    ASSUME NEW low \in Int, NEW high \in Int, NEW good,
           \A q \in low .. high : (\A r \in q + 1 .. high : r \in good) => q \in good
    PROVE  \A q \in low .. high : q \in good
<1> DEFINE T == {k \in Nat : \A q \in low .. high : high - q < k => q \in good}
<1>1. 0 \in T
    OBVIOUS
<1>2. \A k \in T : k + 1 \in T
    <2> SUFFICES ASSUME NEW k \in T, NEW q \in low .. high, high - q < k + 1
                 PROVE  q \in good
        OBVIOUS
    <2>1. \A r \in q + 1 .. high : r \in good
        OBVIOUS
    <2>2. QED BY <2>1
<1>3. T = Nat
    <2>1. T \in SUBSET Nat
        OBVIOUS
    <2> HIDE DEF T
    <2>2. QED BY <1>1, <1>2, <2>1, NatSetInduction
<1>4. ASSUME NEW q \in low .. high
      PROVE  q \in good
    <2>1. high - q + 1 \in T
        <3> HIDE DEF T
        <3>1. QED BY <1>3
    <2>2. QED BY <2>1
<1>5. QED BY <1>4

(* The same from the first position on.                                    *)
LEMMA ForwardInduction ==
    ASSUME NEW low \in Int, NEW high \in Int, NEW good,
           \A q \in low .. high : (\A r \in low .. q - 1 : r \in good) => q \in good
    PROVE  \A q \in low .. high : q \in good
<1> DEFINE T == {k \in Nat : \A q \in low .. high : q - low < k => q \in good}
<1>1. 0 \in T
    OBVIOUS
<1>2. \A k \in T : k + 1 \in T
    <2> SUFFICES ASSUME NEW k \in T, NEW q \in low .. high, q - low < k + 1
                 PROVE  q \in good
        OBVIOUS
    <2>1. \A r \in low .. q - 1 : r \in good
        OBVIOUS
    <2>2. QED BY <2>1
<1>3. T = Nat
    <2>1. T \in SUBSET Nat
        OBVIOUS
    <2> HIDE DEF T
    <2>2. QED BY <1>1, <1>2, <2>1, NatSetInduction
<1>4. ASSUME NEW q \in low .. high
      PROVE  q \in good
    <2>1. q - low + 1 \in T
        <3> HIDE DEF T
        <3>1. QED BY <1>3
    <2>2. QED BY <2>1
<1>5. QED BY <1>4

(* Min and Max are what they are called.                                   *)
LEMMA LeastPosition ==
    ASSUME NEW low \in Int, NEW high \in Int, NEW S, S # {}, \A q \in S : q \in low .. high
    PROVE  Min(S) \in S /\ \A q \in S : Min(S) <= q
<1>1. SUFFICES \E m \in S : \A q \in S : m <= q
    BY DEF Min
<1>2. SUFFICES ASSUME \A m \in S : \E q \in S : q < m
               PROVE  FALSE
    OBVIOUS
<1> DEFINE good == Int \ S
<1>3. ASSUME NEW q \in low .. high, \A r \in low .. q - 1 : r \in good
      PROVE  q \in good
    BY <1>2, <1>3
<1>4. \A q \in low .. high : q \in good
    <2> HIDE DEF good
    <2>1. QED BY <1>3, ForwardInduction
<1>5. QED BY <1>4

LEMMA GreatestPosition ==
    ASSUME NEW low \in Int, NEW high \in Int, NEW S, S # {}, \A q \in S : q \in low .. high
    PROVE  Max(S) \in S /\ \A q \in S : q <= Max(S)
<1>1. SUFFICES \E m \in S : \A q \in S : q <= m
    BY DEF Max
<1>2. SUFFICES ASSUME \A m \in S : \E q \in S : m < q
               PROVE  FALSE
    OBVIOUS
<1> DEFINE good == Int \ S
<1>3. ASSUME NEW q \in low .. high, \A r \in q + 1 .. high : r \in good
      PROVE  q \in good
    BY <1>2, <1>3
<1>4. \A q \in low .. high : q \in good
    <2> HIDE DEF good
    <2>1. QED BY <1>3, BackwardInduction
<1>5. QED BY <1>4

LEMMA GreatestIs ==
    ASSUME NEW low \in Int, NEW high \in Int, NEW S, high \in S, \A q \in S : q \in low .. high
    PROVE  Max(S) = high
<1> DEFINE m == Max(S)
<1>1. m \in S /\ \A q \in S : q <= m
    BY GreatestPosition, Zenon
<1> HIDE DEF m
<1>2. m \in low .. high /\ high <= m
    BY <1>1
<1>3. m = high
    BY <1>2
<1>4. QED BY <1>3 DEF m

LEMMA LeastIs ==
    ASSUME NEW low \in Int, NEW high \in Int, NEW S, low \in S, \A q \in S : q \in low .. high
    PROVE  Min(S) = low
<1> DEFINE m == Min(S)
<1>1. m \in S /\ \A q \in S : m <= q
    BY LeastPosition, Zenon
<1> HIDE DEF m
<1>2. m \in low .. high /\ m <= low
    BY <1>1
<1>3. m = low
    BY <1>2
<1>4. QED BY <1>3 DEF m

-----------------------------------------------------------------------------
(* Moving over characters.                                                 *)

Walks(at, from, seq) ==
    at[0] = from /\ \A k \in 1 .. Len(seq) : at[k] = Advance(at[k - 1], seq[k])

(* Advancing over a sequence is advancing over one character after the     *)
(* other, although FoldLeft is defined by a recursion over sets.           *)
LEMMA FoldAdvance ==
    ASSUME NEW from, NEW seq, Len(seq) \in Nat, DOMAIN seq = 1 .. Len(seq)
    PROVE  \E at : Walks(at, from, seq) /\ FoldLeft(Advance, from, seq) = at[Len(seq)]
<1> DEFINE N == Len(seq)
           Folds(f, k) ==
               f = [s \in SUBSET (1 .. k) |->
                       IF s = {} THEN from ELSE Advance(f[s \ {Max(s)}], seq[Max(s)])]
           T == {k \in Nat : \E f : Folds(f, k)}
           iter[s \in SUBSET (1 .. N)] ==
               IF s = {} THEN from ELSE Advance(iter[s \ {Max(s)}], seq[Max(s)])
<1>1. 0 \in T
    <2>1. Folds([s \in SUBSET (1 .. 0) |-> from], 0)
        OBVIOUS
    <2>2. QED BY <2>1
<1>2. \A k \in T : k + 1 \in T
    <2> TAKE k \in T
    <2>1. PICK f : Folds(f, k)
        OBVIOUS
    <2>2. k \in Nat
        OBVIOUS
    <2> DEFINE last(s) == Advance(f[s \ {k + 1}], seq[k + 1])
               g == [s \in SUBSET (1 .. k + 1) |-> IF k + 1 \in s THEN last(s) ELSE f[s]]
    <2>3. \A s \in SUBSET (1 .. k + 1) : g[s] = IF k + 1 \in s THEN last(s) ELSE f[s]
        <3> HIDE DEF last, T
        <3>1. QED OBVIOUS
    <2>4. g = [s \in SUBSET (1 .. k + 1) |-> g[s]]
        OBVIOUS
    <2>5. \A s \in SUBSET (1 .. k) :
              f[s] = IF s = {} THEN from ELSE Advance(f[s \ {Max(s)}], seq[Max(s)])
        BY <2>1
    <2> HIDE DEF g, T, Folds
    <2>6. ASSUME NEW s \in SUBSET (1 .. k + 1)
          PROVE  g[s] = IF s = {} THEN from ELSE Advance(g[s \ {Max(s)}], seq[Max(s)])
        <3>1. CASE k + 1 \in s
            <4>1. Max(s) = k + 1
                <5>1. 1 \in Int /\ k + 1 \in Int /\ \A q \in s : q \in 1 .. k + 1
                    BY <2>2
                <5>2. QED BY <3>1, <5>1, GreatestIs, Zenon
            <4>2. s \ {k + 1} \in SUBSET (1 .. k + 1) /\ k + 1 \notin s \ {k + 1}
                OBVIOUS
            <4>3. g[s \ {k + 1}] = f[s \ {k + 1}]
                BY <2>3, <4>2
            <4>4. QED BY <2>3, <3>1, <4>1, <4>3
        <3>2. CASE k + 1 \notin s
            <4>1. s \in SUBSET (1 .. k)
                BY <2>2, <3>2
            <4>2. k + 1 \notin s \ {Max(s)} /\ s \ {Max(s)} \in SUBSET (1 .. k + 1)
                BY <3>2
            <4>3. g[s] = f[s] /\ g[s \ {Max(s)}] = f[s \ {Max(s)}]
                BY <2>3, <3>2, <4>2
            <4>4. QED BY <2>5, <4>1, <4>3
        <3>3. QED BY <3>1, <3>2
    <2>7. Folds(g, k + 1)
        BY <2>4, <2>6 DEF Folds
    <2>8. QED BY <2>2, <2>7 DEF T
<1>3. T = Nat
    <2>1. T \in SUBSET Nat
        OBVIOUS
    <2> HIDE DEF T
    <2>2. QED BY <1>1, <1>2, <2>1, NatSetInduction
<1>4. N \in T
    BY <1>3
<1>5. \E f : Folds(f, N)
    BY <1>4
<1>6. Folds(iter, N)
    BY ONLY <1>5, Zenon
<1>7. \A s \in SUBSET (1 .. N) :
          iter[s] = IF s = {} THEN from ELSE Advance(iter[s \ {Max(s)}], seq[Max(s)])
    BY <1>6
<1>8. FoldLeft(Advance, from, seq) = iter[1 .. N]
    BY DEF FoldLeft, MapThenFoldSet
<1> HIDE DEF iter, Folds, T, N
<1> DEFINE at == [k \in 0 .. N |-> iter[1 .. k]]
<1>9. at[0] = from
    <2>1. 1 .. 0 = {} /\ {} \in SUBSET (1 .. N) /\ N \in Nat
        BY DEF N
    <2>2. iter[{}] = from
        BY <1>7, <2>1
    <2>3. QED BY <2>1, <2>2
<1>10. ASSUME NEW k \in 1 .. N
       PROVE  at[k] = Advance(at[k - 1], seq[k])
    <2>1. N \in Nat
        BY DEF N
    <2>2. 1 .. k \in SUBSET (1 .. N) /\ 1 .. k # {} /\ (1 .. k) \ {k} = 1 .. k - 1
        BY <2>1
    <2>3. Max(1 .. k) = k
        <3>1. 1 \in Int /\ k \in Int /\ k \in 1 .. k
            BY <2>1
        <3>2. QED BY <3>1, GreatestIs, Zenon
    <2>4. iter[1 .. k] = Advance(iter[1 .. k - 1], seq[k])
        BY <1>7, <2>2, <2>3
    <2>5. at[k] = iter[1 .. k] /\ at[k - 1] = iter[1 .. k - 1]
        BY <2>1
    <2>6. QED BY <2>4, <2>5
<1>11. FoldLeft(Advance, from, seq) = at[N]
    <2>1. N \in Nat
        BY DEF N
    <2>2. QED BY <1>8, <2>1
<1> HIDE DEF at
<1>12. QED BY <1>9, <1>10, <1>11 DEF N, Walks

(* The line and the column of a place are right.                           *)
IsRight(string, at) == IsPlaceOf(string, at.pos, at.line, at.column)

LEMMA NewlinesFinite ==
    ASSUME NEW string, NEW p \in Nat
    PROVE  /\ IsFiniteSet(NewlinesBefore(string, p))
           /\ Cardinality(NewlinesBefore(string, p)) \in Nat
           /\ Max(NewlinesBefore(string, p) \cup {0}) \in Nat
<1> DEFINE newlines == NewlinesBefore(string, p)
<1>1. newlines \in SUBSET (1 .. p - 1) /\ IsFiniteSet(1 .. p - 1)
    BY FS_Interval DEF NewlinesBefore
<1>2. 0 \in Int /\ p \in Int /\ newlines \cup {0} # {} /\ \A q \in newlines \cup {0} : q \in 0 .. p
    BY <1>1
<1> HIDE DEF newlines
<1>3. IsFiniteSet(newlines) /\ Cardinality(newlines) \in Nat
    BY <1>1, FS_Subset, FS_CardinalityType
<1>4. Max(newlines \cup {0}) \in newlines \cup {0}
    BY <1>2, GreatestPosition, Zenon
<1>5. QED BY <1>2, <1>3, <1>4 DEF newlines

(* One character further, a right place is right again.                    *)
LEMMA AdvanceStaysRight ==
    ASSUME NEW string, NEW at, at.pos \in Nat \ {0}, IsRight(string, at)
    PROVE  /\ Advance(at, string[at.pos]).pos = at.pos + 1
           /\ IsRight(string, Advance(at, string[at.pos]))
<1> DEFINE p == at.pos
           newlines == NewlinesBefore(string, p)
           next == Advance(at, string[p])
<1>1. p \in Nat \ {0} /\ next.pos = p + 1
    BY DEF Advance
<1>2. /\ IsFiniteSet(newlines) /\ Cardinality(newlines) \in Nat
      /\ Max(newlines \cup {0}) \in Nat
    BY <1>1, NewlinesFinite
<1>3. at.line = Cardinality(newlines) + 1 /\ at.column = p - Max(newlines \cup {0})
    BY DEF IsRight, IsPlaceOf
<1>4. IsPlaceOf(string, p + 1, next.line, next.column)
    <2>1. CASE string[p] = NewLine
        <3>1. NewlinesBefore(string, p + 1) = newlines \cup {p} /\ p \notin newlines
            <4> HIDE DEF p, next
            <4>1. QED BY <1>1, <2>1 DEF NewlinesBefore
        <3>2. next.line = at.line + 1 /\ next.column = 1
            BY <2>1 DEF Advance
        <3>3. Cardinality(newlines \cup {p}) = Cardinality(newlines) + 1
            BY <1>2, <3>1, FS_AddElement
        <3>4. Max((newlines \cup {p}) \cup {0}) = p
            <4> HIDE DEF p, next
            <4>1. /\ 0 \in Int /\ p \in Int /\ p \in (newlines \cup {p}) \cup {0}
                  /\ \A q \in (newlines \cup {p}) \cup {0} : q \in 0 .. p
                BY <1>1 DEF NewlinesBefore
            <4> HIDE DEF newlines
            <4>2. QED BY <4>1, GreatestIs, Zenon
        <3> DEFINE m == Max((newlines \cup {p}) \cup {0})
                   c == Cardinality(newlines \cup {p})
        <3> HIDE DEF p, newlines, next
        <3>5. next.line = c + 1 /\ next.column = p + 1 - m
            <4> HIDE DEF m, c
            <4> SUFFICES m = p /\ c = Cardinality(newlines) + 1
                BY <1>1, <1>2, <1>3, <3>2
            <4>1. QED BY <3>3, <3>4 DEF m, c
        <3>6. /\ c = Cardinality(NewlinesBefore(string, p + 1))
              /\ m = Max(NewlinesBefore(string, p + 1) \cup {0})
            BY <3>1
        <3>7. p \in Nat /\ m \in Nat /\ c \in Nat
            BY <1>1, <1>2, <3>3, <3>4
        <3> HIDE DEF m, c
        <3>8. QED BY <3>5, <3>6, <3>7 DEF IsPlaceOf
    <2>2. CASE string[p] # NewLine
        <3>1. NewlinesBefore(string, p + 1) = newlines
            <4> HIDE DEF p, next
            <4>1. QED BY <1>1, <2>2 DEF NewlinesBefore
        <3>2. next.line = at.line /\ next.column = at.column + 1
            BY <2>2 DEF Advance
        <3> DEFINE m == Max(newlines \cup {0})
                   c == Cardinality(newlines)
        <3> HIDE DEF p, newlines, next
        <3>3. next.line = c + 1 /\ next.column = p + 1 - m
            <4>1. at.line = c + 1 /\ at.column = p - m /\ c \in Nat /\ m \in Nat
                BY <1>2, <1>3
            <4> HIDE DEF m, c
            <4>2. QED BY <1>1, <3>2, <4>1
        <3>4. /\ c = Cardinality(NewlinesBefore(string, p + 1))
              /\ m = Max(NewlinesBefore(string, p + 1) \cup {0})
            BY <3>1
        <3>5. p \in Nat /\ m \in Nat /\ c \in Nat
            BY <1>1, <1>2
        <3> HIDE DEF m, c
        <3>6. QED BY <3>3, <3>4, <3>5 DEF IsPlaceOf
    <2>3. QED BY <2>1, <2>2
<1>5. QED BY <1>1, <1>4 DEF IsRight

(* The same for any number of characters.                                  *)
LEMMA AdvanceToStaysRight ==
    ASSUME NEW S, NEW string \in Seq(S), NEW from, from.pos \in Nat \ {0},
           NEW end \in from.pos .. Len(string) + 1, IsRight(string, from)
    PROVE  /\ AdvanceTo(string, from, end).pos = end
           /\ IsRight(string, AdvanceTo(string, from, end))
<1> DEFINE p == from.pos
           seq == SubSeq(string, p, end - 1)
           n == end - p
<1>1. p \in Nat \ {0} /\ end \in Int /\ n \in Nat /\ p <= end /\ end <= Len(string) + 1
    BY LenProperties
<1>2. /\ Len(seq) = n /\ DOMAIN seq = 1 .. n
      /\ \A k \in 1 .. n : seq[k] = string[p + k - 1]
    <2>1. \A i \in p .. end - 1 : string[i] \in S
        BY <1>1, ElementOfSeq, LenProperties
    <2> HIDE DEF p
    <2>2. seq \in Seq(S) /\ Len(seq) = IF p <= end - 1 THEN end - 1 - p + 1 ELSE 0
        BY <1>1, <2>1, SubSeqProperties
    <2>3. \A i \in 1 .. end - 1 - p + 1 : seq[i] = string[p + i - 1]
        BY <1>1, <2>1, SubSeqProperties
    <2> HIDE DEF seq
    <2>4. Len(seq) = n
        BY <1>1, <2>2
    <2>5. DOMAIN seq = 1 .. Len(seq)
        BY <2>2, LenProperties
    <2>6. QED BY <1>1, <2>3, <2>4, <2>5
<1> HIDE DEF seq
<1>3. PICK at : /\ at[0] = from
                /\ \A k \in 1 .. n : at[k] = Advance(at[k - 1], seq[k])
                /\ FoldLeft(Advance, from, seq) = at[n]
    <2>1. Len(seq) \in Nat /\ DOMAIN seq = 1 .. Len(seq)
        BY <1>1, <1>2
    <2>2. PICK at : Walks(at, from, seq) /\ FoldLeft(Advance, from, seq) = at[Len(seq)]
        BY <2>1, FoldAdvance, Zenon
    <2>3. QED BY <1>2, <2>2 DEF Walks
<1> DEFINE good == {k \in Nat : at[k].pos = p + k /\ IsRight(string, at[k])}
<1>4. ASSUME NEW k \in 0 .. n, \A j \in 0 .. k - 1 : j \in good
      PROVE  k \in good
    <2>1. CASE k = 0
        BY <1>1, <1>3, <2>1
    <2>2. CASE k > 0
        <3>1. k - 1 \in good /\ k \in 1 .. n
            BY <1>1, <1>4, <2>2
        <3>2. at[k - 1].pos = p + k - 1 /\ IsRight(string, at[k - 1])
            BY <1>1, <3>1
        <3>3. at[k] = Advance(at[k - 1], string[at[k - 1].pos])
            BY <1>2, <1>3, <3>1, <3>2
        <3>4. at[k - 1].pos \in Nat \ {0}
            BY <1>1, <3>1, <3>2
        <3>5. at[k].pos = p + k - 1 + 1 /\ IsRight(string, at[k])
            BY <3>2, <3>3, <3>4, AdvanceStaysRight
        <3>6. QED BY <1>1, <3>1, <3>5
    <2>3. QED BY <1>1, <2>1, <2>2
<1>5. \A k \in 0 .. n : k \in good
    <2> HIDE DEF good, n, p
    <2>1. 0 \in Int /\ n \in Int
        BY <1>1
    <2>2. \A k \in 0 .. n : (\A j \in 0 .. k - 1 : j \in good) => k \in good
        BY <1>4
    <2>3. QED BY <2>1, <2>2, ForwardInduction, Zenon
<1>6. at[n].pos = end /\ IsRight(string, at[n])
    BY <1>1, <1>5
<1>7. AdvanceTo(string, from, end) = at[n]
    BY <1>3 DEF AdvanceTo, seq
<1>8. QED BY <1>6, <1>7

-----------------------------------------------------------------------------
(* Ends of runs and of lines.                                              *)

LEMMA EndOfRunFacts ==
    ASSUME NEW S, NEW string \in Seq(S), NEW p \in 1 .. Len(string) + 1, NEW class
    PROVE  /\ EndOfRun(string, p, class) \in p .. Len(string) + 1
           /\ \A q \in p .. EndOfRun(string, p, class) - 1 : string[q] \in class
           /\ EndOfRun(string, p, class) <= Len(string) =>
                  string[EndOfRun(string, p, class)] \notin class
<1> DEFINE n == Len(string)
           ends == {q \in p .. n + 1 : AtEnd(string, q) \/ string[q] \notin class}
           e == EndOfRun(string, p, class)
<1>1. n \in Nat /\ p \in 1 .. n + 1
    BY LenProperties
<1>2. p \in Int /\ n + 1 \in Int /\ ends # {} /\ \A q \in ends : q \in p .. n + 1
    <2>1. n + 1 \in ends
        <3> HIDE DEF n
        <3>1. n + 1 > n /\ n + 1 \in p .. n + 1
            BY <1>1
        <3>2. QED BY <3>1 DEF AtEnd, n
    <2>2. QED BY <1>1, <2>1
<1>3. Min(ends) \in ends /\ \A q \in ends : Min(ends) <= q
    <2> HIDE DEF ends, n
    <2>1. QED BY <1>2, LeastPosition, Zenon
<1>4. e \in ends /\ \A q \in ends : e <= q
    BY <1>3 DEF EndOfRun
<1> HIDE DEF e
<1>5. e \in p .. n + 1 /\ (e <= n => string[e] \notin class)
    BY <1>1, <1>4 DEF AtEnd
<1>6. ASSUME NEW q \in p .. e - 1
      PROVE  string[q] \in class
    <2>1. q \in p .. n + 1 /\ ~(e <= q)
        BY <1>1, <1>5
    <2>2. q \notin ends
        BY <1>4, <2>1
    <2>3. QED BY <2>1, <2>2
<1>7. QED BY <1>5, <1>6 DEF e

LEMMA EndOfLineFacts ==
    ASSUME NEW S, NEW string \in Seq(S), NEW p \in 1 .. Len(string) + 1
    PROVE  /\ EndOfLine(string, p) \in p .. Len(string) + 1
           /\ \A q \in p .. EndOfLine(string, p) - 1 : string[q] # NewLine
           /\ EndOfLine(string, p) <= Len(string) => string[EndOfLine(string, p)] = NewLine
<1> DEFINE n == Len(string)
           ends == {q \in p .. n + 1 : AtEnd(string, q) \/ string[q] = NewLine}
           e == EndOfLine(string, p)
<1>1. n \in Nat /\ p \in 1 .. n + 1
    BY LenProperties
<1>2. p \in Int /\ n + 1 \in Int /\ ends # {} /\ \A q \in ends : q \in p .. n + 1
    <2>1. n + 1 \in ends
        <3> HIDE DEF n
        <3>1. n + 1 > n /\ n + 1 \in p .. n + 1
            BY <1>1
        <3>2. QED BY <3>1 DEF AtEnd, n
    <2>2. QED BY <1>1, <2>1
<1>3. Min(ends) \in ends /\ \A q \in ends : Min(ends) <= q
    <2> HIDE DEF ends, n
    <2>1. QED BY <1>2, LeastPosition, Zenon
<1>4. e \in ends /\ \A q \in ends : e <= q
    BY <1>3 DEF EndOfLine
<1> HIDE DEF e
<1>5. e \in p .. n + 1 /\ (e <= n => string[e] = NewLine)
    BY <1>1, <1>4 DEF AtEnd
<1>6. ASSUME NEW q \in p .. e - 1
      PROVE  string[q] # NewLine
    <2>1. q \in p .. n + 1 /\ ~(e <= q)
        BY <1>1, <1>5
    <2>2. q \notin ends
        BY <1>4, <2>1
    <2>3. QED BY <2>1, <2>2
<1>7. QED BY <1>5, <1>6 DEF e

(* A function exists whose value at a position is given there, or is that  *)
(* of a position further on, possibly behind a prefix: so are the loops of *)
(* the scanner and of the decoder.                                         *)
Follows(f, low, high, stop, value, jump, prefixed, prefix) ==
    f = [q \in low .. high |-> IF q \in stop THEN value[q]
                               ELSE IF prefixed THEN prefix[q] \o f[jump[q]] ELSE f[jump[q]]]
Chases(f, low, high, stop, value, jump) ==
    f = [q \in low .. high |-> IF q \in stop THEN value[q] ELSE f[jump[q]]]
Builds(f, low, high, stop, value, jump, prefix) ==
    f = [q \in low .. high |-> IF q \in stop THEN value[q] ELSE prefix[q] \o f[jump[q]]]

LEMMA FollowExists ==
    ASSUME NEW low \in Int, NEW high \in Int, NEW stop, NEW value, NEW jump,
           NEW prefixed, NEW prefix,
           \A q \in low .. high : q \notin stop => jump[q] \in q + 1 .. high
    PROVE  \E f : Follows(f, low, high, stop, value, jump, prefixed, prefix)
<1> DEFINE Move(f, q) == IF q \in stop THEN value[q]
                         ELSE IF prefixed THEN prefix[q] \o f[jump[q]] ELSE f[jump[q]]
           Right(f, k) == /\ f = [q \in low .. high |-> f[q]]
                          /\ \A q \in low .. high : high - q < k => f[q] = Move(f, q)
           T == {k \in Nat : \E f : Right(f, k)}
<1>1. 0 \in T
    <2> DEFINE g == [q \in low .. high |-> q]
    <2>1. g = [q \in low .. high |-> g[q]] /\ \A q \in low .. high : ~(high - q < 0)
        OBVIOUS
    <2> HIDE DEF g, Move
    <2>2. Right(g, 0)
        BY <2>1
    <2>3. QED BY <2>2
<1>2. \A k \in T : k + 1 \in T
    <2> TAKE k \in T
    <2>1. k \in Nat
        OBVIOUS
    <2>2. PICK f : Right(f, k)
        OBVIOUS
    <2> DEFINE g == [q \in low .. high |-> IF q = high - k THEN Move(f, q) ELSE f[q]]
    <2>3. \A q \in low .. high : g[q] = IF q = high - k THEN Move(f, q) ELSE f[q]
        <3> HIDE DEF Move
        <3>1. QED OBVIOUS
    <2>4. g = [q \in low .. high |-> g[q]]
        OBVIOUS
    <2>5. \A q \in low .. high : high - q < k => f[q] = Move(f, q)
        BY <2>2
    <2> HIDE DEF g, T, Right
    <2>6. ASSUME NEW q \in low .. high, high - q < k + 1
          PROVE  g[q] = Move(g, q)
        <3>1. g[q] = Move(f, q)
            <4>1. CASE q = high - k
                BY <2>3, <4>1
            <4>2. CASE q # high - k
                <5>1. high - q < k
                    BY <2>1, <2>6, <4>2
                <5>2. QED BY <2>3, <2>5, <4>2, <5>1
            <4>3. QED BY <4>1, <4>2
        <3>2. ASSUME q \notin stop
              PROVE  g[jump[q]] = f[jump[q]]
            <4>1. jump[q] \in q + 1 .. high
                BY <3>2
            <4>2. jump[q] \in low .. high /\ jump[q] # high - k
                BY <2>1, <2>6, <4>1
            <4>3. QED BY <2>3, <4>2
        <3>3. QED BY <3>1, <3>2
    <2>7. Right(g, k + 1)
        BY <2>4, <2>6 DEF Right
    <2>8. QED BY <2>1, <2>7 DEF T
<1>3. T = Nat
    <2>1. T \in SUBSET Nat
        OBVIOUS
    <2> HIDE DEF T
    <2>2. QED BY <1>1, <1>2, <2>1, NatSetInduction
<1> DEFINE k == IF low <= high THEN high - low + 1 ELSE 0
<1>4. k \in Nat /\ \A q \in low .. high : high - q < k
    OBVIOUS
<1>5. PICK f : Right(f, k)
    <2>1. k \in T
        <3> HIDE DEF T, k
        <3>1. QED BY <1>3, <1>4
    <2>2. QED BY <2>1
<1>6. f = [q \in low .. high |-> f[q]] /\ \A q \in low .. high : f[q] = Move(f, q)
    <2> HIDE DEF k
    <2>1. QED BY <1>4, <1>5
<1>7. [q \in low .. high |-> f[q]] = [q \in low .. high |-> Move(f, q)]
    BY <1>6
<1>8. Follows(f, low, high, stop, value, jump, prefixed, prefix)
    BY <1>6, <1>7 DEF Follows
<1>9. QED BY <1>8

LEMMA ChaseExists ==
    ASSUME NEW low \in Int, NEW high \in Int, NEW stop, NEW value, NEW jump,
           \A q \in low .. high : q \notin stop => jump[q] \in q + 1 .. high
    PROVE  \E f : Chases(f, low, high, stop, value, jump)
<1>1. PICK f : Follows(f, low, high, stop, value, jump, FALSE, << >>)
    BY FollowExists
<1>2. QED BY <1>1, Zenon DEF Follows, Chases

LEMMA BuildExists ==
    ASSUME NEW low \in Int, NEW high \in Int, NEW stop, NEW value, NEW jump, NEW prefix,
           \A q \in low .. high : q \notin stop => jump[q] \in q + 1 .. high
    PROVE  \E f : Builds(f, low, high, stop, value, jump, prefix)
<1>1. PICK f : Follows(f, low, high, stop, value, jump, TRUE, prefix)
    BY FollowExists
<1>2. QED BY <1>1, Zenon DEF Follows, Builds

-----------------------------------------------------------------------------
(* What is skipped.                                                        *)

LEMMA NoBlankIsADash ==
    "-" # NewLine /\ "-" \notin Whitespace /\ NewLine \in Whitespace
BY Zenon DEF NewLine, Whitespace

BeginsComment(string, q) == string[q] = "-" /\ Peek(string, q + 1) = "-"
SkipStep(string, skip, q) ==
    IF AtEnd(string, q) THEN q
    ELSE IF string[q] \in Whitespace THEN skip[q + 1]
    ELSE IF BeginsComment(string, q) THEN skip[EndOfLine(string, q)]
    ELSE q
Skips(skip, string, p) ==
    \A q \in p .. Len(string) + 1 : skip[q] = SkipStep(string, skip, q)

LEMMA SkipStepwise ==
    ASSUME NEW S, NEW string \in Seq(S), NEW p \in 1 .. Len(string) + 1
    PROVE  \E skip : Skips(skip, string, p)
                     /\ SkipWhitespaceAndComments(string, p) = skip[p]
<1> DEFINE n == Len(string)
           stop == {q \in p .. n + 1 :
                       AtEnd(string, q)
                       \/ (string[q] \notin Whitespace /\ ~BeginsComment(string, q))}
           value == [q \in p .. n + 1 |-> q]
           jump == [q \in p .. n + 1 |->
                       IF string[q] \in Whitespace THEN q + 1 ELSE EndOfLine(string, q)]
           Equation(f) == f = [q \in p .. n + 1 |-> SkipStep(string, f, q)]
           skip[q \in p .. n + 1] == SkipStep(string, skip, q)
<1>1. n \in Nat /\ p \in 1 .. n + 1
    BY LenProperties
<1>2. ASSUME NEW q \in p .. n + 1, q \notin stop
      PROVE  jump[q] \in q + 1 .. n + 1
    <2>1. q \in 1 .. n /\ (string[q] \in Whitespace \/ BeginsComment(string, q))
        <3>1. ~AtEnd(string, q) /\ (string[q] \in Whitespace \/ BeginsComment(string, q))
            BY <1>2
        <3>2. QED BY <1>1, <3>1 DEF AtEnd
    <2>2. CASE string[q] \in Whitespace
        <3>1. jump[q] = q + 1
            BY <2>2
        <3>2. QED BY <1>1, <2>1, <3>1
    <2>3. CASE string[q] \notin Whitespace
        <3>1. jump[q] = EndOfLine(string, q)
            BY <2>3
        <3>2. string[q] # NewLine
            BY <2>1, <2>3, NoBlankIsADash
        <3>3. q \in 1 .. n + 1
            BY <1>1, <2>1
        <3>4. EndOfLine(string, q) \in q .. n + 1
            BY <3>3, EndOfLineFacts
        <3>5. EndOfLine(string, q) <= n => string[EndOfLine(string, q)] = NewLine
            BY <3>3, EndOfLineFacts
        <3> HIDE DEF n, jump
        <3>6. EndOfLine(string, q) # q
            BY <1>1, <2>1, <3>2, <3>5
        <3>7. QED BY <1>1, <2>1, <3>1, <3>4, <3>6
    <2>4. QED BY <2>2, <2>3
<1>3. \E f : Chases(f, p, n + 1, stop, value, jump)
    <2>1. p \in Int /\ n + 1 \in Int
        BY <1>1
    <2>2. \A q \in p .. n + 1 : q \notin stop => jump[q] \in q + 1 .. n + 1
        BY <1>2
    <2> HIDE DEF n, stop, value, jump
    <2>3. QED BY <2>1, <2>2, ChaseExists
<1>4. \E f : Equation(f)
    <2>1. PICK f : Chases(f, p, n + 1, stop, value, jump)
        BY <1>3
    <2>2. ASSUME NEW q \in p .. n + 1
          PROVE  (IF q \in stop THEN value[q] ELSE f[jump[q]]) = SkipStep(string, f, q)
        BY DEF SkipStep
    <2>3. f = [q \in p .. n + 1 |-> IF q \in stop THEN value[q] ELSE f[jump[q]]]
        BY <2>1 DEF Chases
    <2> HIDE DEF stop, value, jump, n
    <2>4. [q \in p .. n + 1 |-> IF q \in stop THEN value[q] ELSE f[jump[q]]]
              = [q \in p .. n + 1 |-> SkipStep(string, f, q)]
        BY <2>2
    <2>5. Equation(f)
        BY <2>3, <2>4
    <2>6. QED BY <2>5
<1>5. Equation(skip)
    BY ONLY <1>4, Zenon
<1>6. Skips(skip, string, p)
    BY <1>5 DEF Skips
<1>7. SkipWhitespaceAndComments(string, p) = skip[p]
    BY DEF SkipWhitespaceAndComments, SkipStep, BeginsComment
<1>8. QED BY <1>6, <1>7

(* What lies in a comment lies in it when more is looked at before it.     *)
LEMMA CommentFromBefore ==
    ASSUME NEW string, NEW from \in Int, NEW later \in Int, from <= later,
           NEW q \in Int, NEW end \in Int, InComment(string, later, q, end)
    PROVE  InComment(string, from, q, end)
BY DEF InComment

LEMMA SkipFacts ==
    ASSUME NEW S, NEW string \in Seq(S), NEW p \in 1 .. Len(string) + 1
    PROVE  /\ SkipWhitespaceAndComments(string, p) \in p .. Len(string) + 1
           /\ IsGap(string, p, SkipWhitespaceAndComments(string, p))
<1> DEFINE n == Len(string)
<1>1. n \in Nat /\ p \in 1 .. n + 1 /\ p \in Int /\ n + 1 \in Int
    BY LenProperties
<1>2. PICK skip : Skips(skip, string, p)
                  /\ SkipWhitespaceAndComments(string, p) = skip[p]
    BY SkipStepwise
<1> DEFINE good == {q \in p .. n + 1 : skip[q] \in q .. n + 1 /\ IsGap(string, q, skip[q])}
<1>3. ASSUME NEW q \in p .. n + 1, \A r \in q + 1 .. n + 1 : r \in good
      PROVE  q \in good
    <2>1. skip[q] = SkipStep(string, skip, q)
        BY <1>2 DEF Skips
    <2>2. q \in 1 .. n + 1
        BY <1>1
    <2>3. CASE AtEnd(string, q)
        <3>1. skip[q] = q /\ q > n
            BY <2>1, <2>3 DEF SkipStep, AtEnd
        <3>2. IsGap(string, q, q)
            <4> HIDE DEF n
            <4>1. ~(q <= n) /\ q .. q - 1 = {}
                BY <1>1, <2>2, <3>1
            <4>2. QED BY <4>1 DEF IsGap, n
        <3> HIDE DEF n
        <3>3. QED BY <1>1, <2>2, <3>1, <3>2
    <2>4. CASE ~AtEnd(string, q) /\ string[q] \in Whitespace
        <3>1. skip[q] = skip[q + 1] /\ q <= n
            <4>1. skip[q] = skip[q + 1]
                BY <2>1, <2>4 DEF SkipStep
            <4> HIDE DEF n
            <4>2. QED BY <1>1, <2>2, <2>4, <4>1 DEF AtEnd, n
        <3>2. q + 1 \in q + 1 .. n + 1
            <4> HIDE DEF n
            <4>1. QED BY <1>1, <2>2, <3>1
        <3>3. skip[q] \in q + 1 .. n + 1 /\ IsGap(string, q + 1, skip[q])
            BY <1>3, <3>1, <3>2
        <3> DEFINE e == skip[q]
        <3>4. e \in Int /\ e >= q + 1 /\ q \in Int
            BY <1>1, <2>2, <3>3
        <3> HIDE DEF e
        <3>5. ASSUME NEW r \in q .. e - 1
              PROVE  string[r] \in Whitespace \/ InComment(string, q, r, e)
            <4>1. CASE r = q
                BY <2>4, <4>1
            <4>2. CASE r # q
                <5>1. r \in q + 1 .. e - 1
                    BY <3>4, <4>2
                <5>2. string[r] \in Whitespace \/ InComment(string, q + 1, r, e)
                    BY <3>3, <5>1 DEF IsGap, e
                <5>3. q + 1 \in Int /\ q <= q + 1 /\ r \in Int
                    BY <3>4
                <5>4. QED BY <3>4, <5>2, <5>3, CommentFromBefore
            <4>3. QED BY <4>1, <4>2
        <3>6. ASSUME e <= n, InComment(string, q, e, e)
              PROVE  FALSE
            <4>1. ~InComment(string, q + 1, e, e)
                BY <3>3, <3>6 DEF IsGap, e
            <4>2. string[q] # "-"
                BY <2>4, NoBlankIsADash
            <4>3. PICK c \in q .. e : /\ c + 1 < e /\ string[c] = "-" /\ string[c + 1] = "-"
                                      /\ \A d \in c .. e : d < e => string[d] # NewLine
                BY <3>6 DEF InComment
            <4>4. c \in q + 1 .. e
                BY <3>4, <4>2, <4>3
            <4>5. QED BY <4>1, <4>3, <4>4 DEF InComment
        <3>7. IsGap(string, q, e)
            BY <3>3, <3>5, <3>6 DEF IsGap, e
        <3>8. e \in q .. n + 1
            <4> HIDE DEF n
            <4>1. QED BY <1>1, <3>3, <3>4 DEF e
        <3>9. QED BY <3>7, <3>8 DEF e
    <2>5. CASE /\ ~AtEnd(string, q) /\ string[q] \notin Whitespace
               /\ BeginsComment(string, q)
        <3> DEFINE l == EndOfLine(string, q)
                   e == skip[q]
        <3>1. e = skip[l]
            BY <2>1, <2>5 DEF SkipStep
        <3>2. /\ l \in q .. n + 1
              /\ \A r \in q .. l - 1 : string[r] # NewLine
              /\ l <= n => string[l] = NewLine
            BY <2>2, EndOfLineFacts
        <3>3. q <= n /\ q + 1 <= n /\ string[q] = "-" /\ string[q + 1] = "-"
            <4>1. ~(q > n) /\ string[q] = "-" /\ Peek(string, q + 1) = "-"
                BY <2>5 DEF AtEnd, BeginsComment
            <4>2. "-" # NUL
                BY DEF NUL
            <4>3. ~(q + 1 > n) /\ string[q + 1] = "-"
                BY <4>1, <4>2 DEF Peek, AtEnd
            <4> HIDE DEF n
            <4>4. QED BY <1>1, <2>2, <4>1, <4>3
        <3> HIDE DEF l, e
        <3>4. l >= q + 2
            <4>1. "-" # NewLine
                BY NoBlankIsADash
            <4> HIDE DEF n
            <4>2. l # q
                BY <1>1, <3>2, <3>3, <4>1
            <4>3. l # q + 1
                BY <1>1, <3>2, <3>3, <4>1
            <4>4. QED BY <1>1, <2>2, <3>2, <4>2, <4>3
        <3>5. e \in l .. n + 1 /\ IsGap(string, l, e)
            <4>1. l \in q + 1 .. n + 1
                <5> HIDE DEF n
                <5>1. QED BY <1>1, <2>2, <3>2, <3>4
            <4>2. l \in good
                BY <1>3, <4>1
            <4>3. QED BY <3>1, <4>2
        <3>6. l \in Int /\ e \in Int /\ e >= l /\ e <= n + 1 /\ q \in Int
            BY <1>1, <2>2, <3>2, <3>5
        <3>7. ASSUME NEW r \in q .. e - 1
              PROVE  string[r] \in Whitespace \/ InComment(string, q, r, e)
            <4>1. CASE r < l
                <5>1. q \in q .. r /\ q + 1 < e /\ \A d \in q .. r : d \in q .. l - 1
                    BY <3>4, <3>6, <4>1
                <5>2. QED BY <3>2, <3>3, <5>1 DEF InComment
            <4>2. CASE r >= l
                <5>1. r \in l .. e - 1 /\ q <= l
                    BY <3>4, <3>6, <4>2
                <5>2. string[r] \in Whitespace \/ InComment(string, l, r, e)
                    BY <3>5, <5>1 DEF IsGap
                <5>3. r \in Int
                    OBVIOUS
                <5>4. QED BY <3>6, <5>1, <5>2, <5>3, CommentFromBefore
            <4>3. QED BY <3>6, <4>1, <4>2
        <3>8. ASSUME e <= n
              PROVE  /\ ~InComment(string, q, e, e)
                     /\ string[e] \notin Whitespace
                     /\ ~BeginsComment(string, e)
            <4>1. /\ ~InComment(string, l, e, e)
                  /\ string[e] \notin Whitespace /\ ~BeginsComment(string, e)
                BY <3>5, <3>8 DEF IsGap, BeginsComment
            <4>2. l < e /\ string[l] = NewLine
                <5> HIDE DEF n
                <5>1. l <= n
                    BY <1>1, <3>6, <3>8
                <5>2. string[l] = NewLine
                    BY <3>2, <5>1
                <5>3. l # e
                    BY <4>1, <5>2, NoBlankIsADash
                <5>4. QED BY <3>6, <5>2, <5>3
            <4>3. ASSUME InComment(string, q, e, e)
                  PROVE  FALSE
                <5>1. PICK c \in q .. e : /\ c + 1 < e /\ string[c] = "-" /\ string[c + 1] = "-"
                                          /\ \A d \in c .. e : d < e => string[d] # NewLine
                    BY <4>3 DEF InComment
                <5>2. CASE c <= l
                    <6>1. l \in c .. e
                        BY <3>6, <5>2
                    <6>2. QED BY <4>2, <5>1, <6>1
                <5>3. CASE c > l
                    <6>1. c \in l .. e
                        BY <3>6, <5>3
                    <6>2. QED BY <4>1, <5>1, <6>1 DEF InComment
                <5>4. QED BY <3>6, <5>2, <5>3
            <4>4. QED BY <4>1, <4>3
        <3>9. IsGap(string, q, e)
            BY <3>7, <3>8 DEF IsGap, BeginsComment
        <3>10. e \in q .. n + 1
            <4> HIDE DEF n
            <4>1. QED BY <1>1, <3>2, <3>4, <3>6
        <3>11. QED BY <3>9, <3>10 DEF e
    <2>6. CASE /\ ~AtEnd(string, q) /\ string[q] \notin Whitespace
               /\ ~BeginsComment(string, q)
        <3>1. skip[q] = q
            BY <2>1, <2>6 DEF SkipStep
        <3>2. q .. q - 1 = {} /\ ~InComment(string, q, q, q) /\ q \in q .. n + 1
            BY <1>1, <2>2 DEF InComment
        <3>3. IsGap(string, q, q)
            BY <2>6, <3>2 DEF IsGap, BeginsComment
        <3>4. QED BY <3>1, <3>2, <3>3
    <2>7. QED BY <2>3, <2>4, <2>5, <2>6
<1>4. \A q \in p .. n + 1 : q \in good
    <2>1. \A q \in p .. n + 1 : (\A r \in q + 1 .. n + 1 : r \in good) => q \in good
        BY <1>3
    <2> HIDE DEF good, n
    <2>2. QED BY <1>1, <2>1, BackwardInduction, Zenon
<1>5. p \in p .. n + 1
    BY <1>1
<1>6. skip[p] \in p .. n + 1 /\ IsGap(string, p, skip[p])
    BY <1>4, <1>5
<1>7. QED BY <1>2, <1>6

-----------------------------------------------------------------------------
(* Tokens.                                                                 *)

(* What the assumption on characters says of each class.                   *)
LEMMA CharacterClasses ==
    /\ \A c \in IdentifierStart : /\ c \notin Digits /\ c \notin DOMAIN Marks
                                  /\ c # Quote /\ c # "!" /\ c # NUL
    /\ \A c \in Digits : c \notin DOMAIN Marks /\ c # Quote /\ c # "!" /\ c # NUL
    /\ \A c \in DOMAIN Marks : c # Quote /\ c # NUL
    /\ "!" \notin DOMAIN Marks /\ "!" # Quote /\ Quote # NUL
<1>1. "_" \notin DOMAIN Marks /\ "_" # Quote /\ "_" # "!" /\ "_" # NUL
    BY Zenon DEF Marks, Quote, NUL
<1>2. "!" \notin DOMAIN Marks /\ Quote \notin DOMAIN Marks /\ NUL \notin DOMAIN Marks
    BY Zenon DEF Marks, Quote, NUL
<1>3. "!" # Quote /\ Quote # NUL
    BY Zenon DEF Quote, NUL
<1>4. \A c \in Letters \cup Digits :
          c \notin DOMAIN Marks /\ c # Quote /\ c # NUL /\ c # "_" /\ c # "!"
    BY CharactersAssumption, Zenon
<1>5. Letters \cap Digits = {}
    BY CharactersAssumption, Zenon
<1>6. QED BY <1>1, <1>2, <1>3, <1>4, <1>5, Zenon DEF IdentifierStart

(* What a mark of two characters is made of.                              *)
LEMMA CompoundMarkParts ==
    ASSUME NEW a, NEW b, <<a, b>> \in DOMAIN CompoundMarks
    PROVE  (a \in DOMAIN Marks \/ a = "!") /\ b \in DOMAIN Marks 
<1>1. DOMAIN Marks = {",", ";", ".", "(", ")", "*", "=", "<", ">"}
    BY Zenon DEF Marks
<1>2. <<a, b>> \in {<<"<", "=">>, <<"<", ">">>, <<">", "=">>, <<"!", "=">>}
    BY Zenon DEF CompoundMarks
<1>3. (a = "<" \/ a = ">" \/ a = "!") /\ (b = "=" \/ b = ">")
    BY <1>2, Zenon
<1>4. QED BY <1>1, <1>3, Zenon

LEMMA CompoundMarksArePairs ==
    ASSUME NEW pair \in DOMAIN CompoundMarks
    PROVE  Len(pair) = 2 /\ pair = <<pair[1], pair[2]>>
<1>1. pair \in {<<"<", "=">>, <<"<", ">">>, <<">", "=">>, <<"!", "=">>}
    BY Zenon DEF CompoundMarks
<1>2. \E a, b : pair = <<a, b>>
    BY <1>1, Zenon
<1>3. QED BY <1>2

(* The characters from i to j.                                             *)
LEMMA PieceFacts ==
    ASSUME NEW S, NEW string \in Seq(S),
           NEW i \in 1 .. Len(string) + 1, NEW j \in i - 1 .. Len(string)
    PROVE  /\ SubSeq(string, i, j) \in Seq(S)
           /\ Len(SubSeq(string, i, j)) = j - i + 1
           /\ \A k \in 1 .. j - i + 1 : SubSeq(string, i, j)[k] = string[i + k - 1]
           /\ ToSet(SubSeq(string, i, j)) = {string[q] : q \in i .. j}
           /\ SubSeq(string, i, j) = << >> <=> j < i
<1> DEFINE n == Len(string)
           s == SubSeq(string, i, j)
<1>1. n \in Nat /\ i \in 1 .. n + 1 /\ j \in i - 1 .. n /\ i \in Int /\ j \in Int
    BY LenProperties
<1>2. \A q \in i .. j : string[q] \in S
    <2>1. \A q \in i .. j : q \in 1 .. n
        <3> HIDE DEF n
        <3>1. QED BY <1>1
    <2>2. QED BY <2>1, ElementOfSeq
<1>3. s \in Seq(S) /\ Len(s) = IF i <= j THEN j - i + 1 ELSE 0
    BY <1>1, <1>2, SubSeqProperties
<1>4. \A k \in 1 .. j - i + 1 : s[k] = string[i + k - 1]
    BY <1>1, <1>2, SubSeqProperties
<1> HIDE DEF s, n
<1>5. Len(s) = j - i + 1
    BY <1>1, <1>3
<1>6. DOMAIN s = 1 .. j - i + 1
    BY <1>3, <1>5, LenProperties
<1>7. ToSet(s) = {string[q] : q \in i .. j}
    <2>1. \A k \in 1 .. j - i + 1 : i + k - 1 \in i .. j
        BY <1>1
    <2>2. \A q \in i .. j : q - i + 1 \in 1 .. j - i + 1 /\ i + (q - i + 1) - 1 = q
        BY <1>1
    <2>3. ASSUME NEW x \in ToSet(s)
          PROVE  x \in {string[q] : q \in i .. j}
        BY <1>4, <1>6, <2>1 DEF ToSet
    <2>4. ASSUME NEW q \in i .. j
          PROVE  string[q] \in ToSet(s)
        BY <1>4, <1>6, <2>2 DEF ToSet
    <2>5. QED BY <2>3, <2>4
<1>8. s = << >> <=> j < i
    BY <1>1, <1>3, <1>5, EmptySeq
<1>9. QED BY <1>3, <1>4, <1>5, <1>7, <1>8 DEF s

(* Paired quotes are paired wherever the characters stand.                 *)
Shifted(s, from, end, t, newFrom, newEnd, d) ==
    /\ from \in Int /\ end \in Int /\ d \in Int
    /\ newFrom = from + d /\ newEnd = end + d
    /\ \A k \in from .. end : s[k] = t[k + d]

LEMMA PairsShift ==
    ASSUME NEW s, NEW from, NEW end, NEW t, NEW newFrom, NEW newEnd, NEW d,
           Shifted(s, from, end, t, newFrom, newEnd, d),
           QuotesPaired(t, newFrom, newEnd)
    PROVE  QuotesPaired(s, from, end)
<1> USE DEF Shifted
<1> SUFFICES ASSUME NEW i \in from .. end, NEW j \in i .. end,
                    \A k \in i .. j : s[k] = Quote,
                    i > from => s[i - 1] # Quote,
                    j < end => s[j + 1] # Quote
             PROVE  (j - i) % 2 = 1
    BY DEF QuotesPaired
<1> DEFINE ni == i + d
           nj == j + d
<1>1. ni \in newFrom .. newEnd /\ nj \in ni .. newEnd
    OBVIOUS
<1>2. ASSUME NEW k \in ni .. nj
      PROVE  t[k] = Quote
    <2>1. k - d \in i .. j /\ k - d \in from .. end /\ k - d + d = k
        OBVIOUS
    <2>2. QED BY <2>1
<1>3. ASSUME ni > newFrom
      PROVE  t[ni - 1] # Quote
    <2>1. i > from /\ i - 1 \in from .. end /\ i - 1 + d = ni - 1
        BY <1>3
    <2>2. QED BY <2>1
<1>4. ASSUME nj < newEnd
      PROVE  t[nj + 1] # Quote
    <2>1. j < end /\ j + 1 \in from .. end /\ j + 1 + d = nj + 1
        BY <1>4
    <2>2. QED BY <2>1
<1>5. nj - ni = j - i
    OBVIOUS
<1> HIDE DEF ni, nj
<1>6. (nj - ni) % 2 = 1
    BY <1>1, <1>2, <1>3, <1>4, Zenon DEF QuotesPaired
<1>7. QED BY <1>5, <1>6

(* What it takes for the characters from i to j to be each kind of lexeme. *)
LEMMA PieceLanguages ==
    ASSUME NEW S, NEW string \in Seq(S), NEW i \in 1 .. Len(string), NEW j \in i .. Len(string)
    PROVE  LET s == SubSeq(string, i, j)
           IN  /\ IsWord(s) <=> /\ string[i] \in IdentifierStart
                                /\ \A q \in i .. j : string[q] \in IdentifierContinue
               /\ IsNumber(s) <=> \A q \in i .. j : string[q] \in Digits
               /\ IsMark(s) <=> \/ j = i /\ string[i] \in DOMAIN Marks
                                \/ j = i + 1 /\ <<string[i], string[j]>> \in DOMAIN CompoundMarks
               /\ IsStringLiteral(s) <=> /\ i < j /\ string[i] = Quote /\ string[j] = Quote
                                         /\ QuotesPaired(string, i + 1, j - 1)
               /\ IsUnterminated(s) <=> string[i] = Quote /\ QuotesPaired(string, i + 1, j)
<1> DEFINE n == Len(string)
           s == SubSeq(string, i, j)
           m == j - i + 1
<1>1. n \in Nat /\ i \in 1 .. n /\ j \in i .. n
    BY LenProperties
<1>2. i \in 1 .. n + 1 /\ j \in i - 1 .. n
    BY <1>1
<1>3. /\ s \in Seq(S) /\ Len(s) = m /\ \A k \in 1 .. m : s[k] = string[i + k - 1]
      /\ ToSet(s) = {string[q] : q \in i .. j} /\ (s = << >> <=> j < i)
    BY <1>2, PieceFacts
<1> HIDE DEF n, s
<1>4. m \in Nat \ {0} /\ s # << >> /\ s[1] = string[i] /\ s[m] = string[j]
    <2>1. m \in Nat \ {0} /\ 1 \in 1 .. m /\ m \in 1 .. m /\ i + 1 - 1 = i /\ i + m - 1 = j
        BY <1>1
    <2>2. ~(j < i)
        BY <1>1
    <2> HIDE DEF m
    <2>3. QED BY <1>3, <2>1, <2>2
<1>5. IsWord(s) <=> string[i] \in IdentifierStart /\ \A q \in i .. j : string[q] \in IdentifierContinue
    <2> HIDE DEF m
    <2>1. QED BY <1>3, <1>4 DEF IsWord
<1>6. IsNumber(s) <=> \A q \in i .. j : string[q] \in Digits
    <2> HIDE DEF m
    <2>1. QED BY <1>3, <1>4 DEF IsNumber
<1>7. IsMark(s) <=> \/ j = i /\ string[i] \in DOMAIN Marks
                    \/ j = i + 1 /\ <<string[i], string[j]>> \in DOMAIN CompoundMarks
    <2>1. \A pair \in DOMAIN CompoundMarks : Len(pair) = 2 /\ pair = <<pair[1], pair[2]>>
        BY CompoundMarksArePairs
    <2>2. ASSUME Len(s) = 2
          PROVE  s = <<s[1], s[2]>>
        <3>1. s[1] \in S /\ s[2] \in S
            <4>1. s \in Seq(S)
                BY <1>3
            <4>2. 1 \in 1 .. Len(s) /\ 2 \in 1 .. Len(s)
                BY <2>2
            <4>3. QED BY <4>1, <4>2, ElementOfSeq
        <3> DEFINE t == <<s[1], s[2]>>
        <3>2. t \in Seq(S) /\ Len(t) = 2 /\ t[1] = s[1] /\ t[2] = s[2]
            BY <3>1
        <3>3. \A k \in 1 .. Len(s) : s[k] = t[k]
            BY <2>2, <3>2
        <3> HIDE DEF t
        <3>4. s = t
            BY <1>3, <2>2, <3>2, <3>3, SeqEqual
        <3>5. QED BY <3>4 DEF t
    <2>3. m = 1 <=> j = i
        BY <1>1
    <2>4. m = 2 <=> j = i + 1
        BY <1>1
    <2>5. s \in DOMAIN CompoundMarks
              <=> j = i + 1 /\ <<string[i], string[j]>> \in DOMAIN CompoundMarks
        <3> HIDE DEF m
        <3>1. QED BY <1>3, <1>4, <2>1, <2>2, <2>4
    <2> HIDE DEF m
    <2>6. QED BY <1>3, <1>4, <2>3, <2>5 DEF IsMark
<1>8. /\ QuotesPaired(s, 2, m - 1) <=> QuotesPaired(string, i + 1, j - 1)
      /\ QuotesPaired(s, 2, m) <=> QuotesPaired(string, i + 1, j)
    <2> DEFINE d == i - 1
    <2>1. /\ d \in Int /\ 2 \in Int /\ m \in Int /\ 2 + d = i + 1 /\ m + d = j
          /\ m - 1 \in Int /\ m - 1 + d = j - 1 /\ -d \in Int
          /\ i + 1 \in Int /\ j \in Int /\ j - 1 \in Int
          /\ i + 1 + (-d) = 2 /\ j + (-d) = m /\ j - 1 + (-d) = m - 1
        BY <1>1
    <2>2. ASSUME NEW k \in 2 .. m
          PROVE  s[k] = string[k + d]
        <3>1. k \in 1 .. m /\ i + k - 1 = k + d
            BY <1>1
        <3> HIDE DEF m, d
        <3>2. QED BY <1>3, <3>1
    <2>3. ASSUME NEW k \in i + 1 .. j
          PROVE  string[k] = s[k + (-d)]
        <3>1. k + (-d) \in 2 .. m /\ k + (-d) + d = k
            BY <1>1
        <3>2. QED BY <2>2, <3>1
    <2>4. /\ \A k \in 2 .. m - 1 : s[k] = string[k + d]
          /\ \A k \in i + 1 .. j - 1 : string[k] = s[k + (-d)]
        <3>1. \A k \in 2 .. m - 1 : k \in 2 .. m
            BY <1>1
        <3>2. \A k \in i + 1 .. j - 1 : k \in i + 1 .. j
            BY <1>1
        <3> HIDE DEF m, d
        <3>3. QED BY <2>2, <2>3, <3>1, <3>2
    <2> DEFINE back == -d
    <2> HIDE DEF d, m, back
    <2>5. /\ Shifted(s, 2, m, string, i + 1, j, d)
          /\ Shifted(s, 2, m - 1, string, i + 1, j - 1, d)
        BY <2>1, <2>2, <2>4 DEF Shifted
    <2>6. /\ back \in Int /\ i + 1 + back = 2 /\ j + back = m /\ j - 1 + back = m - 1
          /\ \A k \in i + 1 .. j : string[k] = s[k + back]
          /\ \A k \in i + 1 .. j - 1 : string[k] = s[k + back]
        BY <2>1, <2>3, <2>4 DEF back
    <2>7. /\ Shifted(string, i + 1, j, s, 2, m, back)
          /\ Shifted(string, i + 1, j - 1, s, 2, m - 1, back)
        BY <2>1, <2>6 DEF Shifted
    <2>8. QED BY <2>5, <2>7, PairsShift
<1>9. m >= 2 <=> i < j
    BY <1>1
<1> HIDE DEF m
<1>10. IsStringLiteral(s) <=> /\ i < j /\ string[i] = Quote /\ string[j] = Quote
                              /\ QuotesPaired(string, i + 1, j - 1)
    BY <1>3, <1>4, <1>8, <1>9 DEF IsStringLiteral
<1>11. IsUnterminated(s) <=> string[i] = Quote /\ QuotesPaired(string, i + 1, j)
    BY <1>3, <1>4, <1>8 DEF IsUnterminated
<1>12. QED BY <1>5, <1>6, <1>7, <1>10, <1>11 DEF s

-----------------------------------------------------------------------------
(* String literals.                                                        *)

(* Another character before pairs of quotes, or another pair.              *)
LEMMA PairsAfterOther ==
    ASSUME NEW s, NEW q \in Int, NEW end \in Int, s[q] # Quote, QuotesPaired(s, q + 1, end)
    PROVE  QuotesPaired(s, q, end)
<1> SUFFICES ASSUME NEW i \in q .. end, NEW j \in i .. end,
                    \A k \in i .. j : s[k] = Quote,
                    i > q => s[i - 1] # Quote,
                    j < end => s[j + 1] # Quote
             PROVE  (j - i) % 2 = 1
    BY DEF QuotesPaired
<1>1. i # q
    OBVIOUS
<1>2. i \in q + 1 .. end /\ (i > q + 1 => s[i - 1] # Quote)
    BY <1>1
<1>3. QED BY <1>2 DEF QuotesPaired

LEMMA PairsAfterPair ==
    ASSUME NEW s, NEW q \in Int, NEW end \in Int, q + 1 <= end,
           s[q] = Quote, s[q + 1] = Quote, QuotesPaired(s, q + 2, end)
    PROVE  QuotesPaired(s, q, end)
<1> SUFFICES ASSUME NEW i \in q .. end, NEW j \in i .. end,
                    \A k \in i .. j : s[k] = Quote,
                    i > q => s[i - 1] # Quote,
                    j < end => s[j + 1] # Quote
             PROVE  (j - i) % 2 = 1
    BY DEF QuotesPaired
<1>1. CASE i = q
    <2>1. j # q
        BY <1>1
    <2>2. CASE j = q + 1
        BY <1>1, <2>2
    <2>3. CASE j > q + 1
        <3> DEFINE next == q + 2
        <3>1. next \in q + 2 .. end /\ j \in next .. end /\ ~(next > q + 2)
            BY <2>3
        <3>2. \A k \in next .. j : s[k] = Quote
            BY <1>1
        <3> HIDE DEF next
        <3>3. (j - next) % 2 = 1
            BY <3>1, <3>2 DEF QuotesPaired
        <3>4. QED BY <1>1, <3>3 DEF next
    <2>4. QED BY <1>1, <2>1, <2>2, <2>3
<1>2. CASE i = q + 1
    BY <1>2
<1>3. CASE i > q + 1
    <2>1. i # q + 2
        BY <1>3
    <2>2. i \in q + 2 .. end /\ (i > q + 2 => s[i - 1] # Quote)
        BY <1>3
    <2>3. QED BY <2>2 DEF QuotesPaired
<1>4. QED BY <1>1, <1>2, <1>3

(* The quote behind pairs of quotes belongs to no pair, unless another one *)
(* follows it.                                                             *)
LEMMA ClosingQuoteUnpaired ==
    ASSUME NEW s, NEW from \in Int, NEW c \in Int, NEW end \in Int,
           from <= c, c <= end, s[c] = Quote, c < end => s[c + 1] # Quote,
           QuotesPaired(s, from, c - 1)
    PROVE  ~QuotesPaired(s, from, end)
<1> DEFINE starts == {i \in from .. c : \A k \in i .. c : s[k] = Quote}
           i == Min(starts)
<1>1. c \in starts /\ \A q \in starts : q \in from .. c
    OBVIOUS
<1>2. i \in starts /\ \A q \in starts : i <= q
    <2> HIDE DEF starts
    <2>1. starts # {}
        BY <1>1
    <2>2. QED BY <1>1, <2>1, LeastPosition, Zenon
<1> HIDE DEF i
<1>3. i \in from .. c /\ \A k \in i .. c : s[k] = Quote
    BY <1>2
<1>4. ASSUME i > from
      PROVE  s[i - 1] # Quote
    <2>1. ~(i <= i - 1) /\ i - 1 \in from .. c /\ \A k \in i - 1 .. c : k = i - 1 \/ k \in i .. c
        BY <1>3, <1>4
    <2>2. i - 1 \notin starts
        BY <1>2, <2>1
    <2>3. QED BY <1>3, <2>1, <2>2
<1>5. SUFFICES ASSUME QuotesPaired(s, from, end)
               PROVE  FALSE
    OBVIOUS
<1> HIDE DEF starts
<1>6. (c - i) % 2 = 1
    <2>1. i \in from .. end /\ c \in i .. end
        BY <1>3
    <2>2. QED BY <1>3, <1>4, <1>5, <2>1 DEF QuotesPaired
<1>7. i \in from .. c - 1
    <2>1. i # c
        BY <1>6
    <2>2. QED BY <1>3, <2>1
<1> DEFINE last == c - 1
<1>8. last \in i .. c - 1 /\ ~(last < c - 1) /\ \A k \in i .. last : s[k] = Quote
    BY <1>3, <1>7
<1> HIDE DEF last
<1>9. (last - i) % 2 = 1
    BY <1>4, <1>7, <1>8 DEF QuotesPaired
<1>10. QED BY <1>3, <1>6, <1>9 DEF last

ScanStep(string, scan, q) ==
    IF AtEnd(string, q) THEN Scanned("Invalid", q)
    ELSE IF string[q] # Quote THEN scan[q + 1]
    ELSE IF Peek(string, q + 1) = Quote THEN scan[q + 2]
    ELSE Scanned("StringLiteral", q + 1)
ScansString(scan, string, low) ==
    \A q \in low .. Len(string) + 1 : scan[q] = ScanStep(string, scan, q)

LEMMA SecondQuote ==
    ASSUME NEW S, NEW string \in Seq(S), NEW q \in 1 .. Len(string) + 1,
           Peek(string, q) = Quote
    PROVE  q \in 1 .. Len(string) /\ string[q] = Quote
<1>1. ~(q > Len(string)) /\ string[q] = Quote
    BY CharacterClasses DEF Peek, AtEnd
<1>2. Len(string) \in Nat
    BY LenProperties
<1>3. QED BY <1>1, <1>2

LEMMA ScanStringStepwise ==
    ASSUME NEW S, NEW string \in Seq(S), NEW p \in 1 .. Len(string)
    PROVE  \E scan : ScansString(scan, string, p + 1) /\ ScanString(string, p) = scan[p + 1]
<1> DEFINE n == Len(string)
           low == p + 1
           isPair(q) == Peek(string, q + 1) = Quote
           stop == {q \in low .. n + 1 :
                       AtEnd(string, q) \/ (string[q] = Quote /\ ~isPair(q))}
           value == [q \in low .. n + 1 |-> IF AtEnd(string, q) THEN Scanned("Invalid", q)
                                            ELSE Scanned("StringLiteral", q + 1)]
           jump == [q \in low .. n + 1 |-> IF string[q] # Quote THEN q + 1 ELSE q + 2]
           Equation(f) == f = [q \in low .. n + 1 |-> ScanStep(string, f, q)]
           scan[q \in low .. n + 1] == ScanStep(string, scan, q)
<1>1. n \in Nat /\ p \in 1 .. n
    BY LenProperties
<1>2. ASSUME NEW q \in low .. n + 1, q \notin stop
      PROVE  jump[q] \in q + 1 .. n + 1
    <2>1. q \in 1 .. n /\ (string[q] # Quote \/ isPair(q))
        <3>1. ~(q > n) /\ (string[q] # Quote \/ isPair(q))
            BY <1>2 DEF AtEnd
        <3> HIDE DEF n, isPair
        <3>2. QED BY <1>1, <3>1
    <2>2. CASE string[q] # Quote
        <3>1. jump[q] = q + 1
            BY <2>2
        <3>2. QED BY <1>1, <2>1, <3>1
    <2>3. CASE string[q] = Quote
        <3>1. jump[q] = q + 2
            BY <2>3
        <3>2. q + 1 \in 1 .. n + 1 /\ Peek(string, q + 1) = Quote
            BY <1>1, <2>1, <2>3
        <3>3. q + 1 \in 1 .. n
            BY <3>2, SecondQuote
        <3> HIDE DEF n, jump
        <3>4. QED BY <1>1, <2>1, <3>1, <3>3
    <2>4. QED BY <2>2, <2>3
<1>3. \E f : Chases(f, low, n + 1, stop, value, jump)
    <2>1. low \in Int /\ n + 1 \in Int
        BY <1>1
    <2>2. \A q \in low .. n + 1 : q \notin stop => jump[q] \in q + 1 .. n + 1
        BY <1>2
    <2> HIDE DEF n, low, stop, value, jump
    <2>3. QED BY <2>1, <2>2, ChaseExists
<1>4. \E f : Equation(f)
    <2>1. PICK f : Chases(f, low, n + 1, stop, value, jump)
        BY <1>3
    <2>2. ASSUME NEW q \in low .. n + 1
          PROVE  (IF q \in stop THEN value[q] ELSE f[jump[q]]) = ScanStep(string, f, q)
        <3>1. value[q] = IF AtEnd(string, q) THEN Scanned("Invalid", q)
                         ELSE Scanned("StringLiteral", q + 1)
            OBVIOUS
        <3>2. jump[q] = IF string[q] # Quote THEN q + 1 ELSE q + 2
            OBVIOUS
        <3>3. q \in stop <=> AtEnd(string, q) \/ (string[q] = Quote /\ ~isPair(q))
            OBVIOUS
        <3> HIDE DEF value, jump, stop, low, n
        <3>4. QED BY <3>1, <3>2, <3>3 DEF ScanStep
    <2>3. f = [q \in low .. n + 1 |-> IF q \in stop THEN value[q] ELSE f[jump[q]]]
        BY <2>1 DEF Chases
    <2> HIDE DEF stop, value, jump, low, n
    <2>4. [q \in low .. n + 1 |-> IF q \in stop THEN value[q] ELSE f[jump[q]]]
              = [q \in low .. n + 1 |-> ScanStep(string, f, q)]
        BY <2>2
    <2>5. Equation(f)
        BY <2>3, <2>4
    <2>6. QED BY <2>5
<1>5. Equation(scan)
    BY ONLY <1>4, Zenon
<1>6. ScansString(scan, string, low)
    BY <1>5 DEF ScansString
<1>7. ScanString(string, p) = scan[low]
    BY DEF ScanString, ScanStep
<1>8. QED BY <1>6, <1>7

(* How the rest of a literal from q on ends: it is closed by a quote that  *)
(* no other one follows, or it takes all of the text.                      *)
EndsLiteral(string, q, result) ==
    \/ /\ result.kind = "Invalid" /\ result.end = Len(string) + 1
       /\ QuotesPaired(string, q, Len(string))
    \/ /\ result.kind = "StringLiteral" /\ result.end \in q + 1 .. Len(string) + 1
       /\ string[result.end - 1] = Quote /\ Peek(string, result.end) # Quote
       /\ QuotesPaired(string, q, result.end - 2)

LEMMA ScanStringFacts ==
    ASSUME NEW S, NEW string \in Seq(S), NEW p \in 1 .. Len(string)
    PROVE  EndsLiteral(string, p + 1, ScanString(string, p))
<1> DEFINE n == Len(string)
           low == p + 1
<1>1. n \in Nat /\ p \in 1 .. n /\ low \in Int /\ n + 1 \in Int /\ low \in low .. n + 1
    BY LenProperties
<1>2. PICK scan : ScansString(scan, string, low) /\ ScanString(string, p) = scan[low]
    BY ScanStringStepwise
<1> DEFINE good == {q \in low .. n + 1 : EndsLiteral(string, q, scan[q])}
<1>3. ASSUME NEW q \in low .. n + 1, \A r \in q + 1 .. n + 1 : r \in good
      PROVE  q \in good
    <2> DEFINE result == scan[q]
    <2>1. result = ScanStep(string, scan, q)
        BY <1>2 DEF ScansString
    <2>2. q \in 1 .. n + 1 /\ q \in Int
        BY <1>1
    <2> HIDE DEF result
    <2>3. CASE AtEnd(string, q)
        <3>1. result = Scanned("Invalid", q) /\ q > n
            BY <2>1, <2>3 DEF ScanStep, AtEnd
        <3>2. q = n + 1 /\ result.kind = "Invalid" /\ result.end = q
            <4>1. result.kind = "Invalid" /\ result.end = q
                BY <3>1 DEF Scanned
            <4> HIDE DEF n
            <4>2. QED BY <1>1, <2>2, <3>1, <4>1
        <3>3. q .. n = {}
            <4> HIDE DEF n
            <4>1. QED BY <1>1, <2>2, <3>2
        <3>4. QuotesPaired(string, q, n)
            BY <3>3 DEF QuotesPaired
        <3>5. EndsLiteral(string, q, result)
            BY <3>2, <3>4 DEF EndsLiteral
        <3>6. QED BY <3>5 DEF result
    <2>4. CASE ~AtEnd(string, q) /\ string[q] # Quote
        <3>1. result = scan[q + 1]
            BY <2>1, <2>4 DEF ScanStep
        <3>2. q + 1 \in q + 1 .. n + 1
            <4>1. ~(q > n)
                BY <2>4 DEF AtEnd
            <4> HIDE DEF n
            <4>2. QED BY <1>1, <2>2, <4>1
        <3>3. EndsLiteral(string, q + 1, result)
            BY <1>3, <3>1, <3>2
        <3>4. EndsLiteral(string, q, result)
            <4>1. CASE /\ result.kind = "Invalid" /\ result.end = n + 1
                       /\ QuotesPaired(string, q + 1, n)
                <5>1. n \in Int
                    BY <1>1
                <5>2. QuotesPaired(string, q, n)
                    BY <2>2, <2>4, <4>1, <5>1, PairsAfterOther
                <5>3. QED BY <4>1, <5>2 DEF EndsLiteral
            <4>2. CASE /\ result.kind = "StringLiteral" /\ result.end \in q + 1 + 1 .. n + 1
                       /\ string[result.end - 1] = Quote /\ Peek(string, result.end) # Quote
                       /\ QuotesPaired(string, q + 1, result.end - 2)
                <5>1. result.end - 2 \in Int /\ result.end \in q + 1 .. n + 1
                    BY <2>2, <4>2
                <5>2. QuotesPaired(string, q, result.end - 2)
                    BY <2>2, <2>4, <4>2, <5>1, PairsAfterOther
                <5>3. QED BY <4>2, <5>1, <5>2 DEF EndsLiteral
            <4>3. QED BY <3>3, <4>1, <4>2 DEF EndsLiteral
        <3>5. QED BY <3>4 DEF result
    <2>5. CASE ~AtEnd(string, q) /\ string[q] = Quote /\ Peek(string, q + 1) = Quote
        <3>1. result = scan[q + 2]
            BY <2>1, <2>5 DEF ScanStep
        <3>2. ~(q > n)
            BY <2>5 DEF AtEnd
        <3>3. q + 1 \in 1 .. n + 1
            <4> HIDE DEF n
            <4>1. QED BY <1>1, <2>2, <3>2
        <3>4. q + 1 \in 1 .. n /\ string[q + 1] = Quote
            BY <2>5, <3>3, SecondQuote
        <3>5. q + 2 \in q + 1 .. n + 1
            <4> HIDE DEF n
            <4>1. QED BY <1>1, <2>2, <3>4
        <3>6. EndsLiteral(string, q + 2, result)
            BY <1>3, <3>1, <3>5
        <3>7. EndsLiteral(string, q, result)
            <4>1. CASE /\ result.kind = "Invalid" /\ result.end = n + 1
                       /\ QuotesPaired(string, q + 2, n)
                <5>1. n \in Int /\ q + 1 <= n
                    BY <1>1, <3>4
                <5>2. QuotesPaired(string, q, n)
                    BY <2>2, <2>5, <3>4, <4>1, <5>1, PairsAfterPair
                <5>3. QED BY <4>1, <5>2 DEF EndsLiteral
            <4>2. CASE /\ result.kind = "StringLiteral" /\ result.end \in q + 2 + 1 .. n + 1
                       /\ string[result.end - 1] = Quote /\ Peek(string, result.end) # Quote
                       /\ QuotesPaired(string, q + 2, result.end - 2)
                <5>1. /\ result.end - 2 \in Int /\ q + 1 <= result.end - 2
                      /\ result.end \in q + 1 .. n + 1
                    BY <2>2, <4>2
                <5>2. QuotesPaired(string, q, result.end - 2)
                    BY <2>2, <2>5, <3>4, <4>2, <5>1, PairsAfterPair
                <5>3. QED BY <4>2, <5>1, <5>2 DEF EndsLiteral
            <4>3. QED BY <3>6, <4>1, <4>2 DEF EndsLiteral
        <3>8. QED BY <3>7 DEF result
    <2>6. CASE ~AtEnd(string, q) /\ string[q] = Quote /\ Peek(string, q + 1) # Quote
        <3>1. result = Scanned("StringLiteral", q + 1)
            BY <2>1, <2>6 DEF ScanStep
        <3>2. result.kind = "StringLiteral" /\ result.end = q + 1
            BY <3>1 DEF Scanned
        <3>3. ~(q > n)
            BY <2>6 DEF AtEnd
        <3>4. /\ q + 1 \in q + 1 .. n + 1 /\ q + 1 - 1 = q /\ q + 1 - 2 = q - 1
              /\ q .. q - 1 = {}
            <4> HIDE DEF n
            <4>1. QED BY <1>1, <2>2, <3>3
        <3>5. QuotesPaired(string, q, q - 1)
            BY <3>4 DEF QuotesPaired
        <3>6. EndsLiteral(string, q, result)
            BY <2>6, <3>2, <3>4, <3>5 DEF EndsLiteral
        <3>7. QED BY <3>6 DEF result
    <2>7. QED BY <2>3, <2>4, <2>5, <2>6
<1>4. \A q \in low .. n + 1 : q \in good
    <2>1. \A q \in low .. n + 1 : (\A r \in q + 1 .. n + 1 : r \in good) => q \in good
        BY <1>3
    <2> HIDE DEF good, n, low
    <2>2. QED BY <1>1, <2>1, BackwardInduction, Zenon
<1>5. EndsLiteral(string, low, scan[low])
    BY <1>1, <1>4
<1>6. QED BY <1>2, <1>5

-----------------------------------------------------------------------------
(* A piece that begins with a character of one class is no lexeme of the   *)
(* other classes.                                                          *)
LEMMA FirstCharacterDecides ==
    ASSUME NEW S, NEW string \in Seq(S), NEW i \in 1 .. Len(string), NEW j \in i .. Len(string)
    PROVE  LET s == SubSeq(string, i, j)
           IN  /\ IsWord(s) => string[i] \in IdentifierStart
               /\ IsNumber(s) => string[i] \in Digits
               /\ IsStringLiteral(s) => string[i] = Quote
               /\ IsMark(s) => string[i] \in DOMAIN Marks \/ string[i] = "!"
<1> DEFINE s == SubSeq(string, i, j)
<1>1. i \in i .. j
    OBVIOUS
<1>2. /\ IsWord(s) => string[i] \in IdentifierStart
      /\ IsStringLiteral(s) => string[i] = Quote
    BY PieceLanguages
<1>3. IsNumber(s) => string[i] \in Digits
    <2>1. IsNumber(s) => \A q \in i .. j : string[q] \in Digits
        BY PieceLanguages
    <2> HIDE DEF s
    <2>2. QED BY <1>1, <2>1
<1>4. IsMark(s) => string[i] \in DOMAIN Marks \/ string[i] = "!"
    <2>1. IsMark(s) => \/ j = i /\ string[i] \in DOMAIN Marks
                       \/ j = i + 1 /\ <<string[i], string[j]>> \in DOMAIN CompoundMarks
        BY PieceLanguages
    <2> HIDE DEF s
    <2>2. QED BY <2>1, CompoundMarkParts
<1>5. QED BY <1>2, <1>3, <1>4

LEMMA ScanWordFacts ==
    ASSUME NEW S, NEW string \in Seq(S), NEW p \in 1 .. Len(string),
           string[p] \in IdentifierStart
    PROVE  LET result == ScanIdentifierOrKeyword(string, p)
           IN  /\ result.end \in p + 1 .. Len(string) + 1
               /\ IsToken(string, p, result.end, result.kind)
               /\ result.kind # "EndOfFile"
<1> DEFINE n == Len(string)
           e == EndOfRun(string, p, IdentifierContinue)
           kind == ClassifyKeyword(SubSeq(string, p, e - 1))
           result == ScanIdentifierOrKeyword(string, p)
<1>1. result.end = e /\ result.kind = kind
    BY DEF ScanIdentifierOrKeyword, Scanned
<1>2. n \in Nat /\ p \in 1 .. n /\ p \in 1 .. n + 1 /\ p \in Int
    BY LenProperties
<1>3. /\ e \in p .. n + 1 /\ \A q \in p .. e - 1 : string[q] \in IdentifierContinue
      /\ e <= n => string[e] \notin IdentifierContinue
    BY <1>2, EndOfRunFacts
<1>4. kind \notin {"EndOfFile", "Invalid", "IntegerLiteral", "StringLiteral"}
    BY KeywordsAssumption DEF ClassifyKeyword
<1> HIDE DEF e, kind, result, n
<1>5. e \in p + 1 .. n + 1
    <2>1. string[p] \in IdentifierContinue
        BY DEF IdentifierContinue
    <2>2. e # p
        BY <1>2, <1>3, <2>1
    <2>3. QED BY <1>2, <1>3, <2>2
<1>6. p \in 1 .. Len(string) /\ e - 1 \in p .. Len(string)
    BY <1>2, <1>5 DEF n
<1>7. IsWord(SubSeq(string, p, e - 1))
    BY <1>3, <1>6, PieceLanguages
<1>8. Belongs(SubSeq(string, p, e - 1), kind)
    BY <1>7 DEF Belongs, kind
<1>9. ASSUME NEW later \in e .. n
      PROVE  ~IsLexeme(SubSeq(string, p, later))
    <2>1. later \in p .. Len(string) /\ e \in p .. later /\ e <= n
        BY <1>2, <1>5 DEF n
    <2>2. ~IsWord(SubSeq(string, p, later))
        <3>1. string[e] \notin IdentifierContinue
            BY <1>3, <2>1
        <3>2. QED BY <1>6, <2>1, <3>1, PieceLanguages
    <2>3. string[p] \notin Digits /\ string[p] # Quote /\ string[p] \notin DOMAIN Marks /\ string[p] # "!"
        BY CharacterClasses
    <2>4. QED BY <1>6, <2>1, <2>2, <2>3, FirstCharacterDecides DEF IsLexeme
<1>10. IsToken(string, p, e, kind)
    BY <1>4, <1>8, <1>9 DEF IsToken, n
<1>11. QED BY <1>1, <1>4, <1>5, <1>10 DEF result, n

LEMMA ScanNumberFacts ==
    ASSUME NEW S, NEW string \in Seq(S), NEW p \in 1 .. Len(string), string[p] \in Digits
    PROVE  LET result == ScanNumber(string, p)
           IN  /\ result.end \in p + 1 .. Len(string) + 1
               /\ IsToken(string, p, result.end, result.kind)
               /\ result.kind # "EndOfFile"
<1> DEFINE n == Len(string)
           e == EndOfRun(string, p, Digits)
           result == ScanNumber(string, p)
<1>1. result.end = e /\ result.kind = "IntegerLiteral"
    BY DEF ScanNumber, Scanned
<1>2. n \in Nat /\ p \in 1 .. n /\ p \in 1 .. n + 1 /\ p \in Int
    BY LenProperties
<1>3. /\ e \in p .. n + 1 /\ \A q \in p .. e - 1 : string[q] \in Digits
      /\ e <= n => string[e] \notin Digits
    BY <1>2, EndOfRunFacts
<1> HIDE DEF e, result, n
<1>4. e \in p + 1 .. n + 1
    <2>1. e # p
        BY <1>2, <1>3
    <2>2. QED BY <1>2, <1>3, <2>1
<1>5. p \in 1 .. Len(string) /\ e - 1 \in p .. Len(string)
    BY <1>2, <1>4 DEF n
<1>6. IsNumber(SubSeq(string, p, e - 1))
    BY <1>3, <1>5, PieceLanguages
<1>7. Belongs(SubSeq(string, p, e - 1), "IntegerLiteral")
    BY <1>6 DEF Belongs
<1>8. ASSUME NEW later \in e .. n
      PROVE  ~IsLexeme(SubSeq(string, p, later))
    <2>1. later \in p .. Len(string) /\ e \in p .. later /\ e <= n
        BY <1>2, <1>4 DEF n
    <2>2. ~IsNumber(SubSeq(string, p, later))
        <3>1. string[e] \notin Digits
            BY <1>3, <2>1
        <3>2. QED BY <1>5, <2>1, <3>1, PieceLanguages
    <2>3. /\ string[p] \notin IdentifierStart /\ string[p] # Quote
          /\ string[p] \notin DOMAIN Marks /\ string[p] # "!"
        BY CharacterClasses
    <2>4. QED BY <1>5, <2>1, <2>2, <2>3, FirstCharacterDecides DEF IsLexeme
<1>9. IsToken(string, p, e, "IntegerLiteral")
    BY <1>7, <1>8 DEF IsToken, n
<1>10. QED BY <1>1, <1>4, <1>9 DEF result, n

LEMMA ScanLiteralFacts ==
    ASSUME NEW S, NEW string \in Seq(S), NEW p \in 1 .. Len(string), string[p] = Quote
    PROVE  LET result == ScanString(string, p)
           IN  /\ result.end \in p + 1 .. Len(string) + 1
               /\ IsToken(string, p, result.end, result.kind)
               /\ result.kind # "EndOfFile"
<1> DEFINE n == Len(string)
           result == ScanString(string, p)
           e == result.end
<1>1. n \in Nat /\ p \in 1 .. n /\ p \in 1 .. Len(string)
    BY LenProperties
<1>2. EndsLiteral(string, p + 1, result)
    BY ScanStringFacts
<1>3. string[p] \notin IdentifierStart /\ string[p] \notin Digits
    BY CharacterClasses
<1>4. string[p] \notin DOMAIN Marks /\ string[p] # "!"
    BY CharacterClasses
<1> HIDE DEF n, e, result
<1>5. CASE result.kind = "Invalid" /\ e = n + 1 /\ QuotesPaired(string, p + 1, n)
    <2>1. p \in 1 .. Len(string) /\ e - 1 = n /\ n \in p .. Len(string) /\ e \in p + 1 .. n + 1
        BY <1>1, <1>5 DEF n
    <2>2. IsUnterminated(SubSeq(string, p, n))
        BY <1>5, <2>1, PieceLanguages
    <2>3. ~IsStringLiteral(SubSeq(string, p, n))
        <3>1. CASE p < n /\ string[n] = Quote
            <4> DEFINE from == p + 1
            <4>1. from \in Int /\ n \in Int /\ from <= n /\ n <= n /\ ~(n < n) /\ n - 1 \in Int
                BY <1>1, <3>1
            <4>2. QuotesPaired(string, from, n)
                BY <1>5
            <4> HIDE DEF from
            <4>3. ~QuotesPaired(string, from, n - 1)
                BY <3>1, <4>1, <4>2, ClosingQuoteUnpaired
            <4>4. QED BY <2>1, <4>3, PieceLanguages DEF from
        <3>2. CASE ~(p < n /\ string[n] = Quote)
            BY <2>1, <3>2, PieceLanguages
        <3>3. QED BY <3>1, <3>2
    <2>4. ~IsLexeme(SubSeq(string, p, n))
        BY <1>3, <1>4, <2>1, <2>3, FirstCharacterDecides DEF IsLexeme
    <2>5. Belongs(SubSeq(string, p, e - 1), "Invalid")
        BY <2>1, <2>2, <2>4 DEF Belongs
    <2>6. e .. n = {}
        BY <1>1, <1>5
    <2>7. IsToken(string, p, e, "Invalid")
        BY <1>5, <2>5, <2>6 DEF IsToken, n
    <2>8. QED BY <1>5, <2>1, <2>7 DEF result, e, n
<1>6. CASE /\ result.kind = "StringLiteral" /\ e \in p + 1 + 1 .. n + 1
           /\ string[e - 1] = Quote /\ Peek(string, e) # Quote
           /\ QuotesPaired(string, p + 1, e - 2)
    <2> DEFINE from == p + 1
               c == e - 1
    <2>1. /\ p \in 1 .. Len(string) /\ c \in p .. Len(string) /\ p < c
          /\ e \in p + 1 .. n + 1 /\ c - 1 = e - 2 /\ from \in Int /\ c \in Int /\ from <= c
          /\ c + 1 = e
        BY <1>1, <1>6 DEF n
    <2>2. IsStringLiteral(SubSeq(string, p, c))
        BY <1>6, <2>1, PieceLanguages
    <2>3. Belongs(SubSeq(string, p, e - 1), "StringLiteral")
        BY <2>2 DEF Belongs
    <2>4. ASSUME NEW later \in e .. n
          PROVE  ~IsLexeme(SubSeq(string, p, later))
        <3>1. string[e] # Quote
            <4>1. ~(e > n)
                BY <1>1, <2>1
            <4>2. QED BY <1>6, <4>1 DEF Peek, AtEnd, n
        <3>2. /\ later \in p .. Len(string) /\ later - 1 \in Int /\ c <= later - 1
              /\ e \in Int /\ later \in Int /\ c <= e /\ e <= later
            BY <1>1, <2>1 DEF n
        <3>3. string[c] = Quote /\ QuotesPaired(string, from, c - 1) /\ string[c + 1] # Quote
            BY <1>6, <2>1, <3>1
        <3> HIDE DEF from, c
        <3>4. ~QuotesPaired(string, from, later - 1)
            BY <2>1, <3>2, <3>3, ClosingQuoteUnpaired
        <3>5. ~IsStringLiteral(SubSeq(string, p, later))
            BY <2>1, <3>2, <3>4, PieceLanguages DEF from
        <3>6. QED BY <1>3, <1>4, <2>1, <3>2, <3>5, FirstCharacterDecides DEF IsLexeme
    <2>5. IsToken(string, p, e, "StringLiteral")
        BY <1>6, <2>3, <2>4 DEF IsToken, n
    <2>6. QED BY <1>6, <2>1, <2>5 DEF result, e, n
<1>7. QED BY <1>2, <1>5, <1>6 DEF EndsLiteral, e, n

LEMMA ScanPunctuationFacts ==
    ASSUME NEW S, NEW string \in Seq(S), NEW p \in 1 .. Len(string),
           string[p] \notin IdentifierStart, string[p] \notin Digits, string[p] # Quote
    PROVE  LET result == ScanPunctuation(string, p)
           IN  /\ result.end \in p + 1 .. Len(string) + 1
               /\ IsToken(string, p, result.end, result.kind)
               /\ result.kind # "EndOfFile"
<1> DEFINE n == Len(string)
           pair == <<string[p], Peek(string, p + 1)>>
           result == ScanPunctuation(string, p)
<1>1. n \in Nat /\ p \in 1 .. n /\ p \in 1 .. Len(string) /\ p \in p .. Len(string)
    BY LenProperties
<1>2. ASSUME NEW later \in p .. n
      PROVE  /\ ~IsWord(SubSeq(string, p, later)) /\ ~IsNumber(SubSeq(string, p, later))
             /\ ~IsStringLiteral(SubSeq(string, p, later))
    BY FirstCharacterDecides
<1>3. Peek(string, p) # Quote
    BY CharacterClasses DEF Peek
<1>4. ASSUME NEW c \in DOMAIN Marks
      PROVE  Marks[c] \notin {"EndOfFile", "Invalid", "StringLiteral"}
    BY Zenon DEF Marks
<1>5. ASSUME NEW c \in DOMAIN CompoundMarks
      PROVE  CompoundMarks[c] \notin {"EndOfFile", "Invalid", "StringLiteral"}
    BY Zenon DEF CompoundMarks
<1>6. CASE pair \in DOMAIN CompoundMarks
    <2>1. result.kind = CompoundMarks[pair] /\ result.end = p + 2
        BY <1>6 DEF ScanPunctuation, Scanned
    <2>2. Peek(string, p + 1) # NUL
        BY <1>6, CompoundMarkParts, CharacterClasses
    <2>3. p + 1 <= n /\ Peek(string, p + 1) = string[p + 1]
        <3>1. ~(p + 1 > n) /\ Peek(string, p + 1) = string[p + 1]
            BY <2>2 DEF Peek, AtEnd
        <3> HIDE DEF n
        <3>2. QED BY <1>1, <3>1
    <2> HIDE DEF n, result
    <2>4. p + 1 \in p .. n /\ p + 2 \in p + 1 .. n + 1 /\ p + 2 - 1 = p + 1
        BY <1>1, <2>3
    <2> DEFINE s == SubSeq(string, p, p + 1)
    <2>5. Len(s) = 2 /\ s = pair
        <3>1. p \in 1 .. Len(string) + 1 /\ p + 1 \in p - 1 .. Len(string) /\ p + 1 - p + 1 = 2
            BY <1>1, <2>3 DEF n
        <3>2. Len(s) = p + 1 - p + 1 /\ s \in Seq(S)
              /\ \A k \in 1 .. p + 1 - p + 1 : s[k] = string[p + k - 1]
            BY <3>1, PieceFacts
        <3>3. s[1] = string[p] /\ s[2] = string[p + 1] /\ Len(s) = 2
            <4> HIDE DEF s
            <4>1. 1 \in 1 .. p + 1 - p + 1 /\ 2 \in 1 .. p + 1 - p + 1
                  /\ p + 1 - 1 = p /\ p + 2 - 1 = p + 1
                BY <1>1
            <4>2. s[1] = string[p + 1 - 1] /\ s[2] = string[p + 2 - 1]
                BY <3>2, <4>1
            <4>3. QED BY <3>1, <3>2, <4>1, <4>2
        <3>4. string[p] \in S /\ string[p + 1] \in S
            BY <1>1, <2>4, ElementOfSeq DEF n
        <3>5. pair = <<string[p], string[p + 1]>>
            BY <2>3
        <3>6. pair \in Seq(S) /\ Len(pair) = 2 /\ pair[1] = string[p] /\ pair[2] = string[p + 1]
            BY <3>4, <3>5
        <3> HIDE DEF s, pair
        <3>7. \A k \in 1 .. Len(s) : s[k] = pair[k]
            BY <3>3, <3>6
        <3>8. QED BY <3>2, <3>3, <3>6, <3>7, SeqEqual
    <2>6. IsMark(s)
        BY <1>6, <2>5 DEF IsMark
    <2>7. Belongs(s, CompoundMarks[pair])
        <3> HIDE DEF s, pair
        <3>1. Len(s) # 1
            BY <2>5
        <3>2. CompoundMarks[pair] = IF Len(s) = 1 THEN Marks[s[1]] ELSE CompoundMarks[s]
            BY <2>5, <3>1, Zenon
        <3>3. QED BY <2>6, <3>2, Zenon DEF Belongs
    <2>8. ASSUME NEW later \in p + 2 .. n
          PROVE  ~IsLexeme(SubSeq(string, p, later))
        <3>1. later \in p .. Len(string) /\ later # p /\ later # p + 1
            BY <1>1 DEF n
        <3>2. ~IsMark(SubSeq(string, p, later))
            BY <1>1, <3>1, PieceLanguages
        <3>3. QED BY <1>2, <3>1, <3>2 DEF IsLexeme, n
    <2> HIDE DEF s, pair
    <2>9. IsToken(string, p, p + 2, CompoundMarks[pair])
        BY <1>5, <1>6, <2>4, <2>7, <2>8 DEF IsToken, n, s
    <2>10. QED BY <1>5, <1>6, <2>1, <2>4, <2>9 DEF result, n
<1>7. CASE pair \notin DOMAIN CompoundMarks
    <2> DEFINE kind == IF string[p] \in DOMAIN Marks THEN Marks[string[p]] ELSE "Invalid"
               s == SubSeq(string, p, p)
    <2>1. result.kind = kind /\ result.end = p + 1
        BY <1>7 DEF ScanPunctuation, Scanned
    <2>2. p + 1 \in p + 1 .. n + 1 /\ p + 1 - 1 = p
        BY <1>1
    <2>3. Len(s) = 1 /\ s[1] = string[p]
        <3>1. p \in 1 .. Len(string) + 1 /\ p \in p - 1 .. Len(string) /\ p - p + 1 = 1
            BY <1>1
        <3>2. Len(s) = p - p + 1 /\ \A k \in 1 .. p - p + 1 : s[k] = string[p + k - 1]
            BY <3>1, PieceFacts
        <3> HIDE DEF s
        <3>3. 1 \in 1 .. p - p + 1 /\ p + 1 - 1 = p
            BY <1>1
        <3>4. s[1] = string[p + 1 - 1]
            BY <3>2, <3>3
        <3>5. QED BY <3>1, <3>2, <3>3, <3>4
    <2>4. IsMark(s) <=> string[p] \in DOMAIN Marks
        <3>1. p # p + 1
            BY <1>1
        <3>2. QED BY <1>1, <3>1, PieceLanguages
    <2>5. Belongs(s, kind)
        <3>1. CASE string[p] \in DOMAIN Marks
            BY <2>3, <2>4, <3>1 DEF Belongs
        <3>2. CASE string[p] \notin DOMAIN Marks
            <4>1. ~IsLexeme(s)
                BY <1>1, <1>2, <2>4, <3>2 DEF IsLexeme
            <4>2. QED BY <2>3, <3>2, <4>1 DEF Belongs
        <3>3. QED BY <3>1, <3>2
    <2>6. ASSUME NEW later \in p + 1 .. n
          PROVE  ~IsLexeme(SubSeq(string, p, later))
        <3>1. later \in p .. Len(string) /\ later # p
            BY <1>1
        <3>2. ~IsMark(SubSeq(string, p, later))
            <4>1. CASE later = p + 1
                <5>1. ~(p + 1 > n)
                    BY <1>1, <4>1
                <5>2. <<string[p], string[later]>> = pair
                    BY <4>1, <5>1 DEF Peek, AtEnd
                <5> HIDE DEF pair
                <5>3. QED BY <1>1, <1>7, <3>1, <5>2, PieceLanguages
            <4>2. CASE later # p + 1
                BY <1>1, <3>1, <4>2, PieceLanguages
            <4>3. QED BY <4>1, <4>2
        <3>3. QED BY <1>2, <3>1, <3>2 DEF IsLexeme
    <2>7. kind \notin {"EndOfFile", "StringLiteral"}
        BY <1>4
    <2> HIDE DEF kind, result
    <2>8. IsToken(string, p, p + 1, kind)
        BY <1>3, <2>2, <2>5, <2>6, <2>7 DEF IsToken
    <2>9. QED BY <2>1, <2>2, <2>7, <2>8 DEF result
<1>8. QED BY <1>6, <1>7

LEMMA ScanTokenFacts ==
    ASSUME NEW S, NEW string \in Seq(S), NEW p \in 1 .. Len(string)
    PROVE  LET result == ScanToken(string, p)
           IN  /\ result.end \in p + 1 .. Len(string) + 1
               /\ IsToken(string, p, result.end, result.kind)
               /\ result.kind # "EndOfFile"
BY ScanWordFacts, ScanNumberFacts, ScanLiteralFacts, ScanPunctuationFacts DEF ScanToken

(* One call of next, from a right place to a right place: what is skipped, *)
(* what is scanned behind it, and the token.                               *)
ScannedAt(string, p) ==
    IF AtEnd(string, p) THEN Scanned("EndOfFile", p) ELSE ScanToken(string, p)

LEMMA ScannedFacts ==
    ASSUME NEW S, NEW string \in Seq(S), NEW p \in 1 .. Len(string) + 1
    PROVE  LET result == ScannedAt(string, p)
           IN  /\ result.end \in p .. Len(string) + 1
               /\ IsToken(string, p, result.end, result.kind)
               /\ IF p = Len(string) + 1 THEN result.kind = "EndOfFile"
                  ELSE result.kind # "EndOfFile" /\ p < result.end
<1> DEFINE n == Len(string)
           result == ScannedAt(string, p)
<1>1. n \in Nat /\ p \in Nat \ {0} /\ p \in 1 .. n + 1
    BY LenProperties
<1>2. CASE p = n + 1
    <2>1. result.kind = "EndOfFile" /\ result.end = n + 1
        <3>1. n + 1 > n
            BY <1>1
        <3>2. QED BY <1>2, <3>1 DEF ScannedAt, AtEnd, Scanned
    <2>2. SubSeq(string, n + 1, n) = << >>
        <3>1. n + 1 \in 1 .. Len(string) + 1 /\ n \in n + 1 - 1 .. Len(string) /\ n < n + 1
            BY <1>1
        <3>2. QED BY <3>1, PieceFacts
    <2>3. IsToken(string, n + 1, n + 1, "EndOfFile")
        <3>1. n + 1 - 1 = n /\ n + 1 .. n = {}
            BY <1>1
        <3>2. Belongs(SubSeq(string, n + 1, n), "EndOfFile")
            BY <2>2 DEF Belongs
        <3> HIDE DEF n
        <3>3. QED BY <3>1, <3>2 DEF IsToken, n
    <2> HIDE DEF result
    <2>4. QED BY <1>1, <1>2, <2>1, <2>3 DEF result
<1>3. CASE p # n + 1
    <2>1. p \in 1 .. n /\ ~(p > n)
        BY <1>1, <1>3
    <2>2. result = ScanToken(string, p)
        BY <2>1 DEF ScannedAt, AtEnd
    <2> HIDE DEF result
    <2>3. /\ result.end \in p + 1 .. n + 1 /\ result.kind # "EndOfFile"
          /\ IsToken(string, p, result.end, result.kind)
        BY <2>1, <2>2, ScanTokenFacts
    <2> HIDE DEF n
    <2>4. result.end \in p .. n + 1 /\ p < result.end
        BY <1>1, <2>3
    <2>5. QED BY <1>3, <2>3, <2>4 DEF n, result
<1>4. QED BY <1>2, <1>3

LEMMA NextTokenParts ==
    ASSUME NEW S, NEW string \in Seq(S), NEW at, at.pos \in 1 .. Len(string) + 1,
           IsRight(string, at)
    PROVE  LET start   == SkipWhitespaceAndComments(string, at.pos)
               scanned == ScannedAt(string, start)
               token   == NextToken(string, at).token
               next    == NextToken(string, at).place
           IN  /\ start \in at.pos .. Len(string) + 1 /\ start \in 1 .. Len(string) + 1
               /\ IsGap(string, at.pos, start)
               /\ token.kind = scanned.kind
               /\ token.lexeme = SubSeq(string, start, scanned.end - 1)
               /\ next.pos = scanned.end
               /\ IsRight(string, next)
               /\ IsPlaceOf(string, start, token.line, token.column)
<1> DEFINE n == Len(string)
           p == at.pos
           skipped == SkipWhitespaceAndComments(string, p)
           start == AdvanceTo(string, at, skipped)
           scanned == ScannedAt(string, skipped)
           token == NextToken(string, at).token
           next == NextToken(string, at).place
<1>1. n \in Nat /\ p \in Nat \ {0} /\ p \in 1 .. n + 1
    BY LenProperties
<1>2. skipped \in p .. n + 1 /\ IsGap(string, p, skipped)
    BY <1>1, SkipFacts
<1>3. start.pos = skipped /\ IsRight(string, start)
    BY <1>1, <1>2, AdvanceToStaysRight
<1>4. skipped \in 1 .. n + 1
    <2> HIDE DEF skipped
    <2>1. QED BY <1>1, <1>2
<1>5. scanned.end \in skipped .. n + 1
    <2> HIDE DEF skipped
    <2>1. QED BY <1>4, ScannedFacts
<1>6. /\ token.kind = scanned.kind
      /\ token.lexeme = SubSeq(string, skipped, scanned.end - 1)
      /\ token.line = start.line /\ token.column = start.column
      /\ next = AdvanceTo(string, start, scanned.end)
    <2> HIDE DEF skipped
    <2>1. QED BY <1>3 DEF NextToken, ScannedAt, skipped
<1> HIDE DEF token, next, scanned, start, skipped
<1>7. start.pos \in Nat \ {0} /\ scanned.end \in start.pos .. Len(string) + 1
    BY <1>1, <1>3, <1>4, <1>5
<1>8. next.pos = scanned.end /\ IsRight(string, next)
    BY <1>3, <1>6, <1>7, AdvanceToStaysRight
<1>9. IsPlaceOf(string, skipped, token.line, token.column)
    BY <1>3, <1>6 DEF IsRight
<1> HIDE DEF p
<1>10. QED BY <1>2, <1>4, <1>6, <1>8, <1>9 DEF token, next, scanned, skipped, p, n

(* The gap is blank, and what follows it is a token.                       *)
LEMMA NextTokenFacts ==
    ASSUME NEW S, NEW string \in Seq(S), NEW at, at.pos \in 1 .. Len(string) + 1,
           IsRight(string, at)
    PROVE  LET token == NextToken(string, at).token
               next  == NextToken(string, at).place
           IN  \E start \in at.pos .. next.pos :
                   /\ next.pos \in 1 .. Len(string) + 1
                   /\ IsRight(string, next)
                   /\ IsGap(string, at.pos, start)
                   /\ token.lexeme = SubSeq(string, start, next.pos - 1)
                   /\ Len(token.lexeme) = next.pos - start
                   /\ token.lexeme \in Seq(S)
                   /\ IsToken(string, start, next.pos, token.kind)
                   /\ IsPlaceOf(string, start, token.line, token.column)
                   /\ token.kind # "EndOfFile" => start < next.pos
                   /\ token.kind = "EndOfFile" => start = Len(string) + 1
<1> DEFINE n == Len(string)
           p == at.pos
           start == SkipWhitespaceAndComments(string, p)
           scanned == ScannedAt(string, start)
           token == NextToken(string, at).token
           next == NextToken(string, at).place
<1>1. n \in Nat /\ p \in Nat \ {0} /\ p \in 1 .. n + 1
    BY LenProperties
<1>2. /\ start \in p .. n + 1 /\ start \in 1 .. n + 1
      /\ IsGap(string, p, start)
      /\ token.kind = scanned.kind
      /\ token.lexeme = SubSeq(string, start, scanned.end - 1)
      /\ next.pos = scanned.end
      /\ IsRight(string, next)
      /\ IsPlaceOf(string, start, token.line, token.column)
    BY NextTokenParts
<1> HIDE DEF start
<1>3. /\ scanned.end \in start .. n + 1
      /\ IsToken(string, start, scanned.end, scanned.kind)
      /\ IF start = n + 1 THEN scanned.kind = "EndOfFile"
         ELSE scanned.kind # "EndOfFile" /\ start < scanned.end
    BY <1>2, ScannedFacts
<1> HIDE DEF token, next, scanned
<1>4. /\ token.lexeme \in Seq(S)
      /\ Len(token.lexeme) = next.pos - start
    <2>1. /\ start \in 1 .. Len(string) + 1 /\ scanned.end - 1 \in start - 1 .. Len(string)
          /\ scanned.end - 1 - start + 1 = scanned.end - start
        BY <1>1, <1>2, <1>3
    <2>2. QED BY <1>2, <2>1, PieceFacts
<1>5. start \in p .. next.pos /\ next.pos \in 1 .. n + 1
    BY <1>1, <1>2, <1>3
<1> HIDE DEF p
<1>6. QED BY <1>2, <1>3, <1>4, <1>5 DEF token, next, p, n

-----------------------------------------------------------------------------
(* The scanner.                                                            *)

LEMMA RightPlaces ==
    ASSUME NEW string, NEW p \in Nat \ {0}, NEW line, NEW column,
           IsPlaceOf(string, p, line, column)
    PROVE  line \in Nat \ {0} /\ column \in Nat \ {0}
<1> DEFINE newlines == NewlinesBefore(string, p)
<1>1. p \in Nat /\ p - 1 \in Int /\ 0 \in Int
    OBVIOUS
<1>2. Cardinality(newlines) \in Nat
    BY <1>1, NewlinesFinite
<1>3. newlines \cup {0} # {} /\ \A q \in newlines \cup {0} : q \in 0 .. p - 1
    BY DEF NewlinesBefore
<1> HIDE DEF newlines
<1>4. Max(newlines \cup {0}) \in newlines \cup {0}
    BY <1>1, <1>3, GreatestPosition, Zenon
<1>5. Max(newlines \cup {0}) \in 0 .. p - 1
    BY <1>3, <1>4
<1>6. QED BY <1>2, <1>5 DEF IsPlaceOf, newlines

LEMMA KindsOfLexemes ==
    ASSUME NEW s, NEW kind, Belongs(s, kind), Len(s) \in Nat
    PROVE  kind \in TokenKinds
<1>1. CASE IsMark(s) /\ kind = IF Len(s) = 1 THEN Marks[s[1]] ELSE CompoundMarks[s]
    <2>1. CASE s \in DOMAIN CompoundMarks
        <3>1. Len(s) # 1
            BY <2>1, CompoundMarksArePairs
        <3>2. QED BY <1>1, <2>1, <3>1 DEF TokenKinds, Range
    <2>2. CASE Len(s) = 1 /\ s[1] \in DOMAIN Marks
        BY <1>1, <2>2 DEF TokenKinds, Range
    <2>3. QED BY <1>1, <2>1, <2>2 DEF IsMark
<1>2. CASE kind = ClassifyKeyword(s)
    BY <1>2 DEF ClassifyKeyword, TokenKinds, Range
<1>3. QED BY <1>1, <1>2 DEF Belongs, TokenKinds

LEMMA StartIsRight == \A string : IsPlaceOf(string, 1, 1, 1)
<1> TAKE string
<1>1. NewlinesBefore(string, 1) = {}
    BY DEF NewlinesBefore
<1>2. Cardinality({}) = 0
    BY FS_EmptySet
<1>3. Max({0}) = 0
    <2>1. 0 \in Int /\ 0 \in {0} /\ \A q \in {0} : q \in 0 .. 0
        OBVIOUS
    <2>2. QED BY <2>1, GreatestIs, Zenon
<1>4. {} \cup {0} = {0}
    OBVIOUS
<1>5. QED BY <1>1, <1>2, <1>3, <1>4 DEF IsPlaceOf

LEMMA InitiallyInv == ScanInit => ScanInv
<1> SUFFICES ASSUME ScanInit PROVE ScanInv
    OBVIOUS
<1>1. text \in Inputs /\ text \in Seq(STRING) /\ Len(text) \in Nat
    BY InputsAssumption, LenProperties DEF ScanInit
<1>2. place.pos = 1 /\ place.line = 1 /\ place.column = 1
    BY DEF ScanInit, StartOfText
<1>3. tokens = << >> /\ ~IsScanned
    BY DEF ScanInit, IsScanned
<1>4. ScanTypeOK
    BY <1>1, <1>2, <1>3 DEF ScanTypeOK
<1>5. TokensTakeCharacters
    BY <1>2, <1>3 DEF TokensTakeCharacters
<1>6. PlaceIsRight
    BY <1>2, StartIsRight DEF PlaceIsRight
<1>7. LexemesInLanguage /\ PlacesAreRight
    BY <1>3 DEF LexemesInLanguage, PlacesAreRight
<1>8. QED BY <1>4, <1>5, <1>6, <1>7 DEF ScanInv

(* A step appends a token, and the scanner goes on behind it.              *)
LEMMA ScanAppends ==
    ASSUME ScanInv, Scan
    PROVE  \E token \in Token, start \in place.pos .. place'.pos :
               /\ place'.pos \in 1 .. Len(text) + 1
               /\ PlaceIsRight'
               /\ text' = text
               /\ tokens' = Append(tokens, token)
               /\ IsGap(text, place.pos, start)
               /\ token.lexeme = SubSeq(text, start, place'.pos - 1)
               /\ Len(token.lexeme) = place'.pos - start
               /\ IsToken(text, start, place'.pos, token.kind)
               /\ IsPlaceOf(text, start, token.line, token.column)
               /\ token.kind # "EndOfFile" => start < place'.pos
<1> DEFINE next == NextToken(text, place)
           token == next.token
<1>1. text \in Seq(STRING) /\ place.pos \in 1 .. Len(text) + 1 /\ IsRight(text, place)
    BY InputsAssumption DEF ScanInv, ScanTypeOK, PlaceIsRight, IsRight
<1>2. text' = text /\ tokens' = Append(tokens, token) /\ place' = next.place
    BY DEF Scan
<1> HIDE DEF next
<1>3. PICK start \in place.pos .. next.place.pos :
          /\ next.place.pos \in 1 .. Len(text) + 1
          /\ IsRight(text, next.place)
          /\ IsGap(text, place.pos, start)
          /\ token.lexeme = SubSeq(text, start, next.place.pos - 1)
          /\ Len(token.lexeme) = next.place.pos - start
          /\ token.lexeme \in Seq(STRING)
          /\ IsToken(text, start, next.place.pos, token.kind)
          /\ IsPlaceOf(text, start, token.line, token.column)
          /\ token.kind # "EndOfFile" => start < next.place.pos
    BY <1>1, NextTokenFacts DEF next
<1>4. token \in Token
    <2>1. token = [kind |-> token.kind, lexeme |-> token.lexeme,
                   line |-> token.line, column |-> token.column]
        BY DEF next, NextToken
    <2>2. start \in Nat \ {0} /\ Len(token.lexeme) \in Nat
        <3> DEFINE from == place.pos
                   end == next.place.pos
                   lexeme == token.lexeme
        <3>1. /\ from \in 1 .. Len(text) + 1 /\ end \in 1 .. Len(text) + 1
              /\ start \in from .. end /\ lexeme \in Seq(STRING) /\ text \in Seq(STRING)
            BY <1>1, <1>3
        <3> HIDE DEF from, end, lexeme
        <3>2. Len(lexeme) \in Nat /\ Len(text) \in Nat
            BY <3>1, LenProperties
        <3>3. start \in Nat \ {0}
            BY <3>1, <3>2
        <3>4. QED BY <3>2, <3>3 DEF lexeme
    <2>3. token.line \in Nat \ {0} /\ token.column \in Nat \ {0}
        BY <1>3, <2>2, RightPlaces
    <2>4. Belongs(token.lexeme, token.kind)
        BY <1>3 DEF IsToken
    <2>5. token.kind \in TokenKinds
        BY <2>2, <2>4, KindsOfLexemes
    <2> HIDE DEF token
    <2>6. QED BY <1>3, <2>1, <2>3, <2>5 DEF Token, token
<1>5. PlaceIsRight'
    BY <1>2, <1>3 DEF PlaceIsRight, IsRight
<1> HIDE DEF token
<1>6. QED BY <1>2, <1>3, <1>4, <1>5

LEMMA ScanPreservesInv ==
    ASSUME ScanInv, Scan
    PROVE  ScanInv'
<1>1. PICK token \in Token, start \in place.pos .. place'.pos :
          /\ place'.pos \in 1 .. Len(text) + 1
          /\ PlaceIsRight'
          /\ text' = text
          /\ tokens' = Append(tokens, token)
          /\ IsGap(text, place.pos, start)
          /\ token.lexeme = SubSeq(text, start, place'.pos - 1)
          /\ Len(token.lexeme) = place'.pos - start
          /\ IsToken(text, start, place'.pos, token.kind)
          /\ IsPlaceOf(text, start, token.line, token.column)
          /\ token.kind # "EndOfFile" => start < place'.pos
    BY ScanAppends
<1>2. text \in Inputs /\ place.pos \in 1 .. Len(text) + 1 /\ tokens \in Seq(Token)
    BY DEF ScanInv, ScanTypeOK
<1>3. Len(text) \in Nat /\ place.pos \in Nat /\ place'.pos \in Nat /\ Len(tokens) \in Nat
    BY <1>1, <1>2, InputsAssumption, LenProperties
<1>4. /\ tokens' \in Seq(Token) /\ Len(tokens') = Len(tokens) + 1
      /\ tokens' # << >> /\ Last(tokens') = token
    <2>1. tokens' \in Seq(Token) /\ Len(tokens') = Len(tokens) + 1
          /\ tokens'[Len(tokens) + 1] = token
        BY <1>1, <1>2, AppendProperties
    <2>2. tokens' # << >>
        BY <1>3, <2>1
    <2>3. QED BY <2>1, <2>2 DEF Last
<1>5. start = place'.pos - Len(token.lexeme)
    BY <1>1, <1>3
<1>6. ScanTypeOK'
    BY <1>1, <1>2, <1>4 DEF ScanTypeOK
<1>7. TokensTakeCharacters'
    <2>1. Len(tokens) < place.pos
        <3>1. ~IsScanned
            BY DEF Scan
        <3>2. Len(tokens) < place.pos + (IF IsScanned THEN 1 ELSE 0)
            BY DEF ScanInv, TokensTakeCharacters
        <3>3. place.pos + 0 = place.pos
            BY <1>3
        <3>4. QED BY <3>1, <3>2, <3>3
    <2>2. IsScanned' <=> token.kind = "EndOfFile"
        BY <1>4 DEF IsScanned
    <2>3. place.pos <= place'.pos /\ (token.kind # "EndOfFile" => place.pos < place'.pos)
        BY <1>1, <1>3
    <2>4. Len(tokens) + 1 < place'.pos + (IF token.kind = "EndOfFile" THEN 1 ELSE 0)
        BY <1>3, <2>1, <2>3
    <2>5. QED BY <1>4, <2>2, <2>4 DEF TokensTakeCharacters
<1>8. LexemesInLanguage'
    BY <1>1, <1>4, <1>5 DEF LexemesInLanguage
<1>9. PlacesAreRight'
    BY <1>1, <1>4, <1>5 DEF PlacesAreRight
<1>10. QED BY <1>1, <1>6, <1>7, <1>8, <1>9 DEF ScanInv

LEMMA SteppingPreservesInv ==
    ASSUME ScanInv, [Scan]_scanVars
    PROVE  ScanInv'
<1>1. CASE Scan
    BY <1>1, ScanPreservesInv
<1>2. CASE UNCHANGED scanVars
    BY <1>2 DEF ScanInv, ScanTypeOK, TokensTakeCharacters, PlaceIsRight, LexemesInLanguage,
                PlacesAreRight, IsScanned, scanVars
<1>3. QED BY <1>1, <1>2

(* What the calls of next preserve holds in every state of a scan.         *)
THEOREM ScanInvariant == ScanSpec => []ScanInv
<1>1. ScanInit => ScanInv
    BY InitiallyInv
<1>2. ScanInv /\ [Scan]_scanVars => ScanInv'
    BY SteppingPreservesInv
<1>3. QED BY <1>1, <1>2, PTL DEF ScanSpec

(* Every call of next consumes a character or reports the end, and after   *)
(* the end there is none: there are at most as many tokens as characters,  *)
(* and the end.                                                            *)
THEOREM ScannerEnds == ScanSpec => []ScansEnd
<1>1. ScanInv => ScansEnd
    <2> SUFFICES ASSUME ScanInv PROVE ScansEnd
        OBVIOUS
    <2>1. Len(tokens) \in Nat /\ Len(text) \in Nat /\ place.pos \in 1 .. Len(text) + 1
        BY InputsAssumption, LenProperties DEF ScanInv, ScanTypeOK
    <2>2. Len(tokens) < place.pos + 1
        BY <2>1 DEF ScanInv, TokensTakeCharacters
    <2>3. QED BY <2>1, <2>2 DEF ScansEnd
<1>2. QED BY <1>1, ScanInvariant, PTL

(* Every token belongs to the language of its kind and is as long as it    *)
(* can be.                                                                 *)
THEOREM TokensInLanguage == ScanSpec => []LexemesInLanguage
BY ScanInvariant, PTL DEF ScanInv

(* The line and the column of every token are those of its first           *)
(* character.                                                              *)
THEOREM TokensRightlyPlaced == ScanSpec => []PlacesAreRight
BY ScanInvariant, PTL DEF ScanInv

(* Only white space and comments are skipped between two tokens, and all   *)
(* of them.                                                                *)
THEOREM OnlyBlanksSkipped == ScanSpec => GapsAreBlank
<1> DEFINE Gap == IsGap(text, place.pos, place'.pos - Len(Last(tokens').lexeme))
<1>1. ASSUME ScanInv, [Scan]_scanVars
      PROVE  [tokens' # tokens => Gap]_scanVars
    <2>1. CASE Scan
        <3>1. PICK token \in Token, start \in place.pos .. place'.pos :
                  /\ place'.pos \in 1 .. Len(text) + 1
                  /\ tokens' = Append(tokens, token)
                  /\ IsGap(text, place.pos, start)
                  /\ Len(token.lexeme) = place'.pos - start
            BY <1>1, <2>1, ScanAppends
        <3>2. tokens \in Seq(Token) /\ place.pos \in Nat /\ place'.pos \in Nat
            BY <1>1, <3>1, InputsAssumption, LenProperties DEF ScanInv, ScanTypeOK
        <3>3. Last(tokens') = token
            BY <3>1, <3>2 DEF Last
        <3>4. start = place'.pos - Len(token.lexeme)
            BY <3>1, <3>2
        <3>5. QED BY <3>1, <3>3, <3>4
    <2>2. CASE UNCHANGED scanVars
        BY <2>2
    <2>3. QED BY <1>1, <2>1, <2>2
<1>2. QED BY <1>1, ScanInvariant, PTL DEF ScanSpec, GapsAreBlank

-----------------------------------------------------------------------------
(* Decoding string literals.                                               *)

(* FlattenSeq step by step: f[k] is the first k pieces in one.             *)
FlattensTo(f, pieces) ==
    /\ \A k \in 1 .. Len(pieces) :
           f[k] = IF k = 1 THEN pieces[k] ELSE f[k - 1] \o pieces[k]
    /\ Len(pieces) > 0 => FlattenSeq(pieces) = f[Len(pieces)]

LEMMA FlattenStepwise ==
    ASSUME NEW pieces, Len(pieces) \in Nat
    PROVE  \E f : FlattensTo(f, pieces)
<1> DEFINE N == Len(pieces)
           Steps(f, k) ==
               f = [i \in 1 .. k |-> IF i = 1 THEN pieces[i] ELSE f[i - 1] \o pieces[i]]
           T == {k \in Nat : \E f : Steps(f, k)}
           flatten[i \in 1 .. N] == IF i = 1 THEN pieces[i] ELSE flatten[i - 1] \o pieces[i]
<1>1. 0 \in T
    <2>1. Steps([i \in 1 .. 0 |-> pieces[i]], 0)
        OBVIOUS
    <2>2. QED BY <2>1
<1>2. \A k \in T : k + 1 \in T
    <2> TAKE k \in T
    <2>1. PICK f : Steps(f, k)
        OBVIOUS
    <2>2. k \in Nat
        OBVIOUS
    <2> DEFINE last == IF k + 1 = 1 THEN pieces[k + 1] ELSE f[k] \o pieces[k + 1]
               g == [i \in 1 .. k + 1 |-> IF i <= k THEN f[i] ELSE last]
    <2>3. (\A i \in 1 .. k : g[i] = f[i]) /\ g[k + 1] = last
        <3> HIDE DEF last, T
        <3>1. QED BY <2>2
    <2>4. \A i \in 1 .. k : f[i] = IF i = 1 THEN pieces[i] ELSE f[i - 1] \o pieces[i]
        BY <2>1
    <2>5. g = [i \in 1 .. k + 1 |-> g[i]]
        OBVIOUS
    <2> HIDE DEF g, T, Steps
    <2>6. ASSUME NEW i \in 1 .. k + 1
          PROVE  g[i] = IF i = 1 THEN pieces[i] ELSE g[i - 1] \o pieces[i]
        <3>1. CASE i = k + 1
            <4>1. i # 1 => i - 1 = k /\ k \in 1 .. k
                BY <2>2, <3>1
            <4>2. QED BY <2>3, <3>1, <4>1
        <3>2. CASE i \in 1 .. k
            <4>1. i # 1 => i - 1 \in 1 .. k
                BY <2>2, <3>2
            <4>2. QED BY <2>3, <2>4, <3>2, <4>1
        <3>3. QED BY <2>2, <3>1, <3>2
    <2>7. Steps(g, k + 1)
        BY <2>5, <2>6 DEF Steps
    <2>8. QED BY <2>2, <2>7 DEF T
<1>3. Len(pieces) > 0 => FlattenSeq(pieces) = flatten[N]
    BY DEF FlattenSeq
<1>4. \E f : Steps(f, N)
    <2>1. T \in SUBSET Nat
        OBVIOUS
    <2> HIDE DEF T
    <2>2. T = Nat
        BY <1>1, <1>2, <2>1, NatSetInduction
    <2>3. N \in T
        BY <2>2
    <2>4. QED BY <2>3 DEF T
<1>5. Steps(flatten, N)
    BY ONLY <1>4, Zenon
<1>6. \A i \in 1 .. N : flatten[i] = IF i = 1 THEN pieces[i] ELSE flatten[i - 1] \o pieces[i]
    <2> HIDE DEF flatten
    <2>1. QED BY <1>5
<1> HIDE DEF flatten, T, Steps
<1>7. QED BY <1>3, <1>6 DEF FlattensTo

(* A piece in front of the others comes in front of all they contain.      *)
LEMMA FlattenInFront ==
    ASSUME NEW S, NEW pieces \in Seq(Seq(S)), NEW piece \in Seq(S)
    PROVE  /\ FlattenSeq(pieces) \in Seq(S)
           /\ FlattenSeq(<<piece>> \o pieces) = piece \o FlattenSeq(pieces)
<1> DEFINE n == Len(pieces)
           more == <<piece>> \o pieces
<1>1. n \in Nat
    BY LenProperties
<1>2. /\ more \in Seq(Seq(S)) /\ Len(more) = n + 1 /\ more[1] = piece
      /\ \A k \in 2 .. n + 1 : more[k] = pieces[k - 1]
    <2>1. <<piece>> \in Seq(Seq(S)) /\ Len(<<piece>>) = 1 /\ <<piece>>[1] = piece
        OBVIOUS
    <2>2. /\ more \in Seq(Seq(S)) /\ Len(more) = Len(<<piece>>) + n
          /\ \A k \in 1 .. Len(<<piece>>) + n :
                 more[k] = IF k <= Len(<<piece>>) THEN <<piece>>[k] ELSE pieces[k - Len(<<piece>>)]
        BY <2>1, ConcatProperties
    <2> HIDE DEF more
    <2>3. QED BY <1>1, <2>1, <2>2
<1>3. PICK f : FlattensTo(f, pieces)
    BY <1>1, FlattenStepwise
<1>4. PICK g : FlattensTo(g, more)
    <2> HIDE DEF more
    <2>1. Len(more) \in Nat
        BY <1>1, <1>2
    <2>2. QED BY <2>1, FlattenStepwise
<1> HIDE DEF more, n
<1>5. /\ \A k \in 1 .. n : f[k] = IF k = 1 THEN pieces[k] ELSE f[k - 1] \o pieces[k]
      /\ n > 0 => FlattenSeq(pieces) = f[n]
    BY <1>3 DEF FlattensTo, n
<1>6. /\ g[1] = more[1]
      /\ \A k \in 1 .. n : g[k + 1] = g[k] \o more[k + 1]
      /\ FlattenSeq(more) = g[n + 1]
    <2>1. /\ \A j \in 1 .. n + 1 : g[j] = IF j = 1 THEN more[j] ELSE g[j - 1] \o more[j]
          /\ FlattenSeq(more) = g[n + 1]
        BY <1>1, <1>2, <1>4 DEF FlattensTo
    <2>2. 1 \in 1 .. n + 1 /\ \A k \in 1 .. n : k + 1 \in 1 .. n + 1 /\ k + 1 # 1 /\ k + 1 - 1 = k
        BY <1>1
    <2>3. ASSUME NEW k \in 1 .. n, NEW j \in 1 .. n + 1, j # 1, j - 1 = k
          PROVE  g[j] = g[k] \o more[j]
        BY <2>1, <2>3
    <2>4. ASSUME NEW k \in 1 .. n
          PROVE  g[k + 1] = g[k] \o more[k + 1]
        <3> DEFINE j == k + 1
        <3>1. j \in 1 .. n + 1 /\ j # 1 /\ j - 1 = k
            BY <2>2
        <3> HIDE DEF j
        <3>2. g[j] = g[k] \o more[j]
            BY <2>3, <3>1
        <3>3. QED BY <3>2 DEF j
    <2>5. g[1] = more[1]
        BY <2>1, <2>2
    <2>6. QED BY <2>1, <2>4, <2>5
<1>7. ASSUME NEW k \in 1 .. n
      PROVE  pieces[k] \in Seq(S)
    BY ElementOfSeq DEF n
<1> DEFINE good == {k \in 1 .. n : f[k] \in Seq(S) /\ g[k + 1] = piece \o f[k]}
<1>8. \A k \in 1 .. n : k \in good
    <2>1. ASSUME NEW k \in 1 .. n, \A r \in 1 .. k - 1 : r \in good
          PROVE  k \in good
        <3>1. /\ k + 1 \in 1 .. n + 1 /\ k + 1 # 1 /\ k + 1 - 1 = k /\ k + 1 \in 2 .. n + 1
              /\ k \in 1 .. n + 1
            BY <1>1
        <3>2. g[k + 1] = g[k] \o pieces[k]
            <4>1. more[k + 1] = pieces[k]
                BY <1>2, <3>1
            <4>2. g[k + 1] = g[k] \o more[k + 1]
                BY <1>6
            <4>3. QED BY <4>1, <4>2
        <3>3. CASE k = 1
            <4>1. g[k] = piece /\ f[k] = pieces[k]
                BY <1>2, <1>5, <1>6, <3>1, <3>3
            <4>2. QED BY <1>7, <3>2, <4>1
        <3>4. CASE k # 1
            <4>1. k - 1 \in 1 .. k - 1 /\ k - 1 + 1 = k
                BY <1>1, <3>4
            <4>2. f[k - 1] \in Seq(S) /\ g[k] = piece \o f[k - 1]
                BY <2>1, <4>1
            <4>3. f[k] = f[k - 1] \o pieces[k]
                BY <1>5, <3>4
            <4>4. f[k] \in Seq(S)
                BY <1>7, <4>2, <4>3, ConcatProperties
            <4>5. (piece \o f[k - 1]) \o pieces[k] = piece \o (f[k - 1] \o pieces[k])
                <5>1. f[k - 1] \in Seq(S) /\ pieces[k] \in Seq(S)
                    BY <1>7, <4>2
                <5>2. \A t, u \in Seq(S) : (piece \o t) \o u = piece \o (t \o u)
                    BY ConcatAssociative
                <5>3. QED BY <5>1, <5>2, Zenon
            <4>6. QED BY <3>2, <4>2, <4>3, <4>4, <4>5
        <3>5. QED BY <3>3, <3>4
    <2> HIDE DEF good
    <2>2. 1 \in Int /\ n \in Int
        BY <1>1
    <2>3. QED BY <2>1, <2>2, ForwardInduction, Zenon
<1>9. CASE n = 0
    <2>1. pieces = << >>
        BY <1>9, EmptySeq DEF n
    <2>2. FlattenSeq(pieces) = << >>
        BY <2>1 DEF FlattenSeq
    <2>3. g[n + 1] = piece
        BY <1>2, <1>6, <1>9
    <2>4. QED BY <1>6, <2>2, <2>3, ConcatEmptySeq DEF more
<1>10. CASE n > 0
    <2>1. n \in 1 .. n
        BY <1>1, <1>10
    <2>2. n \in good
        <3> HIDE DEF good
        <3>1. QED BY <1>8, <2>1
    <2>3. f[n] \in Seq(S) /\ g[n + 1] = piece \o f[n]
        BY <2>2
    <2>4. QED BY <1>5, <1>6, <1>10, <2>3 DEF more
<1>11. n = 0 \/ n > 0
    BY <1>1
<1>12. QED BY <1>9, <1>10, <1>11

LEMMA DoubledInFront ==
    ASSUME NEW S, Quote \in S, NEW t \in Seq(S), NEW c \in S
    PROVE  /\ Doubled(t) \in Seq(S)
           /\ Doubled(<<c>> \o t) =
                  (IF c = Quote THEN <<Quote, Quote>> ELSE <<c>>) \o Doubled(t)
<1> DEFINE n == Len(t)
           one(d) == IF d = Quote THEN <<Quote, Quote>> ELSE <<d>>
           pieces == [i \in 1 .. n |-> one(t[i])]
           u == <<c>> \o t
           all == [i \in 1 .. Len(u) |-> one(u[i])]
<1>1. n \in Nat /\ \A i \in 1 .. n : t[i] \in S
    BY LenProperties, ElementOfSeq
<1>2. \A d \in S : one(d) \in Seq(S)
    OBVIOUS
<1>3. Len(u) = n + 1 /\ u[1] = c /\ \A i \in 2 .. n + 1 : u[i] = t[i - 1]
    <2>1. <<c>> \in Seq(S) /\ Len(<<c>>) = 1 /\ <<c>>[1] = c
        OBVIOUS
    <2>2. /\ Len(u) = Len(<<c>>) + n
          /\ \A i \in 1 .. Len(<<c>>) + n :
                 u[i] = IF i <= Len(<<c>>) THEN <<c>>[i] ELSE t[i - Len(<<c>>)]
        BY <2>1, ConcatProperties
    <2> HIDE DEF u
    <2>3. QED BY <1>1, <2>1, <2>2
<1>4. pieces \in Seq(Seq(S)) /\ Len(pieces) = n
    <2> HIDE DEF n, one
    <2>1. \A i \in 1 .. n : one(t[i]) \in Seq(S)
        BY <1>1, <1>2
    <2>2. QED BY <1>1, <2>1
<1>5. all = <<one(c)>> \o pieces
    <2> DEFINE w == <<one(c)>> \o pieces
    <2>1. one(c) \in Seq(S) /\ <<one(c)>> \in Seq(Seq(S)) /\ Len(<<one(c)>>) = 1
          /\ <<one(c)>>[1] = one(c)
        <3> HIDE DEF one
        <3>1. one(c) \in Seq(S)
            BY <1>2
        <3>2. QED BY <3>1
    <2> HIDE DEF one, n
    <2>2. \A i \in 1 .. n : pieces[i] = one(t[i])
        OBVIOUS
    <2> HIDE DEF pieces
    <2>3. /\ w \in Seq(Seq(S)) /\ Len(w) = n + 1
          /\ \A i \in 1 .. n + 1 : w[i] = IF i <= 1 THEN one(c) ELSE pieces[i - 1]
        <3>1. /\ w \in Seq(Seq(S)) /\ Len(w) = Len(<<one(c)>>) + n
              /\ \A i \in 1 .. Len(<<one(c)>>) + n :
                     w[i] = IF i <= Len(<<one(c)>>) THEN <<one(c)>>[i]
                            ELSE pieces[i - Len(<<one(c)>>)]
            BY <1>4, <2>1, ConcatProperties
        <3> HIDE DEF w
        <3>2. QED BY <1>1, <2>1, <3>1
    <2> HIDE DEF w, u
    <2>4. ASSUME NEW i \in 1 .. n + 1
          PROVE  one(u[i]) = w[i]
        <3>1. CASE i = 1
            BY <1>3, <2>3, <3>1
        <3>2. CASE i # 1
            <4>1. i \in 2 .. n + 1 /\ ~(i <= 1) /\ i - 1 \in 1 .. n
                BY <1>1, <3>2
            <4>2. QED BY <1>3, <2>2, <2>3, <4>1
        <3>3. QED BY <3>1, <3>2
    <2>5. all = [i \in 1 .. n + 1 |-> w[i]]
        BY <1>3, <2>4
    <2>6. w = [i \in 1 .. n + 1 |-> w[i]]
        BY <2>3
    <2>7. QED BY <2>5, <2>6 DEF w
<1>6. Doubled(t) = FlattenSeq(pieces) /\ Doubled(u) = FlattenSeq(all)
    BY DEF Doubled
<1>7. one(c) \in Seq(S)
    <2> HIDE DEF one
    <2>1. QED BY <1>2
<1> HIDE DEF pieces, all, one
<1>8. QED BY <1>4, <1>5, <1>6, <1>7, FlattenInFront DEF one

(* The converses of PairsAfterOther and PairsAfterPair.                     *)
LEMMA PairsBehind ==
    ASSUME NEW s, NEW q \in Int, NEW end \in Int, q <= end, QuotesPaired(s, q, end)
    PROVE  /\ s[q] # Quote => QuotesPaired(s, q + 1, end)
           /\ s[q] = Quote => q + 1 <= end /\ s[q + 1] = Quote /\ QuotesPaired(s, q + 2, end)
<1>1. ASSUME s[q] # Quote
      PROVE  QuotesPaired(s, q + 1, end)
    <2> SUFFICES ASSUME NEW i \in q + 1 .. end, NEW j \in i .. end,
                        \A k \in i .. j : s[k] = Quote,
                        i > q + 1 => s[i - 1] # Quote,
                        j < end => s[j + 1] # Quote
                 PROVE  (j - i) % 2 = 1
        BY DEF QuotesPaired
    <2>1. i \in q .. end /\ (i > q => s[i - 1] # Quote)
        BY <1>1
    <2>2. QED BY <2>1 DEF QuotesPaired
<1>2. ASSUME s[q] = Quote
      PROVE  q + 1 <= end /\ s[q + 1] = Quote
    <2> SUFFICES ASSUME ~(q + 1 <= end /\ s[q + 1] = Quote)
                 PROVE  FALSE
        OBVIOUS
    <2>1. q \in q .. end /\ ~(q > q) /\ (q < end => s[q + 1] # Quote) /\ \A k \in q .. q : k = q
        OBVIOUS
    <2>2. (q - q) % 2 = 1
        BY <1>2, <2>1 DEF QuotesPaired
    <2>3. QED BY <2>2
<1>3. ASSUME s[q] = Quote
      PROVE  QuotesPaired(s, q + 2, end)
    <2> SUFFICES ASSUME NEW i \in q + 2 .. end, NEW j \in i .. end,
                        \A k \in i .. j : s[k] = Quote,
                        i > q + 2 => s[i - 1] # Quote,
                        j < end => s[j + 1] # Quote
                 PROVE  (j - i) % 2 = 1
        BY DEF QuotesPaired
    <2>1. CASE i = q + 2
        <3>1. q \in q .. end /\ j \in q .. end /\ ~(q > q)
            BY <2>1
        <3>2. \A k \in q .. j : k = q \/ k = q + 1 \/ k \in i .. j
            BY <2>1
        <3>3. (j - q) % 2 = 1
            BY <1>2, <1>3, <3>1, <3>2 DEF QuotesPaired
        <3>4. QED BY <2>1, <3>3
    <2>2. CASE i # q + 2
        <3>1. i \in q .. end /\ s[i - 1] # Quote
            BY <2>2
        <3>2. QED BY <3>1 DEF QuotesPaired
    <2>3. QED BY <2>1, <2>2
<1>4. QED BY <1>1, <1>2, <1>3

(* The loop of decode_string_literal.                                      *)
IsPair(s, q) == s[q] = Quote /\ s[q + 1] = Quote
DecodeStep(s, from, q) ==
    IF q >= Len(s) THEN << >>
    ELSE IF IsPair(s, q) THEN <<Quote>> \o from[q + 2]
    ELSE <<s[q]>> \o from[q + 1]
DecodesFrom(from, s) == \A q \in 2 .. Len(s) + 1 : from[q] = DecodeStep(s, from, q)

LEMMA DecodeStepwise ==
    ASSUME NEW s, Len(s) \in Nat, Len(s) >= 2, s[1] = Quote, s[Len(s)] = Quote
    PROVE  \E from : DecodesFrom(from, s) /\ DecodeStringLiteral(s) = from[2]
<1> DEFINE m == Len(s)
           stop == {q \in 2 .. m + 1 : q >= m}
           value == [q \in 2 .. m + 1 |-> << >>]
           jump == [q \in 2 .. m + 1 |-> IF IsPair(s, q) THEN q + 2 ELSE q + 1]
           prefix == [q \in 2 .. m + 1 |-> IF IsPair(s, q) THEN <<Quote>> ELSE <<s[q]>>]
           Equation(f) == f = [q \in 2 .. m + 1 |-> DecodeStep(s, f, q)]
           from[q \in 2 .. m + 1] == DecodeStep(s, from, q)
<1>1. m \in Nat /\ 2 \in Int /\ m + 1 \in Int
    OBVIOUS
<1>2. \E f : Builds(f, 2, m + 1, stop, value, jump, prefix)
    <2>1. ASSUME NEW q \in 2 .. m + 1, q \notin stop
          PROVE  jump[q] \in q + 1 .. m + 1
        <3>1. jump[q] = IF IsPair(s, q) THEN q + 2 ELSE q + 1
            OBVIOUS
        <3>2. q < m
            BY <1>1, <2>1
        <3> HIDE DEF jump, m
        <3>3. q + 2 \in q + 1 .. m + 1 /\ q + 1 \in q + 1 .. m + 1
            BY <1>1, <3>2
        <3>4. QED BY <3>1, <3>3
    <2> HIDE DEF stop, value, jump, prefix, m
    <2>2. QED BY <1>1, <2>1, BuildExists
<1>3. \E f : Equation(f)
    <2>1. PICK f : Builds(f, 2, m + 1, stop, value, jump, prefix)
        BY <1>2
    <2>2. ASSUME NEW q \in 2 .. m + 1
          PROVE  (IF q \in stop THEN value[q] ELSE prefix[q] \o f[jump[q]]) = DecodeStep(s, f, q)
        <3>1. value[q] = << >> /\ (q \in stop <=> q >= m)
            OBVIOUS
        <3>2. jump[q] = IF IsPair(s, q) THEN q + 2 ELSE q + 1
            OBVIOUS
        <3>3. prefix[q] = IF IsPair(s, q) THEN <<Quote>> ELSE <<s[q]>>
            OBVIOUS
        <3> HIDE DEF value, jump, stop, prefix
        <3>4. QED BY <3>1, <3>2, <3>3 DEF DecodeStep
    <2>3. f = [q \in 2 .. m + 1 |-> IF q \in stop THEN value[q] ELSE prefix[q] \o f[jump[q]]]
        BY <2>1 DEF Builds
    <2> HIDE DEF stop, value, jump, prefix, m
    <2>4. [q \in 2 .. m + 1 |-> IF q \in stop THEN value[q] ELSE prefix[q] \o f[jump[q]]]
              = [q \in 2 .. m + 1 |-> DecodeStep(s, f, q)]
        BY <2>2
    <2>5. Equation(f)
        BY <2>3, <2>4
    <2>6. QED BY <2>5
<1>4. Equation(from)
    BY ONLY <1>3, Zenon
<1>5. DecodesFrom(from, s)
    BY <1>4 DEF DecodesFrom
<1>6. DecodeStringLiteral(s) = from[2]
    BY DEF DecodeStringLiteral, DecodeStep, IsPair
<1>7. QED BY <1>5, <1>6

(* Decoding undoes the doubling, from every quote or character on that     *)
(* begins a pair.                                                          *)
LEMMA DecodeFacts ==
    ASSUME NEW S, Quote \in S, NEW s \in Seq(S), IsStringLiteral(s)
    PROVE  Enclosed(DecodeStringLiteral(s)) = s
<1> DEFINE m == Len(s)
           rest(q) == SubSeq(s, q, m - 1)
<1>1. m \in Nat /\ m >= 2 /\ s[1] = Quote /\ s[m] = Quote /\ QuotesPaired(s, 2, m - 1)
    BY LenProperties DEF IsStringLiteral
<1>2. PICK from : DecodesFrom(from, s) /\ DecodeStringLiteral(s) = from[2]
    BY <1>1, DecodeStepwise
<1> DEFINE good == {q \in 2 .. m : QuotesPaired(s, q, m - 1) =>
                                       from[q] \in Seq(S) /\ Doubled(from[q]) = rest(q)}
<1>3. ASSUME NEW q \in 2 .. m, \A r \in q + 1 .. m : r \in good
      PROVE  q \in good
    <2> SUFFICES ASSUME QuotesPaired(s, q, m - 1)
                 PROVE  from[q] \in Seq(S) /\ Doubled(from[q]) = rest(q)
        OBVIOUS
    <2>1. q \in 2 .. m + 1 /\ q \in Int /\ m - 1 \in Int
        BY <1>1
    <2>2. from[q] = DecodeStep(s, from, q)
        BY <1>2, <2>1 DEF DecodesFrom
    <2>3. CASE q = m
        <3>1. q >= Len(s) /\ m - 1 < q
            BY <1>1, <2>3
        <3>2. from[q] = << >>
            BY <2>2, <3>1 DEF DecodeStep
        <3>3. rest(q) = << >>
            BY <2>1, <3>1, SubSeqEmpty
        <3>4. Doubled(<< >>) = << >>
            <4>1. [i \in 1 .. Len(<< >>) |-> IF << >>[i] = Quote THEN <<Quote, Quote>>
                                             ELSE << << >>[i] >>] = << >>
                OBVIOUS
            <4>2. FlattenSeq(<< >>) = << >>
                BY DEF FlattenSeq
            <4>3. QED BY <4>1, <4>2 DEF Doubled
        <3>5. << >> \in Seq(S)
            OBVIOUS
        <3> HIDE DEF rest
        <3>6. QED BY <3>2, <3>3, <3>4, <3>5
    <2>4. CASE q # m
        <3>1. ~(q >= Len(s)) /\ q <= m - 1
            BY <1>1, <2>4
        <3>2. s[q] \in S /\ rest(q) = <<s[q]>> \o rest(q + 1)
            <4>1. q \in 1 .. Len(s) /\ m - 1 \in q .. Len(s)
                BY <1>1, <3>1
            <4>2. s[q] \in S
                BY <4>1, ElementOfSeq
            <4>3. SubSeq(s, q, m - 1) = <<s[q]>> \o SubSeq(s, q + 1, m - 1)
                BY <4>1, SubSeqRecursiveFirst
            <4>4. QED BY <4>2, <4>3
        <3>3. CASE s[q] # Quote
            <4>1. from[q] = <<s[q]>> \o from[q + 1]
                BY <2>2, <3>1, <3>3 DEF DecodeStep, IsPair
            <4>2. QuotesPaired(s, q + 1, m - 1)
                BY <2>1, <3>1, <3>3, PairsBehind
            <4>3. q + 1 \in q + 1 .. m
                BY <1>1, <3>1
            <4>4. from[q + 1] \in Seq(S) /\ Doubled(from[q + 1]) = rest(q + 1)
                BY <1>3, <4>2, <4>3
            <4> HIDE DEF rest, m
            <4>5. Doubled(<<s[q]>> \o from[q + 1]) = <<s[q]>> \o Doubled(from[q + 1])
                BY <3>2, <3>3, <4>4, DoubledInFront
            <4>6. <<s[q]>> \o from[q + 1] \in Seq(S)
                BY <3>2, <4>4
            <4>7. QED BY <3>2, <4>1, <4>4, <4>5, <4>6
        <3>4. CASE s[q] = Quote
            <4>1. q + 1 <= m - 1 /\ s[q + 1] = Quote /\ QuotesPaired(s, q + 2, m - 1)
                BY <2>1, <3>1, <3>4, PairsBehind
            <4>2. from[q] = <<Quote>> \o from[q + 2]
                BY <2>2, <3>1, <3>4, <4>1 DEF DecodeStep, IsPair
            <4>3. q + 2 \in q + 1 .. m
                BY <1>1, <4>1
            <4>4. from[q + 2] \in Seq(S) /\ Doubled(from[q + 2]) = rest(q + 2)
                BY <1>3, <4>1, <4>3
            <4>5. rest(q + 1) = <<Quote>> \o rest(q + 2)
                <5>1. q + 1 \in 1 .. Len(s) /\ m - 1 \in q + 1 .. Len(s) /\ q + 1 + 1 = q + 2
                    BY <1>1, <4>1
                <5>2. SubSeq(s, q + 1, m - 1) = <<s[q + 1]>> \o SubSeq(s, q + 1 + 1, m - 1)
                    BY <5>1, SubSeqRecursiveFirst
                <5>3. QED BY <4>1, <5>1, <5>2
            <4>6. rest(q + 2) \in Seq(S)
                <5>1. q + 2 \in 1 .. Len(s) + 1 /\ m - 1 \in q + 2 - 1 .. Len(s)
                    BY <1>1, <4>1
                <5>2. QED BY <5>1, PieceFacts
            <4> HIDE DEF rest, m
            <4>7. Doubled(<<Quote>> \o from[q + 2]) = <<Quote, Quote>> \o Doubled(from[q + 2])
                BY <4>4, DoubledInFront
            <4>8. <<Quote>> \o from[q + 2] \in Seq(S)
                BY <4>4
            <4>9. <<Quote>> \o (<<Quote>> \o rest(q + 2)) = <<Quote, Quote>> \o rest(q + 2)
                <5>1. \A c \in S : \A u \in Seq(S) : <<c>> \o (<<c>> \o u) = <<c, c>> \o u
                    OBVIOUS
                <5>2. QED BY <4>6, <5>1
            <4>10. QED BY <3>2, <3>4, <4>2, <4>4, <4>5, <4>7, <4>8, <4>9
        <3>5. QED BY <3>3, <3>4
    <2>5. QED BY <2>3, <2>4
<1>4. \A q \in 2 .. m : q \in good
    <2>1. 2 \in Int /\ m \in Int
        BY <1>1
    <2> HIDE DEF good
    <2>2. QED BY <1>3, <2>1, BackwardInduction, Zenon
<1>5. Doubled(from[2]) = rest(2)
    <2>1. 2 \in 2 .. m
        BY <1>1
    <2>2. 2 \in good
        <3> HIDE DEF good
        <3>1. QED BY <1>4, <2>1
    <2>3. QED BY <1>1, <2>2
<1>6. s = <<Quote>> \o rest(2) \o <<Quote>>
    <2>1. SubSeq(s, 1, m) = SubSeq(s, 1, m - 1) \o <<s[m]>>
        <3>1. 1 \in 1 .. Len(s) /\ m \in 1 .. Len(s)
            BY <1>1
        <3>2. QED BY <3>1, SubSeqRecursiveSecond
    <2>2. SubSeq(s, 1, m - 1) = <<s[1]>> \o SubSeq(s, 2, m - 1)
        <3>1. 1 \in 1 .. Len(s) /\ m - 1 \in 1 .. Len(s) /\ 1 + 1 = 2
            BY <1>1
        <3>2. SubSeq(s, 1, m - 1) = <<s[1]>> \o SubSeq(s, 1 + 1, m - 1)
            BY <3>1, SubSeqRecursiveFirst
        <3>3. QED BY <3>1, <3>2
    <2>3. SubSeq(s, 1, m) = s
        BY SubSeqFull
    <2> HIDE DEF m
    <2>4. QED BY <1>1, <2>1, <2>2, <2>3
<1>7. QED BY <1>2, <1>5, <1>6 DEF Enclosed

(* A token of the kind StringLiteral is one.                               *)
LEMMA StringLiterals ==
    ASSUME NEW s, Len(s) \in Nat, Belongs(s, "StringLiteral")
    PROVE  IsStringLiteral(s)
<1>1. ~(IsMark(s) /\ "StringLiteral" = IF Len(s) = 1 THEN Marks[s[1]] ELSE CompoundMarks[s])
    <2> SUFFICES ASSUME IsMark(s),
                        "StringLiteral" = IF Len(s) = 1 THEN Marks[s[1]] ELSE CompoundMarks[s]
                 PROVE  FALSE
        OBVIOUS
    <2>1. CASE s \in DOMAIN CompoundMarks
        <3>1. CompoundMarks[s] # "StringLiteral" 
            BY <2>1, Zenon DEF CompoundMarks
        <3>2. Len(s) # 1
            BY <2>1, CompoundMarksArePairs
        <3>3. QED BY <3>1, <3>2
    <2>2. CASE Len(s) = 1 /\ s[1] \in DOMAIN Marks
        <3>1. \A c \in DOMAIN Marks : Marks[c] # "StringLiteral"
            BY Zenon DEF Marks
        <3>2. QED BY <2>2, <3>1
    <2>3. QED BY <2>1, <2>2 DEF IsMark
<1>2. "StringLiteral" # ClassifyKeyword(s)
    BY KeywordsAssumption DEF ClassifyKeyword
<1>3. QED BY <1>1, <1>2 DEF Belongs

(* Decoding the string literals the scanner finds undoes their quoting.    *)
THEOREM DecodingUndoesQuoting == ScanSpec => []DecodesText
<1>1. ScanInv => DecodesText
    <2> SUFFICES ASSUME ScanInv, tokens # << >>, Last(tokens).kind = "StringLiteral"
                 PROVE  Enclosed(DecodeStringLiteral(Last(tokens).lexeme)) = Last(tokens).lexeme
        BY DEF DecodesText
    <2> DEFINE token == Last(tokens)
    <2>1. token \in Token
        <3>1. tokens \in Seq(Token) /\ Len(tokens) \in Nat
            BY LenProperties DEF ScanInv, ScanTypeOK
        <3>2. Len(tokens) \in 1 .. Len(tokens)
            BY <3>1, EmptySeq
        <3>3. QED BY <3>1, <3>2, ElementOfSeq DEF Last
    <2>2. token.lexeme \in Seq(STRING) /\ Len(token.lexeme) \in Nat
        BY <2>1, LenProperties DEF Token
    <2>3. Belongs(token.lexeme, "StringLiteral")
        BY DEF ScanInv, LexemesInLanguage, IsToken
    <2> HIDE DEF token
    <2>4. IsStringLiteral(token.lexeme)
        BY <2>2, <2>3, StringLiterals
    <2>5. token.lexeme \in Seq(STRING \cup {Quote})
        BY <2>2, ElementOfSeq, LenProperties
    <2>6. Quote \in STRING \cup {Quote}
        OBVIOUS
    <2>7. QED BY <2>4, <2>5, <2>6, DecodeFacts DEF token
<1>2. QED BY <1>1, ScanInvariant, PTL

-----------------------------------------------------------------------------
(***************************************************************************)
(* Recursion.  Each recursive function of the scanner and the parser is    *)
(* given by what it makes of the values at positions of lower rank.        *)
(***************************************************************************)
At(which, f, q, ts, x, y) ==
    IF which = "place"
    THEN IF q = 1 THEN StartOfText ELSE Advance(f[q - 1], ts[q - 1])
    ELSE IF which = "tokens"
    THEN LET next == NextToken(ts, x[q])
         IN  IF next.token.kind = "EndOfFile" THEN <<next.token>>
             ELSE <<next.token>> \o f[next.place.pos]
    ELSE IF which = "value"
    THEN IF q = 0 THEN 0 ELSE 10 * f[q - 1] + DigitValue[ts[q]]
    ELSE IF which = "list"
    THEN ListFrom(ts, x, y[q], f)
    ELSE IF which = "tree"
    THEN IF q = 1 THEN x[1] ELSE Binary(y, f[q - 1], x[q])
    ELSE IF which = "derived"
    THEN Rule(ts, f, q[1], q[2], q[3])
    ELSE ParseOr(ts, [r \in q + 1 .. Len(ts) |-> f[r]], q)

(* f satisfies the equation on D, and the equation only looks down.        *)
Solves(which, f, D, ts, x, y) == f = [q \in D |-> At(which, f, q, ts, x, y)]

Agree(f, g, D, rank, k) == \A q \in D : rank[q] < k => f[q] = g[q]
LooksDown(which, D, rank, ts, x, y) ==
    \A f, g : \A q \in D :
        Agree(f, g, D, rank, rank[q]) => At(which, f, q, ts, x, y) = At(which, g, q, ts, x, y)

LEMMA SolutionExists ==
    ASSUME NEW which, NEW D, NEW N \in Nat, NEW rank \in [D -> 0 .. N],
           NEW ts, NEW x, NEW y, LooksDown(which, D, rank, ts, x, y)
    PROVE  \E f : Solves(which, f, D, ts, x, y)
<1> DEFINE Right(f, k) == /\ f = [q \in D |-> f[q]]
                          /\ \A q \in D : rank[q] < k => f[q] = At(which, f, q, ts, x, y)
           T == {k \in Nat : \E f : Right(f, k)}
<1>1. 0 \in T
    <2>1. Right([q \in D |-> q], 0)
        OBVIOUS
    <2>2. QED BY <2>1
<1>2. \A k \in T : k + 1 \in T
    <2> TAKE k \in T
    <2>1. k \in Nat /\ k + 1 \in Nat
        OBVIOUS
    <2>2. PICK f : Right(f, k)
        OBVIOUS
    <2> DEFINE g == [q \in D |-> At(which, f, q, ts, x, y)]
    <2>3. \A q \in D : g[q] = At(which, f, q, ts, x, y)
        BY Zenon
    <2>4. g = [q \in D |-> g[q]]
        BY Zenon
    <2>5. \A q \in D : rank[q] < k => f[q] = At(which, f, q, ts, x, y)
        BY <2>2
    <2> HIDE DEF g, T, Right
    <2>6. ASSUME NEW q \in D, rank[q] < k + 1
          PROVE  g[q] = At(which, g, q, ts, x, y)
        <3>1. Agree(f, g, D, rank, rank[q])
            <4>1. ASSUME NEW r \in D, rank[r] < rank[q]
                  PROVE  rank[r] < k
                BY <2>1, <2>6, <4>1
            <4>2. QED BY <2>3, <2>5, <4>1 DEF Agree
        <3>2. At(which, f, q, ts, x, y) = At(which, g, q, ts, x, y)
            BY <3>1, Zenon DEF LooksDown
        <3>3. QED BY <2>3, <3>2
    <2>7. Right(g, k + 1)
        BY <2>4, <2>6 DEF Right
    <2>8. QED BY <2>1, <2>7 DEF T
<1>3. N + 1 \in T
    <2>1. T \in SUBSET Nat
        OBVIOUS
    <2> HIDE DEF T
    <2>2. QED BY <1>1, <1>2, <2>1, NatSetInduction
<1>4. PICK f : Right(f, N + 1)
    BY <1>3
<1>5. \A q \in D : f[q] = At(which, f, q, ts, x, y)
    BY <1>4
<1>6. f = [q \in D |-> f[q]]
    BY <1>4
<1>7. QED BY <1>5, <1>6, Zenon DEF Solves

(* The ranks of positions: towards the end, or towards the beginning.      *)
LEMMA Backwards ==
    ASSUME NEW low \in Int, NEW high \in Int
    PROVE  \E N \in Nat : \E rank \in [low .. high -> 0 .. N] :
               \A q, r \in low .. high : rank[r] < rank[q] <=> q < r
<1> DEFINE N == IF low <= high THEN high - low ELSE 0
           rank == [q \in low .. high |-> high - q]
<1>1. N \in Nat
    OBVIOUS
<1>2. rank \in [low .. high -> 0 .. N]
    OBVIOUS
<1>3. \A q, r \in low .. high : rank[r] < rank[q] <=> q < r
    OBVIOUS
<1> HIDE DEF N, rank
<1>4. QED BY <1>1, <1>2, <1>3

LEMMA Forwards ==
    ASSUME NEW low \in Int, NEW high \in Int
    PROVE  \E N \in Nat : \E rank \in [low .. high -> 0 .. N] :
               \A q, r \in low .. high : rank[r] < rank[q] <=> r < q
<1> DEFINE N == IF low <= high THEN high - low ELSE 0
           rank == [q \in low .. high |-> q - low]
<1>1. N \in Nat
    OBVIOUS
<1>2. rank \in [low .. high -> 0 .. N]
    OBVIOUS
<1>3. \A q, r \in low .. high : rank[r] < rank[q] <=> r < q
    OBVIOUS
<1> HIDE DEF N, rank
<1>4. QED BY <1>1, <1>2, <1>3

(* An equation that looks at later positions only, or at earlier ones, has *)
(* a solution.                                                             *)
LooksAhead(which, low, high, ts, x, y) ==
    \A f, g : \A q \in low .. high :
        (\A r \in low .. high : q < r => f[r] = g[r]) =>
            At(which, f, q, ts, x, y) = At(which, g, q, ts, x, y)
LooksBack(which, low, high, ts, x, y) ==
    \A f, g : \A q \in low .. high :
        (\A r \in low .. high : r < q => f[r] = g[r]) =>
            At(which, f, q, ts, x, y) = At(which, g, q, ts, x, y)

LEMMA AheadExists ==
    ASSUME NEW which, NEW low \in Int, NEW high \in Int, NEW ts, NEW x, NEW y,
           LooksAhead(which, low, high, ts, x, y)
    PROVE  \E f : Solves(which, f, low .. high, ts, x, y)
<1>0. PICK N \in Nat : \E rank \in [low .. high -> 0 .. N] :
          \A q, r \in low .. high : rank[r] < rank[q] <=> q < r
    BY Backwards
<1>1. PICK rank \in [low .. high -> 0 .. N] :
          \A q, r \in low .. high : rank[r] < rank[q] <=> q < r
    BY <1>0
<1>2. LooksDown(which, low .. high, rank, ts, x, y)
    BY <1>1, Zenon DEF LooksDown, LooksAhead, Agree
<1>3. QED BY <1>2, SolutionExists

LEMMA BackExists ==
    ASSUME NEW which, NEW low \in Int, NEW high \in Int, NEW ts, NEW x, NEW y,
           LooksBack(which, low, high, ts, x, y)
    PROVE  \E f : Solves(which, f, low .. high, ts, x, y)
<1>0. PICK N \in Nat : \E rank \in [low .. high -> 0 .. N] :
          \A q, r \in low .. high : rank[r] < rank[q] <=> r < q
    BY Forwards
<1>1. PICK rank \in [low .. high -> 0 .. N] :
          \A q, r \in low .. high : rank[r] < rank[q] <=> r < q
    BY <1>0
<1>2. LooksDown(which, low .. high, rank, ts, x, y)
    BY <1>1, Zenon DEF LooksDown, LooksBack, Agree
<1>3. QED BY <1>2, SolutionExists

-----------------------------------------------------------------------------
(***************************************************************************)
(* The parser: where a call stops, and what it makes.                      *)
(***************************************************************************)

(* The value of a literal is a number.                                     *)
LEMMA DecimalIsNumber ==
    ASSUME NEW lexeme \in Seq(Digits)
    PROVE  DecimalValue(lexeme) \in Nat
<1> DEFINE n == Len(lexeme)
           value[k \in 0 .. n] == IF k = 0 THEN 0 ELSE 10 * value[k - 1] + DigitValue[lexeme[k]]
<1>1. n \in Nat /\ \A k \in 1 .. n : DigitValue[lexeme[k]] \in Nat
    <2>1. \A k \in 1 .. n : lexeme[k] \in Digits
        BY ElementOfSeq
    <2>2. \A d \in Digits : DigitValue[d] \in 0 .. 9
        BY DigitValueAssumption
    <2>3. QED BY <2>1, <2>2, LenProperties
<1>2. \E f : f = [k \in 0 .. n |-> IF k = 0 THEN 0 ELSE 10 * f[k - 1] + DigitValue[lexeme[k]]]
    <2>1. LooksBack("value", 0, n, lexeme, 0, 0)
        <3> SUFFICES ASSUME NEW f, NEW g, NEW q \in 0 .. n,
                            \A r \in 0 .. n : r < q => f[r] = g[r]
                     PROVE  At("value", f, q, lexeme, 0, 0) = At("value", g, q, lexeme, 0, 0)
            BY DEF LooksBack
        <3>1. q # 0 => f[q - 1] = g[q - 1]
            <4>1. q # 0 => q - 1 \in 0 .. n /\ q - 1 < q
                BY <1>1
            <4>2. QED BY <4>1
        <3>2. CASE q = 0
            BY <3>2 DEF At
        <3>3. CASE q # 0
            BY <3>1, <3>3 DEF At
        <3>4. QED BY <3>2, <3>3
    <2>2. PICK f : Solves("value", f, 0 .. n, lexeme, 0, 0)
        <3>1. 0 \in Int /\ n \in Int
            BY <1>1
        <3> HIDE DEF n
        <3>2. QED BY <2>1, <3>1, BackExists
    <2>3. f = [k \in 0 .. n |-> IF k = 0 THEN 0 ELSE 10 * f[k - 1] + DigitValue[lexeme[k]]]
        BY <2>2 DEF Solves, At
    <2>4. QED BY <2>3
<1>3. value = [k \in 0 .. n |-> IF k = 0 THEN 0 ELSE 10 * value[k - 1] + DigitValue[lexeme[k]]]
    BY ONLY <1>2, Zenon
<1>4. DecimalValue(lexeme) = value[n]
    BY DEF DecimalValue
<1> HIDE DEF value, n
<1> DEFINE good == {k \in 0 .. n : value[k] \in Nat}
<1>5. \A k \in 0 .. n : k \in good
    <2>1. ASSUME NEW k \in 0 .. n, \A r \in 0 .. k - 1 : r \in good
          PROVE  k \in good
        <3>1. CASE k = 0
            BY <1>1, <1>3, <3>1
        <3>2. CASE k # 0
            <4>1. k - 1 \in 0 .. k - 1 /\ k \in 1 .. n
                BY <1>1, <3>2
            <4>2. value[k - 1] \in Nat /\ DigitValue[lexeme[k]] \in Nat
                BY <1>1, <2>1, <4>1
            <4>3. value[k] = 10 * value[k - 1] + DigitValue[lexeme[k]]
                BY <1>3, <3>2
            <4>4. QED BY <4>2, <4>3
        <3>3. QED BY <3>1, <3>2
    <2> HIDE DEF good
    <2>2. 0 \in Int /\ n \in Int
        BY <1>1
    <2>3. QED BY <2>1, <2>2, ForwardInduction, Zenon
<1>6. QED BY <1>1, <1>4, <1>5

(* Operands with an operator between them make a tree.                     *)
AreTrees(operands) == \A i \in 1 .. Len(operands) : IsTree(operands[i])

LEMMA LeftTreeIsTree ==
    ASSUME NEW operands, Len(operands) \in Nat \ {0}, AreTrees(operands),
           NEW op \in ComparisonOperators \cup Logical
    PROVE  IsTree(LeftTree(op, operands))
<1> DEFINE n == Len(operands)
           tree[k \in 1 .. n] ==
               IF k = 1 THEN operands[1] ELSE Binary(op, tree[k - 1], operands[k])
<1>1. n \in Nat /\ n \in 1 .. n
    OBVIOUS
<1>2. \E f : f = [k \in 1 .. n |->
                    IF k = 1 THEN operands[1] ELSE Binary(op, f[k - 1], operands[k])]
    <2>1. LooksBack("tree", 1, n, << >>, operands, op)
        <3> SUFFICES ASSUME NEW f, NEW g, NEW q \in 1 .. n,
                            \A r \in 1 .. n : r < q => f[r] = g[r]
                     PROVE  At("tree", f, q, << >>, operands, op)
                              = At("tree", g, q, << >>, operands, op)
            BY DEF LooksBack
        <3>1. q # 1 => f[q - 1] = g[q - 1]
            <4>1. q # 1 => q - 1 \in 1 .. n /\ q - 1 < q
                BY <1>1
            <4>2. QED BY <4>1
        <3>2. CASE q = 1
            BY <3>2 DEF At
        <3>3. CASE q # 1
            BY <3>1, <3>3 DEF At
        <3>4. QED BY <3>2, <3>3
    <2>2. PICK f : Solves("tree", f, 1 .. n, << >>, operands, op)
        <3>1. 1 \in Int /\ n \in Int
            BY <1>1
        <3> HIDE DEF n
        <3>2. QED BY <2>1, <3>1, BackExists
    <2>3. f = [k \in 1 .. n |->
                 IF k = 1 THEN operands[1] ELSE Binary(op, f[k - 1], operands[k])]
        BY <2>2 DEF Solves, At
    <2>4. QED BY <2>3
<1>3. tree = [k \in 1 .. n |->
                IF k = 1 THEN operands[1] ELSE Binary(op, tree[k - 1], operands[k])]
    BY ONLY <1>2, Zenon
<1>4. LeftTree(op, operands) = tree[n]
    BY DEF LeftTree
<1> HIDE DEF tree
<1> DEFINE good == {k \in 1 .. n : IsTree(tree[k])}
<1>5. \A k \in 1 .. n : k \in good
    <2>1. ASSUME NEW k \in 1 .. n, \A r \in 1 .. k - 1 : r \in good
          PROVE  k \in good
        <3>1. CASE k = 1
            <4>1. tree[k] = operands[1]
                BY <1>3, <3>1
            <4>2. QED BY <1>1, <3>1, <4>1 DEF AreTrees
        <3>2. CASE k # 1
            <4>1. k - 1 \in 1 .. k - 1
                BY <1>1, <3>2
            <4>2. IsTree(tree[k - 1]) /\ IsTree(operands[k])
                BY <2>1, <4>1 DEF AreTrees
            <4>3. tree[k] = Binary(op, tree[k - 1], operands[k])
                BY <1>3, <3>2
            <4>4. QED BY <4>2, <4>3, BinaryIsTree
        <3>3. QED BY <3>1, <3>2
    <2> HIDE DEF good
    <2>2. 1 \in Int /\ n \in Int
        BY <1>1
    <2>3. QED BY <2>1, <2>2, ForwardInduction, Zenon
<1> HIDE DEF n
<1>6. QED BY <1>1, <1>4, <1>5

(* What the scanner delivers, as far as the parser depends on it: the end  *)
(* comes last and only there, and names and numbers are not empty.         *)
IsScan(ts) ==
    /\ Len(ts) \in Nat \ {0}
    /\ \A p \in 1 .. Len(ts) :
          /\ Kind(ts, p) = "EndOfFile" <=> p = Len(ts)
          /\ Kind(ts, p) = "Identifier" => ts[p].lexeme # EmptyName
          /\ Kind(ts, p) = "IntegerLiteral" => ts[p].lexeme \in Seq(Digits)

(* How many parentheses are open, step by step.                            *)
LEMMA BeforeStep ==
    ASSUME NEW ts, NEW p \in Nat \ {0}, NEW kind
    PROVE  /\ Cardinality(Before(ts, p, kind)) \in Nat
           /\ Cardinality(Before(ts, p + 1, kind))
                = Cardinality(Before(ts, p, kind)) + (IF Kind(ts, p) = kind THEN 1 ELSE 0)
<1> DEFINE old == Before(ts, p, kind)
           new == Before(ts, p + 1, kind)
<1>1. IsFiniteSet(old)
    <2>1. IsFiniteSet(1 .. p - 1)
        BY FS_Interval
    <2>2. old \subseteq 1 .. p - 1
        BY DEF Before
    <2>3. QED BY <2>1, <2>2, FS_Subset
<1>2. p \notin old
    BY DEF Before
<1>3. 1 .. p + 1 - 1 = 1 .. p - 1 \cup {p}
    OBVIOUS
<1>4. new = IF Kind(ts, p) = kind THEN old \cup {p} ELSE old
    BY <1>3 DEF Before
<1> HIDE DEF old, new
<1>5. Cardinality(old) \in Nat /\ Cardinality(old \cup {p}) = Cardinality(old) + 1
    BY <1>1, <1>2, FS_CardinalityType, FS_AddElement
<1>6. QED BY <1>4, <1>5 DEF old, new

LEMMA DepthStep ==
    ASSUME NEW ts, NEW p \in Nat \ {0}
    PROVE  /\ Depth(ts, p) \in Int
           /\ Depth(ts, p + 1) = Depth(ts, p)
                + (IF Kind(ts, p) = "LParen" THEN 1 ELSE IF Kind(ts, p) = "RParen" THEN -1 ELSE 0)
<1> DEFINE l == Cardinality(Before(ts, p, "LParen"))
           r == Cardinality(Before(ts, p, "RParen"))
           newL == Cardinality(Before(ts, p + 1, "LParen"))
           newR == Cardinality(Before(ts, p + 1, "RParen"))
<1>1. /\ l \in Nat /\ newL = l + (IF Kind(ts, p) = "LParen" THEN 1 ELSE 0)
      /\ r \in Nat /\ newR = r + (IF Kind(ts, p) = "RParen" THEN 1 ELSE 0)
    BY BeforeStep
<1>2. Depth(ts, p) = l - r /\ Depth(ts, p + 1) = newL - newR
    BY DEF Depth
<1>3. "LParen" # "RParen"
    OBVIOUS
<1> HIDE DEF l, r, newL, newR
<1>4. QED BY <1>1, <1>2, <1>3

(* A call that succeeds has taken at least one token, as many opening      *)
(* parentheses as closing ones, and not an opening one or a comma last.    *)
Goes(ts, p, result) ==
    result.ok =>
        /\ result.behind \in p + 1 .. Len(ts)
        /\ Depth(ts, result.behind) = Depth(ts, p)
        /\ Kind(ts, result.behind - 1) \notin {"LParen", "Comma"}

(* A token that is no parenthesis.                                         *)
LEMMA StepsOver ==
    ASSUME NEW ts, IsScan(ts), NEW p \in 1 .. Len(ts), Kind(ts, p) # "EndOfFile"
    PROVE  /\ p + 1 \in 1 .. Len(ts) /\ p + 1 - 1 = p
           /\ Kind(ts, p) \notin {"LParen", "RParen"} => Depth(ts, p + 1) = Depth(ts, p)
           /\ Kind(ts, p) = "LParen" => Depth(ts, p + 1) = Depth(ts, p) + 1
           /\ Kind(ts, p) = "RParen" => Depth(ts, p + 1) = Depth(ts, p) - 1
           /\ Depth(ts, p) \in Int
<1>1. p \in Nat \ {0} /\ p # Len(ts) /\ Len(ts) \in Nat
    BY DEF IsScan
<1>2. Depth(ts, p) \in Int
      /\ Depth(ts, p + 1) = Depth(ts, p)
           + (IF Kind(ts, p) = "LParen" THEN 1 ELSE IF Kind(ts, p) = "RParen" THEN -1 ELSE 0)
    BY <1>1, DepthStep
<1>3. p + 1 \in 1 .. Len(ts) /\ p + 1 - 1 = p
    BY <1>1
<1>4. "LParen" # "RParen"
    OBVIOUS
<1> DEFINE d == Depth(ts, p)
<1> HIDE DEF d
<1>5. QED BY <1>2, <1>3, <1>4 DEF d

LEMMA ExpectGoes ==
    ASSUME NEW ts, IsScan(ts), NEW p \in 1 .. Len(ts),
           NEW kind, kind # "EndOfFile"
    PROVE  /\ Expect(ts, p, kind).ok <=> Kind(ts, p) = kind
           /\ Kind(ts, p) = kind =>
                 /\ Expect(ts, p, kind).tree = ts[p].lexeme
                 /\ Expect(ts, p, kind).behind = p + 1 /\ p + 1 \in 1 .. Len(ts)
           /\ kind \notin {"LParen", "RParen", "Comma"} => Goes(ts, p, Expect(ts, p, kind))
<1>1. CASE Kind(ts, p) = kind
    <2>1. Expect(ts, p, kind) = [ok |-> TRUE, tree |-> ts[p].lexeme, behind |-> p + 1]
        BY <1>1 DEF Expect, Parsed
    <2>2. /\ p + 1 \in 1 .. Len(ts) /\ p + 1 - 1 = p /\ p \in Int /\ Len(ts) \in Nat
          /\ Kind(ts, p) \notin {"LParen", "RParen"} => Depth(ts, p + 1) = Depth(ts, p)
        BY <1>1, StepsOver DEF IsScan
    <2>3. p + 1 \in p + 1 .. Len(ts)
        BY <2>2
    <2>4. QED BY <1>1, <2>1, <2>2, <2>3 DEF Goes
<1>2. CASE Kind(ts, p) # kind
    <2>1. Expect(ts, p, kind) = [ok |-> FALSE, at |-> p]
        BY <1>2 DEF Expect, Error
    <2>2. QED BY <1>2, <2>1 DEF Goes
<1>3. QED BY <1>1, <1>2

(* One call after another.                                                 *)
LEMMA GoesThen ==
    ASSUME NEW ts, NEW p \in 1 .. Len(ts), Len(ts) \in Nat, NEW first, NEW second,
           first.ok, Goes(ts, p, first), Goes(ts, first.behind, second)
    PROVE  Goes(ts, p, second)
<1>1. first.behind \in p + 1 .. Len(ts)
    BY DEF Goes
<1>2. second.ok => second.behind \in first.behind + 1 .. Len(ts)
    BY DEF Goes
<1>3. second.ok => second.behind \in p + 1 .. Len(ts)
    BY <1>1, <1>2
<1>4. QED BY <1>3 DEF Goes

-----------------------------------------------------------------------------
(* The loops.                                                              *)
Separators == {"Comma", "And", "Or"}

(* list is the loop over the items that begin at p and later.              *)
IsLoop(list, ts, separator, items, p) ==
    \A q \in p .. Len(ts) : list[q] = ListFrom(ts, separator, items[q], list)
ItemsGo(ts, items, p) == \A q \in p .. Len(ts) : Goes(ts, q, items[q])
ItemTrees(ts, items, p) == {items[q].tree : q \in {r \in p .. Len(ts) : items[r].ok}}

LEMMA ListFails ==
    ASSUME NEW ts, NEW separator, NEW item, NEW rest, ~item.ok
    PROVE  ListFrom(ts, separator, item, rest) = item
BY DEF ListFrom, Then

LEMMA ListEnds ==
    ASSUME NEW ts, NEW separator, NEW item, NEW rest, item.ok,
           Kind(ts, item.behind) # separator
    PROVE  ListFrom(ts, separator, item, rest) = Parsed(<<item.tree>>, item.behind)
BY DEF ListFrom, Then

LEMMA ListGoesOn ==
    ASSUME NEW ts, NEW separator, NEW item, NEW rest, item.ok,
           Kind(ts, item.behind) = separator
    PROVE  LET more == rest[item.behind + 1]
           IN  ListFrom(ts, separator, item, rest)
                  = IF more.ok THEN Parsed(<<item.tree>> \o more.tree, more.behind) ELSE more
BY DEF ListFrom, Then

(* After a separator there is another token.                               *)
LEMMA AfterSeparator ==
    ASSUME NEW ts, IsScan(ts), NEW q \in 1 .. Len(ts), NEW item, Goes(ts, q, item), item.ok,
           NEW separator \in Separators, Kind(ts, item.behind) = separator
    PROVE  /\ item.behind + 1 \in q + 1 .. Len(ts) /\ item.behind \in 1 .. Len(ts)
           /\ Depth(ts, item.behind + 1) = Depth(ts, q)
<1>1. item.behind \in q + 1 .. Len(ts) /\ Depth(ts, item.behind) = Depth(ts, q)
    BY DEF Goes
<1>2. separator \notin {"EndOfFile", "LParen", "RParen"}
    BY DEF Separators
<1>3. Len(ts) \in Nat /\ item.behind \in 1 .. Len(ts) /\ item.behind \in Int
    BY <1>1 DEF IsScan
<1>4. /\ item.behind + 1 \in 1 .. Len(ts)
      /\ Depth(ts, item.behind + 1) = Depth(ts, item.behind)
    BY <1>2, <1>3, StepsOver
<1>5. QED BY <1>1, <1>3, <1>4

LEMMA LoopExists ==
    ASSUME NEW ts, IsScan(ts), NEW p \in 1 .. Len(ts), NEW items, ItemsGo(ts, items, p),
           NEW separator \in Separators
    PROVE  \E f : Solves("list", f, p .. Len(ts), ts, separator, items)
<1>1. LooksAhead("list", p, Len(ts), ts, separator, items)
    <2> SUFFICES ASSUME NEW f, NEW g, NEW q \in p .. Len(ts),
                        \A r \in p .. Len(ts) : q < r => f[r] = g[r]
                 PROVE  ListFrom(ts, separator, items[q], f) = ListFrom(ts, separator, items[q], g)
        BY DEF LooksAhead, At
    <2> DEFINE item == items[q]
    <2>1. Goes(ts, q, item) /\ q \in 1 .. Len(ts)
        BY DEF ItemsGo, IsScan
    <2> HIDE DEF item
    <2>2. ASSUME item.ok, Kind(ts, item.behind) = separator
          PROVE  f[item.behind + 1] = g[item.behind + 1]
        <3>1. item.behind + 1 \in q + 1 .. Len(ts)
            BY <2>1, <2>2, AfterSeparator
        <3> DEFINE r == item.behind + 1
        <3>2. r \in q + 1 .. Len(ts)
            BY <3>1
        <3> HIDE DEF r
        <3>3. r \in p .. Len(ts) /\ q < r
            BY <3>2 DEF IsScan
        <3>4. QED BY <3>3 DEF r
    <2>3. CASE ~item.ok
        <3>1. ListFrom(ts, separator, item, f) = item /\ ListFrom(ts, separator, item, g) = item
            BY <2>3, ListFails
        <3>2. QED BY <3>1 DEF item
    <2>4. CASE item.ok /\ Kind(ts, item.behind) # separator
        <3>1. ListFrom(ts, separator, item, f) = ListFrom(ts, separator, item, g)
            BY <2>4, ListEnds
        <3>2. QED BY <3>1 DEF item
    <2>5. CASE item.ok /\ Kind(ts, item.behind) = separator
        <3>1. f[item.behind + 1] = g[item.behind + 1]
            BY <2>2, <2>5
        <3> DEFINE more == f[item.behind + 1]
                   result == IF more.ok THEN Parsed(<<item.tree>> \o more.tree, more.behind) ELSE more
        <3>2. ListFrom(ts, separator, item, f) = result
            BY <2>5, ListGoesOn, Zenon
        <3>3. g[item.behind + 1] = more
            BY <3>1
        <3> HIDE DEF more
        <3>4. ListFrom(ts, separator, item, g) = result
            BY <2>5, <3>3, ListGoesOn, Zenon
        <3>5. QED BY <3>2, <3>4 DEF item
    <2>6. QED BY <2>3, <2>4, <2>5
<1>2. p \in Int /\ Len(ts) \in Int
    BY DEF IsScan
<1>3. QED BY <1>1, <1>2, AheadExists

(* A loop goes on behind its items, and makes the sequence of their trees. *)
LEMMA LoopGoes ==
    ASSUME NEW ts, IsScan(ts), NEW p \in 1 .. Len(ts), NEW items, ItemsGo(ts, items, p),
           NEW separator \in Separators, NEW list, IsLoop(list, ts, separator, items, p)
    PROVE  \A q \in p .. Len(ts) :
               /\ Goes(ts, q, list[q])
               /\ list[q].ok => /\ list[q].tree \in Seq(ItemTrees(ts, items, p))
                                /\ list[q].tree # << >>
<1> DEFINE n == Len(ts)
           trees == ItemTrees(ts, items, p)
           Good(q) == /\ Goes(ts, q, list[q])
                      /\ list[q].ok => list[q].tree \in Seq(trees) /\ list[q].tree # << >>
           good == {q \in p .. n : Good(q)}
<1>1. n \in Nat /\ p \in 1 .. n
    BY DEF IsScan
<1>2. ASSUME NEW q \in p .. n, \A r \in q + 1 .. n : r \in good
      PROVE  Good(q)
    <2> DEFINE item == items[q]
    <2>1. Goes(ts, q, item) /\ q \in 1 .. Len(ts) /\ list[q] = ListFrom(ts, separator, item, list)
        BY <1>1 DEF ItemsGo, IsLoop
    <2>2. item.ok => item.tree \in trees
        BY DEF ItemTrees
    <2> HIDE DEF item
    <2>3. CASE ~item.ok
        <3>1. list[q] = item
            BY <2>1, <2>3, ListFails
        <3>2. ~list[q].ok
            BY <2>3, <3>1
        <3>3. QED BY <3>2 DEF Goes
    <2>4. CASE item.ok /\ Kind(ts, item.behind) # separator
        <3>1. list[q] = Parsed(<<item.tree>>, item.behind)
            BY <2>1, <2>4, ListEnds
        <3>2. <<item.tree>> \in Seq(trees) /\ <<item.tree>> # << >>
            BY <2>2, <2>4
        <3>3. QED BY <2>1, <2>4, <3>1, <3>2 DEF Goes, Parsed
    <2>5. CASE item.ok /\ Kind(ts, item.behind) = separator
        <3> DEFINE m == item.behind + 1
                   rest == list[m]
        <3>1. m \in q + 1 .. n /\ Depth(ts, m) = Depth(ts, q)
            BY <2>1, <2>5, AfterSeparator
        <3>2. list[q] = IF rest.ok THEN Parsed(<<item.tree>> \o rest.tree, rest.behind) ELSE rest
            BY <2>1, <2>5, ListGoesOn
        <3> HIDE DEF m
        <3>3. Good(m)
            BY <1>2, <3>1
        <3>4. CASE ~rest.ok
            BY <3>2, <3>4 DEF Goes
        <3>5. CASE rest.ok
            <4>1. rest.tree \in Seq(trees) /\ rest.behind \in m + 1 .. n
                  /\ Depth(ts, rest.behind) = Depth(ts, m)
                  /\ Kind(ts, rest.behind - 1) \notin {"LParen", "Comma"}
                BY <3>3, <3>5 DEF Goes
            <4>2. list[q].tree = <<item.tree>> \o rest.tree /\ list[q].behind = rest.behind
                BY <3>2, <3>5 DEF Parsed
            <4>3. <<item.tree>> \in Seq(trees) /\ Len(<<item.tree>>) = 1
                BY <2>2, <2>5
            <4> HIDE DEF rest, n, trees
            <4>4. /\ <<item.tree>> \o rest.tree \in Seq(trees)
                  /\ Len(<<item.tree>> \o rest.tree) = 1 + Len(rest.tree) /\ Len(rest.tree) \in Nat
                BY <4>1, <4>3, ConcatProperties, LenProperties
            <4>5. list[q].tree \in Seq(trees) /\ list[q].tree # << >>
                <5>1. Len(list[q].tree) # 0
                    BY <4>2, <4>4
                <5>2. QED BY <4>2, <4>4, <5>1
            <4>6. rest.behind \in q + 1 .. n
                BY <1>1, <3>1, <4>1
            <4>7. QED BY <3>1, <4>1, <4>2, <4>5, <4>6 DEF Goes, n
        <3>6. QED BY <3>4, <3>5
    <2>6. QED BY <2>3, <2>4, <2>5
<1> HIDE DEF Good
<1>3. \A q \in p .. n : q \in good
    <2>1. \A q \in p .. n : (\A r \in q + 1 .. n : r \in good) => q \in good
        BY <1>2
    <2>2. p \in Int /\ n \in Int
        BY <1>1
    <2> HIDE DEF good, n
    <2>3. QED BY <2>1, <2>2, BackwardInduction, Zenon
<1>4. QED BY <1>3 DEF Good

-----------------------------------------------------------------------------
(* Expressions: a call makes a tree if the calls inside its parentheses do. *)
Makes(ts, p, result) == Goes(ts, p, result) /\ (result.ok => IsTree(result.tree))
NestedMake(ts, nested, p) == \A q \in p + 1 .. Len(ts) : Makes(ts, q, nested[q])

LEMMA LeavesAreTrees ==
    /\ \A name : IsTree(ColumnExpr(name))
    /\ \A t : IsTree(LiteralExpr(Text(t)))
    /\ \A n \in Int : IsTree(LiteralExpr(Int64(n)))
<1>1. ASSUME NEW e, e.kind = "ColumnRef" \/ (e.kind = "Literal" /\ IsValue(e.literal))
      PROVE  IsTree(e)
    <2>1. ~Inner(e) /\ IsNode(e)
        BY <1>1 DEF Inner, Leaves, IsNode
    <2>2. QED BY <2>1, LeafIsTree
<1>2. ASSUME NEW name PROVE IsTree(ColumnExpr(name))
    <2>1. ColumnExpr(name).kind = "ColumnRef"
        BY DEF ColumnExpr
    <2>2. QED BY <1>1, <2>1
<1>3. ASSUME NEW value, IsValue(value) PROVE IsTree(LiteralExpr(value))
    <2>1. LiteralExpr(value).kind = "Literal" /\ LiteralExpr(value).literal = value
        BY DEF LiteralExpr
    <2>2. QED BY <1>1, <1>3, <2>1
<1>4. \A t : IsValue(Text(t))
    BY DEF IsValue, Text
<1>5. \A n \in Int : IsValue(Int64(n))
    BY DEF IsValue, Int64
<1>6. QED BY <1>2, <1>3, <1>4, <1>5

LEMMA TokenGoes ==
    ASSUME NEW ts, IsScan(ts), NEW p \in 1 .. Len(ts),
           Kind(ts, p) \notin {"EndOfFile", "LParen", "RParen", "Comma"}, NEW tree
    PROVE  Goes(ts, p, Parsed(tree, p + 1)) /\ Parsed(tree, p + 1).tree = tree
           /\ p + 1 \in 1 .. Len(ts)
<1>1. /\ p + 1 \in 1 .. Len(ts) /\ p + 1 - 1 = p /\ p \in Int /\ Len(ts) \in Nat
      /\ Depth(ts, p + 1) = Depth(ts, p)
    BY StepsOver DEF IsScan
<1>2. p + 1 \in p + 1 .. Len(ts)
    BY <1>1
<1>3. Parsed(tree, p + 1).behind = p + 1 /\ Parsed(tree, p + 1).tree = tree
    BY DEF Parsed
<1>4. QED BY <1>1, <1>2, <1>3 DEF Goes

LEMMA ErrorMakes == \A ts, p, q : Makes(ts, p, Error(q)) /\ ~Error(q).ok
BY DEF Makes, Goes, Error

LEMMA ParenthesizedMakes ==
    ASSUME NEW ts, IsScan(ts), NEW p \in 1 .. Len(ts), Kind(ts, p) = "LParen",
           NEW nested, NestedMake(ts, nested, p)
    PROVE  Makes(ts, p, ParseParenthesized(ts, nested, p))
<1> DEFINE inner == nested[p + 1]
           paren == Expect(ts, inner.behind, "RParen")
           result == ParseParenthesized(ts, nested, p)
<1>1. p + 1 \in 1 .. Len(ts) /\ Depth(ts, p + 1) = Depth(ts, p) + 1 /\ Depth(ts, p) \in Int
    BY StepsOver
<1>2. Makes(ts, p + 1, inner)
    <2>1. p + 1 \in p + 1 .. Len(ts)
        BY <1>1
    <2>2. QED BY <2>1 DEF NestedMake
<1>3. result = IF inner.ok
               THEN IF paren.ok THEN Parsed(inner.tree, paren.behind) ELSE paren
               ELSE inner
    BY DEF ParseParenthesized, Then
<1> HIDE DEF inner, result
<1>4. CASE ~inner.ok
    <2>1. ~result.ok
        BY <1>3, <1>4
    <2>2. QED BY <2>1 DEF Makes, Goes, result
<1>5. CASE inner.ok
    <2> DEFINE q == inner.behind
    <2>1. /\ q \in p + 1 + 1 .. Len(ts) /\ Depth(ts, q) = Depth(ts, p) + 1
          /\ IsTree(inner.tree)
        BY <1>1, <1>2, <1>5 DEF Makes, Goes
    <2>2. q \in 1 .. Len(ts) /\ q \in p + 1 .. Len(ts) /\ Len(ts) \in Nat /\ p \in Int
        BY <1>1, <2>1 DEF IsScan
    <2>3. CASE Kind(ts, q) # "RParen"
        <3>1. ~paren.ok
            BY <2>2, <2>3, ExpectGoes
        <3>2. ~result.ok
            BY <1>3, <1>5, <3>1
        <3>3. QED BY <3>2 DEF Makes, Goes, result
    <2>4. CASE Kind(ts, q) = "RParen"
        <3>1. paren.ok /\ paren.behind = q + 1
            BY <2>2, <2>4, ExpectGoes
        <3>2. result = Parsed(inner.tree, q + 1)
            BY <1>3, <1>5, <3>1
        <3>3. /\ q + 1 \in 1 .. Len(ts) /\ q + 1 - 1 = q
              /\ Depth(ts, q + 1) = Depth(ts, q) - 1
            BY <2>2, <2>4, StepsOver
        <3> HIDE DEF q
        <3>4. q + 1 \in p + 1 .. Len(ts)
            BY <2>2, <3>3
        <3>5. Depth(ts, q + 1) = Depth(ts, p)
            BY <1>1, <2>1, <3>3
        <3>6. result.ok /\ result.tree = inner.tree /\ result.behind = q + 1
            BY <3>2 DEF Parsed
        <3>7. QED BY <2>1, <2>4, <3>3, <3>4, <3>5, <3>6 DEF Makes, Goes, result
    <2>5. QED BY <2>3, <2>4
<1>6. QED BY <1>4, <1>5

LEMMA PrimaryMakes ==
    ASSUME NEW ts, IsScan(ts), NEW p \in 1 .. Len(ts), NEW nested, NestedMake(ts, nested, p)
    PROVE  Makes(ts, p, ParsePrimary(ts, nested, p))
<1> DEFINE lexeme == ts[p].lexeme
           result == ParsePrimary(ts, nested, p)
<1>1. ASSUME NEW tree, IsTree(tree), result = Parsed(tree, p + 1),
             Kind(ts, p) \in {"Identifier", "IntegerLiteral", "StringLiteral"}
      PROVE  Makes(ts, p, result)
    <2>1. Kind(ts, p) \notin {"EndOfFile", "LParen", "RParen", "Comma"}
        BY <1>1
    <2> HIDE DEF result
    <2>2. Goes(ts, p, result) /\ result.tree = tree
        BY <1>1, <2>1, TokenGoes
    <2>3. QED BY <1>1, <2>2 DEF Makes
<1>2. CASE Kind(ts, p) = "Identifier"
    <2>1. result = Parsed(ColumnExpr(lexeme), p + 1)
        BY <1>2 DEF ParsePrimary, ParseColumnReference, Expect, Then, Parsed
    <2> HIDE DEF result
    <2>2. QED BY <1>1, <1>2, <2>1, LeavesAreTrees DEF result
<1>3. CASE Kind(ts, p) = "IntegerLiteral"
    <2> DEFINE value == DecimalValue(lexeme)
    <2>1. value \in Int
        BY <1>3, DecimalIsNumber DEF IsScan
    <2>2. result = IF value > MaxInt64 THEN Error(p) ELSE Parsed(LiteralExpr(Int64(value)), p + 1)
        BY <1>3 DEF ParsePrimary, ParseIntegerLiteral
    <2> HIDE DEF result, value
    <2>3. CASE value > MaxInt64
        BY <2>2, <2>3, ErrorMakes DEF result
    <2>4. CASE ~(value > MaxInt64)
        BY <1>1, <1>3, <2>1, <2>2, <2>4, LeavesAreTrees DEF result
    <2>5. QED BY <2>3, <2>4
<1>4. CASE Kind(ts, p) = "StringLiteral"
    <2>1. result = Parsed(LiteralExpr(Text(DecodeStringLiteral(lexeme))), p + 1)
        BY <1>4 DEF ParsePrimary, ParseStringLiteral
    <2> HIDE DEF result
    <2>2. QED BY <1>1, <1>4, <2>1, LeavesAreTrees DEF result
<1>5. CASE Kind(ts, p) = "LParen"
    <2>1. result = ParseParenthesized(ts, nested, p)
        BY <1>5 DEF ParsePrimary
    <2> HIDE DEF result
    <2>2. QED BY <1>5, <2>1, ParenthesizedMakes DEF result
<1>6. CASE Kind(ts, p) \notin {"Identifier", "IntegerLiteral", "StringLiteral", "LParen"}
    <2>1. result = Error(p)
        BY <1>6 DEF ParsePrimary
    <2> HIDE DEF result
    <2>2. QED BY <2>1, ErrorMakes DEF result
<1>7. QED BY <1>2, <1>3, <1>4, <1>5, <1>6

LEMMA ComparisonMakes ==
    ASSUME NEW ts, IsScan(ts), NEW p \in 1 .. Len(ts), NEW nested, NestedMake(ts, nested, p)
    PROVE  Makes(ts, p, ParseComparison(ts, nested, p))
<1> DEFINE left == ParsePrimary(ts, nested, p)
           q == left.behind
           op == Kind(ts, q)
           right == ParsePrimary(ts, nested, q + 1)
           result == ParseComparison(ts, nested, p)
<1>1. Makes(ts, p, left)
    BY PrimaryMakes
<1>2. result = IF left.ok
               THEN IF op \notin ComparisonOperators THEN Parsed(left.tree, q)
                    ELSE IF right.ok THEN Parsed(Binary(op, left.tree, right.tree), right.behind)
                    ELSE right
               ELSE left
    BY DEF ParseComparison, Then, IsComparisonOperator
<1> HIDE DEF left, result
<1>3. CASE ~left.ok
    <2>1. ~result.ok
        BY <1>2, <1>3
    <2>2. QED BY <2>1 DEF Makes, Goes, result
<1>4. CASE left.ok /\ op \notin ComparisonOperators
    <2>1. result = Parsed(left.tree, q)
        BY <1>2, <1>4
    <2>2. result.behind = left.behind /\ result.tree = left.tree
        BY <2>1 DEF Parsed
    <2>3. QED BY <1>1, <1>4, <2>2 DEF Makes, Goes, result
<1>5. CASE left.ok /\ op \in ComparisonOperators
    <2>1. q \in p + 1 .. Len(ts) /\ Goes(ts, p, left) /\ IsTree(left.tree)
        BY <1>1, <1>5 DEF Makes, Goes
    <2>2. op \notin {"EndOfFile", "LParen", "RParen", "Comma"}
        BY <1>5 DEF ComparisonOperators, OrderingOperators
    <2>3. q \in 1 .. Len(ts) /\ Len(ts) \in Nat /\ p \in Int
        BY <2>1 DEF IsScan
    <2>4. q + 1 \in 1 .. Len(ts) /\ Depth(ts, q + 1) = Depth(ts, q)
        BY <2>2, <2>3, StepsOver
    <2>5. NestedMake(ts, nested, q + 1)
        <3>1. q + 1 + 1 .. Len(ts) \subseteq p + 1 .. Len(ts)
            BY <2>1, <2>3
        <3>2. QED BY <3>1 DEF NestedMake
    <2>6. Makes(ts, q + 1, right)
        BY <2>4, <2>5, PrimaryMakes
    <2> HIDE DEF right
    <2>7. CASE ~right.ok
        <3>1. ~result.ok
            BY <1>2, <1>5, <2>7
        <3>2. QED BY <3>1 DEF Makes, Goes, result
    <2>8. CASE right.ok
        <3>1. result = Parsed(Binary(op, left.tree, right.tree), right.behind)
            BY <1>2, <1>5, <2>8
        <3>2. result.ok /\ result.tree = Binary(op, left.tree, right.tree)
              /\ result.behind = right.behind
            BY <3>1 DEF Parsed
        <3>3. /\ right.behind \in q + 1 + 1 .. Len(ts) /\ IsTree(right.tree)
              /\ Depth(ts, right.behind) = Depth(ts, p)
              /\ Kind(ts, right.behind - 1) \notin {"LParen", "Comma"}
            BY <1>5, <2>1, <2>4, <2>6, <2>8 DEF Makes, Goes
        <3>4. IsTree(Binary(op, left.tree, right.tree))
            <4> HIDE DEF op
            <4>1. op \in ComparisonOperators \cup Logical
                BY <1>5
            <4>2. QED BY <2>1, <3>3, <4>1, BinaryIsTree
        <3> HIDE DEF q, op
        <3>5. right.behind \in p + 1 .. Len(ts)
            BY <2>1, <2>3, <3>3
        <3>6. QED BY <3>2, <3>3, <3>4, <3>5 DEF Makes, Goes, result
    <2>9. QED BY <2>7, <2>8
<1>6. QED BY <1>3, <1>4, <1>5

LEMMA OperandsMake ==
    ASSUME NEW ts, IsScan(ts), NEW p \in 1 .. Len(ts), NEW items, NEW op \in {"And", "Or"},
           \A q \in p .. Len(ts) : Makes(ts, q, items[q]),
           NEW list, IsLoop(list, ts, op, items, p)
    PROVE  Makes(ts, p, IF list[p].ok THEN Parsed(LeftTree(op, list[p].tree), list[p].behind)
                        ELSE list[p])
<1> DEFINE operands == list[p].tree
           trees == ItemTrees(ts, items, p)
           result == IF list[p].ok THEN Parsed(LeftTree(op, operands), list[p].behind) ELSE list[p]
<1>1. op \in Separators /\ ItemsGo(ts, items, p)
    BY DEF Separators, ItemsGo, Makes
<1>2. p \in p .. Len(ts)
    OBVIOUS
<1>3. /\ Goes(ts, p, list[p])
      /\ list[p].ok => operands \in Seq(trees) /\ operands # << >>
    BY <1>1, <1>2, LoopGoes
<1>4. CASE ~list[p].ok
    <2>1. ~result.ok
        BY <1>4
    <2>2. QED BY <2>1 DEF Makes, Goes
<1>5. CASE list[p].ok
    <2>1. result.tree = LeftTree(op, operands) /\ result.behind = list[p].behind
        BY <1>5 DEF Parsed
    <2>2. \A tree \in trees : IsTree(tree)
        BY DEF ItemTrees, Makes
    <2> HIDE DEF operands, trees, result
    <2>3. Len(operands) \in Nat \ {0} /\ AreTrees(operands)
        <3>1. Len(operands) \in Nat /\ \A i \in 1 .. Len(operands) : operands[i] \in trees
            BY <1>3, <1>5, LenProperties, ElementOfSeq
        <3>2. Len(operands) # 0
            BY <1>3, <1>5, EmptySeq
        <3>3. QED BY <2>2, <3>1, <3>2 DEF AreTrees
    <2>4. op \in ComparisonOperators \cup Logical
        BY DEF Logical
    <2>5. IsTree(LeftTree(op, operands))
        BY <2>3, <2>4, LeftTreeIsTree
    <2>6. Goes(ts, p, result)
        BY <1>3, <1>5, <2>1 DEF Goes
    <2>7. QED BY <2>1, <2>5, <2>6 DEF Makes, result, operands
<1>6. QED BY <1>4, <1>5

LEMMA AndLoop ==
    ASSUME NEW ts, IsScan(ts), NEW p \in 1 .. Len(ts), NEW nested, NestedMake(ts, nested, p)
    PROVE  LET items == [q \in p .. Len(ts) |-> ParseComparison(ts, nested, q)]
           IN  /\ \A q \in p .. Len(ts) : Makes(ts, q, items[q])
               /\ \E list : /\ IsLoop(list, ts, "And", items, p)
                            /\ ParseAnd(ts, nested, p)
                                 = IF list[p].ok
                                   THEN Parsed(LeftTree("And", list[p].tree), list[p].behind)
                                   ELSE list[p]
<1> DEFINE D == p .. Len(ts)
           items == [q \in D |-> ParseComparison(ts, nested, q)]
           list[q \in D] == ListFrom(ts, "And", ParseComparison(ts, nested, q), list)
<1>1. \A q \in D : Makes(ts, q, items[q])
    <2> TAKE q \in D
    <2>1. q \in 1 .. Len(ts) /\ q + 1 .. Len(ts) \subseteq p + 1 .. Len(ts)
        BY DEF IsScan
    <2>2. NestedMake(ts, nested, q)
        BY <2>1 DEF NestedMake
    <2>3. QED BY <2>1, <2>2, ComparisonMakes
<1>2. \E f : f = [q \in D |-> ListFrom(ts, "And", ParseComparison(ts, nested, q), f)]
    <2>1. "And" \in Separators /\ ItemsGo(ts, items, p)
        BY <1>1 DEF Separators, ItemsGo, Makes
    <2> HIDE DEF items
    <2>2. PICK f : Solves("list", f, p .. Len(ts), ts, "And", items)
        BY <2>1, LoopExists
    <2>3. f = [q \in D |-> ListFrom(ts, "And", items[q], f)]
        BY <2>2 DEF Solves, At
    <2>4. \A q \in D : items[q] = ParseComparison(ts, nested, q)
        BY DEF items
    <2>5. QED BY <2>3, <2>4
<1>3. list = [q \in D |-> ListFrom(ts, "And", ParseComparison(ts, nested, q), list)]
    BY ONLY <1>2, Zenon
<1>4. ParseAnd(ts, nested, p)
        = IF list[p].ok THEN Parsed(LeftTree("And", list[p].tree), list[p].behind) ELSE list[p]
    BY DEF ParseAnd, ParseOperands, ParseList, Then
<1> HIDE DEF list
<1>5. IsLoop(list, ts, "And", items, p)
    <2>1. \A q \in D : list[q] = ListFrom(ts, "And", ParseComparison(ts, nested, q), list)
        BY <1>3, Zenon
    <2>2. QED BY <2>1 DEF IsLoop
<1> HIDE DEF items
<1>6. QED BY <1>1, <1>4, <1>5 DEF items

LEMMA AndMakes ==
    ASSUME NEW ts, IsScan(ts), NEW p \in 1 .. Len(ts), NEW nested, NestedMake(ts, nested, p)
    PROVE  Makes(ts, p, ParseAnd(ts, nested, p))
<1> DEFINE items == [q \in p .. Len(ts) |-> ParseComparison(ts, nested, q)]
<1>1. \A q \in p .. Len(ts) : Makes(ts, q, items[q])
    BY AndLoop
<1>2. PICK list : /\ IsLoop(list, ts, "And", items, p)
                  /\ ParseAnd(ts, nested, p)
                       = IF list[p].ok
                         THEN Parsed(LeftTree("And", list[p].tree), list[p].behind)
                         ELSE list[p]
    BY AndLoop
<1> HIDE DEF items
<1>3. "And" \in {"And", "Or"}
    OBVIOUS
<1>4. QED BY <1>1, <1>2, <1>3, OperandsMake

LEMMA OrLoop ==
    ASSUME NEW ts, IsScan(ts), NEW p \in 1 .. Len(ts), NEW nested, NestedMake(ts, nested, p)
    PROVE  LET items == [q \in p .. Len(ts) |-> ParseAnd(ts, nested, q)]
           IN  /\ \A q \in p .. Len(ts) : Makes(ts, q, items[q])
               /\ \E list : /\ IsLoop(list, ts, "Or", items, p)
                            /\ ParseOr(ts, nested, p)
                                 = IF list[p].ok
                                   THEN Parsed(LeftTree("Or", list[p].tree), list[p].behind)
                                   ELSE list[p]
<1> DEFINE D == p .. Len(ts)
           items == [q \in D |-> ParseAnd(ts, nested, q)]
           list[q \in D] == ListFrom(ts, "Or", ParseAnd(ts, nested, q), list)
<1>1. \A q \in D : Makes(ts, q, items[q])
    <2> TAKE q \in D
    <2>1. q \in 1 .. Len(ts) /\ q + 1 .. Len(ts) \subseteq p + 1 .. Len(ts)
        BY DEF IsScan
    <2>2. NestedMake(ts, nested, q)
        BY <2>1 DEF NestedMake
    <2>3. QED BY <2>1, <2>2, AndMakes
<1>2. \E f : f = [q \in D |-> ListFrom(ts, "Or", ParseAnd(ts, nested, q), f)]
    <2>1. "Or" \in Separators /\ ItemsGo(ts, items, p)
        BY <1>1 DEF Separators, ItemsGo, Makes
    <2> HIDE DEF items
    <2>2. PICK f : Solves("list", f, p .. Len(ts), ts, "Or", items)
        BY <2>1, LoopExists
    <2>3. f = [q \in D |-> ListFrom(ts, "Or", items[q], f)]
        BY <2>2 DEF Solves, At
    <2>4. \A q \in D : items[q] = ParseAnd(ts, nested, q)
        BY DEF items
    <2>5. QED BY <2>3, <2>4
<1>3. list = [q \in D |-> ListFrom(ts, "Or", ParseAnd(ts, nested, q), list)]
    BY ONLY <1>2, Zenon
<1>4. ParseOr(ts, nested, p)
        = IF list[p].ok THEN Parsed(LeftTree("Or", list[p].tree), list[p].behind) ELSE list[p]
    BY DEF ParseOr, ParseOperands, ParseList, Then
<1> HIDE DEF list
<1>5. IsLoop(list, ts, "Or", items, p)
    <2>1. \A q \in D : list[q] = ListFrom(ts, "Or", ParseAnd(ts, nested, q), list)
        BY <1>3, Zenon
    <2>2. QED BY <2>1 DEF IsLoop
<1> HIDE DEF items
<1>6. QED BY <1>1, <1>4, <1>5 DEF items

LEMMA OrMakes ==
    ASSUME NEW ts, IsScan(ts), NEW p \in 1 .. Len(ts), NEW nested, NestedMake(ts, nested, p)
    PROVE  Makes(ts, p, ParseOr(ts, nested, p))
<1> DEFINE items == [q \in p .. Len(ts) |-> ParseAnd(ts, nested, q)]
<1>1. \A q \in p .. Len(ts) : Makes(ts, q, items[q])
    BY OrLoop
<1>2. PICK list : /\ IsLoop(list, ts, "Or", items, p)
                  /\ ParseOr(ts, nested, p)
                       = IF list[p].ok
                         THEN Parsed(LeftTree("Or", list[p].tree), list[p].behind)
                         ELSE list[p]
    BY OrLoop
<1> HIDE DEF items
<1>3. "Or" \in {"And", "Or"}
    OBVIOUS
<1>4. QED BY <1>1, <1>2, <1>3, OperandsMake

LEMMA ExpressionsStepwise ==
    ASSUME NEW ts, IsScan(ts)
    PROVE  \A p \in 1 .. Len(ts) :
               Expressions(ts)[p] = ParseOr(ts, [q \in p + 1 .. Len(ts) |-> Expressions(ts)[q]], p)
<1> DEFINE n == Len(ts)
           expression[p \in 1 .. n] == ParseOr(ts, [q \in p + 1 .. n |-> expression[q]], p)
<1>1. \E f : f = [p \in 1 .. n |-> ParseOr(ts, [q \in p + 1 .. n |-> f[q]], p)]
    <2>1. LooksAhead("expression", 1, n, ts, 0, 0)
        <3> SUFFICES ASSUME NEW f, NEW g, NEW q \in 1 .. n,
                            \A r \in 1 .. n : q < r => f[r] = g[r]
                     PROVE  At("expression", f, q, ts, 0, 0) = At("expression", g, q, ts, 0, 0)
            BY DEF LooksAhead
        <3>1. \A r \in q + 1 .. n : f[r] = g[r]
            <4>1. n \in Nat
                BY DEF IsScan
            <4>2. \A r \in q + 1 .. n : r \in 1 .. n /\ q < r
                BY <4>1
            <4>3. QED BY <4>2
        <3>2. [r \in q + 1 .. n |-> f[r]] = [r \in q + 1 .. n |-> g[r]]
            BY <3>1
        <3>3. \A h : At("expression", h, q, ts, 0, 0)
                       = ParseOr(ts, [r \in q + 1 .. n |-> h[r]], q)
            BY DEF At
        <3>4. QED BY <3>2, <3>3
    <2>2. PICK f : Solves("expression", f, 1 .. n, ts, 0, 0)
        <3>1. 1 \in Int /\ n \in Int
            BY DEF IsScan
        <3> HIDE DEF n
        <3>2. QED BY <2>1, <3>1, AheadExists
    <2>3. f = [p \in 1 .. n |-> ParseOr(ts, [q \in p + 1 .. n |-> f[q]], p)]
        BY <2>2 DEF Solves, At
    <2>4. QED BY <2>3
<1>2. expression = [p \in 1 .. n |-> ParseOr(ts, [q \in p + 1 .. n |-> expression[q]], p)]
    BY ONLY <1>1, Zenon
<1>3. Expressions(ts) = expression
    BY DEF Expressions
<1> HIDE DEF expression
<1>4. ASSUME NEW p \in 1 .. n
      PROVE  expression[p] = ParseOr(ts, [q \in p + 1 .. n |-> expression[q]], p)
    BY <1>2, Zenon
<1>5. QED BY <1>3, <1>4

LEMMA ExpressionsMake ==
    ASSUME NEW ts, IsScan(ts)
    PROVE  /\ \A p \in 1 .. Len(ts) : Makes(ts, p, ParseExpression(ts, p))
           /\ \A p \in 0 .. Len(ts) : NestedMake(ts, Expressions(ts), p)
<1> DEFINE n == Len(ts)
           expression == Expressions(ts)
<1>4. ASSUME NEW p \in 1 .. n
      PROVE  expression[p] = ParseOr(ts, [q \in p + 1 .. n |-> expression[q]], p)
    BY ExpressionsStepwise
<1> HIDE DEF expression
<1> DEFINE good == {p \in 1 .. n : Makes(ts, p, expression[p])}
<1>5. ASSUME NEW p \in 1 .. n, \A q \in p + 1 .. n : q \in good
      PROVE  p \in good
    <2> DEFINE nested == [q \in p + 1 .. n |-> expression[q]]
    <2>1. NestedMake(ts, nested, p)
        BY <1>5 DEF NestedMake
    <2> HIDE DEF nested
    <2>2. Makes(ts, p, ParseOr(ts, nested, p))
        BY <2>1, OrMakes
    <2>3. QED BY <1>4, <2>2 DEF nested
<1>6. \A p \in 1 .. n : p \in good
    <2>1. 1 \in Int /\ n \in Int
        BY DEF IsScan
    <2> HIDE DEF good, n
    <2>2. QED BY <1>5, <2>1, BackwardInduction, Zenon
<1>7. \A p \in 1 .. n : Makes(ts, p, expression[p])
    BY <1>6
<1>8. \A p \in 0 .. n : p + 1 .. n \subseteq 1 .. n
    OBVIOUS
<1>9. QED BY <1>7, <1>8 DEF ParseExpression, NestedMake, expression

-----------------------------------------------------------------------------
(* The parts of statements.                                                *)

(* From p on, tokens that can stand before the end of a statement lead to q. *)
Reached(ts, p, q) ==
    /\ q \in p + 1 .. Len(ts)
    /\ Depth(ts, q) = Depth(ts, p)
    /\ Kind(ts, q - 1) \notin {"LParen", "Comma"}

LEMMA GoesReaches ==
    ASSUME NEW ts, NEW p, NEW result
    PROVE  Goes(ts, p, result) <=> (result.ok => Reached(ts, p, result.behind))
BY DEF Goes, Reached

LEMMA ReachedFarther ==
    ASSUME NEW ts, IsScan(ts), NEW p \in 1 .. Len(ts), NEW q, NEW r,
           Reached(ts, p, q), Reached(ts, q, r)
    PROVE  Reached(ts, p, r) /\ q \in 1 .. Len(ts)
<1>1. q \in p + 1 .. Len(ts) /\ r \in q + 1 .. Len(ts) /\ Len(ts) \in Nat
    BY DEF Reached, IsScan
<1>2. r \in p + 1 .. Len(ts) /\ q \in 1 .. Len(ts)
    BY <1>1
<1>3. QED BY <1>2 DEF Reached

LEMMA TokenReaches ==
    ASSUME NEW ts, IsScan(ts), NEW p \in 1 .. Len(ts),
           Kind(ts, p) \notin {"EndOfFile", "LParen", "RParen", "Comma"}
    PROVE  Reached(ts, p, p + 1) /\ p + 1 \in 1 .. Len(ts)
<1>1. /\ p + 1 \in 1 .. Len(ts) /\ p + 1 - 1 = p /\ p \in Int /\ Len(ts) \in Nat
      /\ Depth(ts, p + 1) = Depth(ts, p)
    BY StepsOver DEF IsScan
<1>2. p + 1 \in p + 1 .. Len(ts)
    BY <1>1
<1>3. QED BY <1>1, <1>2 DEF Reached

LEMMA ColumnDefinitionGoes ==
    ASSUME NEW ts, IsScan(ts), NEW p \in 1 .. Len(ts)
    PROVE  Goes(ts, p, ParseColumnDefinition(ts, p))
<1> DEFINE q == p + 1
           result == ParseColumnDefinition(ts, p)
<1>1. CASE Kind(ts, p) # "Identifier"
    <2>1. result = Error(p)
        BY <1>1 DEF ParseColumnDefinition, Expect, Then, Error
    <2> HIDE DEF result
    <2>2. QED BY <2>1, ErrorMakes DEF Makes, result
<1>2. CASE Kind(ts, p) = "Identifier"
    <2>1. Reached(ts, p, q) /\ q \in 1 .. Len(ts)
        <3>1. Kind(ts, p) \notin {"EndOfFile", "LParen", "RParen", "Comma"}
            BY <1>2
        <3>2. QED BY <3>1, TokenReaches
    <2>2. CASE Kind(ts, q) \notin {"Int", "Text"}
        <3>1. result = Error(q)
            BY <1>2, <2>2
            DEF ParseColumnDefinition, ParseColumnType, Expect, Then, Parsed, Error
        <3> HIDE DEF result
        <3>2. QED BY <3>1, ErrorMakes DEF Makes, result
    <2>3. CASE Kind(ts, q) \in {"Int", "Text"}
        <3>1. result = Parsed(ColumnDefinition(ts[p].lexeme, Kind(ts, q)), q + 1)
            BY <1>2, <2>3 DEF ParseColumnDefinition, ParseColumnType, Expect, Then, Parsed
        <3>2. result.behind = q + 1
            BY <3>1 DEF Parsed
        <3>3. Kind(ts, q) \notin {"EndOfFile", "LParen", "RParen", "Comma"}
            BY <2>3
        <3> DEFINE r == q + 1
        <3> HIDE DEF q, result
        <3>4. Reached(ts, q, r)
            BY <2>1, <3>3, TokenReaches
        <3> HIDE DEF r
        <3>5. Reached(ts, p, r)
            BY <2>1, <3>4, ReachedFarther
        <3>6. QED BY <3>2, <3>5, GoesReaches DEF r, result
    <2>4. QED BY <2>2, <2>3
<1>3. QED BY <1>1, <1>2

(* The lists of statements, as loops.                                     *)
LEMMA ColumnsLoop ==
    ASSUME NEW ts, IsScan(ts), NEW p \in 1 .. Len(ts)
    PROVE  LET items == [q \in p .. Len(ts) |-> Expect(ts, q, "Identifier")]
           IN  /\ ItemsGo(ts, items, p)
               /\ \E list : IsLoop(list, ts, "Comma", items, p) /\ ParseColumns(ts, p) = list[p]
<1> DEFINE D == p .. Len(ts)
           items == [q \in D |-> Expect(ts, q, "Identifier")]
           list[q \in D] == ListFrom(ts, "Comma", Expect(ts, q, "Identifier"), list)
<1>1. "Comma" \in Separators /\ ItemsGo(ts, items, p)
    <2>1. \A q \in D : q \in 1 .. Len(ts)
        OBVIOUS
    <2>2. "Identifier" \notin {"EndOfFile", "LParen", "RParen", "Comma"}
        OBVIOUS
    <2>3. \A q \in D : Goes(ts, q, Expect(ts, q, "Identifier"))
        BY <2>1, <2>2, ExpectGoes
    <2>4. QED BY <2>3 DEF Separators, ItemsGo
<1>2. \E f : f = [q \in D |-> ListFrom(ts, "Comma", Expect(ts, q, "Identifier"), f)]
    <2> HIDE DEF items
    <2>1. PICK f : Solves("list", f, p .. Len(ts), ts, "Comma", items)
        BY <1>1, LoopExists
    <2>2. f = [q \in D |-> ListFrom(ts, "Comma", items[q], f)]
        BY <2>1 DEF Solves, At
    <2>3. \A q \in D : items[q] = Expect(ts, q, "Identifier")
        BY DEF items
    <2>4. QED BY <2>2, <2>3
<1>3. list = [q \in D |-> ListFrom(ts, "Comma", Expect(ts, q, "Identifier"), list)]
    BY ONLY <1>2, Zenon
<1>4. ParseColumns(ts, p) = list[p]
    BY DEF ParseColumns, ParseList
<1> HIDE DEF list
<1>5. IsLoop(list, ts, "Comma", items, p)
    <2>1. \A q \in D : list[q] = ListFrom(ts, "Comma", Expect(ts, q, "Identifier"), list)
        BY <1>3, Zenon
    <2>2. QED BY <2>1 DEF IsLoop
<1>6. QED BY <1>1, <1>4, <1>5

(* A list in parentheses: what is inside, and the parenthesis behind it.   *)
WithClose(ts, inner) ==
    LET close == Expect(ts, inner.behind, "RParen")
    IN  IF inner.ok THEN IF close.ok THEN Parsed(inner.tree, close.behind) ELSE close
        ELSE inner

LEMMA DefinitionsLoop ==
    ASSUME NEW ts, IsScan(ts), NEW p \in 1 .. Len(ts), Kind(ts, p) = "LParen", NEW m, m = p + 1
    PROVE  /\ m \in 1 .. Len(ts)
           /\ LET items == [q \in m .. Len(ts) |-> ParseColumnDefinition(ts, q)]
              IN  /\ ItemsGo(ts, items, m)
                  /\ \E list : /\ IsLoop(list, ts, "Comma", items, m)
                               /\ ParseDefinitions(ts, p) = WithClose(ts, list[m])
<1> DEFINE open == Expect(ts, p, "LParen")
           k == open.behind
           D == k .. Len(ts)
           items == [q \in D |-> ParseColumnDefinition(ts, q)]
           list[q \in D] == ListFrom(ts, "Comma", ParseColumnDefinition(ts, q), list)
           result == ParseDefinitions(ts, p)
<1>1. result = IF open.ok THEN WithClose(ts, list[k]) ELSE open
    BY DEF ParseDefinitions, ParseInParens, ParseList, Then, WithClose
<1>2. open.ok /\ k = m /\ m \in 1 .. Len(ts)
    BY ExpectGoes
<1> HIDE DEF k, result
<1>3. "Comma" \in Separators /\ ItemsGo(ts, items, k)
    <2>1. \A q \in D : q \in 1 .. Len(ts)
        BY <1>2
    <2>2. \A q \in D : Goes(ts, q, ParseColumnDefinition(ts, q))
        BY <2>1, ColumnDefinitionGoes
    <2>3. QED BY <2>2 DEF Separators, ItemsGo
<1>4. \E f : f = [q \in D |-> ListFrom(ts, "Comma", ParseColumnDefinition(ts, q), f)]
    <2> HIDE DEF items
    <2>1. PICK f : Solves("list", f, k .. Len(ts), ts, "Comma", items)
        BY <1>2, <1>3, LoopExists
    <2>2. f = [q \in D |-> ListFrom(ts, "Comma", items[q], f)]
        BY <2>1 DEF Solves, At
    <2>3. \A q \in D : items[q] = ParseColumnDefinition(ts, q)
        BY DEF items
    <2>4. QED BY <2>2, <2>3
<1>5. list = [q \in D |-> ListFrom(ts, "Comma", ParseColumnDefinition(ts, q), list)]
    BY ONLY <1>4, Zenon
<1> HIDE DEF list, open
<1>6. IsLoop(list, ts, "Comma", items, k)
    <2>1. \A q \in D : list[q] = ListFrom(ts, "Comma", ParseColumnDefinition(ts, q), list)
        BY <1>5, Zenon
    <2>2. QED BY <2>1 DEF IsLoop
<1>7. result = WithClose(ts, list[k])
    BY <1>1, <1>2
<1>8. QED BY <1>2, <1>3, <1>6, <1>7 DEF result

LEMMA ValuesLoop ==
    ASSUME NEW ts, IsScan(ts), NEW p \in 1 .. Len(ts), Kind(ts, p) = "LParen", NEW m, m = p + 1
    PROVE  /\ m \in 1 .. Len(ts)
           /\ LET items == [q \in m .. Len(ts) |-> ParsePrimary(ts, Expressions(ts), q)]
              IN  /\ ItemsGo(ts, items, m)
                  /\ \E list : /\ IsLoop(list, ts, "Comma", items, m)
                               /\ ParseValues(ts, p) = WithClose(ts, list[m])
<1> DEFINE open == Expect(ts, p, "LParen")
           k == open.behind
           D == k .. Len(ts)
           items == [q \in D |-> ParsePrimary(ts, Expressions(ts), q)]
           list[q \in D] == ListFrom(ts, "Comma", ParsePrimary(ts, Expressions(ts), q), list)
           result == ParseValues(ts, p)
<1>1. result = IF open.ok THEN WithClose(ts, list[k]) ELSE open
    BY DEF ParseValues, ParseInParens, ParseList, Then, WithClose
<1>2. open.ok /\ k = m /\ m \in 1 .. Len(ts)
    BY ExpectGoes
<1> HIDE DEF k, result
<1>3. "Comma" \in Separators /\ ItemsGo(ts, items, k)
    <2>1. \A q \in D : q \in 1 .. Len(ts) /\ q \in 0 .. Len(ts)
        BY <1>2
    <2>2. \A q \in D : NestedMake(ts, Expressions(ts), q)
        BY <2>1, ExpressionsMake
    <2>3. \A q \in D : Makes(ts, q, ParsePrimary(ts, Expressions(ts), q))
        BY <2>1, <2>2, PrimaryMakes
    <2>4. QED BY <2>3 DEF Separators, ItemsGo, Makes
<1>4. \E f : f = [q \in D |-> ListFrom(ts, "Comma", ParsePrimary(ts, Expressions(ts), q), f)]
    <2> HIDE DEF items
    <2>1. PICK f : Solves("list", f, k .. Len(ts), ts, "Comma", items)
        BY <1>2, <1>3, LoopExists
    <2>2. f = [q \in D |-> ListFrom(ts, "Comma", items[q], f)]
        BY <2>1 DEF Solves, At
    <2>3. \A q \in D : items[q] = ParsePrimary(ts, Expressions(ts), q)
        BY DEF items
    <2>4. QED BY <2>2, <2>3
<1>5. list = [q \in D |-> ListFrom(ts, "Comma", ParsePrimary(ts, Expressions(ts), q), list)]
    BY ONLY <1>4, Zenon
<1> HIDE DEF list, open
<1>6. IsLoop(list, ts, "Comma", items, k)
    <2>1. \A q \in D : list[q] = ListFrom(ts, "Comma", ParsePrimary(ts, Expressions(ts), q), list)
        BY <1>5, Zenon
    <2>2. QED BY <2>1 DEF IsLoop
<1>7. result = WithClose(ts, list[k])
    BY <1>1, <1>2
<1>8. QED BY <1>2, <1>3, <1>6, <1>7 DEF result

-----------------------------------------------------------------------------
(* The marks that matter to the parser's parentheses and lists.            *)
Brackets == {"(", ")", ","}
LiteralKinds == {"EndOfFile", "Invalid", "IntegerLiteral", "StringLiteral", "Identifier"}

LEMMA MarkKinds ==
    /\ Brackets \subseteq DOMAIN Marks
    /\ Marks["("] = "LParen" /\ Marks[")"] = "RParen" /\ Marks[","] = "Comma"
    /\ \A c \in DOMAIN Marks : Marks[c] \notin LiteralKinds
    /\ \A c \in DOMAIN Marks : \A d \in Brackets : Marks[c] = Marks[d] => c = d
    /\ \A pair \in DOMAIN CompoundMarks :
           CompoundMarks[pair] \in {"NotEqual", "LessEqual", "GreaterEqual"}
<1>1. /\ Marks[","] = "Comma" /\ Marks[";"] = "Semicolon" /\ Marks["."] = "Dot"
      /\ Marks["("] = "LParen" /\ Marks[")"] = "RParen" /\ Marks["*"] = "Star"
      /\ Marks["="] = "Equal" /\ Marks["<"] = "Less" /\ Marks[">"] = "Greater"
    BY Zenon DEF Marks
<1>2. DOMAIN Marks = {",", ";", ".", "(", ")", "*", "=", "<", ">"}
    BY Zenon DEF Marks
<1>3. Brackets \subseteq DOMAIN Marks
    BY <1>2, Zenon DEF Brackets
<1>4. \A c \in DOMAIN Marks :
          Marks[c] \in {"Comma", "Semicolon", "Dot", "LParen", "RParen", "Star",
                        "Equal", "Less", "Greater"}
    BY <1>1, <1>2, Zenon
<1>5. \A c \in DOMAIN Marks : Marks[c] = "LParen" => c = "("
    BY <1>1, <1>2, Zenon
<1>6. \A c \in DOMAIN Marks : Marks[c] = "RParen" => c = ")"
    BY <1>1, <1>2, Zenon
<1>7. \A c \in DOMAIN Marks : Marks[c] = "Comma" => c = ","
    BY <1>1, <1>2, Zenon
<1>8. \A c \in DOMAIN Marks : \A d \in Brackets : Marks[c] = Marks[d] => c = d
    BY <1>1, <1>5, <1>6, <1>7, Zenon DEF Brackets
<1>9. \A c \in DOMAIN Marks : Marks[c] \notin LiteralKinds
    BY <1>4 DEF LiteralKinds
<1>10. \A pair \in DOMAIN CompoundMarks :
           CompoundMarks[pair] \in {"NotEqual", "LessEqual", "GreaterEqual"}
    BY Zenon DEF CompoundMarks
<1>11. QED BY <1>1, <1>3, <1>8, <1>9, <1>10, Zenon

(* What a token is, by its kind.                                           *)
LEMMA KindFacts ==
    ASSUME NEW lexeme, NEW kind, Belongs(lexeme, kind), Len(lexeme) \in Nat
    PROVE  /\ kind = "EndOfFile" => lexeme = << >>
           /\ kind = "Invalid" => ~IsLexeme(lexeme)
           /\ kind = "IntegerLiteral" => ToSet(lexeme) \subseteq Digits
           /\ \A c \in Brackets : kind = Marks[c] => Len(lexeme) = 1 /\ lexeme[1] = c
<1>1. CASE kind \in {"EndOfFile", "Invalid", "IntegerLiteral", "StringLiteral"}
           /\ ~(IsMark(lexeme) /\ kind = (IF Len(lexeme) = 1 THEN Marks[lexeme[1]]
                                           ELSE CompoundMarks[lexeme]))
           /\ ~(IsWord(lexeme) /\ kind = ClassifyKeyword(lexeme))
    <2>1. \A c \in Brackets : kind # Marks[c]
        BY <1>1, MarkKinds DEF LiteralKinds
    <2>2. QED BY <1>1, <2>1 DEF Belongs, IsNumber
<1>2. CASE IsMark(lexeme) /\ kind = (IF Len(lexeme) = 1 THEN Marks[lexeme[1]]
                                     ELSE CompoundMarks[lexeme])
    <2>1. CASE Len(lexeme) = 1
        <3>1. lexeme[1] \in DOMAIN Marks /\ kind = Marks[lexeme[1]]
            BY <1>2, <2>1, CompoundMarksArePairs DEF IsMark
        <3>2. kind \notin LiteralKinds /\ \A c \in Brackets : kind = Marks[c] => lexeme[1] = c
            BY <3>1, MarkKinds
        <3>3. QED BY <2>1, <3>2 DEF LiteralKinds
    <2>2. CASE Len(lexeme) # 1
        <3>1. lexeme \in DOMAIN CompoundMarks /\ kind = CompoundMarks[lexeme]
            BY <1>2, <2>2 DEF IsMark
        <3>2. kind \in {"NotEqual", "LessEqual", "GreaterEqual"}
            BY <3>1, MarkKinds
        <3>3. \A c \in Brackets : Marks[c] \in {"LParen", "RParen", "Comma"}
            BY MarkKinds, Zenon DEF Brackets
        <3>4. QED BY <3>2, <3>3
    <2>3. QED BY <2>1, <2>2
<1>3. CASE IsWord(lexeme) /\ kind = ClassifyKeyword(lexeme)
    <2>1. kind \notin {"EndOfFile", "Invalid", "IntegerLiteral", "StringLiteral"}
          /\ kind \notin Range(Marks)
        <3>1. "Identifier" \notin Range(Marks)
            BY MarkKinds DEF Range, LiteralKinds
        <3>2. \A word \in DOMAIN Keywords :
                 Keywords[word] \notin {"EndOfFile", "Invalid", "IntegerLiteral", "StringLiteral"}
                 /\ Keywords[word] \notin Range(Marks)
            BY KeywordsAssumption
        <3>3. QED BY <1>3, <3>1, <3>2 DEF ClassifyKeyword
    <2>2. \A c \in Brackets : kind # Marks[c]
        BY <2>1, MarkKinds DEF Range
    <2>3. QED BY <2>1, <2>2
<1>4. QED BY <1>1, <1>2, <1>3 DEF Belongs

-----------------------------------------------------------------------------
(* What the parser depends on in a token.                                  *)
IsUsable(token) ==
    /\ token.kind = "Identifier" => token.lexeme # EmptyName
    /\ token.kind = "IntegerLiteral" => token.lexeme \in Seq(Digits)

LEMMA TokenIsUsable ==
    ASSUME NEW S, NEW token, token.lexeme \in Seq(S), Belongs(token.lexeme, token.kind),
           token.kind # "EndOfFile" => Len(token.lexeme) # 0
    PROVE  IsUsable(token)
<1> DEFINE lexeme == token.lexeme
<1>1. Len(lexeme) \in Nat /\ DOMAIN lexeme = 1 .. Len(lexeme) /\ lexeme \in [1 .. Len(lexeme) -> S]
    BY LenProperties
<1>2. token.kind = "Identifier" => lexeme # EmptyName
    <2>1. Len(<< >>) = 0
        OBVIOUS
    <2>2. QED BY <2>1, EmptyNameAssumption
<1>3. ASSUME token.kind = "IntegerLiteral"
      PROVE  lexeme \in Seq(Digits)
    <2>1. ToSet(lexeme) \subseteq Digits
        BY <1>1, <1>3, KindFacts
    <2>2. lexeme \in [1 .. Len(lexeme) -> Digits]
        BY <1>1, <2>1 DEF ToSet
    <2>3. QED BY <1>1, <2>2, SeqDef
<1>4. QED BY <1>2, <1>3 DEF IsUsable

TokensUsable ==
    \A p \in 1 .. Len(tokens) :
        IsUsable(tokens[p]) /\ (tokens[p].kind = "EndOfFile" => p = Len(tokens))

LEMMA ScannedIsScan ==
    ASSUME ScanInv, TokensUsable, IsScanned
    PROVE  IsScan(tokens)
<1>1. tokens \in Seq(Token) /\ tokens # << >> /\ tokens[Len(tokens)].kind = "EndOfFile"
    BY DEF ScanInv, ScanTypeOK, IsScanned, Last
<1>2. Len(tokens) \in Nat \ {0}
    BY <1>1, LenProperties, EmptySeq
<1>3. QED BY <1>1, <1>2 DEF IsScan, TokensUsable, IsUsable, Kind

LEMMA ScanKeepsUsable ==
    ASSUME ScanInv, TokensUsable, Scan
    PROVE  TokensUsable'
<1> DEFINE n == Len(tokens)
<1>1. PICK token \in Token, start \in place.pos .. place'.pos :
          /\ place'.pos \in 1 .. Len(text) + 1
          /\ tokens' = Append(tokens, token)
          /\ Len(token.lexeme) = place'.pos - start
          /\ IsToken(text, start, place'.pos, token.kind)
          /\ token.lexeme = SubSeq(text, start, place'.pos - 1)
          /\ token.kind # "EndOfFile" => start < place'.pos
    BY ScanAppends
<1>2. tokens \in Seq(Token) /\ place.pos \in Nat /\ place'.pos \in Nat /\ n \in Nat
    BY <1>1, InputsAssumption, LenProperties DEF ScanInv, ScanTypeOK
<1>3. /\ Len(tokens') = n + 1 /\ tokens'[n + 1] = token
      /\ \A p \in 1 .. n : tokens'[p] = tokens[p]
    BY <1>1, <1>2, AppendProperties
<1>4. \A p \in 1 .. n : tokens[p].kind # "EndOfFile"
    <2>1. tokens = << >> \/ tokens[n].kind # "EndOfFile"
        BY DEF Scan, IsScanned, Last
    <2>2. \A p \in 1 .. n : tokens[p].kind = "EndOfFile" => p = n
        BY DEF TokensUsable
    <2>3. tokens = << >> => n = 0
        BY EmptySeq
    <2>4. QED BY <1>2, <2>1, <2>2, <2>3
<1>5. IsUsable(token)
    <2>1. Belongs(token.lexeme, token.kind)
        BY <1>1 DEF IsToken
    <2>2. token.lexeme \in Seq(STRING)
        BY DEF Token
    <2>3. token.kind # "EndOfFile" => Len(token.lexeme) # 0
        BY <1>1, <1>2
    <2>4. QED BY <2>1, <2>2, <2>3, TokenIsUsable
<1>6. \A p \in 1 .. n : IsUsable(tokens[p])
    BY DEF TokensUsable
<1>7. ASSUME NEW p \in 1 .. n + 1
      PROVE  IsUsable(tokens'[p]) /\ (tokens'[p].kind = "EndOfFile" => p = n + 1)
    <2>1. CASE p = n + 1
        BY <1>3, <1>5, <2>1
    <2>2. CASE p # n + 1
        <3>1. p \in 1 .. n
            BY <1>2, <2>2
        <3>2. QED BY <1>3, <1>4, <1>6, <3>1
    <2>3. QED BY <2>1, <2>2
<1>8. QED BY <1>3, <1>7 DEF TokensUsable

-----------------------------------------------------------------------------
(* The parts of statements.                                                *)

LEMMA ExpectReaches ==
    ASSUME NEW ts, IsScan(ts), NEW p \in 1 .. Len(ts),
           NEW kind, kind \notin {"EndOfFile", "LParen", "RParen", "Comma"},
           Expect(ts, p, kind).ok
    PROVE  LET result == Expect(ts, p, kind)
           IN  /\ Reached(ts, p, result.behind) /\ result.behind \in 1 .. Len(ts)
               /\ kind = "Identifier" => result.tree # EmptyName
<1>1. kind # "EndOfFile"
    OBVIOUS
<1>2. Kind(ts, p) = kind
    BY <1>1, ExpectGoes
<1>3. Expect(ts, p, kind).behind = p + 1 /\ Expect(ts, p, kind).tree = ts[p].lexeme
    BY <1>1, <1>2, ExpectGoes
<1>4. Reached(ts, p, p + 1) /\ p + 1 \in 1 .. Len(ts)
    BY <1>2, TokenReaches
<1>5. kind = "Identifier" => ts[p].lexeme # EmptyName
    BY <1>2 DEF IsScan
<1>6. QED BY <1>3, <1>4, <1>5

LEMMA TableReferenceGoes ==
    ASSUME NEW ts, IsScan(ts), NEW p \in 1 .. Len(ts), ParseTableReference(ts, p).ok
    PROVE  LET result == ParseTableReference(ts, p)
           IN  /\ Reached(ts, p, result.behind) /\ result.behind \in 1 .. Len(ts)
               /\ result.tree.table # EmptyName
<1> DEFINE name == Expect(ts, p, "Identifier")
           q == name.behind
           table == Expect(ts, q + 1, "Identifier")
           result == ParseTableReference(ts, p)
           only == Parsed(TableReference(EmptyName, name.tree), q)
           both == Parsed(TableReference(name.tree, table.tree), table.behind)
<1>1. result = IF name.ok
               THEN IF Kind(ts, q) # "Dot" THEN only ELSE IF table.ok THEN both ELSE table
               ELSE name
    BY DEF ParseTableReference, Then
<1>2. /\ only.tree.table = name.tree /\ only.behind = q
      /\ both.tree.table = table.tree /\ both.behind = table.behind
    BY DEF Parsed, TableReference
<1>3. result.ok
    OBVIOUS
<1> HIDE DEF result, name, only, both
<1>4. name.ok
    BY <1>1, <1>3
<1>5. Reached(ts, p, q) /\ q \in 1 .. Len(ts) /\ name.tree # EmptyName
    BY <1>4, ExpectReaches DEF name
<1>6. CASE Kind(ts, q) # "Dot"
    <2>1. result = only
        BY <1>1, <1>4, <1>6
    <2>2. QED BY <1>2, <1>5, <2>1 DEF result
<1>7. CASE Kind(ts, q) = "Dot"
    <2> HIDE DEF q, table
    <2>1. Reached(ts, q, q + 1) /\ q + 1 \in 1 .. Len(ts)
        <3>1. Kind(ts, q) \notin {"EndOfFile", "LParen", "RParen", "Comma"}
            BY <1>7
        <3>2. QED BY <1>5, <3>1, TokenReaches
    <2>2. table.ok /\ result = both
        BY <1>1, <1>3, <1>4, <1>7
    <2> DEFINE r == q + 1
    <2> HIDE DEF r
    <2>3. table = Expect(ts, r, "Identifier") /\ r \in 1 .. Len(ts) /\ Reached(ts, q, r)
        BY <2>1 DEF table, r
    <2>4. Reached(ts, r, table.behind) /\ table.behind \in 1 .. Len(ts) /\ table.tree # EmptyName
        BY <2>2, <2>3, ExpectReaches
    <2>5. Reached(ts, p, r)
        BY <1>5, <2>3, ReachedFarther
    <2>6. Reached(ts, p, table.behind)
        BY <2>3, <2>4, <2>5, ReachedFarther
    <2>7. QED BY <1>2, <2>2, <2>4, <2>6 DEF result
<1>8. QED BY <1>6, <1>7

(* The lists of statements.                                                *)
LEMMA ListReaches ==
    ASSUME NEW ts, IsScan(ts), NEW p \in 1 .. Len(ts), NEW items, ItemsGo(ts, items, p),
           NEW separator \in Separators, NEW list, IsLoop(list, ts, separator, items, p),
           list[p].ok
    PROVE  /\ Reached(ts, p, list[p].behind) /\ list[p].behind \in 1 .. Len(ts)
           /\ IsSequence(list[p].tree) /\ list[p].tree # << >>
<1> DEFINE trees == ItemTrees(ts, items, p)
<1>1. p \in p .. Len(ts)
    OBVIOUS
<1>2. Goes(ts, p, list[p]) /\ list[p].tree \in Seq(trees) /\ list[p].tree # << >>
    BY <1>1, LoopGoes
<1>3. Reached(ts, p, list[p].behind)
    BY <1>2, GoesReaches
<1>4. list[p].behind \in 1 .. Len(ts)
    BY <1>3 DEF Reached, IsScan
<1> HIDE DEF trees
<1>5. IsSequence(list[p].tree)
    BY <1>2, SeqIsSequence
<1>6. QED BY <1>2, <1>3, <1>4, <1>5

LEMMA ColumnsGo ==
    ASSUME NEW ts, IsScan(ts), NEW p \in 1 .. Len(ts), ParseColumns(ts, p).ok
    PROVE  LET result == ParseColumns(ts, p)
           IN  /\ Reached(ts, p, result.behind) /\ result.behind \in 1 .. Len(ts)
               /\ IsSequence(result.tree)
<1> DEFINE items == [q \in p .. Len(ts) |-> Expect(ts, q, "Identifier")]
<1>1. "Comma" \in Separators /\ ItemsGo(ts, items, p)
    BY ColumnsLoop DEF Separators
<1>2. PICK list : IsLoop(list, ts, "Comma", items, p) /\ ParseColumns(ts, p) = list[p]
    BY ColumnsLoop
<1> HIDE DEF items
<1>3. QED BY <1>1, <1>2, ListReaches

(* A list in parentheses, with one item at least.                          *)
LEMMA InParensReach ==
    ASSUME NEW ts, IsScan(ts), NEW p \in 1 .. Len(ts), NEW q \in 1 .. Len(ts), q = p + 1,
           Kind(ts, p) = "LParen", NEW r, Reached(ts, q, r), Kind(ts, r) = "RParen"
    PROVE  Reached(ts, p, r + 1) /\ r + 1 \in 1 .. Len(ts)
<1>1. Depth(ts, q) = Depth(ts, p) + 1 /\ Depth(ts, p) \in Int
    BY StepsOver
<1>2. r \in q + 1 .. Len(ts) /\ Depth(ts, r) = Depth(ts, q) /\ Len(ts) \in Nat
    BY DEF Reached, IsScan
<1>3. r \in 1 .. Len(ts)
    BY <1>2
<1>4. r + 1 \in 1 .. Len(ts) /\ r + 1 - 1 = r /\ Depth(ts, r + 1) = Depth(ts, r) - 1
    BY <1>3, StepsOver
<1>5. r + 1 \in p + 1 .. Len(ts)
    BY <1>2, <1>4
<1>6. Depth(ts, r + 1) = Depth(ts, p)
    BY <1>1, <1>2, <1>4
<1>7. QED BY <1>4, <1>5, <1>6 DEF Reached

LEMMA ClosedReaches ==
    ASSUME NEW ts, IsScan(ts), NEW p \in 1 .. Len(ts), Kind(ts, p) = "LParen",
           NEW m \in 1 .. Len(ts), m = p + 1, NEW items, ItemsGo(ts, items, m),
           "Comma" \in Separators, NEW list, IsLoop(list, ts, "Comma", items, m),
           NEW result, result = WithClose(ts, list[m]), result.ok
    PROVE  /\ Reached(ts, p, result.behind) /\ result.behind \in 1 .. Len(ts)
           /\ IsSequence(result.tree) /\ result.tree # << >>
<1> DEFINE r == list[m].behind
           close == Expect(ts, r, "RParen")
<1>1. list[m].ok /\ close.ok /\ result = Parsed(list[m].tree, close.behind)
    BY DEF WithClose
<1>2. result.tree = list[m].tree /\ result.behind = close.behind
    BY <1>1 DEF Parsed
<1>3. /\ Reached(ts, m, r) /\ r \in 1 .. Len(ts)
      /\ IsSequence(list[m].tree) /\ list[m].tree # << >>
    BY <1>1, ListReaches
<1>4. Kind(ts, r) = "RParen" /\ close.behind = r + 1
    BY <1>1, <1>3, ExpectGoes
<1> HIDE DEF r, close
<1>5. Reached(ts, p, r + 1) /\ r + 1 \in 1 .. Len(ts)
    BY <1>3, <1>4, InParensReach
<1>6. QED BY <1>2, <1>3, <1>4, <1>5

LEMMA DefinitionsGo ==
    ASSUME NEW ts, IsScan(ts), NEW p \in 1 .. Len(ts), ParseDefinitions(ts, p).ok
    PROVE  LET result == ParseDefinitions(ts, p)
           IN  /\ Reached(ts, p, result.behind) /\ result.behind \in 1 .. Len(ts)
               /\ IsSequence(result.tree) /\ result.tree # << >>
<1> DEFINE result == ParseDefinitions(ts, p)
<1>1. Kind(ts, p) = "LParen"
    <2>1. Kind(ts, p) # "LParen" => result = Error(p)
        BY DEF ParseDefinitions, ParseInParens, Expect, Then, Error
    <2>2. result.ok
        OBVIOUS
    <2> HIDE DEF result
    <2>3. QED BY <2>1, <2>2, ErrorMakes
<1> PICK m : m = p + 1
    OBVIOUS
<1> DEFINE items == [q \in m .. Len(ts) |-> ParseColumnDefinition(ts, q)]
<1>2. m \in 1 .. Len(ts) /\ ItemsGo(ts, items, m) /\ "Comma" \in Separators
    BY <1>1, DefinitionsLoop DEF Separators
<1>3. PICK list : IsLoop(list, ts, "Comma", items, m) /\ result = WithClose(ts, list[m])
    BY <1>1, DefinitionsLoop
<1> HIDE DEF items
<1>4. QED BY <1>1, <1>2, <1>3, ClosedReaches

LEMMA ValuesGo ==
    ASSUME NEW ts, IsScan(ts), NEW p \in 1 .. Len(ts), ParseValues(ts, p).ok
    PROVE  LET result == ParseValues(ts, p)
           IN  /\ Reached(ts, p, result.behind) /\ result.behind \in 1 .. Len(ts)
               /\ IsSequence(result.tree) /\ result.tree # << >>
<1> DEFINE result == ParseValues(ts, p)
<1>1. Kind(ts, p) = "LParen"
    <2>1. Kind(ts, p) # "LParen" => result = Error(p)
        BY DEF ParseValues, ParseInParens, Expect, Then, Error
    <2>2. result.ok
        OBVIOUS
    <2> HIDE DEF result
    <2>3. QED BY <2>1, <2>2, ErrorMakes
<1> PICK m : m = p + 1
    OBVIOUS
<1> DEFINE items == [q \in m .. Len(ts) |-> ParsePrimary(ts, Expressions(ts), q)]
<1>2. m \in 1 .. Len(ts) /\ ItemsGo(ts, items, m) /\ "Comma" \in Separators
    BY <1>1, ValuesLoop DEF Separators
<1>3. PICK list : IsLoop(list, ts, "Comma", items, m) /\ result = WithClose(ts, list[m])
    BY <1>1, ValuesLoop
<1> HIDE DEF items
<1>4. QED BY <1>1, <1>2, <1>3, ClosedReaches

-----------------------------------------------------------------------------
(***************************************************************************)
(* Statements: what is parsed is what Sessions expects, and its tokens     *)
(* have as many opening parentheses as closing ones and do not end with an *)
(* opening one or a comma.                                                 *)
(***************************************************************************)
IsComplete(ts) == Depth(ts, Len(ts)) = 0 /\ Kind(ts, Len(ts) - 1) \notin {"LParen", "Comma"}
Delivers(ts, result) == result.ok => IsParsed(result.tree) /\ Reached(ts, 1, Len(ts))

LEMMA FinishFacts ==
    ASSUME NEW ts, IsScan(ts), NEW p, Reached(ts, 1, p), NEW statement,
           FinishStatement(ts, p, statement).ok
    PROVE  FinishStatement(ts, p, statement).tree = statement /\ Reached(ts, 1, Len(ts))
<1> DEFINE q == IF Kind(ts, p) = "Semicolon" THEN p + 1 ELSE p
           result == FinishStatement(ts, p, statement)
<1>0. p \in 1 .. Len(ts) /\ 1 \in 1 .. Len(ts)
    BY DEF Reached, IsScan
<1>1. result = IF Kind(ts, q) = "EndOfFile" THEN Parsed(statement, q) ELSE Error(q)
    BY DEF FinishStatement
<1>2. Reached(ts, 1, q) /\ q \in 1 .. Len(ts)
    <2>1. CASE Kind(ts, p) = "Semicolon"
        <3> DEFINE r == p + 1
        <3>1. Reached(ts, p, r) /\ r \in 1 .. Len(ts)
            <4>1. Kind(ts, p) \notin {"EndOfFile", "LParen", "RParen", "Comma"}
                BY <2>1
            <4>2. QED BY <1>0, <4>1, TokenReaches
        <3> HIDE DEF r
        <3>2. Reached(ts, 1, r)
            BY <1>0, <3>1, ReachedFarther
        <3>3. QED BY <2>1, <3>1, <3>2 DEF r
    <2>2. CASE Kind(ts, p) # "Semicolon"
        BY <1>0, <2>2
    <2>3. QED BY <2>1, <2>2
<1> HIDE DEF q
<1>3. Kind(ts, q) = "EndOfFile" /\ result = Parsed(statement, q)
    <2>1. result.ok
        OBVIOUS
    <2> HIDE DEF result
    <2>2. QED BY <1>1, <2>1, ErrorMakes
<1>4. q = Len(ts)
    BY <1>2, <1>3 DEF IsScan
<1>5. QED BY <1>2, <1>3, <1>4 DEF Parsed

LEMMA SelectListGoes ==
    ASSUME NEW ts, IsScan(ts), NEW p \in 1 .. Len(ts), ParseSelectList(ts, p).ok
    PROVE  LET result == ParseSelectList(ts, p)
           IN  /\ Reached(ts, p, result.behind) /\ result.behind \in 1 .. Len(ts)
               /\ IsSequence(result.tree.columns)
<1> DEFINE result == ParseSelectList(ts, p)
           columns == ParseColumns(ts, p)
           all == [all |-> TRUE, columns |-> << >>]
           some == [all |-> FALSE, columns |-> columns.tree]
<1>1. CASE Kind(ts, p) = "Star"
    <2>1. result = Parsed(all, p + 1)
        BY <1>1 DEF ParseSelectList
    <2>2. result.behind = p + 1 /\ result.tree.columns = << >>
        BY <2>1 DEF Parsed
    <2>3. Reached(ts, p, p + 1) /\ p + 1 \in 1 .. Len(ts)
        <3>1. Kind(ts, p) \notin {"EndOfFile", "LParen", "RParen", "Comma"}
            BY <1>1
        <3>2. QED BY <3>1, TokenReaches
    <2>4. QED BY <2>2, <2>3, EmptySequence
<1>2. CASE Kind(ts, p) # "Star"
    <2>1. result = IF columns.ok THEN Parsed(some, columns.behind) ELSE columns
        BY <1>2 DEF ParseSelectList, Then
    <2>2. result.ok
        OBVIOUS
    <2> HIDE DEF result, columns
    <2>3. columns.ok /\ result = Parsed(some, columns.behind)
        BY <2>1, <2>2
    <2>4. result.behind = columns.behind /\ result.tree.columns = columns.tree
        BY <2>3 DEF Parsed
    <2>5. QED BY <2>3, <2>4, ColumnsGo DEF columns, result
<1>3. QED BY <1>1, <1>2

LEMMA WhereGoes ==
    ASSUME NEW ts, IsScan(ts), NEW p, Reached(ts, 1, p), ParseWhere(ts, p).ok
    PROVE  LET result == ParseWhere(ts, p)
           IN  /\ Reached(ts, 1, result.behind)
               /\ result.tree.kind = "None" \/ IsTree(result.tree)
<1> DEFINE result == ParseWhere(ts, p)
           q == p + 1
<1>0. p \in 1 .. Len(ts) /\ 1 \in 1 .. Len(ts)
    BY DEF Reached, IsScan
<1>1. CASE Kind(ts, p) = "Where"
    <2>1. result = ParseExpression(ts, q)
        BY <1>1 DEF ParseWhere
    <2>2. Reached(ts, p, q) /\ q \in 1 .. Len(ts)
        <3>1. Kind(ts, p) \notin {"EndOfFile", "LParen", "RParen", "Comma"}
            BY <1>1
        <3>2. QED BY <1>0, <3>1, TokenReaches
    <2> HIDE DEF q
    <2>3. Makes(ts, q, result) /\ result.ok
        BY <2>1, <2>2, ExpressionsMake
    <2> HIDE DEF result
    <2>4. Reached(ts, q, result.behind) /\ IsTree(result.tree)
        BY <2>3, GoesReaches DEF Makes
    <2>5. Reached(ts, 1, q)
        BY <1>0, <2>2, ReachedFarther
    <2>6. Reached(ts, 1, result.behind)
        BY <1>0, <2>4, <2>5, ReachedFarther
    <2>7. QED BY <2>4, <2>6 DEF result
<1>2. CASE Kind(ts, p) # "Where"
    <2>1. result = Parsed(NoWhere, p)
        BY <1>2 DEF ParseWhere
    <2>2. result.behind = p /\ result.tree.kind = "None"
        BY <2>1 DEF Parsed, NoWhere
    <2>3. QED BY <2>2
<1>3. QED BY <1>1, <1>2

LEMMA SelectDelivers ==
    ASSUME NEW ts, IsScan(ts), NEW p, Reached(ts, 1, p)
    PROVE  Delivers(ts, ParseSelect(ts, p))
<1> DEFINE list == ParseSelectList(ts, p)
           from == Expect(ts, list.behind, "From")
           ref == ParseTableReference(ts, from.behind)
           where == ParseWhere(ts, ref.behind)
           statement == SelectStatement(ref.tree.schema, ref.tree.table,
                            list.tree.all, list.tree.columns, where.tree)
           finish == FinishStatement(ts, where.behind, statement)
           result == ParseSelect(ts, p)
<1>0. 1 \in 1 .. Len(ts) /\ p \in 1 .. Len(ts)
    BY DEF Reached, IsScan
<1>1. result = IF list.ok
               THEN IF from.ok
                    THEN IF ref.ok THEN IF where.ok THEN finish ELSE where ELSE ref
                    ELSE from
               ELSE list
    BY DEF ParseSelect, Then
<1> SUFFICES ASSUME result.ok
             PROVE  IsParsed(result.tree) /\ Reached(ts, 1, Len(ts))
    BY DEF Delivers
<1>2. list.ok /\ from.ok /\ ref.ok /\ where.ok /\ finish.ok /\ result = finish
    <2> HIDE DEF list, from, ref, where, finish, result
    <2>1. QED BY <1>1
<1>3. Reached(ts, p, list.behind) /\ list.behind \in 1 .. Len(ts) /\ IsSequence(list.tree.columns)
    BY <1>0, <1>2, SelectListGoes
<1> HIDE DEF list
<1>4. Reached(ts, list.behind, from.behind) /\ from.behind \in 1 .. Len(ts)
    <2>1. "From" \notin {"EndOfFile", "LParen", "RParen", "Comma"}
        OBVIOUS
    <2>2. QED BY <1>2, <1>3, <2>1, ExpectReaches
<1> HIDE DEF from
<1>5. Reached(ts, from.behind, ref.behind) /\ ref.behind \in 1 .. Len(ts)
    BY <1>2, <1>4, TableReferenceGoes
<1> HIDE DEF ref
<1>6. Reached(ts, 1, list.behind)
    BY <1>0, <1>3, ReachedFarther
<1>7. Reached(ts, 1, from.behind)
    BY <1>0, <1>4, <1>6, ReachedFarther
<1>8. Reached(ts, 1, ref.behind)
    BY <1>0, <1>5, <1>7, ReachedFarther
<1>9. Reached(ts, 1, where.behind) /\ (where.tree.kind = "None" \/ IsTree(where.tree))
    BY <1>2, <1>8, WhereGoes
<1> HIDE DEF where
<1>10. IsParsed(statement)
    <2>1. /\ statement.kind = "Select" /\ statement.columns = list.tree.columns
          /\ statement.where = where.tree
        BY DEF SelectStatement
    <2>2. QED BY <1>3, <1>9, <2>1 DEF IsParsed
<1> HIDE DEF statement
<1>11. finish.tree = statement /\ Reached(ts, 1, Len(ts))
    BY <1>2, <1>9, FinishFacts
<1>12. QED BY <1>2, <1>10, <1>11

LEMMA CreateTableDelivers ==
    ASSUME NEW ts, IsScan(ts), NEW p, Reached(ts, 1, p)
    PROVE  Delivers(ts, ParseCreateTable(ts, p))
<1> DEFINE ref == ParseTableReference(ts, p)
           columns == ParseDefinitions(ts, ref.behind)
           statement == CreateTableStatement(ref.tree.schema, ref.tree.table, columns.tree)
           finish == FinishStatement(ts, columns.behind, statement)
           result == ParseCreateTable(ts, p)
<1>0. 1 \in 1 .. Len(ts) /\ p \in 1 .. Len(ts)
    BY DEF Reached, IsScan
<1>1. result = IF ref.ok THEN IF columns.ok THEN finish ELSE columns ELSE ref
    BY DEF ParseCreateTable, Then
<1> SUFFICES ASSUME result.ok
             PROVE  IsParsed(result.tree) /\ Reached(ts, 1, Len(ts))
    BY DEF Delivers
<1>2. ref.ok /\ columns.ok /\ finish.ok /\ result = finish
    <2> HIDE DEF ref, columns, finish, result
    <2>1. QED BY <1>1
<1>3. /\ Reached(ts, p, ref.behind) /\ ref.behind \in 1 .. Len(ts)
      /\ ref.tree.table # EmptyName
    BY <1>0, <1>2, TableReferenceGoes
<1> HIDE DEF ref
<1>4. /\ Reached(ts, ref.behind, columns.behind) /\ columns.behind \in 1 .. Len(ts)
      /\ IsSequence(columns.tree) /\ columns.tree # << >>
    BY <1>2, <1>3, DefinitionsGo
<1> HIDE DEF columns
<1>5. Reached(ts, 1, ref.behind)
    BY <1>0, <1>3, ReachedFarther
<1>6. Reached(ts, 1, columns.behind)
    BY <1>0, <1>4, <1>5, <1>3, ReachedFarther
<1>7. IsParsed(statement)
    BY <1>3, <1>4 DEF IsParsed, CreateTableStatement
<1> HIDE DEF statement
<1>8. finish.tree = statement /\ Reached(ts, 1, Len(ts))
    BY <1>2, <1>6, FinishFacts
<1>9. QED BY <1>2, <1>7, <1>8

LEMMA CreateSchemaDelivers ==
    ASSUME NEW ts, IsScan(ts), NEW p, Reached(ts, 1, p)
    PROVE  /\ Delivers(ts, ParseCreateSchema(ts, p))
           /\ Delivers(ts, ParseCreateDatabase(ts, p))
<1> DEFINE name == Expect(ts, p, "Identifier")
           inSchema == FinishStatement(ts, name.behind, CreateSchemaStatement(name.tree))
           inDatabase == FinishStatement(ts, name.behind, CreateDatabaseStatement(name.tree))
<1>0. 1 \in 1 .. Len(ts) /\ p \in 1 .. Len(ts)
    BY DEF Reached, IsScan
<1>1. /\ ParseCreateSchema(ts, p) = IF name.ok THEN inSchema ELSE name
      /\ ParseCreateDatabase(ts, p) = IF name.ok THEN inDatabase ELSE name
    BY DEF ParseCreateSchema, ParseCreateDatabase, Then
<1>2. CASE ~name.ok
    BY <1>1, <1>2 DEF Delivers
<1>3. CASE name.ok
    <2>1. Reached(ts, p, name.behind) /\ name.behind \in 1 .. Len(ts) /\ name.tree # EmptyName
        <3>1. "Identifier" \notin {"EndOfFile", "LParen", "RParen", "Comma"}
            OBVIOUS
        <3>2. QED BY <1>0, <1>3, <3>1, ExpectReaches
    <2> HIDE DEF name
    <2>2. Reached(ts, 1, name.behind)
        BY <1>0, <2>1, ReachedFarther
    <2>3. IsParsed(CreateSchemaStatement(name.tree)) /\ IsParsed(CreateDatabaseStatement(name.tree))
        BY <2>1 DEF IsParsed, CreateSchemaStatement, CreateDatabaseStatement
    <2>4. ASSUME inSchema.ok PROVE inSchema.tree = CreateSchemaStatement(name.tree)
                                   /\ Reached(ts, 1, Len(ts))
        BY <2>2, <2>4, FinishFacts
    <2>5. ASSUME inDatabase.ok PROVE inDatabase.tree = CreateDatabaseStatement(name.tree)
                                   /\ Reached(ts, 1, Len(ts))
        BY <2>2, <2>5, FinishFacts
    <2> HIDE DEF inSchema, inDatabase
    <2>6. QED BY <1>1, <1>3, <2>3, <2>4, <2>5 DEF Delivers
<1>4. QED BY <1>2, <1>3

LEMMA InsertDelivers ==
    ASSUME NEW ts, IsScan(ts), NEW p, Reached(ts, 1, p)
    PROVE  Delivers(ts, ParseInsert(ts, p))
<1> DEFINE into == Expect(ts, p, "Into")
           ref == ParseTableReference(ts, into.behind)
           values == Expect(ts, ref.behind, "Values")
           items == ParseValues(ts, values.behind)
           statement == InsertStatement(ref.tree.schema, ref.tree.table, items.tree)
           finish == FinishStatement(ts, items.behind, statement)
           result == ParseInsert(ts, p)
<1>0. 1 \in 1 .. Len(ts) /\ p \in 1 .. Len(ts)
    BY DEF Reached, IsScan
<1>1. result = IF into.ok
               THEN IF ref.ok
                    THEN IF values.ok THEN IF items.ok THEN finish ELSE items ELSE values
                    ELSE ref
               ELSE into
    BY DEF ParseInsert, Then
<1> SUFFICES ASSUME result.ok
             PROVE  IsParsed(result.tree) /\ Reached(ts, 1, Len(ts))
    BY DEF Delivers
<1>2. into.ok /\ ref.ok /\ values.ok /\ items.ok /\ finish.ok /\ result = finish
    <2> HIDE DEF into, ref, values, items, finish, result
    <2>1. QED BY <1>1
<1>3. "Into" \notin {"EndOfFile", "LParen", "RParen", "Comma"}
      /\ "Values" \notin {"EndOfFile", "LParen", "RParen", "Comma"}
    OBVIOUS
<1>4. Reached(ts, p, into.behind) /\ into.behind \in 1 .. Len(ts)
    BY <1>0, <1>2, <1>3, ExpectReaches
<1> HIDE DEF into
<1>5. Reached(ts, into.behind, ref.behind) /\ ref.behind \in 1 .. Len(ts)
    BY <1>2, <1>4, TableReferenceGoes
<1> HIDE DEF ref
<1>6. Reached(ts, ref.behind, values.behind) /\ values.behind \in 1 .. Len(ts)
    BY <1>2, <1>3, <1>5, ExpectReaches
<1> HIDE DEF values
<1>7. /\ Reached(ts, values.behind, items.behind) /\ items.behind \in 1 .. Len(ts)
      /\ IsSequence(items.tree)
    BY <1>2, <1>6, ValuesGo
<1> HIDE DEF items
<1>8. Reached(ts, 1, into.behind)
    BY <1>0, <1>4, ReachedFarther
<1>9. Reached(ts, 1, ref.behind)
    BY <1>0, <1>5, <1>8, ReachedFarther
<1>10. Reached(ts, 1, values.behind)
    BY <1>0, <1>6, <1>9, ReachedFarther
<1>11. Reached(ts, 1, items.behind)
    BY <1>0, <1>7, <1>10, ReachedFarther
<1>12. IsParsed(statement)
    BY <1>7 DEF IsParsed, InsertStatement
<1> HIDE DEF statement
<1>13. finish.tree = statement /\ Reached(ts, 1, Len(ts))
    BY <1>2, <1>11, FinishFacts
<1>14. QED BY <1>2, <1>12, <1>13

LEMMA CreateDelivers ==
    ASSUME NEW ts, IsScan(ts), NEW p, Reached(ts, 1, p)
    PROVE  Delivers(ts, ParseCreate(ts, p))
<1>0. 1 \in 1 .. Len(ts) /\ p \in 1 .. Len(ts)
    BY DEF Reached, IsScan
<1>1. CASE Kind(ts, p) \in {"Database", "Schema", "Table"}
    <2> DEFINE q == p + 1
    <2>1. Reached(ts, p, q) /\ q \in 1 .. Len(ts)
        <3>1. Kind(ts, p) \notin {"EndOfFile", "LParen", "RParen", "Comma"}
            BY <1>1
        <3>2. QED BY <1>0, <3>1, TokenReaches
    <2> HIDE DEF q
    <2>2. Reached(ts, 1, q)
        BY <1>0, <2>1, ReachedFarther
    <2>3. /\ Delivers(ts, ParseCreateTable(ts, q)) /\ Delivers(ts, ParseCreateSchema(ts, q))
          /\ Delivers(ts, ParseCreateDatabase(ts, q))
        BY <2>2, CreateTableDelivers, CreateSchemaDelivers
    <2>4. ParseCreate(ts, p) \in {ParseCreateDatabase(ts, q), ParseCreateSchema(ts, q),
                                  ParseCreateTable(ts, q)}
        <3>1. CASE Kind(ts, p) = "Database"
            BY <3>1 DEF ParseCreate, q
        <3>2. CASE Kind(ts, p) = "Schema"
            BY <3>2 DEF ParseCreate, q
        <3>3. CASE Kind(ts, p) = "Table"
            BY <3>3 DEF ParseCreate, q
        <3>4. QED BY <1>1, <3>1, <3>2, <3>3
    <2>5. QED BY <2>3, <2>4
<1>2. CASE Kind(ts, p) \notin {"Database", "Schema", "Table"}
    <2>1. ParseCreate(ts, p) = Error(p)
        BY <1>2 DEF ParseCreate
    <2>2. QED BY <2>1, ErrorMakes DEF Delivers
<1>3. QED BY <1>1, <1>2

LEMMA StatementFacts ==
    ASSUME NEW ts, IsScan(ts), ParseStatement(ts).ok
    PROVE  IsParsed(ParseStatement(ts).tree) /\ IsComplete(ts)
<1>0. 1 \in 1 .. Len(ts)
    BY DEF IsScan
<1>1. Kind(ts, 1) \in {"Select", "Create", "Insert"}
    <2>1. CASE Kind(ts, 1) \notin {"Select", "Create", "Insert"}
        <3>1. ParseStatement(ts) = Error(1)
            BY <2>1 DEF ParseStatement
        <3>2. QED BY <3>1, ErrorMakes
    <2>2. QED BY <2>1
<1>2. Reached(ts, 1, 2)
    <2>1. Kind(ts, 1) \notin {"EndOfFile", "LParen", "RParen", "Comma"}
        BY <1>1
    <2>2. Reached(ts, 1, 1 + 1)
        BY <1>0, <2>1, TokenReaches
    <2>3. QED BY <2>2
<1>3. /\ Delivers(ts, ParseSelect(ts, 2)) /\ Delivers(ts, ParseCreate(ts, 2))
      /\ Delivers(ts, ParseInsert(ts, 2))
    BY <1>2, SelectDelivers, CreateDelivers, InsertDelivers
<1>4. ParseStatement(ts) \in {ParseSelect(ts, 2), ParseCreate(ts, 2), ParseInsert(ts, 2)}
    <2>1. CASE Kind(ts, 1) = "Select"
        BY <2>1 DEF ParseStatement
    <2>2. CASE Kind(ts, 1) = "Create"
        BY <2>2 DEF ParseStatement
    <2>3. CASE Kind(ts, 1) = "Insert"
        BY <2>3 DEF ParseStatement
    <2>4. QED BY <1>1, <2>1, <2>2, <2>3
<1>5. IsParsed(ParseStatement(ts).tree) /\ Reached(ts, 1, Len(ts))
    BY <1>3, <1>4 DEF Delivers
<1>6. Depth(ts, 1) = 0
    <2>1. \A kind : Before(ts, 1, kind) = {}
        BY DEF Before
    <2>2. QED BY <2>1, FS_EmptySet DEF Depth
<1>7. QED BY <1>5, <1>6 DEF Reached, IsComplete

-----------------------------------------------------------------------------
(***************************************************************************)
(* The tokens of a text: a token from each position on, and the tokens     *)
(* behind it.                                                              *)
(***************************************************************************)
TokenAt(string, at, p) == NextToken(string, at[p]).token
Behind(string, at, p)  == NextToken(string, at[p]).place.pos
Scans(string, at, from) ==
    \A p \in 1 .. Len(string) + 1 :
        /\ at[p].pos = p /\ IsRight(string, at[p])
        /\ from[p] = IF TokenAt(string, at, p).kind = "EndOfFile"
                     THEN <<TokenAt(string, at, p)>>
                     ELSE <<TokenAt(string, at, p)>> \o from[Behind(string, at, p)]

LEMMA BehindFacts ==
    ASSUME NEW S, NEW string \in Seq(S), NEW at, NEW p \in 1 .. Len(string) + 1,
           at[p].pos = p, IsRight(string, at[p])
    PROVE  LET token == TokenAt(string, at, p)
               end   == Behind(string, at, p)
           IN  /\ token.kind # "EndOfFile" => end \in p + 1 .. Len(string) + 1
               /\ \E start \in p .. end :
                     /\ end \in p .. Len(string) + 1
                     /\ IsGap(string, p, start)
                     /\ token.lexeme = SubSeq(string, start, end - 1)
                     /\ Len(token.lexeme) = end - start
                     /\ token.lexeme \in Seq(S)
                     /\ IsToken(string, start, end, token.kind)
                     /\ token.kind # "EndOfFile" => start < end
                     /\ token.kind = "EndOfFile" => start = Len(string) + 1
<1> DEFINE token == TokenAt(string, at, p)
           end == Behind(string, at, p)
           n == Len(string)
<1>0. n \in Nat /\ p \in 1 .. n + 1
    BY LenProperties
<1>1. at[p].pos \in 1 .. Len(string) + 1
    OBVIOUS
<1>2. PICK start \in p .. end :
          /\ end \in 1 .. Len(string) + 1
          /\ IsGap(string, p, start)
          /\ token.lexeme = SubSeq(string, start, end - 1)
          /\ Len(token.lexeme) = end - start
          /\ token.lexeme \in Seq(S)
          /\ IsToken(string, start, end, token.kind)
          /\ token.kind # "EndOfFile" => start < end
          /\ token.kind = "EndOfFile" => start = n + 1
    BY <1>1, NextTokenFacts DEF TokenAt, Behind
<1> HIDE DEF token, end, n
<1>3. end \in p .. n + 1 /\ (token.kind # "EndOfFile" => end \in p + 1 .. n + 1)
    BY <1>0, <1>2 DEF n
<1>4. QED BY <1>2, <1>3 DEF token, end, n

LEMMA TokensStepwise ==
    ASSUME NEW S, NEW string \in Seq(S)
    PROVE  \E at, from : Scans(string, at, from) /\ Tokens(string) = from[1]
<1> DEFINE n == Len(string)
           at[p \in 1 .. n + 1] ==
               IF p = 1 THEN StartOfText ELSE Advance(at[p - 1], string[p - 1])
           from[p \in 1 .. n + 1] ==
               LET next == NextToken(string, at[p])
               IN  IF next.token.kind = "EndOfFile" THEN <<next.token>>
                   ELSE <<next.token>> \o from[next.place.pos]
<1>0. n \in Nat /\ 1 \in Int /\ n + 1 \in Int
    BY LenProperties
<1>1. \E f : f = [p \in 1 .. n + 1 |->
                    IF p = 1 THEN StartOfText ELSE Advance(f[p - 1], string[p - 1])]
    <2>1. LooksBack("place", 1, n + 1, string, 0, 0)
        <3> SUFFICES ASSUME NEW f, NEW g, NEW q \in 1 .. n + 1,
                            \A r \in 1 .. n + 1 : r < q => f[r] = g[r]
                     PROVE  At("place", f, q, string, 0, 0) = At("place", g, q, string, 0, 0)
            BY DEF LooksBack
        <3>1. q # 1 => f[q - 1] = g[q - 1]
            <4>1. q # 1 => q - 1 \in 1 .. n + 1 /\ q - 1 < q
                BY <1>0
            <4>2. QED BY <4>1
        <3>2. CASE q = 1
            BY <3>2 DEF At
        <3>3. CASE q # 1
            BY <3>1, <3>3 DEF At
        <3>4. QED BY <3>2, <3>3
    <2>2. PICK f : Solves("place", f, 1 .. n + 1, string, 0, 0)
        <3> HIDE DEF n
        <3>1. QED BY <1>0, <2>1, BackExists
    <2>3. f = [p \in 1 .. n + 1 |->
                 IF p = 1 THEN StartOfText ELSE Advance(f[p - 1], string[p - 1])]
        BY <2>2 DEF Solves, At
    <2>4. QED BY <2>3
<1>2. at = [p \in 1 .. n + 1 |->
              IF p = 1 THEN StartOfText ELSE Advance(at[p - 1], string[p - 1])]
    BY ONLY <1>1, Zenon
<1> DEFINE good == {p \in 1 .. n + 1 : at[p].pos = p /\ IsRight(string, at[p])}
<1> HIDE DEF at
<1>3. \A p \in 1 .. n + 1 : p \in good
    <2>1. ASSUME NEW p \in 1 .. n + 1, \A r \in 1 .. p - 1 : r \in good
          PROVE  p \in good
        <3>1. CASE p = 1
            <4>1. at[p] = StartOfText
                BY <1>2, <3>1
            <4>2. at[p].pos = 1 /\ at[p].line = 1 /\ at[p].column = 1
                BY <4>1 DEF StartOfText
            <4>3. QED BY <3>1, <4>2, StartIsRight DEF IsRight
        <3>2. CASE p # 1
            <4> DEFINE o == p - 1
            <4>1. o \in 1 .. p - 1 /\ o \in Nat \ {0} /\ o + 1 = p
                BY <1>0, <3>2
            <4>2. at[p] = Advance(at[o], string[o])
                BY <1>2, <3>2
            <4>3. at[o].pos = o /\ IsRight(string, at[o])
                BY <2>1, <4>1
            <4> HIDE DEF o
            <4>4. Advance(at[o], string[o]).pos = o + 1 /\ IsRight(string, Advance(at[o], string[o]))
                BY <4>1, <4>3, AdvanceStaysRight
            <4>5. QED BY <4>1, <4>2, <4>4
        <3>3. QED BY <3>1, <3>2
    <2> HIDE DEF good, n
    <2>2. QED BY <1>0, <2>1, ForwardInduction, Zenon
<1>4. \A p \in 1 .. n + 1 : at[p].pos = p /\ IsRight(string, at[p])
    BY <1>3
<1>5. ASSUME NEW p \in 1 .. n + 1, NextToken(string, at[p]).token.kind # "EndOfFile"
      PROVE  NextToken(string, at[p]).place.pos \in p + 1 .. n + 1
    BY <1>4, <1>5, BehindFacts DEF TokenAt, Behind
<1>6. \E f : f = [p \in 1 .. n + 1 |->
                    LET next == NextToken(string, at[p])
                    IN  IF next.token.kind = "EndOfFile" THEN <<next.token>>
                        ELSE <<next.token>> \o f[next.place.pos]]
    <2>1. LooksAhead("tokens", 1, n + 1, string, at, 0)
        <3> SUFFICES ASSUME NEW f, NEW g, NEW q \in 1 .. n + 1,
                            \A r \in 1 .. n + 1 : q < r => f[r] = g[r]
                     PROVE  At("tokens", f, q, string, at, 0) = At("tokens", g, q, string, at, 0)
            BY DEF LooksAhead
        <3> DEFINE next == NextToken(string, at[q])
        <3>1. next.token.kind # "EndOfFile" => f[next.place.pos] = g[next.place.pos]
            <4>1. next.token.kind # "EndOfFile" => next.place.pos \in q + 1 .. n + 1
                BY <1>5
            <4> HIDE DEF next
            <4>2. next.token.kind # "EndOfFile" =>
                      next.place.pos \in 1 .. n + 1 /\ q < next.place.pos
                BY <1>0, <4>1
            <4>3. QED BY <4>2
        <3>2. /\ At("tokens", f, q, string, at, 0)
                   = IF next.token.kind = "EndOfFile" THEN <<next.token>>
                     ELSE <<next.token>> \o f[next.place.pos]
              /\ At("tokens", g, q, string, at, 0)
                   = IF next.token.kind = "EndOfFile" THEN <<next.token>>
                     ELSE <<next.token>> \o g[next.place.pos]
            BY DEF At
        <3> HIDE DEF next
        <3>3. CASE next.token.kind = "EndOfFile"
            BY <3>2, <3>3
        <3>4. CASE next.token.kind # "EndOfFile"
            <4>1. <<next.token>> \o f[next.place.pos] = <<next.token>> \o g[next.place.pos]
                BY <3>1, <3>4, Zenon
            <4>2. QED BY <3>2, <3>4, <4>1, Zenon
        <3>5. QED BY <3>3, <3>4
    <2>2. PICK f : Solves("tokens", f, 1 .. n + 1, string, at, 0)
        <3> HIDE DEF n
        <3>1. QED BY <1>0, <2>1, AheadExists
    <2>3. f = [p \in 1 .. n + 1 |->
                    LET next == NextToken(string, at[p])
                    IN  IF next.token.kind = "EndOfFile" THEN <<next.token>>
                        ELSE <<next.token>> \o f[next.place.pos]]
        BY <2>2 DEF Solves, At
    <2>4. QED BY <2>3
<1>7. from = [p \in 1 .. n + 1 |->
                LET next == NextToken(string, at[p])
                IN  IF next.token.kind = "EndOfFile" THEN <<next.token>>
                    ELSE <<next.token>> \o from[next.place.pos]]
    BY ONLY <1>6, Zenon
<1>8. Tokens(string) = from[1]
    BY DEF Tokens, at
<1> HIDE DEF from
<1>9. ASSUME NEW p \in 1 .. n + 1
      PROVE  from[p] = IF TokenAt(string, at, p).kind = "EndOfFile"
                       THEN <<TokenAt(string, at, p)>>
                       ELSE <<TokenAt(string, at, p)>> \o from[Behind(string, at, p)]
    BY <1>7, Zenon DEF TokenAt, Behind
<1>10. Scans(string, at, from)
    BY <1>4, <1>9 DEF Scans
<1>11. QED BY <1>8, <1>10

(* What follows from a position, if it follows from later ones.            *)
LEMMA EveryRest ==
    ASSUME NEW S, NEW string \in Seq(S), NEW at, NEW from, Scans(string, at, from), NEW good,
           \A p \in 1 .. Len(string) + 1 :
               (/\ TokenAt(string, at, p).kind # "EndOfFile" =>
                      Behind(string, at, p) \in good) => p \in good
    PROVE  \A p \in 1 .. Len(string) + 1 : p \in good
<1> DEFINE n == Len(string)
<1>1. n \in Nat /\ 1 \in Int /\ n + 1 \in Int
    BY LenProperties
<1>2. ASSUME NEW p \in 1 .. n + 1, \A r \in p + 1 .. n + 1 : r \in good
      PROVE  p \in good
    <2>1. TokenAt(string, at, p).kind # "EndOfFile" => Behind(string, at, p) \in p + 1 .. n + 1
        BY BehindFacts DEF Scans
    <2>2. QED BY <1>2, <2>1
<1> HIDE DEF n
<1>3. \A p \in 1 .. n + 1 : p \in good
    BY <1>1, <1>2, BackwardInduction, Zenon
<1>4. QED BY <1>3 DEF n

(* Putting a token in front of others.                                     *)
LEMMA InFront ==
    ASSUME NEW token, NEW ts, IsSequence(ts)
    PROVE  /\ IsSequence(<<token>> \o ts)
           /\ Len(<<token>> \o ts) = Len(ts) + 1 /\ Len(ts) \in Nat
           /\ (<<token>> \o ts)[1] = token
           /\ \A p \in 1 .. Len(ts) : (<<token>> \o ts)[p + 1] = ts[p]
<1>1. IsSequence(<<token>>) /\ Len(<<token>>) = 1 /\ <<token>>[1] = token
    BY SingletonSequence
<1>2. /\ IsSequence(<<token>> \o ts) /\ Len(<<token>> \o ts) = 1 + Len(ts)
      /\ \A i \in 1 .. 1 : (<<token>> \o ts)[i] = <<token>>[i]
      /\ \A i \in 1 .. Len(ts) : (<<token>> \o ts)[1 + i] = ts[i]
    BY <1>1, ConcatIsSequence
<1>3. Len(ts) \in Nat
    BY SequenceLength
<1>4. \A p \in 1 .. Len(ts) : (<<token>> \o ts)[p + 1] = ts[p]
    BY <1>2, <1>3
<1>5. QED BY <1>1, <1>2, <1>3, <1>4

(* The tokens of a text are what the parser depends on.                    *)
LEMMA RestsAreScan ==
    ASSUME NEW S, NEW string \in Seq(S), NEW at, NEW from, Scans(string, at, from),
           NEW start \in 1 .. Len(string) + 1
    PROVE  IsSequence(from[start]) /\ IsScan(from[start])
<1>0. Len(string) \in Nat
    BY LenProperties
<1>1. Scans(string, at, from)
    OBVIOUS
<1> DEFINE Good(p) == IsSequence(from[p]) /\ IsScan(from[p])
           good == {p \in 1 .. Len(string) + 1 : Good(p)}
<1>2. ASSUME NEW p \in 1 .. Len(string) + 1,
             TokenAt(string, at, p).kind # "EndOfFile" => Behind(string, at, p) \in good
      PROVE  p \in good
    <2> DEFINE token == TokenAt(string, at, p)
               end == Behind(string, at, p)
    <2>1. at[p].pos = p /\ IsRight(string, at[p])
          /\ from[p] = IF token.kind = "EndOfFile" THEN <<token>> ELSE <<token>> \o from[end]
        BY <1>1 DEF Scans
    <2>2. PICK first \in p .. end :
              /\ end \in p .. Len(string) + 1
              /\ token.lexeme = SubSeq(string, first, end - 1)
              /\ Len(token.lexeme) = end - first /\ token.lexeme \in Seq(S)
              /\ IsToken(string, first, end, token.kind)
              /\ token.kind # "EndOfFile" => first < end
        BY <2>1, BehindFacts
    <2> HIDE DEF token, end
    <2>3. Belongs(token.lexeme, token.kind) /\ Len(token.lexeme) \in Nat
        BY <2>2, LenProperties DEF IsToken
    <2>4. IsUsable(token)
        <3>1. token.kind # "EndOfFile" => Len(token.lexeme) # 0
            BY <1>0, <2>2
        <3>2. QED BY <2>2, <2>3, <3>1, TokenIsUsable
    <2>5. /\ token.kind = "Identifier" => token.lexeme # EmptyName
          /\ token.kind = "IntegerLiteral" => token.lexeme \in Seq(Digits)
        BY <2>4 DEF IsUsable
    <2>6. CASE token.kind = "EndOfFile"
        <3>1. from[p] = <<token>>
            BY <2>1, <2>6
        <3>2. IsSequence(<<token>>) /\ Len(<<token>>) = 1 /\ <<token>>[1] = token
            BY SingletonSequence
        <3> DEFINE ts == <<token>>
        <3> HIDE DEF ts
        <3>3. IsScan(ts)
            <4>1. \A i \in 1 .. Len(ts) : i = 1
                BY <3>2 DEF ts
            <4>2. Len(ts) = 1 /\ ts[1] = token
                BY <3>2 DEF ts
            <4>3. QED BY <2>6, <4>1, <4>2 DEF IsScan, Kind
        <3>4. QED BY <3>1, <3>2, <3>3 DEF ts
    <2>7. CASE token.kind # "EndOfFile"
        <3> DEFINE rest == from[end]
                   ts == <<token>> \o rest
        <3>1. IsSequence(rest) /\ IsScan(rest)
            BY <1>2, <2>7 DEF token, end
        <3> HIDE DEF rest
        <3>2. /\ IsSequence(ts) /\ Len(ts) = Len(rest) + 1 /\ Len(rest) \in Nat
              /\ ts[1] = token /\ \A i \in 1 .. Len(rest) : ts[i + 1] = rest[i]
            BY <3>1, InFront
        <3>3. from[p] = ts
            BY <2>1, <2>7 DEF rest
        <3> HIDE DEF ts
        <3>4. ASSUME NEW i \in 1 .. Len(ts)
              PROVE  /\ Kind(ts, i) = "EndOfFile" <=> i = Len(ts)
                     /\ Kind(ts, i) = "Identifier" => ts[i].lexeme # EmptyName
                     /\ Kind(ts, i) = "IntegerLiteral" => ts[i].lexeme \in Seq(Digits)
            <4>1. CASE i = 1
                <5>1. i # Len(ts)
                    BY <3>1, <3>2, <4>1 DEF IsScan
                <5>2. QED BY <2>5, <2>7, <3>2, <4>1, <5>1 DEF Kind
            <4>2. CASE i # 1
                <5> DEFINE j == i - 1
                <5>1. j \in 1 .. Len(rest) /\ j + 1 = i /\ (j = Len(rest) <=> i = Len(ts))
                    BY <3>2, <4>2
                <5> HIDE DEF j
                <5>2. ts[i] = rest[j]
                    BY <3>2, <5>1
                <5>3. QED BY <3>1, <5>1, <5>2 DEF IsScan, Kind
            <4>3. QED BY <4>1, <4>2
        <3>5. IsScan(ts)
            BY <3>2, <3>4 DEF IsScan
        <3>6. QED BY <3>2, <3>3, <3>5
    <2>8. QED BY <2>6, <2>7
<1>3. \A p \in 1 .. Len(string) + 1 : p \in good
    <2> HIDE DEF good
    <2>1. QED BY <1>1, <1>2, EveryRest
<1>4. QED BY <1>3

LEMMA TokensAreScan ==
    ASSUME NEW S, NEW string \in Seq(S)
    PROVE  IsScan(Tokens(string)) /\ IsSequence(Tokens(string))
<1>1. Len(string) \in Nat /\ 1 \in 1 .. Len(string) + 1
    BY LenProperties
<1>2. PICK at, from : Scans(string, at, from) /\ Tokens(string) = from[1]
    BY TokensStepwise
<1>3. QED BY <1>1, <1>2, RestsAreScan

-----------------------------------------------------------------------------
(***************************************************************************)
(* Plain text, without strings and comments: its parentheses and commas    *)
(* are those of its tokens.                                                *)
(***************************************************************************)
MarkedFrom(string, p, c) == {i \in p .. Len(string) : string[i] = c}

LEMMA BracketCharacters ==
    ASSUME NEW c \in Brackets
    PROVE  /\ c \notin Whitespace /\ c \notin Digits /\ c \notin IdentifierContinue
           /\ c # Quote /\ c \in DOMAIN Marks
           /\ \A pair \in DOMAIN CompoundMarks : pair[1] # c /\ pair[2] # c
<1>1. c = "(" \/ c = ")" \/ c = ","
    BY Zenon DEF Brackets
<1>2. c \notin Whitespace
    BY <1>1, Zenon DEF Whitespace, NewLine
<1>3. c \in DOMAIN Marks
    BY MarkKinds
<1>4. c \notin Digits /\ c \notin IdentifierContinue /\ c # Quote
    BY <1>3, CharacterClasses DEF IdentifierContinue
<1>5. ASSUME NEW pair \in DOMAIN CompoundMarks PROVE pair[1] # c /\ pair[2] # c
    <2>1. pair \in {<<"<", "=">>, <<"<", ">">>, <<">", "=">>, <<"!", "=">>}
        BY Zenon DEF CompoundMarks
    <2> DEFINE Parts == {"<", ">", "=", "!"}
    <2>2. \E a \in Parts : \E b \in Parts : pair = <<a, b>>
        BY <2>1, Zenon
    <2>3. c \notin Parts
        BY <1>1, Zenon
    <2> HIDE DEF Parts
    <2>4. QED BY <2>2, <2>3
<1>6. QED BY <1>2, <1>3, <1>4, <1>5

(* A bracket is a token of its own.                                        *)
LEMMA BracketsAreTokens ==
    ASSUME NEW S, NEW lexeme \in Seq(S), NEW kind, Belongs(lexeme, kind),
           \A i \in 1 .. Len(lexeme) : lexeme[i] # Quote,
           NEW c \in Brackets, NEW i \in 1 .. Len(lexeme), lexeme[i] = c
    PROVE  kind = Marks[c]
<1>0. Len(lexeme) \in Nat /\ 1 \in 1 .. Len(lexeme) /\ c \in ToSet(lexeme)
    <2>1. Len(lexeme) \in Nat /\ DOMAIN lexeme = 1 .. Len(lexeme)
        BY LenProperties
    <2>2. QED BY <2>1 DEF ToSet
<1>1. /\ c \notin Digits /\ c \notin IdentifierContinue /\ c \in DOMAIN Marks
      /\ \A pair \in DOMAIN CompoundMarks : pair[1] # c /\ pair[2] # c
    BY BracketCharacters
<1>2. lexeme # << >> /\ lexeme[1] # Quote
    BY <1>0
<1>3. ~IsNumber(lexeme) /\ ~IsWord(lexeme) /\ ~IsStringLiteral(lexeme) /\ ~IsUnterminated(lexeme)
    BY <1>0, <1>1, <1>2 DEF IsNumber, IsWord, IsStringLiteral, IsUnterminated
<1>4. lexeme \notin DOMAIN CompoundMarks
    <2>1. lexeme \in DOMAIN CompoundMarks => Len(lexeme) = 2
        BY CompoundMarksArePairs
    <2>2. Len(lexeme) = 2 => i = 1 \/ i = 2
        OBVIOUS
    <2>3. QED BY <1>1, <2>1, <2>2
<1>5. CASE Len(lexeme) = 1
    <2>1. i = 1 /\ IsMark(lexeme) /\ lexeme[1] = c
        BY <1>1, <1>5 DEF IsMark
    <2>2. QED BY <1>2, <1>3, <1>5, <2>1 DEF Belongs, IsLexeme
<1>6. CASE Len(lexeme) # 1
    <2>1. ~IsMark(lexeme)
        BY <1>4, <1>6 DEF IsMark
    <2>2. QED BY <1>2, <1>3, <1>6, <2>1 DEF Belongs
<1>7. QED BY <1>5, <1>6

(* What is skipped in plain text is white space.                           *)
LEMMA PlainGap ==
    ASSUME NEW S, NEW string \in Seq(S), IsPlain(string),
           NEW p \in 1 .. Len(string) + 1, NEW start \in p .. Len(string) + 1,
           IsGap(string, p, start)
    PROVE  /\ \A q \in p .. start - 1 : string[q] \in Whitespace
           /\ start <= Len(string) => string[start] \notin Whitespace
<1>1. Len(string) \in Nat
    BY LenProperties
<1>2. ASSUME NEW q \in p .. start - 1 PROVE ~InComment(string, p, q, start)
    <2> SUFFICES ASSUME NEW c \in p .. q, c + 1 < start, string[c] = "-", string[c + 1] = "-"
                 PROVE  FALSE
        BY DEF InComment
    <2>1. c \in 1 .. Len(string) - 1
        BY <1>1
    <2>2. QED BY <2>1 DEF IsPlain, HasComment
<1>3. QED BY <1>2 DEF IsGap

(* The tokens of a kind, with one more token in front.                     *)
LEMMA OneMoreBefore ==
    ASSUME NEW token, NEW rest, IsSequence(rest), Len(rest) # 0, NEW kind
    PROVE  LET ts == <<token>> \o rest
           IN  /\ Cardinality(Before(rest, Len(rest), kind)) \in Nat
               /\ Cardinality(Before(ts, Len(ts), kind))
                    = Cardinality(Before(rest, Len(rest), kind))
                        + (IF token.kind = kind THEN 1 ELSE 0)
<1> DEFINE ts == <<token>> \o rest
           m == Len(rest)
           more == IF token.kind = kind THEN 1 ELSE 0
           Good(q) == Cardinality(Before(ts, q + 1, kind))
                        = Cardinality(Before(rest, q, kind)) + more
           good == {q \in 1 .. m : Good(q)}
<1>1. /\ m \in Nat /\ Len(ts) = m + 1 /\ ts[1] = token
      /\ \A q \in 1 .. m : ts[q + 1] = rest[q]
    BY InFront
<1> HIDE DEF ts, m
<1>2. ASSUME NEW q \in 1 .. m, \A r \in 1 .. q - 1 : r \in good
      PROVE  q \in good
    <2>1. CASE q = 1
        <3>1. Before(ts, 1, kind) = {} /\ Before(rest, 1, kind) = {}
            BY DEF Before
        <3>2. Cardinality(Before(ts, 1, kind)) = 0 /\ Cardinality(Before(rest, 1, kind)) = 0
            BY <3>1, FS_EmptySet
        <3>3. Cardinality(Before(ts, 1 + 1, kind))
                  = Cardinality(Before(ts, 1, kind)) + (IF Kind(ts, 1) = kind THEN 1 ELSE 0)
            BY BeforeStep
        <3>4. Kind(ts, 1) = token.kind
            BY <1>1 DEF Kind
        <3>5. QED BY <2>1, <3>2, <3>3, <3>4
    <2>2. CASE q # 1
        <3> DEFINE o == q - 1
        <3>1. o \in 1 .. q - 1 /\ o \in 1 .. m /\ o + 1 = q /\ o \in Nat \ {0} /\ q \in Nat \ {0}
            BY <1>1, <2>2
        <3>2. Good(o)
            BY <1>2, <3>1
        <3> HIDE DEF o
        <3>3. /\ Cardinality(Before(rest, o, kind)) \in Nat
              /\ Cardinality(Before(rest, o + 1, kind))
                   = Cardinality(Before(rest, o, kind)) + (IF Kind(rest, o) = kind THEN 1 ELSE 0)
            BY <3>1, BeforeStep
        <3>4. /\ Cardinality(Before(ts, q, kind)) \in Nat
              /\ Cardinality(Before(ts, q + 1, kind))
                   = Cardinality(Before(ts, q, kind)) + (IF Kind(ts, q) = kind THEN 1 ELSE 0)
            BY <3>1, BeforeStep
        <3>5. Kind(ts, q) = Kind(rest, o)
            BY <1>1, <3>1 DEF Kind
        <3> DEFINE x == Cardinality(Before(rest, o, kind))
                   y == Cardinality(Before(ts, q, kind))
                   z == IF Kind(ts, q) = kind THEN 1 ELSE 0
        <3>6. y = x + more
            BY <3>1, <3>2
        <3>7. Cardinality(Before(rest, q, kind)) = x + z
            BY <3>1, <3>3, <3>5
        <3>8. Cardinality(Before(ts, q + 1, kind)) = y + z
            BY <3>4
        <3>9. x \in Nat /\ z \in Nat /\ more \in Nat
            BY <3>3
        <3> HIDE DEF x, y, z, more
        <3>10. y + z = x + z + more
            BY <3>6, <3>9
        <3>11. QED BY <3>7, <3>8, <3>10
    <2>3. QED BY <2>1, <2>2
<1> HIDE DEF good
<1>3. \A q \in 1 .. m : q \in good
    <2>1. 1 \in Int /\ m \in Int
        BY <1>1
    <2>2. QED BY <1>2, <2>1, ForwardInduction, Zenon
<1>4. m \in 1 .. m /\ m \in Nat \ {0}
    BY <1>1 DEF m
<1>5. Good(m)
    BY <1>3, <1>4 DEF good
<1>6. Cardinality(Before(rest, m, kind)) \in Nat
    BY <1>4, BeforeStep
<1>7. QED BY <1>1, <1>5, <1>6 DEF ts, m

(* What a character c counts for, if it stands for itself.                 *)
LEMMA MarkedStep ==
    ASSUME NEW string, Len(string) \in Nat, NEW c,
           NEW p \in 1 .. Len(string) + 1, NEW end \in p .. Len(string) + 1,
           NEW start \in p .. end,
           \A q \in p .. end - 1 : string[q] = c => q = start
    PROVE  /\ Cardinality(MarkedFrom(string, end, c)) \in Nat
           /\ Cardinality(MarkedFrom(string, p, c))
                = Cardinality(MarkedFrom(string, end, c))
                    + (IF start < end /\ string[start] = c THEN 1 ELSE 0)
<1> DEFINE old == MarkedFrom(string, end, c)
           new == MarkedFrom(string, p, c)
<1>1. IsFiniteSet(old) /\ Cardinality(old) \in Nat
    <2>1. IsFiniteSet(end .. Len(string))
        BY FS_Interval
    <2>2. old \subseteq end .. Len(string)
        BY DEF MarkedFrom
    <2>3. QED BY <2>1, <2>2, FS_Subset, FS_CardinalityType
<1>2. CASE start < end /\ string[start] = c
    <2>1. new = old \cup {start} /\ start \notin old
        BY <1>2 DEF MarkedFrom
    <2>2. QED BY <1>1, <1>2, <2>1, FS_AddElement
<1>3. CASE ~(start < end /\ string[start] = c)
    <2>1. new = old
        BY <1>3 DEF MarkedFrom
    <2>2. QED BY <1>1, <1>3, <2>1
<1>4. QED BY <1>2, <1>3

BlankFrom(string, p) == \A q \in p .. Len(string) : string[q] \in Whitespace
CountsMatch(string, p, ts) ==
    \A c \in Brackets :
        Cardinality(MarkedFrom(string, p, c)) = Cardinality(Before(ts, Len(ts), Marks[c]))
EndsMatch(string, p, ts) ==
    \A c \in Brackets : \A q \in p .. Len(string) :
        string[q] = c /\ BlankFrom(string, q + 1) =>
            Len(ts) > 1 /\ Kind(ts, Len(ts) - 1) = Marks[c]
Matches(string, p, ts) ==
    /\ IsSequence(ts) /\ Len(ts) # 0
    /\ CountsMatch(string, p, ts) /\ EndsMatch(string, p, ts)
    /\ BlankFrom(string, p) => Len(ts) = 1

(* The characters of one token: a bracket is the whole token, or none is   *)
(* in it.                                                                  *)
LEMMA PlainTokenFacts ==
    ASSUME NEW S, NEW string \in Seq(S), IsPlain(string), NEW at,
           NEW p \in 1 .. Len(string) + 1, at[p].pos = p, IsRight(string, at[p])
    PROVE  LET token == TokenAt(string, at, p)
               end   == Behind(string, at, p)
           IN  \E start \in p .. end :
                  /\ end \in p .. Len(string) + 1
                  /\ \A q \in p .. start - 1 : string[q] \in Whitespace
                  /\ IF token.kind = "EndOfFile" THEN start = Len(string) + 1
                     ELSE start < end /\ string[start] \notin Whitespace
                  /\ \A c \in Brackets : \A q \in p .. end - 1 :
                        string[q] = c => q = start /\ end = start + 1 /\ token.kind = Marks[c]
                  /\ \A c \in Brackets : token.kind = Marks[c] =>
                        string[start] = c /\ end = start + 1
<1> DEFINE token == TokenAt(string, at, p)
           end == Behind(string, at, p)
           n == Len(string)
<1>0. n \in Nat /\ p \in 1 .. n + 1
    BY LenProperties
<1>1. PICK start \in p .. end :
          /\ end \in p .. n + 1
          /\ IsGap(string, p, start)
          /\ token.lexeme = SubSeq(string, start, end - 1)
          /\ Len(token.lexeme) = end - start
          /\ token.lexeme \in Seq(S)
          /\ IsToken(string, start, end, token.kind)
          /\ token.kind # "EndOfFile" => start < end
          /\ token.kind = "EndOfFile" => start = n + 1
    BY BehindFacts
<1> HIDE DEF token, end
<1>2. start \in p .. n + 1 /\ start \in 1 .. n + 1
    BY <1>0, <1>1
<1>3. /\ \A q \in p .. start - 1 : string[q] \in Whitespace
      /\ start <= n => string[start] \notin Whitespace
    BY <1>1, <1>2, PlainGap
<1>4. \A k \in 1 .. end - start : token.lexeme[k] = string[start + k - 1]
    <2>1. end - 1 \in start - 1 .. Len(string) /\ end - 1 - start + 1 = end - start
        BY <1>0, <1>1, <1>2
    <2>2. QED BY <1>1, <1>2, <2>1, PieceFacts
<1>5. \A k \in 1 .. Len(token.lexeme) : token.lexeme[k] # Quote
    <2> TAKE k \in 1 .. Len(token.lexeme)
    <2>1. token.lexeme[k] = string[start + k - 1] /\ start + k - 1 \in 1 .. Len(string)
        BY <1>0, <1>1, <1>2, <1>4
    <2>2. QED BY <2>1 DEF IsPlain
<1>6. Belongs(token.lexeme, token.kind) /\ Len(token.lexeme) \in Nat
    BY <1>1, LenProperties DEF IsToken
<1>7. ASSUME NEW c \in Brackets, token.kind = Marks[c]
      PROVE  string[start] = c /\ end = start + 1
    <2>1. Len(token.lexeme) = 1 /\ token.lexeme[1] = c
        BY <1>6, <1>7, KindFacts
    <2>2. end = start + 1
        BY <1>0, <1>1, <1>2, <2>1
    <2>3. token.lexeme[1] = string[start]
        BY <1>2, <1>4, <2>2
    <2>4. QED BY <2>1, <2>2, <2>3
<1>8. ASSUME NEW c \in Brackets, NEW q \in p .. end - 1, string[q] = c
      PROVE  q = start /\ end = start + 1 /\ token.kind = Marks[c]
    <2>1. c \notin Whitespace
        BY BracketCharacters
    <2>2. ~(q \in p .. start - 1)
        BY <1>3, <1>8, <2>1
    <2> DEFINE k == q - start + 1
    <2>3. k \in 1 .. end - start /\ start + k - 1 = q
        BY <1>0, <1>1, <1>2, <2>2
    <2> HIDE DEF k
    <2>4. k \in 1 .. Len(token.lexeme) /\ token.lexeme[k] = c
        BY <1>1, <1>4, <1>8, <2>3
    <2>5. token.kind = Marks[c]
        BY <1>1, <1>5, <1>6, <2>4, BracketsAreTokens
    <2>6. end = start + 1
        BY <1>7, <2>5
    <2>7. QED BY <1>0, <1>2, <2>2, <2>5, <2>6
<1>9. start < end => start <= n
    BY <1>0, <1>1, <1>2
<1>10. QED BY <1>1, <1>3, <1>7, <1>8, <1>9 DEF token, end, n

LEMMA EndMatches ==
    ASSUME NEW S, NEW string \in Seq(S), NEW p \in 1 .. Len(string) + 1, NEW token,
           BlankFrom(string, p)
    PROVE  Matches(string, p, <<token>>)
<1> DEFINE ts == <<token>>
<1>1. IsSequence(ts) /\ Len(ts) = 1
    BY SingletonSequence
<1> HIDE DEF ts
<1>2. ASSUME NEW c \in Brackets, NEW q \in p .. Len(string) PROVE string[q] # c
    BY BracketCharacters DEF BlankFrom
<1>3. ASSUME NEW c \in Brackets
      PROVE  Cardinality(MarkedFrom(string, p, c)) = Cardinality(Before(ts, 1, Marks[c]))
    <2>1. MarkedFrom(string, p, c) = {} /\ Before(ts, 1, Marks[c]) = {}
        BY <1>2 DEF MarkedFrom, Before
    <2>2. QED BY <2>1
<1>4. QED BY <1>1, <1>2, <1>3 DEF Matches, CountsMatch, EndsMatch, ts

LEMMA PlainTokens ==
    ASSUME NEW S, NEW string \in Seq(S), IsPlain(string)
    PROVE  Matches(string, 1, Tokens(string))
<1> DEFINE n == Len(string)
<1>0. n \in Nat /\ 1 \in 1 .. n + 1
    BY LenProperties
<1>1. PICK at, from : Scans(string, at, from) /\ Tokens(string) = from[1]
    BY TokensStepwise
<1> DEFINE good == {p \in 1 .. n + 1 : Matches(string, p, from[p])}
<1>2. ASSUME NEW p \in 1 .. n + 1,
             TokenAt(string, at, p).kind # "EndOfFile" => Behind(string, at, p) \in good
      PROVE  p \in good
    <2> DEFINE token == TokenAt(string, at, p)
               end == Behind(string, at, p)
               rest == from[end]
               ts == <<token>> \o rest
    <2>1. at[p].pos = p /\ IsRight(string, at[p])
          /\ from[p] = IF token.kind = "EndOfFile" THEN <<token>> ELSE ts
        BY <1>1 DEF Scans
    <2>2. PICK start \in p .. end :
                  /\ end \in p .. n + 1
                  /\ \A q \in p .. start - 1 : string[q] \in Whitespace
                  /\ IF token.kind = "EndOfFile" THEN start = n + 1
                     ELSE start < end /\ string[start] \notin Whitespace
                  /\ \A c \in Brackets : \A q \in p .. end - 1 :
                        string[q] = c => q = start /\ end = start + 1 /\ token.kind = Marks[c]
                  /\ \A c \in Brackets : token.kind = Marks[c] =>
                        string[start] = c /\ end = start + 1
        BY <2>1, PlainTokenFacts
    <2> HIDE DEF token, end
    <2>3. CASE token.kind = "EndOfFile"
        <3>1. BlankFrom(string, p)
            <4>1. start - 1 = n
                BY <1>0, <2>2, <2>3
            <4>2. QED BY <2>2, <4>1 DEF BlankFrom
        <3>2. QED BY <2>1, <2>3, <3>1, EndMatches
    <2>4. CASE token.kind # "EndOfFile"
        <3>1. Matches(string, end, rest) /\ end \in 1 .. n + 1
            BY <1>2, <2>4 DEF token, end
        <3> HIDE DEF rest
        <3>2. /\ IsSequence(ts) /\ Len(ts) = Len(rest) + 1 /\ Len(rest) \in Nat /\ Len(rest) # 0
              /\ ts[1] = token /\ \A i \in 1 .. Len(rest) : ts[i + 1] = rest[i]
            BY <3>1, InFront DEF Matches
        <3>3. start < end /\ string[start] \notin Whitespace /\ start \in p .. n
            BY <1>0, <2>2, <2>4
        <3>4. CountsMatch(string, p, ts)
            <4> SUFFICES ASSUME NEW c \in Brackets
                         PROVE  Cardinality(MarkedFrom(string, p, c))
                                  = Cardinality(Before(ts, Len(ts), Marks[c]))
                BY DEF CountsMatch
            <4>1. \A q \in p .. end - 1 : string[q] = c => q = start
                BY <2>2
            <4>2. /\ Cardinality(MarkedFrom(string, end, c)) \in Nat
                  /\ Cardinality(MarkedFrom(string, p, c))
                       = Cardinality(MarkedFrom(string, end, c))
                           + (IF start < end /\ string[start] = c THEN 1 ELSE 0)
                BY <1>0, <2>2, <4>1, MarkedStep
            <4>3. Cardinality(Before(ts, Len(ts), Marks[c]))
                    = Cardinality(Before(rest, Len(rest), Marks[c]))
                        + (IF token.kind = Marks[c] THEN 1 ELSE 0)
                BY <3>1, <3>2, OneMoreBefore DEF Matches
            <4>4. string[start] = c <=> token.kind = Marks[c]
                <5>1. start \in p .. end - 1
                    BY <1>0, <2>2, <3>3
                <5>2. QED BY <2>2, <5>1
            <4>5. Cardinality(MarkedFrom(string, end, c))
                    = Cardinality(Before(rest, Len(rest), Marks[c]))
                BY <3>1 DEF Matches, CountsMatch
            <4>6. QED BY <3>3, <4>2, <4>3, <4>4, <4>5
        <3>5. ~BlankFrom(string, p)
            BY <3>3 DEF BlankFrom
        <3>6. EndsMatch(string, p, ts)
            <4> SUFFICES ASSUME NEW c \in Brackets, NEW q \in p .. n,
                                string[q] = c, BlankFrom(string, q + 1)
                         PROVE  Len(ts) > 1 /\ Kind(ts, Len(ts) - 1) = Marks[c]
                BY DEF EndsMatch
            <4>1. CASE q \in p .. end - 1
                <5>1. q = start /\ end = start + 1 /\ token.kind = Marks[c]
                    BY <2>2, <4>1
                <5>2. BlankFrom(string, end)
                    BY <5>1
                <5>3. Len(rest) = 1
                    BY <3>1, <5>2 DEF Matches
                <5>4. QED BY <3>2, <5>1, <5>3 DEF Kind
            <4>2. CASE ~(q \in p .. end - 1)
                <5>1. q \in end .. n
                    BY <1>0, <2>2, <4>2
                <5>2. Len(rest) > 1 /\ Kind(rest, Len(rest) - 1) = Marks[c]
                    BY <3>1, <5>1 DEF Matches, EndsMatch
                <5> DEFINE i == Len(rest) - 1
                <5>3. i \in 1 .. Len(rest) /\ Len(ts) - 1 = i + 1 /\ Len(ts) > 1
                    BY <3>2, <5>2
                <5> HIDE DEF i
                <5>4. Kind(ts, i + 1) = Kind(rest, i)
                    BY <3>2, <5>3 DEF Kind
                <5>5. QED BY <5>2, <5>3, <5>4 DEF i
            <4>3. QED BY <4>1, <4>2
        <3>7. from[p] = ts
            BY <2>1, <2>4
        <3>8. Len(ts) # 0
            BY <3>2
        <3> HIDE DEF ts
        <3>9. QED BY <3>2, <3>4, <3>5, <3>6, <3>7, <3>8 DEF Matches
    <2>5. QED BY <2>3, <2>4
<1>3. \A p \in 1 .. Len(string) + 1 : p \in good
    <2> HIDE DEF good
    <2>1. QED BY <1>1, <1>2, EveryRest
<1>4. QED BY <1>0, <1>1, <1>3

(* The last character that is no white space.                              *)
LEMMA LastCharacter ==
    ASSUME NEW S, NEW sql \in Seq(S), LastOf(sql) \in Brackets
    PROVE  \E m \in 1 .. Len(sql) : sql[m] = LastOf(sql) /\ BlankFrom(sql, m + 1)
<1> DEFINE n == Len(sql)
           places == {i \in 1 .. n : sql[i] \notin Whitespace} \cup {0}
           m == Max(places)
           kept == SubSeq(sql, 1, m)
<1>1. n \in Nat /\ 0 \in Int /\ n \in Int
    BY LenProperties
<1>2. places # {} /\ \A q \in places : q \in 0 .. n
    BY <1>1
<1>3. m \in places /\ \A q \in places : q <= m
    <2> HIDE DEF places, n
    <2>1. QED BY <1>1, <1>2, GreatestPosition, Zenon
<1>4. kept = WithoutTrailingSpace(sql)
    BY DEF WithoutTrailingSpace
<1>5. m \in 0 .. n /\ BlankFrom(sql, m + 1)
    <2> HIDE DEF m
    <2>1. QED BY <1>1, <1>3 DEF BlankFrom
<1> HIDE DEF m
<1>6. Len(kept) = m /\ (\A k \in 1 .. m : kept[k] = sql[k]) /\ (kept = << >> <=> m < 1)
    <2>1. 1 \in 1 .. Len(sql) + 1 /\ m \in 1 - 1 .. Len(sql) /\ m - 1 + 1 = m
        BY <1>1, <1>5
    <2>2. \A k \in 1 .. m : 1 + k - 1 = k
        BY <1>5
    <2> HIDE DEF kept
    <2>3. QED BY <2>1, <2>2, PieceFacts DEF kept
<1> HIDE DEF kept
<1>7. LastOf(sql) = IF kept = << >> THEN NUL ELSE Last(kept)
    BY <1>4 DEF LastOf
<1>8. NUL \notin Brackets
    BY Zenon DEF NUL, Brackets
<1>9. kept # << >> /\ LastOf(sql) = kept[m]
    BY <1>6, <1>7, <1>8 DEF Last
<1>10. m \in 1 .. n
    BY <1>1, <1>5, <1>6, <1>9
<1>11. LastOf(sql) = sql[m]
    BY <1>6, <1>9, <1>10
<1>12. QED BY <1>5, <1>10, <1>11

LEMMA IncompleteGoesOn ==
    ASSUME NEW sql, IsSequence(sql), IsPlain(sql), NeedsContinuation(sql)
    PROVE  ~ParseStatement(Tokens(sql)).ok
<1> SUFFICES ASSUME ParseStatement(Tokens(sql)).ok
             PROVE  FALSE
    OBVIOUS
<1> DEFINE ts == Tokens(sql)
           opened == Cardinality(Before(ts, Len(ts), "LParen"))
           closed == Cardinality(Before(ts, Len(ts), "RParen"))
<1>1. sql \in Seq(ToSet(sql)) /\ Len(sql) \in Nat
    BY SequenceLength DEF IsSequence
<1>2. IsComplete(ts)
    BY <1>1, TokensAreScan, StatementFacts
<1>3. CountsMatch(sql, 1, ts) /\ EndsMatch(sql, 1, ts) /\ IsSequence(ts)
    BY <1>1, PlainTokens DEF Matches
<1> HIDE DEF ts
<1>4. /\ "(" \in Brackets /\ Marks["("] = "LParen"
      /\ ")" \in Brackets /\ Marks[")"] = "RParen"
      /\ "," \in Brackets /\ Marks[","] = "Comma"
    BY MarkKinds, Zenon DEF Brackets
<1>5. ParenthesisBalance(sql) = Depth(ts, Len(ts))
    BY <1>3, <1>4, Zenon DEF ParenthesisBalance, Depth, CountsMatch, MarkedFrom
<1>6. ~(ParenthesisBalance(sql) > 0)
    BY <1>2, <1>5 DEF IsComplete
<1>7. LastOf(sql) \in {"(", ","}
    BY <1>6, Zenon DEF NeedsContinuation
<1>8. LastOf(sql) \in Brackets /\ Marks[LastOf(sql)] \in {"LParen", "Comma"}
    BY <1>4, <1>7, Zenon
<1>9. PICK m \in 1 .. Len(sql) : sql[m] = LastOf(sql) /\ BlankFrom(sql, m + 1)
    BY <1>1, <1>8, LastCharacter
<1>10. Kind(ts, Len(ts) - 1) = Marks[LastOf(sql)]
    BY <1>3, <1>8, <1>9 DEF EndsMatch
<1>11. QED BY <1>2, <1>8, <1>10 DEF IsComplete

-----------------------------------------------------------------------------
(***************************************************************************)
(* A statement that has just been bound.                                   *)
(***************************************************************************)
LEMMA BindAccepts ==
    ASSUME NEW database, NEW s, IsParsed(s), BindStatement(database, s).status = "Ok"
    PROVE  BindStatement(database, s) = Accepted(BindStatement(database, s).bound)
<1>1. CASE s.kind = "CreateTable"
    BY <1>1 DEF BindStatement, BindCreateTable, Refused, Accepted
<1>2. CASE s.kind = "CreateSchema"
    BY <1>2 DEF BindStatement, BindCreateSchema, Refused, Accepted
<1>3. CASE s.kind = "CreateDatabase"
    BY <1>3 DEF BindStatement, BindCreateDatabase, Refused, Accepted
<1>4. CASE s.kind = "Insert"
    BY <1>4 DEF BindStatement, BindInsert, Refused, Accepted
<1>5. CASE s.kind = "Select"
    BY <1>5, BindSelectAccepts DEF BindStatement
<1>6. QED BY <1>1, <1>2, <1>3, <1>4, <1>5 DEF IsParsed

LEMMA JustBoundRuns ==
    ASSUME GoodCluster(cluster), NEW database \in DOMAIN cluster,
           NEW s, IsParsed(s), NEW b, BindStatement(database, s) = Accepted(b)
    PROVE  ExecuteStatement(database, b).status \in {"Ok", "duplicate column name"}
<1> DEFINE catalog == cluster[database]
<1>1. BindStatement(database, s).status = "Ok" /\ BindStatement(database, s).bound = b
    BY DEF Accepted
<1>2. Fits(b, catalog) /\ IsBoundFrom(b, catalog, s)
    <2>1. GoodCatalog(catalog)
        BY DEF GoodCluster
    <2>2. QED BY <1>1, <2>1, BindStatementFits, BindStatementFrom
<1>3. ExecuteStatement(database, b).status \in MayAnswer(b)
    BY <1>2, FitsSucceeds
<1>4. s.kind = b.kind
    BY <1>2 DEF IsBoundFrom
<1>5. CASE s.kind = "CreateTable"
    <2> DEFINE schema == ResolveSchemaName(s.schema)
    <2>1. /\ schema \in DOMAIN catalog /\ ~TableExists(catalog, schema, s.table)
          /\ b = CreateTableStatement(schema, s.table, s.columns)
        BY <1>1, <1>5 DEF BindStatement, BindCreateTable, Refused, Accepted
    <2>2. b.schema = schema /\ b.table = s.table
        BY <2>1 DEF CreateTableStatement
    <2>3. b.schema \in DOMAIN catalog /\ b.table \notin DOMAIN catalog[b.schema]
        BY <2>1, <2>2 DEF TableExists
    <2>4. CreateTable(catalog, b.schema, b.table, b.columns).status # "table already exists"
        BY <2>3 DEF CreateTable
    <2>5. ExecuteStatement(database, b).status # "table already exists"
        BY <1>4, <1>5, <2>4 DEF ExecuteStatement, InDatabase
    <2>6. QED BY <1>3, <1>4, <1>5, <2>5 DEF MayAnswer
<1>6. CASE s.kind = "CreateSchema"
    <2>1. b.schema \notin DOMAIN catalog
        BY <1>1, <1>6 DEF BindStatement, BindCreateSchema, Refused, Accepted
    <2>2. CreateSchema(catalog, b.schema).status # "schema already exists"
        BY <2>1 DEF CreateSchema
    <2>3. ExecuteStatement(database, b).status # "schema already exists"
        BY <1>4, <1>6, <2>2 DEF ExecuteStatement, InDatabase
    <2>4. QED BY <1>3, <1>4, <1>6, <2>3 DEF MayAnswer
<1>7. CASE s.kind = "CreateDatabase"
    <2>1. b.database \notin DOMAIN cluster
        BY <1>1, <1>7 DEF BindStatement, BindCreateDatabase, Refused, Accepted
    <2>2. CreateDatabase(cluster, b.database).status # "database already exists"
        BY <2>1 DEF CreateDatabase
    <2>3. ExecuteStatement(database, b).status # "database already exists"
        BY <1>4, <1>7, <2>2 DEF ExecuteStatement
    <2>4. QED BY <1>3, <1>4, <1>7, <2>3 DEF MayAnswer
<1>8. CASE s.kind \in {"Insert", "Select"}
    BY <1>3, <1>4, <1>8 DEF MayAnswer
<1>9. QED BY <1>5, <1>6, <1>7, <1>8 DEF IsParsed

-----------------------------------------------------------------------------
(***************************************************************************)
(* The invariant of the shell: one lemma per action.                       *)
(***************************************************************************)
LEMMA QuietGood ==
    ASSUME Inv, UNCHANGED <<cluster, current, bound>>
    PROVE  Inv'
<1>1. GoodClusterStep(cluster, cluster')
    BY InvParts, KeepsAllReflexive
<1>2. DOMAIN bound' = Sessions
    BY DEF Inv
<1>3. QED BY <1>1, <1>2, ClusterStepGood

(* A step that ends with no statement under way.                           *)
LEMMA NothingSent ==
    ASSUME mode' \notin {"binding", "executing"}, bound'[repl] = NoStatement
    PROVE  OneStatement'
BY DEF OneStatement

LEMMA ReturnTyped ==
    ASSUME Return
    PROVE  ShellTyped' /\ mode' \notin {"binding", "executing"}
BY EmptySequence DEF Return, Resting, ShellTyped, Modes

LEMMA BeginTyped ==
    ASSUME NEW line, IsSequence(line), NEW next \in Modes, Begin(line, next)
    PROVE  ShellTyped' /\ mode' = next
<1>1. IsSequence(<<line>>) /\ Len(<<line>>) = 1 /\ <<line>>[1] = line
    BY SingletonSequence
<1> DEFINE lines == <<line>>
<1> HIDE DEF lines
<1>2. \A n \in 1 .. Len(lines) : IsSequence(lines[n])
    <2>1. \A n \in 1 .. Len(lines) : n = 1
        BY <1>1 DEF lines
    <2>2. QED BY <1>1, <2>1 DEF lines
<1>3. QED BY <1>1, <1>2 DEF Begin, ShellTyped, lines

LEMMA ReplIsSession == repl \in Sessions
BY ReplAssumption

LEMMA ShellInitGood == ShellInit => StatementInv
<1> SUFFICES ASSUME ShellInit PROVE StatementInv
    OBVIOUS
<1>1. Inv /\ running /\ bound[repl] = NoStatement
    BY InitGood, ReplIsSession DEF ShellInit, Init
<1>2. ShellTyped
    BY EmptySequence DEF ShellInit, ShellTyped, Modes
<1>3. OneStatement
    BY <1>1 DEF OneStatement, ShellInit
<1>4. QED BY <1>1, <1>2, <1>3 DEF StatementInv

LEMMA StartGood ==
    ASSUME StatementInv, NEW name \in DatabaseNames, Start(name)
    PROVE  StatementInv'
<1>1. /\ mode = "closed" /\ mode' = "idle" /\ UNCHANGED <<buffer, typed>>
      /\ OpenSession(repl, name)
    BY DEF Start
<1>2. Inv' /\ running' /\ bound' = bound
    <2>1. Inv /\ running
        BY DEF StatementInv
    <2>2. Inv'
        BY <1>1, <2>1, OpenSessionGood, ReplIsSession
    <2>3. QED BY <1>1, <2>1, <2>2 DEF OpenSession
<1>3. bound'[repl] = NoStatement
    BY <1>1, <1>2 DEF StatementInv, OneStatement
<1>4. OneStatement'
    BY <1>1, <1>3, NothingSent
<1>5. ShellTyped'
    BY <1>1 DEF StatementInv, ShellTyped, Modes
<1>6. QED BY <1>2, <1>4, <1>5 DEF StatementInv

LEMMA RunGood ==
    ASSUME StatementInv, Run
    PROVE  StatementInv'
<1>1. /\ mode = "idle" /\ mode' = "reading" /\ UNCHANGED <<vars, buffer, typed>>
    BY DEF Run
<1>2. Inv' /\ running' /\ bound' = bound
    BY <1>1, QuietGood DEF StatementInv, vars
<1>3. bound'[repl] = NoStatement
    BY <1>1, <1>2 DEF StatementInv, OneStatement
<1>4. OneStatement'
    BY <1>1, <1>3, NothingSent
<1>5. ShellTyped'
    BY <1>1 DEF StatementInv, ShellTyped, Modes
<1>6. QED BY <1>2, <1>4, <1>5 DEF StatementInv

LEMMA ConnectTargetIsText ==
    ASSUME NEW line \in Seq(STRING)
    PROVE  ConnectTarget(line) \in Seq(STRING)
<1> DEFINE m == Len(ConnectCommand)
<1>1. Len(line) \in Nat /\ \A i \in 1 .. Len(line) : line[i] \in STRING
    BY LenProperties, ElementOfSeq
<1>2. m = 3
    <2>1. \E a, b, c : ConnectCommand = <<a, b, c>>
        BY Zenon DEF ConnectCommand
    <2>2. \A a, b, c : Len(<<a, b, c>>) = 3
        OBVIOUS
    <2>3. QED BY <2>1, <2>2, Zenon
<1> HIDE DEF m
<1>3. m + 1 \in Nat /\ \A i \in m + 1 .. Len(line) : line[i] \in STRING
    BY <1>1, <1>2
<1>4. SubSeq(line, m + 1, Len(line)) \in Seq(STRING)
    BY <1>1, <1>3, SubSeqProperties
<1>5. QED BY <1>4 DEF ConnectTarget, m

LEMMA DoCommandGood ==
    ASSUME StatementInv, mode \in {"idle", "reading"}, NEW line \in Lines, DoCommand(line)
    PROVE  StatementInv'
<1>1. Inv /\ running /\ bound[repl] = NoStatement
    BY DEF StatementInv, OneStatement
<1>2. Inv' /\ running' /\ bound' = bound
    <2>1. CASE UNCHANGED <<cluster, current, bound, running>>
        BY <1>1, <2>1, QuietGood
    <2>2. CASE Connect(repl, ConnectTarget(line))
        <3>1. ConnectTarget(line) # Closed
            BY LinesAssumption, ConnectTargetIsText, ClosedIsNoName
        <3>2. Inv'
            BY <1>1, <2>2, <3>1, ConnectGood, ReplIsSession
        <3>3. QED BY <1>1, <2>2, <3>2 DEF Connect
    <2>3. QED BY <2>1, <2>2 DEF DoCommand, vars
<1>3. ShellTyped' /\ mode' \notin {"binding", "executing"}
    BY ReturnTyped DEF DoCommand
<1>4. OneStatement'
    BY <1>1, <1>2, <1>3, NothingSent
<1>5. QED BY <1>2, <1>3, <1>4 DEF StatementInv

(* What a line does besides a command: nothing but text changes.           *)
LEMMA TextStepGood ==
    ASSUME StatementInv, mode \in {"idle", "reading", "continuing"},
           UNCHANGED <<cluster, current, bound, running>>,
           ShellTyped', mode' \notin {"binding", "executing"}
    PROVE  StatementInv'
<1>1. Inv' /\ running' /\ bound'[repl] = NoStatement
    BY QuietGood DEF StatementInv, OneStatement
<1>2. QED BY <1>1, NothingSent DEF StatementInv

LEMMA ProcessLineGood ==
    ASSUME StatementInv, NEW line \in Lines, ProcessLine(line)
    PROVE  StatementInv'
<1>1. mode = "idle" /\ IsSequence(line)
    BY LinesAssumption, SeqIsSequence DEF ProcessLine
<1>2. CASE DoCommand(line)
    BY <1>1, <1>2, DoCommandGood
<1>3. CASE Return /\ UNCHANGED vars
    BY <1>1, <1>3, ReturnTyped, TextStepGood DEF vars
<1>4. CASE Begin(line, "parsing") /\ UNCHANGED vars
    <2>1. "parsing" \in Modes
        BY DEF Modes
    <2>2. QED BY <1>1, <1>4, <2>1, BeginTyped, TextStepGood DEF vars
<1>5. QED BY <1>2, <1>3, <1>4 DEF ProcessLine

LEMMA ReadLineGood ==
    ASSUME StatementInv, NEW line \in Lines, ReadLine(line)
    PROVE  StatementInv'
<1>1. mode = "reading" /\ IsSequence(line)
    BY LinesAssumption, SeqIsSequence DEF ReadLine
<1>2. CASE DoCommand(line)
    BY <1>1, <1>2, DoCommandGood
<1>3. CASE Return /\ UNCHANGED vars
    BY <1>1, <1>3, ReturnTyped, TextStepGood DEF vars
<1>4. ASSUME NEW next \in {"continuing", "parsing", "ended"}, NEW sql, IsSequence(sql),
             Begin(sql, next), UNCHANGED vars
      PROVE  StatementInv'
    <2>1. next \in Modes /\ next \notin {"binding", "executing"}
        BY DEF Modes
    <2>2. ShellTyped' /\ mode' = next
        BY <1>4, <2>1, BeginTyped
    <2>3. QED BY <1>1, <1>4, <2>1, <2>2, TextStepGood DEF vars
<1>5. CASE Begin(line, IF NeedsContinuation(line) THEN "continuing" ELSE "parsing")
           /\ UNCHANGED vars
    BY <1>1, <1>4, <1>5
<1>6. CASE Begin(<< >>, "ended") /\ UNCHANGED vars
    BY <1>4, <1>6, EmptySequence
<1>7. QED BY <1>2, <1>3, <1>5, <1>6 DEF ReadLine

LEMMA JoinIsText ==
    ASSUME NEW sql, IsSequence(sql), NEW line, IsSequence(line)
    PROVE  IsSequence(Join(sql, line))
<1> DEFINE blank == <<" ">>
<1>1. IsSequence(blank)
    BY SingletonSequence, Zenon
<1> HIDE DEF blank
<1>2. IsSequence(sql \o blank \o line)
    BY <1>1, ConcatIsSequence
<1>3. QED BY <1>2, Zenon DEF Join, blank

LEMMA AppendedLines ==
    ASSUME NEW lines, IsSequence(lines), \A n \in 1 .. Len(lines) : IsSequence(lines[n]),
           NEW line, IsSequence(line)
    PROVE  /\ IsSequence(Append(lines, line))
           /\ \A n \in 1 .. Len(Append(lines, line)) : IsSequence(Append(lines, line)[n])
<1> DEFINE more == Append(lines, line)
           S == ToSet(lines) \cup {line}
           m == Len(lines)
<1>0. lines \in Seq(S)
    BY SeqMonotonic DEF IsSequence
<1> HIDE DEF S
<1>1. line \in S
    BY DEF S
<1>2. /\ more \in Seq(S) /\ Len(more) = m + 1 /\ m \in Nat
      /\ more[m + 1] = line /\ \A i \in 1 .. m : more[i] = lines[i]
    BY <1>0, <1>1, AppendProperties, LenProperties
<1>3. IsSequence(more)
    BY <1>2, SeqIsSequence
<1> HIDE DEF more
<1>4. ASSUME NEW n \in 1 .. Len(more) PROVE IsSequence(more[n])
    <2>1. CASE n = m + 1
        BY <1>2, <2>1
    <2>2. CASE n # m + 1
        <3>1. n \in 1 .. m
            BY <1>2, <2>2
        <3>2. QED BY <1>2, <3>1
    <2>3. QED BY <2>1, <2>2
<1>5. QED BY <1>3, <1>4 DEF more

LEMMA ReadMoreGood ==
    ASSUME StatementInv, NEW line \in Lines, ReadMore(line)
    PROVE  StatementInv'
<1> DEFINE sql == Join(buffer, line)
<1>1. /\ mode = "continuing" /\ IsSequence(line) /\ IsSequence(buffer) /\ IsSequence(typed)
      /\ \A n \in 1 .. Len(typed) : IsSequence(typed[n])
    BY LinesAssumption, SeqIsSequence DEF ReadMore, StatementInv, ShellTyped
<1>2. CASE Return /\ UNCHANGED <<cluster, current, bound, running>>
    BY <1>1, <1>2, ReturnTyped, TextStepGood
<1>3. CASE /\ mode' = IF NeedsContinuation(sql) THEN "continuing" ELSE "parsing"
           /\ buffer' = sql /\ typed' = Append(typed, line) /\ UNCHANGED vars
    <2>1. IsSequence(sql)
        BY <1>1, JoinIsText
    <2> DEFINE lines == Append(typed, line)
    <2>2. IsSequence(lines) /\ \A n \in 1 .. Len(lines) : IsSequence(lines[n])
        BY <1>1, AppendedLines
    <2> HIDE DEF lines, sql
    <2>3. mode' \in Modes /\ mode' \notin {"binding", "executing"}
        BY <1>3 DEF Modes
    <2>4. ShellTyped'
        BY <1>3, <2>1, <2>2, <2>3 DEF ShellTyped, lines
    <2>5. QED BY <1>1, <1>3, <2>3, <2>4, TextStepGood DEF vars
<1>4. QED BY <1>2, <1>3 DEF ReadMore

LEMMA EndOfInputGood ==
    ASSUME StatementInv, EndOfInput
    PROVE  StatementInv'
<1>1. mode \in {"reading", "continuing"} /\ Begin(<< >>, "ended") /\ UNCHANGED vars
    BY DEF EndOfInput
<1>2. IsSequence(<< >>) /\ "ended" \in Modes
    BY EmptySequence DEF Modes
<1>3. ShellTyped' /\ mode' = "ended"
    BY <1>1, <1>2, BeginTyped
<1>4. QED BY <1>1, <1>3, TextStepGood DEF vars

LEMMA ParseGood ==
    ASSUME StatementInv, Parse
    PROVE  StatementInv'
<1>1. Inv' /\ running' /\ bound'[repl] = NoStatement /\ mode = "parsing"
    BY QuietGood DEF StatementInv, OneStatement, Parse, vars
<1>2. CASE Sent.ok
    <2>1. mode' = "binding" /\ UNCHANGED <<buffer, typed>>
        BY <1>2 DEF Parse, Sent
    <2>2. ShellTyped' /\ OneStatement'
        BY <1>1, <1>2, <2>1 DEF StatementInv, ShellTyped, Modes, OneStatement, Sent
    <2>3. QED BY <1>1, <2>2 DEF StatementInv
<1>3. CASE ~Sent.ok
    <2>1. ShellTyped' /\ mode' \notin {"binding", "executing"}
        BY <1>3, ReturnTyped DEF Parse, Sent
    <2>2. QED BY <1>1, <2>1, NothingSent DEF StatementInv
<1>4. QED BY <1>2, <1>3

LEMMA BindParsedGood ==
    ASSUME StatementInv, BindParsed
    PROVE  StatementInv'
<1> DEFINE statement == Sent.tree
           result == BindStatement(current[repl], statement)
<1>1. mode = "binding" /\ Sent.ok /\ IsSequence(buffer) /\ Inv /\ running
    BY DEF StatementInv, ShellTyped, OneStatement, BindParsed
<1>2. Bind(repl, statement)
    BY DEF BindParsed, Sent
<1>3. IsParsed(statement)
    BY <1>1, TokensAreScan, StatementFacts DEF Sent, IsSequence
<1>4. /\ UNCHANGED <<cluster, current, running>>
      /\ bound'[repl] = IF result.status # "Ok" THEN NoStatement
                        ELSE [kind |-> "Bound", statement |-> result.bound,
                              database |-> current[repl], parsed |-> statement]
    BY <1>1, <1>2, ReplIsSession DEF Bind, Inv
<1>5. Inv' /\ running'
    <2> HIDE DEF statement, result
    <2>1. QED BY <1>1, <1>2, <1>3, <1>4, BindGood, ReplIsSession
<1>6. CASE bound'[repl] = NoStatement
    <2>1. ShellTyped' /\ mode' \notin {"binding", "executing"}
        BY <1>6, ReturnTyped DEF BindParsed
    <2>2. QED BY <1>5, <1>6, <2>1, NothingSent DEF StatementInv
<1>7. CASE bound'[repl] # NoStatement
    <2>1. mode' = "executing" /\ UNCHANGED <<buffer, typed>>
        BY <1>7 DEF BindParsed
    <2>2. ShellTyped'
        BY <2>1 DEF StatementInv, ShellTyped, Modes
    <2>3. result.status = "Ok"
        BY <1>4, <1>7
    <2>4. result = Accepted(result.bound)
        <3> HIDE DEF statement
        <3>1. QED BY <1>3, <2>3, BindAccepts
    <2>5. /\ bound'[repl].database = current[repl] /\ bound'[repl].parsed = statement
          /\ bound'[repl].statement = result.bound
        BY <1>4, <2>3
    <2>6. Sent' = Sent
        BY <2>1 DEF Sent
    <2> HIDE DEF statement
    <2>7. BindStatement(current[repl], bound[repl].parsed)' = result
        BY <1>4, <2>5 DEF BindStatement
    <2> HIDE DEF result
    <2>8. OneStatement'
        BY <1>1, <1>4, <1>7, <2>1, <2>4, <2>5, <2>6, <2>7 DEF OneStatement, statement
    <2>9. QED BY <1>5, <2>2, <2>8 DEF StatementInv
<1>8. QED BY <1>6, <1>7

LEMMA BoundRuns ==
    ASSUME StatementInv, mode = "executing"
    PROVE  /\ ExecuteStatement(current[repl], bound[repl].statement).status
                 \in {"Ok", "duplicate column name"}
           /\ bound[repl].parsed = ParseStatement(Tokens(buffer)).tree
           /\ IsParsed(bound[repl].parsed)
<1>1. /\ Inv /\ Sent.ok /\ IsSequence(buffer) /\ bound[repl] # NoStatement
      /\ bound[repl].parsed = Sent.tree
      /\ BindStatement(current[repl], bound[repl].parsed) = Accepted(bound[repl].statement)
    BY DEF StatementInv, ShellTyped, OneStatement
<1>2. IsParsed(bound[repl].parsed)
    BY <1>1, TokensAreScan, StatementFacts DEF Sent, IsSequence
<1>3. GoodCluster(cluster) /\ current[repl] \in DOMAIN cluster
    BY <1>1, InvParts, ReplIsSession DEF Inv, SessionsConnected
<1>4. ExecuteStatement(current[repl], bound[repl].statement).status
          \in {"Ok", "duplicate column name"}
    BY <1>1, <1>2, <1>3, JustBoundRuns
<1>5. QED BY <1>1, <1>2, <1>4 DEF Sent

LEMMA ExecuteBoundGood ==
    ASSUME StatementInv, ExecuteBound
    PROVE  StatementInv'
<1> DEFINE status == ExecuteStatement(current[repl], bound[repl].statement).status
<1>1. mode = "executing" /\ Execute(repl) /\ Inv
    BY DEF ExecuteBound, StatementInv
<1>2. status \in {"Ok", "duplicate column name"}
    BY <1>1, BoundRuns
<1>3. status \notin Fatal
    <2> HIDE DEF status
    <2>1. QED BY <1>2 DEF Fatal
<1>4. running' /\ bound'[repl] = NoStatement
    BY <1>1, <1>3, ReplIsSession DEF Execute, Inv
<1>5. Inv'
    BY <1>1, ExecuteGood, ReplIsSession
<1>6. ShellTyped' /\ mode' \notin {"binding", "executing"}
    BY <1>4, ReturnTyped DEF ExecuteBound
<1>7. QED BY <1>4, <1>5, <1>6, NothingSent DEF StatementInv

LEMMA ShellStepGood ==
    ASSUME StatementInv, [ShellNext]_shellVars
    PROVE  StatementInv'
<1>1. CASE UNCHANGED shellVars
    <2>1. UNCHANGED <<cluster, current, bound, running, mode, buffer, typed>>
        BY <1>1 DEF shellVars, vars
    <2>2. Inv' /\ running'
        BY <2>1, QuietGood DEF StatementInv
    <2>3. ShellTyped'
        BY <2>1 DEF StatementInv, ShellTyped
    <2>4. BindStatement(current[repl], bound[repl].parsed)'
              = BindStatement(current[repl], bound[repl].parsed)
        BY <2>1 DEF BindStatement
    <2>5. OneStatement'
        BY <2>1, <2>4 DEF StatementInv, OneStatement, Sent
    <2>6. QED BY <2>2, <2>3, <2>5 DEF StatementInv
<1>2. QED BY <1>1, StartGood, RunGood, ProcessLineGood, ReadLineGood, ReadMoreGood,
             EndOfInputGood, ParseGood, BindParsedGood, ExecuteBoundGood DEF ShellNext

THEOREM StatementInvariance == ShellSpec => []StatementInv
<1>1. ShellInit => StatementInv
    BY ShellInitGood
<1>2. StatementInv /\ [ShellNext]_shellVars => StatementInv'
    BY ShellStepGood
<1>3. QED BY <1>1, <1>2, PTL DEF ShellSpec

(* A build with assertions never aborts in the shell (repl.cpp:132-155).   *)
THEOREM ShellNeverAborts == ShellSpec => []NeverAborts
<1>1. StatementInv => NeverAborts
    BY DEF StatementInv, NeverAborts
<1>2. QED BY <1>1, StatementInvariance, PTL

(* The shell executes the statement that was typed, and what the binder    *)
(* let through the executor carries out, whatever the text was.            *)
THEOREM BoundStatementsAlwaysRun == ShellSpec => []BoundStatementsRun
<1>1. StatementInv => BoundStatementsRun
    BY BoundRuns DEF BoundStatementsRun
<1>2. QED BY <1>1, StatementInvariance, PTL

(* A SELECT that is typed answers by the names in it.                      *)
THEOREM ShellAnswersByName == ShellSpec => []SelectAnswersByName
<1>1. StatementInv => SelectAnswersByName
    BY InvAnswersByName DEF StatementInv
<1>2. QED BY <1>1, StatementInvariance, PTL

-----------------------------------------------------------------------------
(* The text of the buffer.                                                 *)
LEMMA WaitsInitially == ShellInit => Waits
BY DEF ShellInit, Waits

LEMMA WaitsAlways ==
    ASSUME Waits, [ShellNext]_shellVars
    PROVE  Waits'
<1>1. CASE UNCHANGED shellVars
    BY <1>1 DEF shellVars, Waits, NeedsContinuation, EndsWithSemicolon, LastOf
<1>2. ASSUME Return PROVE mode' # "continuing"
    BY <1>2 DEF Return, Resting
<1>3. CASE \E name \in DatabaseNames : Start(name)
    BY <1>3 DEF Start, Waits
<1>4. CASE Run \/ EndOfInput
    BY <1>4 DEF Run, EndOfInput, Begin, Waits
<1>5. CASE Parse
    BY <1>2, <1>5 DEF Parse, Waits
<1>6. CASE BindParsed
    BY <1>2, <1>6 DEF BindParsed, Waits
<1>7. CASE ExecuteBound
    BY <1>2, <1>7 DEF ExecuteBound, Begin, Waits
<1>8. ASSUME NEW line \in Lines, ProcessLine(line)
      PROVE  Waits'
    BY <1>2, <1>8 DEF ProcessLine, DoCommand, Begin, Waits
<1>9. ASSUME NEW line \in Lines, ReadLine(line)
      PROVE  Waits'
    <2>1. CASE mode' # "continuing"
        BY <2>1 DEF Waits
    <2>2. CASE mode' = "continuing"
        <3>1. Begin(line, IF NeedsContinuation(line) THEN "continuing" ELSE "parsing")
            BY <1>2, <1>9, <2>2 DEF ReadLine, DoCommand, Begin
        <3>2. buffer' = line /\ NeedsContinuation(line)
            BY <2>2, <3>1 DEF Begin
        <3>3. QED BY <3>2 DEF Waits
    <2>3. QED BY <2>1, <2>2
<1>10. ASSUME NEW line \in Lines, ReadMore(line)
       PROVE  Waits'
    <2>1. CASE mode' # "continuing"
        BY <2>1 DEF Waits
    <2>2. CASE mode' = "continuing"
        <3>1. buffer' = Join(buffer, line) /\ NeedsContinuation(Join(buffer, line))
            BY <1>2, <1>10, <2>2 DEF ReadMore
        <3>2. QED BY <3>1 DEF Waits
    <2>3. QED BY <2>1, <2>2
<1>11. QED BY <1>1, <1>3, <1>4, <1>5, <1>6, <1>7, <1>8, <1>9, <1>10 DEF ShellNext

(* The shell never asks for another line of a complete statement, in plain *)
(* text (repl.cpp:40-68).                                                  *)
THEOREM ContinuesIncomplete == ShellSpec => []ContinuesOnlyIncomplete
<1>1. StatementInv /\ Waits => ContinuesOnlyIncomplete
    BY IncompleteGoesOn DEF StatementInv, ShellTyped, Waits, ContinuesOnlyIncomplete
<1>2. Waits /\ [ShellNext]_shellVars => Waits'
    BY WaitsAlways
<1>3. QED BY <1>1, <1>2, WaitsInitially, StatementInvariance, PTL DEF ShellSpec

-----------------------------------------------------------------------------
(***************************************************************************)
(* A text inside a longer one: what the scanner makes of a text is what it *)
(* makes of that part of the longer one, if a blank follows there, or      *)
(* nothing.                                                                *)
(***************************************************************************)
Blank == " "
Embeds(s, t, d) ==
    /\ d \in Nat /\ Len(s) + d <= Len(t)
    /\ \A q \in 1 .. Len(s) : t[q + d] = s[q]
    /\ Len(s) + d < Len(t) => t[Len(s) + d + 1] = Blank

(* A comment would go on behind the blank.                                 *)
Closes(s, t, d) ==
    Len(t) = Len(s) + d \/ \A q \in 1 .. Len(s) : ~BeginsComment(s, q)

LEMMA BlankFacts ==
    /\ Blank \in Whitespace /\ Blank \notin IdentifierContinue /\ Blank \notin Digits
    /\ Blank # Quote /\ Blank # "-" /\ Blank \notin DOMAIN Marks
<1>1. Blank \in Whitespace
    BY Zenon DEF Blank, Whitespace
<1>2. Blank # Quote /\ Blank # "-" /\ Blank # "_"
    BY Zenon DEF Blank, Quote
<1>3. Blank \notin DOMAIN Marks
    <2>1. Blank \notin {",", ";", ".", "(", ")", "*", "=", "<", ">"}
        BY Zenon DEF Blank
    <2>2. DOMAIN Marks = {",", ";", ".", "(", ")", "*", "=", "<", ">"}
        BY DEF Marks
    <2>3. QED BY <2>1, <2>2
<1>4. Blank \notin Letters /\ Blank \notin Digits
    <2> DEFINE special == Whitespace \cup DOMAIN Marks \cup {Quote, NUL, "_", "-", "!"}
    <2>1. Blank \in special
        BY <1>1
    <2>2. (Letters \cup Digits) \cap special = {}
        BY CharactersAssumption
    <2> HIDE DEF special
    <2>3. QED BY <2>1, <2>2
<1>5. QED BY <1>1, <1>2, <1>3, <1>4 DEF IdentifierContinue, IdentifierStart

LEMMA NULFacts == NUL # Quote /\ NUL # "-" /\ NUL \notin DOMAIN Marks
<1>1. NUL # Quote /\ NUL # "-"
    BY Zenon DEF NUL, Quote
<1>2. NUL \notin DOMAIN Marks
    BY CharacterClasses
<1>3. QED BY <1>1, <1>2

(* The character at a position, and the one behind the text.               *)
LEMMA PeekEmbeds ==
    ASSUME NEW S, NEW s \in Seq(S), NEW T, NEW t \in Seq(T), NEW d, Embeds(s, t, d),
           NEW q \in 1 .. Len(s) + 1
    PROVE  /\ q + d \in 1 .. Len(t) + 1
           /\ q <= Len(s) => Peek(t, q + d) = s[q] /\ Peek(s, q) = s[q] /\ t[q + d] = s[q]
           /\ q = Len(s) + 1 => Peek(s, q) = NUL /\ Peek(t, q + d) \in {NUL, Blank}
<1> DEFINE n == Len(s)
           m == Len(t)
<1>1. n \in Nat /\ m \in Nat /\ d \in Nat /\ n + d <= m /\ q \in 1 .. n + 1
    BY LenProperties DEF Embeds
<1>2. q + d \in 1 .. m + 1
    <2> HIDE DEF n, m
    <2>1. QED BY <1>1
<1>3. ASSUME q <= n
      PROVE  Peek(t, q + d) = s[q] /\ Peek(s, q) = s[q] /\ t[q + d] = s[q]
    <2>1. q \in 1 .. n /\ ~(q > n) /\ ~(q + d > m)
        <3> HIDE DEF n, m
        <3>1. QED BY <1>1, <1>3
    <2>2. t[q + d] = s[q]
        BY <2>1 DEF Embeds
    <2>3. QED BY <2>1, <2>2 DEF Peek, AtEnd
<1>4. ASSUME q = n + 1
      PROVE  Peek(s, q) = NUL /\ Peek(t, q + d) \in {NUL, Blank}
    <2>1. q > n /\ q + d = n + d + 1
        <3> HIDE DEF n, m
        <3>1. QED BY <1>1, <1>4
    <2>2. Peek(s, q) = NUL
        BY <2>1 DEF Peek, AtEnd
    <2>3. CASE n + d = m
        <3>1. q + d > m
            <4> HIDE DEF n, m
            <4>1. QED BY <1>1, <2>1, <2>3
        <3>2. QED BY <2>2, <3>1 DEF Peek, AtEnd
    <2>4. CASE n + d # m
        <3>1. n + d < m /\ ~(q + d > m)
            <4> HIDE DEF n, m
            <4>1. QED BY <1>1, <2>1, <2>4
        <3>2. t[q + d] = Blank
            BY <2>1, <3>1 DEF Embeds
        <3>3. QED BY <2>2, <3>1, <3>2 DEF Peek, AtEnd
    <2>5. QED BY <2>3, <2>4
<1>5. QED BY <1>2, <1>3, <1>4

LEMMA EndOfRunIs ==
    ASSUME NEW S, NEW string \in Seq(S), NEW p \in 1 .. Len(string) + 1, NEW class,
           NEW e \in p .. Len(string) + 1,
           \A q \in p .. e - 1 : string[q] \in class,
           e <= Len(string) => string[e] \notin class
    PROVE  EndOfRun(string, p, class) = e
<1> DEFINE n == Len(string)
           f == EndOfRun(string, p, class)
<1>1. n \in Nat /\ p \in 1 .. n + 1 /\ e \in p .. n + 1
    BY LenProperties
<1>2. /\ f \in p .. n + 1 /\ \A q \in p .. f - 1 : string[q] \in class
      /\ f <= n => string[f] \notin class
    BY EndOfRunFacts
<1> HIDE DEF f, n
<1>3. ~(f < e)
    <2>1. ASSUME f < e
          PROVE  FALSE
        <3>1. f <= n /\ f \in p .. e - 1
            BY <1>1, <1>2, <2>1
        <3>2. QED BY <1>2, <3>1
    <2>2. QED BY <2>1
<1>4. ~(e < f)
    <2>1. ASSUME e < f
          PROVE  FALSE
        <3>1. e <= n /\ e \in p .. f - 1
            BY <1>1, <1>2, <2>1
        <3>2. QED BY <1>2, <3>1 DEF n
    <2>2. QED BY <2>1
<1>5. f = e
    BY <1>1, <1>2, <1>3, <1>4
<1>6. QED BY <1>5 DEF f

LEMMA RunEmbeds ==
    ASSUME NEW S, NEW s \in Seq(S), NEW T, NEW t \in Seq(T), NEW d, Embeds(s, t, d),
           NEW p \in 1 .. Len(s) + 1, NEW class, Blank \notin class
    PROVE  EndOfRun(t, p + d, class) = EndOfRun(s, p, class) + d
<1> DEFINE n == Len(s)
           m == Len(t)
           f == EndOfRun(s, p, class)
<1>1. n \in Nat /\ m \in Nat /\ d \in Nat /\ n + d <= m /\ p \in 1 .. n + 1
    BY LenProperties DEF Embeds
<1>2. /\ f \in p .. n + 1 /\ \A q \in p .. f - 1 : s[q] \in class
      /\ f <= n => s[f] \notin class
    BY EndOfRunFacts
<1>3. /\ \A q \in 1 .. n : t[q + d] = s[q]
      /\ n + d < m => t[n + d + 1] = Blank
    BY DEF Embeds
<1> HIDE DEF f, n, m
<1>4. p + d \in 1 .. m + 1 /\ f + d \in p + d .. m + 1
    BY <1>1, <1>2
<1>5. ASSUME NEW r \in p + d .. f + d - 1
      PROVE  t[r] \in class
    <2> DEFINE q == r - d
    <2>1. q \in 1 .. n /\ q \in p .. f - 1 /\ q + d = r
        BY <1>1, <1>2
    <2> HIDE DEF q
    <2>2. QED BY <1>2, <1>3, <2>1
<1>6. ASSUME f + d <= m
      PROVE  t[f + d] \notin class
    <2>1. CASE f <= n
        <3>1. f \in 1 .. n
            BY <1>1, <1>2, <2>1
        <3>2. QED BY <1>2, <1>3, <2>1, <3>1
    <2>2. CASE ~(f <= n)
        <3>1. n + d < m /\ f + d = n + d + 1
            BY <1>1, <1>2, <1>6, <2>2
        <3>2. QED BY <1>3, <3>1
    <2>3. QED BY <2>1, <2>2
<1>7. EndOfRun(t, p + d, class) = f + d
    <2>1. PICK g, h : g = p + d /\ h = f + d
        OBVIOUS
    <2>2. g \in 1 .. m + 1 /\ h \in g .. m + 1
        BY <1>4, <2>1
    <2>3. \A r \in g .. h - 1 : t[r] \in class
        <3>1. \A r \in g .. h - 1 : r \in p + d .. f + d - 1
            BY <1>1, <1>2, <2>1
        <3>2. QED BY <1>5, <3>1
    <2>4. h <= m => t[h] \notin class
        BY <1>6, <2>1
    <2>5. EndOfRun(t, g, class) = h
        BY <2>2, <2>3, <2>4, EndOfRunIs DEF m
    <2>6. QED BY <2>1, <2>5
<1>8. QED BY <1>7 DEF f

LEMMA PieceEmbeds ==
    ASSUME NEW S, NEW s \in Seq(S), NEW T, NEW t \in Seq(T), NEW d, Embeds(s, t, d),
           NEW i \in 1 .. Len(s) + 1, NEW j \in i - 1 .. Len(s), NEW i2, NEW j2,
           i2 = i + d, j2 = j + d
    PROVE  SubSeq(t, i2, j2) = SubSeq(s, i, j)
<1> DEFINE n == Len(s)
           m == Len(t)
           a == SubSeq(s, i, j)
           b == SubSeq(t, i2, j2)
<1>1. n \in Nat /\ m \in Nat /\ d \in Nat /\ n + d <= m /\ i \in 1 .. n + 1 /\ j \in i - 1 .. n
    BY LenProperties DEF Embeds
<1>2. \A q \in 1 .. n : t[q + d] = s[q]
    BY DEF Embeds
<1>3. i2 = i + d /\ j2 = j + d
    OBVIOUS
<1>4. /\ i2 \in 1 .. m + 1 /\ j2 \in i2 - 1 .. m /\ j2 - i2 + 1 = j - i + 1
      /\ \A k \in 1 .. j - i + 1 : i + k - 1 \in 1 .. n /\ i2 + k - 1 = (i + k - 1) + d
    <2> HIDE DEF n, m
    <2>1. QED BY <1>1, <1>3
<1>5. /\ a \in Seq(S) /\ Len(a) = j - i + 1
      /\ \A k \in 1 .. j - i + 1 : a[k] = s[i + k - 1]
    BY PieceFacts
<1>6. /\ b \in Seq(T) /\ Len(b) = j - i + 1
      /\ \A k \in 1 .. j - i + 1 : b[k] = t[i2 + k - 1]
    <2>1. b = SubSeq(t, i2, j2)
        BY <1>3
    <2>2. /\ SubSeq(t, i2, j2) \in Seq(T)
          /\ Len(SubSeq(t, i2, j2)) = j2 - i2 + 1
          /\ \A k \in 1 .. j2 - i2 + 1 : SubSeq(t, i2, j2)[k] = t[i2 + k - 1]
        <3>1. i2 \in 1 .. Len(t) + 1 /\ j2 \in i2 - 1 .. Len(t)
            BY <1>4
        <3>2. QED BY ONLY <3>1, t \in Seq(T), PieceFacts
    <2> HIDE DEF b
    <2>3. QED BY <1>4, <2>1, <2>2
<1> HIDE DEF a, b, n, m
<1>7. \A k \in 1 .. j - i + 1 : a[k] = b[k]
    BY <1>2, <1>4, <1>5, <1>6
<1>8. a \in Seq(S \cup T) /\ b \in Seq(S \cup T)
    <2>1. S \subseteq S \cup T /\ T \subseteq S \cup T
        OBVIOUS
    <2>2. QED BY <1>5, <1>6, <2>1, SeqMonotonic
<1>9. a = b
    BY <1>5, <1>6, <1>7, <1>8, SeqEqual
<1>10. QED BY <1>9 DEF a, b

-----------------------------------------------------------------------------
(* What is skipped.  The operator itself satisfies the equation of the     *)
(* loop.                                                                   *)
LEMMA SkipsAgree ==
    ASSUME NEW S, NEW string \in Seq(S), NEW p \in 1 .. Len(string) + 1,
           NEW r \in p .. Len(string) + 1, NEW f, NEW g,
           Skips(f, string, p), Skips(g, string, r)
    PROVE  f[r] = g[r]
<1> DEFINE n == Len(string)
           good == {q \in r .. n + 1 : f[q] = g[q]}
<1>1. n \in Nat /\ p \in 1 .. n + 1 /\ r \in p .. n + 1 /\ r \in Int /\ n + 1 \in Int
    BY LenProperties
<1>2. ASSUME NEW q \in r .. n + 1, \A x \in q + 1 .. n + 1 : x \in good
      PROVE  q \in good
    <2>1. q \in p .. n + 1 /\ q \in 1 .. n + 1
        <3> HIDE DEF n
        <3>1. QED BY <1>1
    <2>2. f[q] = SkipStep(string, f, q) /\ g[q] = SkipStep(string, g, q)
        BY <1>2, <2>1 DEF Skips
    <2>3. CASE AtEnd(string, q)
        BY <1>2, <2>2, <2>3 DEF SkipStep
    <2>4. CASE ~AtEnd(string, q)
        <3>1. q + 1 \in q + 1 .. n + 1 /\ q <= n
            <4>1. ~(q > n)
                BY <2>4 DEF AtEnd
            <4> HIDE DEF n
            <4>2. QED BY <1>1, <2>1, <4>1
        <3>2. f[q + 1] = g[q + 1]
            BY <1>2, <3>1
        <3>3. CASE string[q] \in Whitespace
            BY <1>2, <2>2, <2>4, <3>2, <3>3 DEF SkipStep
        <3>4. CASE string[q] \notin Whitespace
            <4> DEFINE e == EndOfLine(string, q)
            <4>1. e \in q .. n + 1 /\ (e <= n => string[e] = NewLine)
                BY <2>1, EndOfLineFacts
            <4>2. string[q] # NewLine
                BY <3>4, NoBlankIsADash
            <4> HIDE DEF e, n
            <4>3. e # q
                BY <3>1, <4>1, <4>2
            <4>4. e \in q + 1 .. n + 1
                BY <1>1, <2>1, <4>1, <4>3
            <4>5. f[e] = g[e]
                BY <1>2, <4>4
            <4>6. QED BY <1>2, <2>2, <2>4, <3>4, <4>5 DEF SkipStep, e, n
        <3>5. QED BY <3>3, <3>4
    <2>5. QED BY <2>3, <2>4
<1>3. \A q \in r .. n + 1 : q \in good
    <2> HIDE DEF good, n
    <2>1. QED BY <1>1, <1>2, BackwardInduction, Zenon
<1>4. r \in r .. n + 1
    <2> HIDE DEF n
    <2>1. QED BY <1>1
<1>5. QED BY <1>3, <1>4

LEMMA SkipEquation ==
    ASSUME NEW S, NEW string \in Seq(S), NEW q \in 1 .. Len(string) + 1
    PROVE  /\ AtEnd(string, q) => SkipWhitespaceAndComments(string, q) = q
           /\ ~AtEnd(string, q) /\ string[q] \in Whitespace =>
                  /\ q + 1 \in 1 .. Len(string) + 1
                  /\ SkipWhitespaceAndComments(string, q) = SkipWhitespaceAndComments(string, q + 1)
           /\ ~AtEnd(string, q) /\ string[q] \notin Whitespace /\ BeginsComment(string, q) =>
                  /\ EndOfLine(string, q) \in q + 1 .. Len(string) + 1
                  /\ SkipWhitespaceAndComments(string, q)
                       = SkipWhitespaceAndComments(string, EndOfLine(string, q))
           /\ ~AtEnd(string, q) /\ string[q] \notin Whitespace /\ ~BeginsComment(string, q) =>
                  SkipWhitespaceAndComments(string, q) = q
<1> DEFINE n == Len(string)
           e == EndOfLine(string, q)
<1>1. n \in Nat /\ q \in 1 .. n + 1
    BY LenProperties
<1>2. PICK f : Skips(f, string, q) /\ SkipWhitespaceAndComments(string, q) = f[q]
    BY SkipStepwise
<1>3. ASSUME NEW r \in q .. n + 1
      PROVE  SkipWhitespaceAndComments(string, r) = f[r]
    <2>1. r \in 1 .. Len(string) + 1
        <3> HIDE DEF n
        <3>1. r \in 1 .. n + 1
            BY <1>1
        <3>2. QED BY <3>1 DEF n
    <2>2. PICK g : Skips(g, string, r) /\ SkipWhitespaceAndComments(string, r) = g[r]
        BY <2>1, SkipStepwise
    <2>3. f[r] = g[r]
        BY <1>2, <1>3, <2>2, SkipsAgree
    <2>4. QED BY <2>2, <2>3
<1>4. f[q] = SkipStep(string, f, q)
    <2>1. q \in q .. n + 1
        <3> HIDE DEF n
        <3>1. QED BY <1>1
    <2>2. QED BY <1>2, <2>1 DEF Skips
<1>5. ASSUME AtEnd(string, q)
      PROVE  SkipWhitespaceAndComments(string, q) = q
    BY <1>2, <1>4, <1>5 DEF SkipStep
<1>6. ASSUME ~AtEnd(string, q)
      PROVE  q + 1 \in q .. n + 1 /\ q + 1 \in 1 .. n + 1 /\ q <= n
    <2>1. ~(q > n)
        BY <1>6 DEF AtEnd
    <2> HIDE DEF n
    <2>2. QED BY <1>1, <2>1
<1>7. ASSUME ~AtEnd(string, q), string[q] \in Whitespace
      PROVE  /\ q + 1 \in 1 .. n + 1
             /\ SkipWhitespaceAndComments(string, q) = SkipWhitespaceAndComments(string, q + 1)
    <2>1. f[q] = f[q + 1]
        BY <1>4, <1>7 DEF SkipStep
    <2>2. SkipWhitespaceAndComments(string, q + 1) = f[q + 1]
        BY <1>3, <1>6, <1>7
    <2>3. QED BY <1>2, <1>6, <1>7, <2>1, <2>2
<1>8. ASSUME ~AtEnd(string, q), string[q] \notin Whitespace, BeginsComment(string, q)
      PROVE  /\ e \in q + 1 .. n + 1
             /\ SkipWhitespaceAndComments(string, q) = SkipWhitespaceAndComments(string, e)
    <2>1. f[q] = f[e]
        BY <1>4, <1>8 DEF SkipStep
    <2>2. e \in q .. n + 1 /\ (e <= n => string[e] = NewLine)
        BY EndOfLineFacts
    <2>3. string[q] # NewLine
        BY <1>8, NoBlankIsADash
    <2>4. SkipWhitespaceAndComments(string, e) = f[e]
        BY <1>3, <2>2
    <2>5. q <= n
        BY <1>6, <1>8
    <2> HIDE DEF e, n
    <2>6. e # q
        BY <2>2, <2>3, <2>5
    <2>7. e \in q + 1 .. n + 1
        BY <1>1, <2>2, <2>6
    <2>8. QED BY <1>2, <2>1, <2>4, <2>7
<1>9. ASSUME ~AtEnd(string, q), string[q] \notin Whitespace, ~BeginsComment(string, q)
      PROVE  SkipWhitespaceAndComments(string, q) = q
    BY <1>2, <1>4, <1>9 DEF SkipStep
<1>10. QED BY <1>5, <1>7, <1>8, <1>9

(* The end of a comment, if nothing follows the text.                      *)
LEMMA LineEmbeds ==
    ASSUME NEW S, NEW s \in Seq(S), NEW T, NEW t \in Seq(T), NEW d, Embeds(s, t, d),
           Len(t) = Len(s) + d, NEW p \in 1 .. Len(s) + 1
    PROVE  EndOfLine(t, p + d) = EndOfLine(s, p) + d
<1> DEFINE n == Len(s)
           m == Len(t)
           f == EndOfLine(s, p)
<1>1. n \in Nat /\ m \in Nat /\ d \in Nat /\ m = n + d /\ p \in 1 .. n + 1
    BY LenProperties DEF Embeds
<1>2. /\ f \in p .. n + 1 /\ \A q \in p .. f - 1 : s[q] # NewLine
      /\ f <= n => s[f] = NewLine
    BY EndOfLineFacts
<1>3. \A q \in 1 .. n : t[q + d] = s[q]
    BY DEF Embeds
<1>4. PICK g, h : g = p + d /\ h = EndOfLine(t, g)
    OBVIOUS
<1>5. g \in 1 .. m + 1
    <2> HIDE DEF n, m
    <2>1. QED BY <1>1, <1>4
<1>6. /\ h \in g .. m + 1 /\ \A q \in g .. h - 1 : t[q] # NewLine
      /\ h <= m => t[h] = NewLine
    BY <1>4, <1>5, EndOfLineFacts
<1> HIDE DEF f, n, m
<1>7. ~(h < f + d)
    <2>1. ASSUME h < f + d
          PROVE  FALSE
        <3>1. PICK q : q = h - d
            OBVIOUS
        <3>2. h <= m /\ q \in 1 .. n /\ q \in p .. f - 1 /\ q + d = h
            BY <1>1, <1>2, <1>4, <1>6, <2>1, <3>1
        <3>3. QED BY <1>2, <1>3, <1>6, <3>2
    <2>2. QED BY <2>1
<1>8. ~(f + d < h)
    <2>1. ASSUME f + d < h
          PROVE  FALSE
        <3>1. f <= n /\ f \in 1 .. n /\ f + d \in g .. h - 1
            BY <1>1, <1>2, <1>4, <1>6, <2>1
        <3>2. QED BY <1>2, <1>3, <1>6, <3>1
    <2>2. QED BY <2>1
<1>9. h = f + d
    <2>1. h \in Int /\ f \in Int /\ d \in Int /\ f + d \in Int
        BY <1>1, <1>2, <1>4, <1>6
    <2>2. QED BY <1>7, <1>8, <2>1
<1>10. QED BY <1>4, <1>9 DEF f

LEMMA CommentEmbeds ==
    ASSUME NEW S, NEW s \in Seq(S), NEW T, NEW t \in Seq(T), NEW d, Embeds(s, t, d),
           NEW q \in 1 .. Len(s)
    PROVE  BeginsComment(t, q + d) <=> BeginsComment(s, q)
<1> DEFINE n == Len(s)
<1>1. n \in Nat /\ q \in 1 .. n /\ d \in Nat
    BY LenProperties DEF Embeds
<1>2. PICK r : r = q + 1
    OBVIOUS
<1>3. r \in 1 .. n + 1 /\ r + d = q + d + 1 /\ q \in 1 .. n + 1 /\ q <= n /\ (r <= n \/ r = n + 1)
    <2> HIDE DEF n
    <2>1. QED BY <1>1, <1>2
<1>4. t[q + d] = s[q]
    BY DEF Embeds
<1>5. Peek(t, r + d) = "-" <=> Peek(s, r) = "-"
    <2>1. CASE r <= n
        BY <1>3, <2>1, PeekEmbeds
    <2>2. CASE r = n + 1
        <3>1. Peek(s, r) = NUL /\ Peek(t, r + d) \in {NUL, Blank}
            BY <1>3, <2>2, PeekEmbeds
        <3>2. QED BY <3>1, NULFacts, BlankFacts
    <2>3. QED BY <1>3, <2>1, <2>2
<1>6. QED BY <1>2, <1>3, <1>4, <1>5 DEF BeginsComment

(* From a position in the text on, the same is skipped; behind the text    *)
(* the longer one goes on as it does there.                                *)
LEMMA SkipEmbeds ==
    ASSUME NEW S, NEW s \in Seq(S), NEW T, NEW t \in Seq(T), NEW d, Embeds(s, t, d),
           Closes(s, t, d), NEW p \in 1 .. Len(s) + 1
    PROVE  SkipWhitespaceAndComments(t, p + d)
             = IF SkipWhitespaceAndComments(s, p) <= Len(s)
               THEN SkipWhitespaceAndComments(s, p) + d
               ELSE SkipWhitespaceAndComments(t, Len(s) + 1 + d)
<1> DEFINE n == Len(s)
           m == Len(t)
           last == n + 1 + d
           Same(q) == SkipWhitespaceAndComments(t, q + d)
                        = IF SkipWhitespaceAndComments(s, q) <= n
                          THEN SkipWhitespaceAndComments(s, q) + d
                          ELSE SkipWhitespaceAndComments(t, last)
           good == {q \in p .. n + 1 : Same(q)}
<1>1. n \in Nat /\ m \in Nat /\ d \in Nat /\ n + d <= m /\ p \in 1 .. n + 1
    BY LenProperties DEF Embeds
<1>2. ASSUME NEW q \in p .. n + 1, \A r \in q + 1 .. n + 1 : r \in good
      PROVE  q \in good
    <2>1. q \in 1 .. n + 1 /\ (q <= n \/ q = n + 1) /\ (q > n <=> q = n + 1)
        <3> HIDE DEF n
        <3>1. QED BY <1>1
    <2>2. PICK u : u = q + d
        OBVIOUS
    <2>3. u \in 1 .. m + 1 /\ (q <= n => ~(u > m) /\ q \in 1 .. n /\ ~(q > n))
        <3> HIDE DEF n, m
        <3>1. QED BY <1>1, <2>1, <2>2
    <2>4. CASE q = n + 1
        <3>1. SkipWhitespaceAndComments(s, q) = q
            BY <2>1, <2>4, SkipEquation DEF AtEnd
        <3>2. ~(q <= n) /\ q + d = last
            <4> HIDE DEF n
            <4>1. QED BY <1>1, <2>4
        <3>3. Same(q)
            BY <3>1, <3>2
        <3>4. QED BY <3>3
    <2>5. CASE q <= n
        <3>1. ~AtEnd(s, q) /\ ~AtEnd(t, u) /\ t[u] = s[q] /\ q \in 1 .. Len(s)
            <4>1. t[q + d] = s[q]
                BY <2>3, <2>5 DEF Embeds
            <4>2. QED BY <2>2, <2>3, <2>5, <4>1 DEF AtEnd
        <3>2. BeginsComment(t, u) <=> BeginsComment(s, q)
            BY <2>2, <3>1, CommentEmbeds
        <3>3. CASE s[q] \in Whitespace
            <4>1. q + 1 \in 1 .. n + 1 /\ SkipWhitespaceAndComments(s, q) = SkipWhitespaceAndComments(s, q + 1)
                BY <2>1, <3>1, <3>3, SkipEquation
            <4>2. SkipWhitespaceAndComments(t, u) = SkipWhitespaceAndComments(t, u + 1)
                BY <2>3, <3>1, <3>3, SkipEquation
            <4>3. PICK r : r = q + 1
                OBVIOUS
            <4>4. r \in q + 1 .. n + 1 /\ r + d = u + 1
                <5> HIDE DEF n
                <5>1. QED BY <1>1, <2>1, <2>2, <2>5, <4>3
            <4>5. Same(r)
                BY <1>2, <4>4
            <4>6. Same(q)
                <5> HIDE DEF n, last
                <5>1. SkipWhitespaceAndComments(t, q + d) = SkipWhitespaceAndComments(t, r + d)
                    BY <2>2, <4>2, <4>4
                <5>2. SkipWhitespaceAndComments(s, q) = SkipWhitespaceAndComments(s, r)
                    BY <4>1, <4>3
                <5>3. QED BY <4>5, <5>1, <5>2
            <4>7. QED BY <4>6
        <3>4. CASE s[q] \notin Whitespace /\ BeginsComment(s, q)
            <4>1. Len(t) = Len(s) + d
                BY <3>1, <3>4 DEF Closes
            <4>2. PICK e : e = EndOfLine(s, q)
                OBVIOUS
            <4>3. e \in q + 1 .. n + 1 /\ SkipWhitespaceAndComments(s, q) = SkipWhitespaceAndComments(s, e)
                BY <2>1, <3>1, <3>4, <4>2, SkipEquation
            <4>4. SkipWhitespaceAndComments(t, u) = SkipWhitespaceAndComments(t, EndOfLine(t, u))
                BY <2>3, <3>1, <3>2, <3>4, SkipEquation
            <4>5. EndOfLine(t, u) = e + d
                BY <2>1, <2>2, <4>1, <4>2, LineEmbeds
            <4>6. Same(e)
                BY <1>2, <4>3
            <4>7. Same(q)
                <5> HIDE DEF n, last
                <5>1. QED BY <2>2, <4>3, <4>4, <4>5, <4>6
            <4>8. QED BY <4>7
        <3>5. CASE s[q] \notin Whitespace /\ ~BeginsComment(s, q)
            <4>1. SkipWhitespaceAndComments(s, q) = q
                BY <2>1, <3>1, <3>5, SkipEquation
            <4>2. SkipWhitespaceAndComments(t, u) = u
                BY <2>3, <3>1, <3>2, <3>5, SkipEquation
            <4>3. Same(q)
                BY <2>2, <2>5, <4>1, <4>2
            <4>4. QED BY <4>3
        <3>6. QED BY <3>3, <3>4, <3>5
    <2>6. QED BY <2>1, <2>4, <2>5
<1>3. \A q \in p .. n + 1 : q \in good
    <2> HIDE DEF good, n
    <2>1. p \in Int /\ n + 1 \in Int
        BY <1>1
    <2>2. QED BY <1>2, <2>1, BackwardInduction, Zenon
<1>4. p \in p .. n + 1
    <2> HIDE DEF n
    <2>1. QED BY <1>1
<1>5. QED BY <1>3, <1>4

(* A string literal that is closed, or that takes all of both texts.       *)
LEMMA StringEmbeds ==
    ASSUME NEW S, NEW s \in Seq(S), NEW T, NEW t \in Seq(T), NEW d, Embeds(s, t, d),
           NEW p \in 1 .. Len(s), ScanString(s, p).kind # "Invalid" \/ Len(t) = Len(s) + d
    PROVE  ScanString(t, p + d) = Scanned(ScanString(s, p).kind, ScanString(s, p).end + d)
<1> DEFINE n == Len(s)
           m == Len(t)
<1>1. n \in Nat /\ m \in Nat /\ d \in Nat /\ n + d <= m /\ p \in 1 .. n
    BY LenProperties DEF Embeds
<1>2. PICK f : ScansString(f, s, p + 1) /\ ScanString(s, p) = f[p + 1]
    BY ScanStringStepwise
<1>3. PICK v : v = p + d
    OBVIOUS
<1>4. v \in 1 .. m
    <2> HIDE DEF n, m
    <2>1. QED BY <1>1, <1>3
<1>5. PICK g : ScansString(g, t, v + 1) /\ ScanString(t, v) = g[v + 1]
    BY <1>4, ScanStringStepwise
<1> DEFINE Same(q) == f[q].kind # "Invalid" \/ m = n + d =>
                          g[q + d] = Scanned(f[q].kind, f[q].end + d)
           good == {q \in p + 1 .. n + 1 : Same(q)}
<1>6. ASSUME NEW q \in p + 1 .. n + 1, \A r \in q + 1 .. n + 1 : r \in good
      PROVE  q \in good
    <2>1. q \in 1 .. n + 1 /\ (q <= n \/ q = n + 1) /\ (q > n <=> q = n + 1)
        <3> HIDE DEF n
        <3>1. QED BY <1>1
    <2>2. PICK u : u = q + d
        OBVIOUS
    <2>3. u \in v + 1 .. m + 1 /\ (q <= n => ~(u > m) /\ q \in 1 .. n /\ ~(q > n))
        <3> HIDE DEF n, m
        <3>1. QED BY <1>1, <1>3, <2>1, <2>2
    <2>4. f[q] = ScanStep(s, f, q) /\ g[u] = ScanStep(t, g, u)
        BY <1>2, <1>5, <2>3 DEF ScansString
    <2>5. CASE q = n + 1
        <3>1. f[q] = Scanned("Invalid", q)
            BY <2>1, <2>4, <2>5 DEF ScanStep, AtEnd
        <3>2. ASSUME m = n + d
              PROVE  g[u] = Scanned("Invalid", u)
            <4>1. u > m
                <5> HIDE DEF n, m
                <5>1. QED BY <1>1, <2>2, <2>5, <3>2
            <4>2. QED BY <2>4, <4>1 DEF ScanStep, AtEnd
        <3>3. Same(q)
            <4> HIDE DEF n, m
            <4>1. QED BY <2>2, <3>1, <3>2 DEF Scanned
        <3>4. QED BY <3>3
    <2>6. CASE q <= n
        <3>1. ~AtEnd(s, q) /\ ~AtEnd(t, u) /\ t[u] = s[q]
            <4>1. t[q + d] = s[q]
                BY <2>3, <2>6 DEF Embeds
            <4>2. QED BY <2>2, <2>3, <2>6, <4>1 DEF AtEnd
        <3>2. PICK r : r = q + 1
            OBVIOUS
        <3>3. r \in 1 .. n + 1 /\ r \in q + 1 .. n + 1 /\ r + d = u + 1 /\ (r <= n \/ r = n + 1)
            <4> HIDE DEF n
            <4>1. QED BY <1>1, <2>1, <2>2, <2>6, <3>2
        <3>4. CASE s[q] # Quote
            <4>1. f[q] = f[r] /\ g[u] = g[u + 1]
                BY <2>4, <3>1, <3>2, <3>4 DEF ScanStep
            <4>2. Same(r)
                BY <1>6, <3>3
            <4>3. Same(q)
                <5> HIDE DEF n, m
                <5>1. QED BY <2>2, <3>3, <4>1, <4>2
            <4>4. QED BY <4>3
        <3>5. CASE s[q] = Quote /\ Peek(s, r) = Quote
            <4>1. r \in 1 .. n /\ s[r] = Quote
                BY <3>3, <3>5, SecondQuote
            <4>2. r <= n
                <5> HIDE DEF n
                <5>1. QED BY <1>1, <4>1
            <4>3. Peek(t, r + d) = Quote
                BY <3>3, <4>1, <4>2, PeekEmbeds
            <4>4. PICK z : z = q + 2
                OBVIOUS
            <4>5. z \in q + 1 .. n + 1 /\ z + d = u + 2
                <5> HIDE DEF n
                <5>1. QED BY <1>1, <2>1, <2>2, <3>2, <4>2, <4>4
            <4>6. f[q] = f[z] /\ g[u] = g[u + 2]
                BY <2>4, <3>1, <3>2, <3>3, <3>5, <4>3, <4>4 DEF ScanStep
            <4>7. Same(z)
                BY <1>6, <4>5
            <4>8. Same(q)
                <5> HIDE DEF n, m
                <5>1. QED BY <2>2, <4>5, <4>6, <4>7
            <4>9. QED BY <4>8
        <3>6. CASE s[q] = Quote /\ Peek(s, r) # Quote
            <4>1. Peek(t, r + d) # Quote
                <5>1. CASE r <= n
                    <6>1. Peek(t, r + d) = s[r] /\ Peek(s, r) = s[r]
                        BY <3>3, <5>1, PeekEmbeds
                    <6>2. QED BY <3>6, <6>1
                <5>2. CASE r = n + 1
                    <6>1. Peek(t, r + d) \in {NUL, Blank}
                        BY <3>3, <5>2, PeekEmbeds
                    <6>2. QED BY <6>1, NULFacts, BlankFacts
                <5>3. QED BY <3>3, <5>1, <5>2
            <4>2. f[q] = Scanned("StringLiteral", r) /\ g[u] = Scanned("StringLiteral", u + 1)
                BY <2>4, <3>1, <3>2, <3>3, <3>6, <4>1 DEF ScanStep
            <4>3. Same(q)
                <5> HIDE DEF n, m
                <5>1. QED BY <2>2, <3>3, <4>2 DEF Scanned
            <4>4. QED BY <4>3
        <3>7. QED BY <3>4, <3>5, <3>6
    <2>7. QED BY <2>1, <2>5, <2>6
<1>7. \A q \in p + 1 .. n + 1 : q \in good
    <2> HIDE DEF good, n
    <2>1. p + 1 \in Int /\ n + 1 \in Int
        BY <1>1
    <2>2. QED BY <1>6, <2>1, BackwardInduction, Zenon
<1>8. PICK w : w = p + 1
    OBVIOUS
<1>9. w \in p + 1 .. n + 1 /\ w + d = v + 1
    <2> HIDE DEF n
    <2>1. QED BY <1>1, <1>3, <1>8
<1>10. Same(w)
    BY <1>7, <1>9
<1>11. QED BY <1>2, <1>3, <1>5, <1>8, <1>9, <1>10

LEMMA PunctuationEmbeds ==
    ASSUME NEW S, NEW s \in Seq(S), NEW T, NEW t \in Seq(T), NEW d, Embeds(s, t, d),
           NEW p \in 1 .. Len(s)
    PROVE  ScanPunctuation(t, p + d)
             = Scanned(ScanPunctuation(s, p).kind, ScanPunctuation(s, p).end + d)
<1> DEFINE n == Len(s)
<1>1. n \in Nat /\ p \in 1 .. n /\ d \in Nat
    BY LenProperties DEF Embeds
<1>2. PICK r, u : r = p + 1 /\ u = p + d
    OBVIOUS
<1>3. /\ r \in 1 .. n + 1 /\ (r <= n \/ r = n + 1) /\ r + d = u + 1
      /\ p + 2 + d = u + 2 /\ p + 1 + d = u + 1
    <2> HIDE DEF n
    <2>1. QED BY <1>1, <1>2
<1>4. t[u] = s[p]
    BY <1>2 DEF Embeds
<1> DEFINE pair == <<s[p], Peek(s, r)>>
           other == <<t[u], Peek(t, u + 1)>>
<1>5. pair = other \/ (pair \notin DOMAIN CompoundMarks /\ other \notin DOMAIN CompoundMarks)
    <2>1. CASE r <= n
        <3>1. Peek(t, r + d) = s[r] /\ Peek(s, r) = s[r]
            BY <1>3, <2>1, PeekEmbeds
        <3>2. Peek(t, u + 1) = Peek(s, r)
            BY <1>3, <3>1
        <3>3. QED BY <1>4, <3>2, Zenon
    <2>2. CASE r = n + 1
        <3>1. Peek(s, r) = NUL /\ Peek(t, r + d) \in {NUL, Blank}
            BY <1>3, <2>2, PeekEmbeds
        <3>2. Peek(s, r) \notin DOMAIN Marks /\ Peek(t, u + 1) \notin DOMAIN Marks
            BY <1>3, <3>1, NULFacts, BlankFacts
        <3>3. QED BY <3>2, CompoundMarkParts
    <2>3. QED BY <1>3, <2>1, <2>2
<1>6. /\ ScanPunctuation(s, p) = IF pair \in DOMAIN CompoundMarks
                                 THEN Scanned(CompoundMarks[pair], p + 2)
                                 ELSE Scanned(IF s[p] \in DOMAIN Marks THEN Marks[s[p]]
                                              ELSE "Invalid", p + 1)
      /\ ScanPunctuation(t, u) = IF other \in DOMAIN CompoundMarks
                                 THEN Scanned(CompoundMarks[other], u + 2)
                                 ELSE Scanned(IF t[u] \in DOMAIN Marks THEN Marks[t[u]]
                                              ELSE "Invalid", u + 1)
    BY <1>2, Zenon DEF ScanPunctuation
<1> HIDE DEF pair, other, n
<1>7. CASE pair = other /\ pair \in DOMAIN CompoundMarks
    <2>1. /\ ScanPunctuation(s, p) = Scanned(CompoundMarks[pair], p + 2)
          /\ ScanPunctuation(t, u) = Scanned(CompoundMarks[pair], u + 2)
        BY <1>6, <1>7, Zenon
    <2>2. QED BY <1>2, <1>3, <2>1 DEF Scanned
<1>8. CASE pair \notin DOMAIN CompoundMarks /\ other \notin DOMAIN CompoundMarks
    <2> DEFINE kind == IF s[p] \in DOMAIN Marks THEN Marks[s[p]] ELSE "Invalid"
    <2>1. ScanPunctuation(s, p) = Scanned(kind, p + 1) /\ ScanPunctuation(t, u) = Scanned(kind, u + 1)
        BY <1>4, <1>6, <1>8, Zenon
    <2> HIDE DEF kind
    <2>2. QED BY <1>2, <1>3, <2>1 DEF Scanned
<1>9. QED BY <1>5, <1>7, <1>8

LEMMA WordEmbeds ==
    ASSUME NEW S, NEW s \in Seq(S), NEW T, NEW t \in Seq(T), NEW d, Embeds(s, t, d),
           NEW p \in 1 .. Len(s)
    PROVE  ScanIdentifierOrKeyword(t, p + d)
             = Scanned(ScanIdentifierOrKeyword(s, p).kind, ScanIdentifierOrKeyword(s, p).end + d)
<1> DEFINE n == Len(s)
<1>1. n \in Nat /\ p \in 1 .. n /\ d \in Nat
    BY LenProperties DEF Embeds
<1>2. p \in 1 .. n + 1
    <2> HIDE DEF n
    <2>1. QED BY <1>1
<1>3. PICK e, v, h : /\ e = EndOfRun(s, p, IdentifierContinue) /\ v = p + d
                     /\ h = EndOfRun(t, v, IdentifierContinue)
    OBVIOUS
<1>4. e \in p .. n + 1
    BY <1>2, <1>3, EndOfRunFacts
<1>5. h = e + d
    BY <1>2, <1>3, BlankFacts, RunEmbeds
<1>6. PICK j : j = e - 1
    OBVIOUS
<1>7. j \in p - 1 .. n /\ j + d = h - 1
    <2> HIDE DEF n
    <2>1. QED BY <1>1, <1>4, <1>5, <1>6
<1>8. SubSeq(t, p + d, j + d) = SubSeq(s, p, j)
    <2>1. p \in 1 .. Len(s) + 1 /\ j \in p - 1 .. Len(s)
        BY <1>2, <1>7
    <2>2. PICK i2, j2 : i2 = p + d /\ j2 = j + d
        OBVIOUS
    <2>3. SubSeq(t, i2, j2) = SubSeq(s, p, j)
        BY <2>1, <2>2, PieceEmbeds
    <2>4. QED BY <2>2, <2>3
<1>9. SubSeq(t, v, h - 1) = SubSeq(s, p, e - 1)
    BY <1>3, <1>6, <1>7, <1>8
<1>10. /\ ScanIdentifierOrKeyword(s, p) = Scanned(ClassifyKeyword(SubSeq(s, p, e - 1)), e)
       /\ ScanIdentifierOrKeyword(t, v) = Scanned(ClassifyKeyword(SubSeq(s, p, e - 1)), h)
    BY <1>3, <1>9, Zenon DEF ScanIdentifierOrKeyword
<1> DEFINE kind == ClassifyKeyword(SubSeq(s, p, e - 1))
<1> HIDE DEF kind
<1>11. QED BY <1>3, <1>5, <1>10 DEF Scanned, kind

(* A token that begins in the text.                                        *)
LEMMA TokenEmbeds ==
    ASSUME NEW S, NEW s \in Seq(S), NEW T, NEW t \in Seq(T), NEW d, Embeds(s, t, d),
           NEW p \in 1 .. Len(s), ScanToken(s, p).kind # "Invalid" \/ Len(t) = Len(s) + d
    PROVE  /\ ScanToken(t, p + d) = Scanned(ScanToken(s, p).kind, ScanToken(s, p).end + d)
           /\ SubSeq(t, p + d, ScanToken(s, p).end + d - 1)
                = SubSeq(s, p, ScanToken(s, p).end - 1)
<1> DEFINE n == Len(s)
<1>1. n \in Nat /\ p \in 1 .. n /\ d \in Nat
    BY LenProperties DEF Embeds
<1>2. p \in 1 .. n + 1 /\ t[p + d] = s[p]
    <2>1. p \in 1 .. n + 1
        <3> HIDE DEF n
        <3>1. QED BY <1>1
    <2>2. QED BY <2>1 DEF Embeds
<1>3. ScanToken(t, p + d) = Scanned(ScanToken(s, p).kind, ScanToken(s, p).end + d)
    <2>1. CASE s[p] \in IdentifierStart
        BY <1>2, <2>1, WordEmbeds DEF ScanToken
    <2>2. CASE s[p] \notin IdentifierStart /\ s[p] \in Digits
        <3>1. EndOfRun(t, p + d, Digits) = EndOfRun(s, p, Digits) + d
            BY <1>2, BlankFacts, RunEmbeds
        <3>2. /\ ScanToken(t, p + d) = Scanned("IntegerLiteral", EndOfRun(s, p, Digits) + d)
              /\ ScanToken(s, p) = Scanned("IntegerLiteral", EndOfRun(s, p, Digits))
            BY <1>2, <2>2, <3>1, Zenon DEF ScanToken, ScanNumber
        <3>3. QED BY <3>2 DEF Scanned
    <2>3. CASE s[p] \notin IdentifierStart /\ s[p] \notin Digits /\ s[p] = Quote
        <3>1. ScanToken(t, p + d) = ScanString(t, p + d) /\ ScanToken(s, p) = ScanString(s, p)
            BY <1>2, <2>3, Zenon DEF ScanToken
        <3>2. QED BY <3>1, StringEmbeds
    <2>4. CASE s[p] \notin IdentifierStart /\ s[p] \notin Digits /\ s[p] # Quote
        <3>1. /\ ScanToken(t, p + d) = ScanPunctuation(t, p + d)
              /\ ScanToken(s, p) = ScanPunctuation(s, p)
            BY <1>2, <2>4, Zenon DEF ScanToken
        <3>2. QED BY <3>1, PunctuationEmbeds
    <2>5. QED BY <2>1, <2>2, <2>3, <2>4
<1>4. PICK e : e = ScanToken(s, p).end
    OBVIOUS
<1>5. e \in p + 1 .. n + 1
    BY <1>4, ScanTokenFacts
<1>6. PICK j : j = e - 1
    OBVIOUS
<1>7. j \in p - 1 .. n /\ j + d = e + d - 1
    <2> HIDE DEF n
    <2>1. QED BY <1>1, <1>5, <1>6
<1>8. SubSeq(t, p + d, j + d) = SubSeq(s, p, j)
    <2>1. p \in 1 .. Len(s) + 1 /\ j \in p - 1 .. Len(s)
        BY <1>2, <1>7
    <2>2. PICK i2, j2 : i2 = p + d /\ j2 = j + d
        OBVIOUS
    <2>3. SubSeq(t, i2, j2) = SubSeq(s, p, j)
        BY <2>1, <2>2, PieceEmbeds
    <2>4. QED BY <2>2, <2>3
<1>9. SubSeq(t, p + d, e + d - 1) = SubSeq(s, p, e - 1)
    BY <1>6, <1>7, <1>8
<1>10. QED BY <1>3, <1>4, <1>9

-----------------------------------------------------------------------------
(***************************************************************************)
(* Joining lines.  The tokens without their places and without the end.    *)
(***************************************************************************)
Lexeme(token) == [kind |-> token.kind, lexeme |-> token.lexeme]
LexemesOf(ts) == [i \in 1 .. Len(Front(ts)) |-> Lexeme(Front(ts)[i])]
AllClosed(lexemes) == \A i \in 1 .. Len(lexemes) : lexemes[i].kind # "Invalid"

LEMMA LexemesFacts ==
    ASSUME NEW ts, IsSequence(ts), Len(ts) # 0
    PROVE  /\ IsSequence(LexemesOf(ts)) /\ Len(LexemesOf(ts)) = Len(ts) - 1
           /\ \A i \in 1 .. Len(ts) - 1 : LexemesOf(ts)[i] = Lexeme(ts[i])
<1> DEFINE n == Len(ts)
           front == Front(ts)
<1>1. n \in Nat /\ n # 0 /\ 1 \in 1 .. n + 1 /\ n - 1 \in 1 - 1 .. n /\ n - 1 - 1 + 1 = n - 1
      /\ ts \in Seq(ToSet(ts))
    <2>1. n \in Nat /\ ts \in Seq(ToSet(ts))
        BY SequenceLength DEF IsSequence
    <2> HIDE DEF n
    <2>2. QED BY <2>1 DEF n
<1>2. /\ Len(front) = n - 1 /\ \A i \in 1 .. n - 1 : front[i] = ts[i]
    <2>1. front = SubSeq(ts, 1, n - 1)
        BY DEF Front
    <2>2. PICK j : j = n - 1
        OBVIOUS
    <2>3. /\ Len(SubSeq(ts, 1, j)) = j - 1 + 1
          /\ \A k \in 1 .. j - 1 + 1 : SubSeq(ts, 1, j)[k] = ts[1 + k - 1]
        BY <1>1, <2>2, PieceFacts
    <2>4. j - 1 + 1 = n - 1 /\ \A k \in 1 .. n - 1 : 1 + k - 1 = k
        BY <1>1, <2>2
    <2> HIDE DEF front, n
    <2>5. QED BY <2>1, <2>2, <2>3, <2>4
<1> HIDE DEF front
<1> DEFINE S == {Lexeme(front[i]) : i \in 1 .. Len(front)}
<1>3. LexemesOf(ts) = [i \in 1 .. Len(front) |-> Lexeme(front[i])]
    BY DEF LexemesOf, front
<1>4. LexemesOf(ts) \in [1 .. Len(front) -> S]
    BY <1>3
<1>5. LexemesOf(ts) \in Seq(S) /\ Len(LexemesOf(ts)) = n - 1
    <2> HIDE DEF S, n
    <2>1. Len(front) \in Nat
        BY <1>1, <1>2
    <2>2. QED BY <1>2, <1>4, <2>1
<1>6. IsSequence(LexemesOf(ts))
    BY <1>5, SeqIsSequence
<1>7. \A i \in 1 .. n - 1 : LexemesOf(ts)[i] = Lexeme(ts[i])
    BY <1>2, <1>3
<1>8. QED BY <1>5, <1>6, <1>7

(* Two sequences with the same elements.                                   *)
LEMMA SameSequence ==
    ASSUME NEW s, NEW t, IsSequence(s), IsSequence(t), Len(s) = Len(t),
           \A i \in 1 .. Len(s) : s[i] = t[i]
    PROVE  s = t
<1> DEFINE S == ToSet(s) \cup ToSet(t)
<1>1. s \in Seq(S) /\ t \in Seq(S)
    BY SeqMonotonic DEF IsSequence
<1> HIDE DEF S
<1>2. QED BY <1>1, SeqEqual

LEMMA NoLexemes ==
    ASSUME NEW token
    PROVE  LexemesOf(<<token>>) = << >>
<1> DEFINE ts == <<token>>
<1>1. IsSequence(ts) /\ Len(ts) = 1
    BY SingletonSequence
<1> HIDE DEF ts
<1>2. IsSequence(LexemesOf(ts)) /\ Len(LexemesOf(ts)) = 0
    BY <1>1, LexemesFacts
<1>3. LexemesOf(ts) = << >>
    BY <1>2, EmptySequence, SameSequence
<1>4. QED BY <1>3 DEF ts

LEMMA LexemesInFront ==
    ASSUME NEW token, NEW rest, IsSequence(rest), Len(rest) # 0
    PROVE  LexemesOf(<<token>> \o rest) = <<Lexeme(token)>> \o LexemesOf(rest)
<1> DEFINE ts == <<token>> \o rest
           l == LexemesOf(rest)
           more == <<Lexeme(token)>> \o l
           m == Len(rest)
<1>1. /\ IsSequence(ts) /\ Len(ts) = m + 1 /\ m \in Nat /\ ts[1] = token /\ m # 0
      /\ \A p \in 1 .. m : ts[p + 1] = rest[p]
    BY InFront
<1>2. /\ IsSequence(l) /\ Len(l) = m - 1 /\ \A i \in 1 .. m - 1 : l[i] = Lexeme(rest[i])
    BY LexemesFacts
<1> HIDE DEF l, m, ts
<1>3. /\ IsSequence(more) /\ Len(more) = m /\ more[1] = Lexeme(token)
      /\ \A p \in 1 .. m - 1 : more[p + 1] = l[p]
    <2>1. /\ IsSequence(more) /\ Len(more) = Len(l) + 1 /\ more[1] = Lexeme(token)
          /\ \A p \in 1 .. Len(l) : more[p + 1] = l[p]
        BY <1>2, InFront
    <2> HIDE DEF more
    <2>2. QED BY <1>1, <1>2, <2>1
<1>4. /\ IsSequence(LexemesOf(ts)) /\ Len(LexemesOf(ts)) = m
      /\ \A i \in 1 .. m : LexemesOf(ts)[i] = Lexeme(ts[i])
    <2>1. Len(ts) # 0 /\ Len(ts) - 1 = m
        BY <1>1
    <2>2. QED BY <1>1, <2>1, LexemesFacts
<1> HIDE DEF more
<1>5. ASSUME NEW i \in 1 .. m PROVE LexemesOf(ts)[i] = more[i]
    <2>1. CASE i = 1
        BY <1>1, <1>3, <1>4, <2>1
    <2>2. CASE i # 1
        <3>1. PICK j : j = i - 1
            OBVIOUS
        <3>2. j \in 1 .. m - 1 /\ j \in 1 .. m /\ j + 1 = i
            BY <1>1, <2>2, <3>1
        <3>3. more[i] = Lexeme(rest[j])
            BY <1>2, <1>3, <3>2
        <3>4. ts[i] = rest[j]
            BY <1>1, <3>2
        <3>5. QED BY <1>4, <3>3, <3>4
    <2>3. QED BY <2>1, <2>2
<1>6. LexemesOf(ts) = more
    BY <1>3, <1>4, <1>5, SameSequence
<1>7. QED BY <1>6 DEF ts, more, l

(* A text is closed if its lexemes are.                                    *)
LEMMA ClosedIsAllClosed ==
    ASSUME NEW line, IsSequence(line)
    PROVE  /\ IsClosed(line) <=> AllClosed(Lexemes(line))
           /\ IsSequence(Lexemes(line)) /\ Lexemes(line) = LexemesOf(Tokens(line))
<1> DEFINE ts == Tokens(line)
           m == Len(ts)
<1>1. IsScan(ts) /\ IsSequence(ts)
    BY TokensAreScan DEF IsSequence
<1>2. Lexemes(line) = LexemesOf(ts)
    BY DEF Lexemes, LexemesOf, Lexeme
<1>3. IsClosed(line) <=> \A token \in ToSet(ts) : token.kind # "Invalid"
    BY DEF IsClosed
<1> HIDE DEF ts
<1>4. /\ m \in Nat /\ m # 0 /\ DOMAIN ts = 1 .. m
      /\ \A i \in 1 .. m : ts[i].kind = "EndOfFile" <=> i = m
    BY <1>1, SequenceLength DEF IsScan, Kind
<1>5. ToSet(ts) = {ts[i] : i \in 1 .. m}
    BY <1>4 DEF ToSet
<1>6. /\ IsSequence(LexemesOf(ts)) /\ Len(LexemesOf(ts)) = m - 1
      /\ \A i \in 1 .. m - 1 : LexemesOf(ts)[i] = Lexeme(ts[i])
    BY <1>1, <1>4, LexemesFacts
<1> HIDE DEF m
<1>7. AllClosed(LexemesOf(ts)) <=> \A i \in 1 .. m - 1 : ts[i].kind # "Invalid"
    BY <1>6 DEF AllClosed, Lexeme
<1>8. m \in 1 .. m /\ ts[m].kind # "Invalid" /\ \A i \in 1 .. m : i = m \/ i \in 1 .. m - 1
    <2>1. m \in 1 .. m /\ \A i \in 1 .. m : i = m \/ i \in 1 .. m - 1
        BY <1>4
    <2>2. ts[m].kind = "EndOfFile"
        BY <1>4, <2>1
    <2>3. QED BY <2>1, <2>2
<1>9. \A i \in 1 .. m - 1 : i \in 1 .. m
    BY <1>4
<1>10. IsClosed(line) <=> AllClosed(LexemesOf(ts))
    BY <1>3, <1>5, <1>7, <1>8, <1>9
<1>11. QED BY <1>2, <1>6, <1>10 DEF ts

(* The lexemes from a position on, by what is skipped there.               *)
Skipped(string, p) == SkipWhitespaceAndComments(string, p)
ScanNext(string, p) == ScanToken(string, Skipped(string, p))
LexemeAt(string, p) ==
    [kind   |-> ScanNext(string, p).kind,
     lexeme |-> SubSeq(string, Skipped(string, p), ScanNext(string, p).end - 1)]

GoesOn(string, at, from, p) ==
    /\ Skipped(string, p) \in p .. Len(string) + 1
    /\ IsSequence(LexemesOf(from[p]))
    /\ TokenAt(string, at, p).kind = "EndOfFile" <=> Skipped(string, p) = Len(string) + 1
    /\ Skipped(string, p) = Len(string) + 1 => LexemesOf(from[p]) = << >>
    /\ Skipped(string, p) # Len(string) + 1 =>
          /\ Skipped(string, p) \in 1 .. Len(string)
          /\ Behind(string, at, p) = ScanNext(string, p).end
          /\ ScanNext(string, p).end \in p + 1 .. Len(string) + 1
          /\ ScanNext(string, p).end \in 1 .. Len(string) + 1
          /\ LexemesOf(from[p])
               = <<LexemeAt(string, p)>> \o LexemesOf(from[ScanNext(string, p).end])

LEMMA LexemesStep ==
    ASSUME NEW S, NEW string \in Seq(S), NEW at, NEW from, Scans(string, at, from),
           NEW p \in 1 .. Len(string) + 1
    PROVE  GoesOn(string, at, from, p)
<1> DEFINE n == Len(string)
           skipped == Skipped(string, p)
           scanned == ScannedAt(string, skipped)
           token == TokenAt(string, at, p)
           end == Behind(string, at, p)
<1>1. n \in Nat /\ p \in 1 .. n + 1
    BY LenProperties
<1>2. /\ at[p].pos = p /\ IsRight(string, at[p])
      /\ from[p] = IF token.kind = "EndOfFile" THEN <<token>> ELSE <<token>> \o from[end]
    BY DEF Scans
<1>3. at[p].pos \in 1 .. Len(string) + 1
    BY <1>2
<1>4. /\ skipped \in p .. n + 1 /\ skipped \in 1 .. n + 1
      /\ token.kind = scanned.kind
      /\ token.lexeme = SubSeq(string, skipped, scanned.end - 1)
      /\ end = scanned.end
    <2>1. LET start   == SkipWhitespaceAndComments(string, at[p].pos)
              scan    == ScannedAt(string, start)
              next    == NextToken(string, at[p])
          IN  /\ start \in at[p].pos .. Len(string) + 1 /\ start \in 1 .. Len(string) + 1
              /\ next.token.kind = scan.kind
              /\ next.token.lexeme = SubSeq(string, start, scan.end - 1)
              /\ next.place.pos = scan.end
        BY <1>2, <1>3, NextTokenParts
    <2>2. QED BY <1>2, <2>1 DEF Skipped, TokenAt, Behind
<1>5. IsSequence(from[p]) /\ IsScan(from[p])
    BY RestsAreScan
<1>6. Len(from[p]) # 0
    BY <1>5 DEF IsScan
<1>7. IsSequence(LexemesOf(from[p]))
    BY <1>5, <1>6, LexemesFacts
<1>8. /\ scanned.end \in skipped .. n + 1
      /\ IF skipped = n + 1 THEN scanned.kind = "EndOfFile"
         ELSE scanned.kind # "EndOfFile" /\ skipped < scanned.end
    BY <1>4, ScannedFacts
<1>9. token.kind = "EndOfFile" <=> skipped = n + 1
    BY <1>4, <1>8
<1>10. ASSUME skipped = n + 1
       PROVE  LexemesOf(from[p]) = << >>
    BY <1>2, <1>9, <1>10, NoLexemes
<1>11. ASSUME skipped # n + 1
       PROVE  /\ skipped \in 1 .. n /\ end = ScanNext(string, p).end
              /\ end \in p + 1 .. n + 1 /\ end \in 1 .. n + 1
              /\ LexemesOf(from[p]) = <<LexemeAt(string, p)>> \o LexemesOf(from[end])
    <2>1. skipped \in 1 .. n /\ ~(skipped > n)
        <3> HIDE DEF n, skipped
        <3>1. QED BY <1>1, <1>4, <1>11
    <2>2. scanned = ScanNext(string, p)
        BY <2>1 DEF ScannedAt, AtEnd, ScanNext
    <2>3. end \in p + 1 .. n + 1 /\ end \in 1 .. n + 1
        <3> HIDE DEF n, skipped, scanned, end
        <3>1. QED BY <1>1, <1>4, <1>8, <1>11
    <2>4. IsSequence(from[end]) /\ IsScan(from[end])
        BY <2>3, RestsAreScan
    <2>5. Len(from[end]) # 0
        BY <2>4 DEF IsScan
    <2>6. Lexeme(token) = LexemeAt(string, p)
        <3> HIDE DEF token, end, skipped, scanned
        <3>1. Lexeme(token) = [kind |-> scanned.kind, lexeme |-> SubSeq(string, skipped, scanned.end - 1)]
            BY <1>4 DEF Lexeme
        <3>2. QED BY <2>2, <3>1 DEF LexemeAt, skipped
    <2>7. from[p] = <<token>> \o from[end]
        BY <1>2, <1>9, <1>11
    <2> DEFINE rest == from[end]
    <2> HIDE DEF token, end, skipped, scanned, rest
    <2>8. LexemesOf(<<token>> \o rest) = <<Lexeme(token)>> \o LexemesOf(rest)
        BY <2>4, <2>5, LexemesInFront DEF rest
    <2>9. LexemesOf(from[p]) = <<LexemeAt(string, p)>> \o LexemesOf(from[end])
        BY <2>6, <2>7, <2>8, Zenon DEF rest
    <2>10. QED BY <1>4, <2>1, <2>2, <2>3, <2>9
<1>12. QED
    <2>1. CASE skipped = n + 1
        BY <1>4, <1>7, <1>9, <1>10, <2>1 DEF GoesOn
    <2>2. CASE skipped # n + 1
        <3>1. LexemesOf(from[p]) = <<LexemeAt(string, p)>> \o LexemesOf(from[ScanNext(string, p).end])
            BY <1>11, <2>2, Zenon
        <3> HIDE DEF token, end
        <3>2. QED BY <1>4, <1>7, <1>9, <1>11, <2>2, <3>1 DEF token, end, GoesOn
    <2>3. QED BY <2>1, <2>2

LEMMA SameFrom ==
    ASSUME NEW S, NEW string \in Seq(S), NEW at, NEW from, Scans(string, at, from),
           NEW p \in 1 .. Len(string) + 1, NEW q \in 1 .. Len(string) + 1,
           Skipped(string, p) = Skipped(string, q)
    PROVE  LexemesOf(from[p]) = LexemesOf(from[q])
<1>1. ScanNext(string, p) = ScanNext(string, q)
    BY DEF ScanNext
<1>2. LexemeAt(string, p) = LexemeAt(string, q)
    BY <1>1 DEF LexemeAt
<1>0. GoesOn(string, at, from, p) /\ GoesOn(string, at, from, q)
    BY LexemesStep
<1>3. CASE Skipped(string, p) = Len(string) + 1
    <2>1. LexemesOf(from[p]) = << >> /\ LexemesOf(from[q]) = << >>
        BY <1>0, <1>3, Zenon DEF GoesOn
    <2>2. QED BY <2>1
<1>4. CASE Skipped(string, p) # Len(string) + 1
    <2> DEFINE rest == LexemesOf(from[ScanNext(string, p).end])
    <2>1. LexemesOf(from[p]) = <<LexemeAt(string, p)>> \o rest
        BY <1>0, <1>4, Zenon DEF GoesOn
    <2>2. LexemesOf(from[q]) = <<LexemeAt(string, q)>> \o LexemesOf(from[ScanNext(string, q).end])
        BY <1>0, <1>4, Zenon DEF GoesOn
    <2>3. LexemesOf(from[ScanNext(string, q).end]) = rest
        BY <1>1
    <2> HIDE DEF rest
    <2>4. QED BY <1>2, <2>1, <2>2, <2>3, Zenon
<1>5. QED BY <1>3, <1>4

(* The text at the end of a longer one: the same lexemes.                  *)
LEMMA SuffixLexemes ==
    ASSUME NEW S, NEW s \in Seq(S), NEW T, NEW t \in Seq(T), NEW d, Embeds(s, t, d),
           Len(t) = Len(s) + d,
           NEW at, NEW from, Scans(s, at, from), NEW atT, NEW fromT, Scans(t, atT, fromT),
           NEW first \in 1 .. Len(s) + 1
    PROVE  LexemesOf(fromT[first + d]) = LexemesOf(from[first])
<1> DEFINE n == Len(s)
           m == Len(t)
           Same(p) == LexemesOf(fromT[p + d]) = LexemesOf(from[p])
           good == {p \in 1 .. n + 1 : Same(p)}
<1>1. n \in Nat /\ m \in Nat /\ d \in Nat /\ m = n + d
    BY LenProperties DEF Embeds
<1>2. ASSUME NEW p \in 1 .. n + 1,
             TokenAt(s, at, p).kind # "EndOfFile" => Behind(s, at, p) \in good
      PROVE  p \in good
    <2>1. PICK u : u = p + d
        OBVIOUS
    <2>2. u \in 1 .. m + 1 /\ n + 1 + d = m + 1
        <3> HIDE DEF n, m
        <3>1. QED BY <1>1, <2>1
    <2>3. Skipped(t, u) = IF Skipped(s, p) <= n THEN Skipped(s, p) + d ELSE m + 1
        <3>1. Closes(s, t, d)
            BY DEF Closes
        <3>2. SkipWhitespaceAndComments(t, p + d)
                = IF SkipWhitespaceAndComments(s, p) <= Len(s)
                  THEN SkipWhitespaceAndComments(s, p) + d
                  ELSE SkipWhitespaceAndComments(t, Len(s) + 1 + d)
            BY <3>1, SkipEmbeds
        <3>3. SkipWhitespaceAndComments(t, m + 1) = m + 1
            <4>1. m + 1 \in 1 .. Len(t) + 1 /\ m + 1 > m
                BY <1>1
            <4>2. AtEnd(t, m + 1)
                BY <4>1 DEF AtEnd
            <4>3. QED BY <4>1, <4>2, SkipEquation
        <3> HIDE DEF m
        <3>4. QED BY <2>1, <2>2, <3>2, <3>3 DEF Skipped, n
    <2> HIDE DEF n, m
    <2>4. GoesOn(s, at, from, p) /\ GoesOn(t, atT, fromT, u) /\ Skipped(s, p) \in p .. n + 1
        <3>1. GoesOn(s, at, from, p)
            BY LexemesStep DEF n
        <3>2. GoesOn(t, atT, fromT, u)
            BY <2>2, LexemesStep DEF m
        <3>3. QED BY <3>1, <3>2 DEF GoesOn, n
    <2>5. CASE Skipped(s, p) = n + 1
        <3>1. Skipped(t, u) = m + 1
            BY <1>1, <2>3, <2>5
        <3>2. LexemesOf(from[p]) = << >> /\ LexemesOf(fromT[u]) = << >>
            BY <2>4, <2>5, <3>1, Zenon DEF GoesOn, n, m
        <3>3. QED BY <2>1, <3>2
    <2>6. CASE Skipped(s, p) # n + 1
        <3>1. PICK b, c : b = Skipped(s, p) /\ c = Skipped(t, u)
            OBVIOUS
        <3>2. b \in 1 .. n /\ c = b + d /\ c # m + 1
            BY <1>1, <2>3, <2>4, <2>6, <3>1
        <3>3. PICK e : e = ScanToken(s, b).end
            OBVIOUS
        <3>4. /\ Behind(s, at, p) = e /\ e \in 1 .. n + 1
              /\ LexemesOf(from[p]) = <<LexemeAt(s, p)>> \o LexemesOf(from[e])
            BY <2>4, <2>6, <3>1, <3>3, Zenon DEF GoesOn, n, ScanNext
        <3>5. TokenAt(s, at, p).kind # "EndOfFile"
            BY <2>4, <2>6, Zenon DEF GoesOn, n
        <3>6. /\ ScanToken(t, b + d) = Scanned(ScanToken(s, b).kind, e + d)
              /\ SubSeq(t, b + d, e + d - 1) = SubSeq(s, b, e - 1)
            BY <3>2, <3>3, TokenEmbeds DEF n
        <3>7. ScanNext(t, u) = Scanned(ScanToken(s, b).kind, e + d)
            BY <3>1, <3>2, <3>6 DEF ScanNext
        <3>8. LexemeAt(t, u) = LexemeAt(s, p)
            <4>1. LexemeAt(s, p) = [kind |-> ScanToken(s, b).kind, lexeme |-> SubSeq(s, b, e - 1)]
                BY <3>1, <3>3 DEF LexemeAt, ScanNext
            <4>2. PICK x : x = e + d
                OBVIOUS
            <4>3. ScanNext(t, u).kind = ScanToken(s, b).kind /\ ScanNext(t, u).end = x
                BY <3>7, <4>2 DEF Scanned
            <4>4. LexemeAt(t, u) = [kind |-> ScanToken(s, b).kind, lexeme |-> SubSeq(t, c, x - 1)]
                BY <3>1, <4>3, Zenon DEF LexemeAt
            <4>5. e + d - 1 = x - 1
                BY <1>1, <3>4, <4>2
            <4>6. QED BY <3>2, <3>6, <4>1, <4>4, <4>5
        <3>9. LexemesOf(fromT[u]) = <<LexemeAt(t, u)>> \o LexemesOf(fromT[e + d])
            <4>1. ScanNext(t, u).end = e + d
                BY <3>7 DEF Scanned
            <4>2. LexemesOf(fromT[u]) = <<LexemeAt(t, u)>> \o LexemesOf(fromT[ScanNext(t, u).end])
                BY <2>4, <3>1, <3>2, Zenon DEF GoesOn, m
            <4>3. QED BY <4>1, <4>2, Zenon
        <3>10. Same(e)
            BY <1>2, <3>4, <3>5
        <3>11. LexemesOf(fromT[u]) = LexemesOf(from[p])
            BY <3>4, <3>8, <3>9, <3>10, Zenon
        <3>12. QED BY <2>1, <3>11
    <2>7. QED BY <2>5, <2>6
<1>3. \A p \in 1 .. Len(s) + 1 : p \in good
    <2> HIDE DEF good
    <2>1. QED BY <1>2, EveryRest
<1>4. QED BY <1>3

LEMMA ClosedParts ==
    ASSUME NEW x, NEW rest, IsSequence(rest)
    PROVE  AllClosed(<<x>> \o rest) <=> x.kind # "Invalid" /\ AllClosed(rest)
<1> DEFINE all == <<x>> \o rest
           m == Len(rest)
<1>1. /\ IsSequence(all) /\ Len(all) = m + 1 /\ m \in Nat /\ all[1] = x
      /\ \A p \in 1 .. m : all[p + 1] = rest[p]
    BY InFront
<1> HIDE DEF all, m
<1>2. 1 \in 1 .. m + 1 /\ \A p \in 1 .. m : p + 1 \in 1 .. m + 1
    BY <1>1
<1>3. \A i \in 1 .. m + 1 : i = 1 \/ \E p \in 1 .. m : i = p + 1
    <2> TAKE i \in 1 .. m + 1
    <2>1. i # 1 => i - 1 \in 1 .. m /\ i = i - 1 + 1
        BY <1>1
    <2>2. QED BY <2>1
<1>4. (\A i \in 1 .. m + 1 : all[i].kind # "Invalid")
          <=> x.kind # "Invalid" /\ \A p \in 1 .. m : rest[p].kind # "Invalid"
    <2>1. ASSUME \A i \in 1 .. m + 1 : all[i].kind # "Invalid"
          PROVE  x.kind # "Invalid" /\ \A p \in 1 .. m : rest[p].kind # "Invalid"
        <3>1. all[1].kind # "Invalid"
            BY <1>2, <2>1
        <3>2. \A p \in 1 .. m : all[p + 1].kind # "Invalid"
            BY <1>2, <2>1
        <3>3. QED BY <1>1, <3>1, <3>2
    <2>2. ASSUME x.kind # "Invalid", \A p \in 1 .. m : rest[p].kind # "Invalid",
                 NEW i \in 1 .. m + 1
          PROVE  all[i].kind # "Invalid"
        <3>1. CASE i = 1
            BY <1>1, <2>2, <3>1
        <3>2. CASE \E p \in 1 .. m : i = p + 1
            <4>1. PICK p \in 1 .. m : i = p + 1
                BY <3>2
            <4>2. all[i] = rest[p]
                BY <1>1, <4>1
            <4>3. QED BY <2>2, <4>2
        <3>3. QED BY <1>3, <3>1, <3>2
    <2>3. QED BY <2>1, <2>2
<1>5. QED BY <1>1, <1>4 DEF AllClosed, all, m

LEMMA ConcatAssociates ==
    ASSUME NEW x, NEW l, IsSequence(l), NEW more, IsSequence(more)
    PROVE  <<x>> \o (l \o more) = (<<x>> \o l) \o more
<1> DEFINE S == {x} \cup ToSet(l) \cup ToSet(more)
<1>1. l \in Seq(S) /\ more \in Seq(S)
    BY SeqMonotonic DEF IsSequence
<1> HIDE DEF S
<1>2. x \in S
    BY DEF S
<1>3. <<x>> \in Seq(S)
    BY <1>2
<1>4. \A a, b, c \in Seq(S) : (a \o b) \o c = a \o (b \o c)
    BY ConcatAssociative
<1>5. QED BY <1>1, <1>3, <1>4, Zenon

LEMMA EmptyInFront ==
    ASSUME NEW l, IsSequence(l)
    PROVE  << >> \o l = l
<1>1. l \in Seq(ToSet(l))
    BY DEF IsSequence
<1>2. QED BY <1>1, ConcatEmptySeq

(* The text at the beginning of a longer one, if it is closed and has no   *)
(* comment: its lexemes, and those from the blank behind it on.            *)
Begins(s, t) ==
    Embeds(s, t, 0) /\ Closes(s, t, 0) /\ Len(s) + 1 \in 1 .. Len(t) + 1

LEMMA PrefixLexemes ==
    ASSUME NEW S, NEW s \in Seq(S), NEW T, NEW t \in Seq(T), Begins(s, t),
           NEW at, NEW from, Scans(s, at, from), NEW atT, NEW fromT, Scans(t, atT, fromT),
           NEW first \in 1 .. Len(s) + 1, AllClosed(LexemesOf(from[first]))
    PROVE  LexemesOf(fromT[first]) = LexemesOf(from[first]) \o LexemesOf(fromT[Len(s) + 1])
<1> DEFINE n == Len(s)
           m == Len(t)
           behind == LexemesOf(fromT[n + 1])
           Same(p) == AllClosed(LexemesOf(from[p])) =>
                          LexemesOf(fromT[p]) = LexemesOf(from[p]) \o behind
           good == {p \in 1 .. n + 1 : Same(p)}
<1>0. Embeds(s, t, 0) /\ Closes(s, t, 0) /\ Len(s) + 1 \in 1 .. Len(t) + 1
    BY DEF Begins
<1>1. n \in Nat /\ m \in Nat /\ n <= m
    <2>1. n \in Nat /\ m \in Nat /\ n + 0 <= m
        BY <1>0, LenProperties DEF Embeds
    <2> HIDE DEF n, m
    <2>2. QED BY <2>1
<1>2. IsSequence(behind)
    <2>1. GoesOn(t, atT, fromT, n + 1)
        BY <1>0, LexemesStep
    <2>2. QED BY <2>1, Zenon DEF GoesOn
<1>3. ASSUME NEW p \in 1 .. n + 1, AllClosed(LexemesOf(from[p])),
             TokenAt(s, at, p).kind # "EndOfFile" => Behind(s, at, p) \in good
      PROVE  LexemesOf(fromT[p]) = LexemesOf(from[p]) \o behind
    <2>1. p + 0 = p /\ n + 1 + 0 = n + 1 /\ p \in 1 .. m + 1
        <3> HIDE DEF n, m
        <3>1. QED BY <1>1
    <2>2. Skipped(t, p) = IF Skipped(s, p) <= n THEN Skipped(s, p) + 0 ELSE Skipped(t, n + 1)
        <3>1. SkipWhitespaceAndComments(t, p + 0)
                = IF SkipWhitespaceAndComments(s, p) <= Len(s)
                  THEN SkipWhitespaceAndComments(s, p) + 0
                  ELSE SkipWhitespaceAndComments(t, Len(s) + 1 + 0)
            BY <1>0, SkipEmbeds
        <3>2. QED BY <2>1, <3>1 DEF Skipped
    <2>3. GoesOn(s, at, from, p) /\ GoesOn(t, atT, fromT, p) /\ Skipped(s, p) \in p .. n + 1
        <3>1. GoesOn(s, at, from, p)
            BY LexemesStep
        <3>2. GoesOn(t, atT, fromT, p)
            BY <2>1, LexemesStep
        <3>3. QED BY <3>1, <3>2 DEF GoesOn
    <2>4. CASE Skipped(s, p) = n + 1
        <3>1. Skipped(t, p) = Skipped(t, n + 1)
            <4> HIDE DEF n
            <4>1. QED BY <1>1, <2>2, <2>4
        <3>2. LexemesOf(fromT[p]) = behind
            BY <1>0, <2>1, <3>1, SameFrom
        <3>3. LexemesOf(from[p]) = << >>
            BY <2>3, <2>4, Zenon DEF GoesOn
        <3> HIDE DEF behind
        <3>4. << >> \o behind = behind
            BY <1>2, EmptyInFront
        <3>5. QED BY <3>2, <3>3, <3>4, Zenon
    <2>5. CASE Skipped(s, p) # n + 1
        <3>1. PICK b, e : b = Skipped(s, p) /\ e = ScanToken(s, b).end
            OBVIOUS
        <3>2. b \in 1 .. n /\ Skipped(t, p) = b /\ b + 0 = b /\ Skipped(t, p) # m + 1
            <4> HIDE DEF n, m
            <4>1. QED BY <1>1, <2>2, <2>3, <2>5, <3>1
        <3> DEFINE l == LexemesOf(from[e])
        <3>3. /\ Behind(s, at, p) = e /\ e \in 1 .. n + 1
              /\ LexemesOf(from[p]) = <<LexemeAt(s, p)>> \o l
              /\ TokenAt(s, at, p).kind # "EndOfFile"
            BY <2>3, <2>5, <3>1, Zenon DEF GoesOn, ScanNext
        <3>4. IsSequence(l)
            <4>1. GoesOn(s, at, from, e)
                BY <3>3, LexemesStep
            <4>2. QED BY <4>1, Zenon DEF GoesOn
        <3>5. LexemeAt(s, p) = [kind |-> ScanToken(s, b).kind, lexeme |-> SubSeq(s, b, e - 1)]
            BY <3>1, Zenon DEF LexemeAt, ScanNext
        <3>6. ScanToken(s, b).kind # "Invalid" /\ AllClosed(l)
            <4>1. LexemeAt(s, p).kind # "Invalid" /\ AllClosed(l)
                <5> HIDE DEF l
                <5>1. QED BY <1>3, <3>3, <3>4, ClosedParts
            <4>2. QED BY <3>5, <4>1
        <3>7. /\ ScanToken(t, b + 0) = Scanned(ScanToken(s, b).kind, e + 0)
              /\ SubSeq(t, b + 0, e + 0 - 1) = SubSeq(s, b, e - 1)
            <4>1. PICK d : d = 0
                OBVIOUS
            <4>2. Embeds(s, t, d) /\ b \in 1 .. Len(s)
                BY <1>0, <3>2, <4>1
            <4>3. /\ ScanToken(t, b + d) = Scanned(ScanToken(s, b).kind, ScanToken(s, b).end + d)
                  /\ SubSeq(t, b + d, ScanToken(s, b).end + d - 1)
                       = SubSeq(s, b, ScanToken(s, b).end - 1)
                BY <3>6, <4>2, TokenEmbeds
            <4>4. QED BY <3>1, <4>1, <4>3, Zenon
        <3>8. e + 0 = e /\ e + 0 - 1 = e - 1
            <4> HIDE DEF n
            <4>1. QED BY <1>1, <3>3
        <3>9. ScanNext(t, p).kind = ScanToken(s, b).kind /\ ScanNext(t, p).end = e
            <4>1. ScanNext(t, p) = Scanned(ScanToken(s, b).kind, e)
                BY <3>2, <3>7, <3>8 DEF ScanNext
            <4>2. QED BY <4>1 DEF Scanned
        <3>10. LexemeAt(t, p) = LexemeAt(s, p)
            <4>1. LexemeAt(t, p) = [kind |-> ScanToken(s, b).kind, lexeme |-> SubSeq(t, b, e - 1)]
                BY <3>2, <3>9, Zenon DEF LexemeAt
            <4>2. SubSeq(t, b, e - 1) = SubSeq(s, b, e - 1)
                BY <3>2, <3>7, <3>8
            <4>3. QED BY <3>5, <4>1, <4>2
        <3>11. LexemesOf(fromT[p]) = <<LexemeAt(t, p)>> \o LexemesOf(fromT[e])
            BY <2>3, <3>2, <3>9, Zenon DEF GoesOn
        <3>12. LexemesOf(fromT[e]) = l \o behind
            <4>1. Same(e)
                BY <1>3, <3>3
            <4>2. QED BY <3>6, <4>1
        <3> HIDE DEF l, behind
        <3>13. <<LexemeAt(s, p)>> \o (l \o behind) = (<<LexemeAt(s, p)>> \o l) \o behind
            BY <1>2, <3>4, ConcatAssociates
        <3>14. QED BY <3>3, <3>10, <3>11, <3>12, <3>13, Zenon
    <2>6. QED BY <2>4, <2>5
<1>4. ASSUME NEW p \in 1 .. Len(s) + 1,
             TokenAt(s, at, p).kind # "EndOfFile" => Behind(s, at, p) \in good
      PROVE  p \in good
    <2>1. Same(p)
        BY <1>3, <1>4
    <2>2. QED BY <2>1
<1>5. \A p \in 1 .. Len(s) + 1 : p \in good
    <2> HIDE DEF good
    <2>1. QED BY <1>4, EveryRest
<1>6. QED BY <1>5

(* The characters of two texts with a blank between them.                  *)
WithBlank(a, b) == a \o <<Blank>> \o b

IsSpaced(j, a, b) ==
    /\ IsSequence(j) /\ Len(a) \in Nat /\ Len(b) \in Nat
    /\ Len(j) = Len(a) + 1 + Len(b)
    /\ \A i \in 1 .. Len(a) : j[i] = a[i]
    /\ j[Len(a) + 1] = Blank
    /\ \A i \in 1 .. Len(b) : j[Len(a) + 1 + i] = b[i]

LEMMA JoinedCharacters ==
    ASSUME NEW a, IsSequence(a), NEW b, IsSequence(b)
    PROVE  IsSpaced(WithBlank(a, b), a, b)
<1> DEFINE n == Len(a)
           c == a \o <<Blank>>
           j == WithBlank(a, b)
<1>1. n \in Nat /\ Len(b) \in Nat
    BY SequenceLength
<1>2. IsSequence(<<Blank>>) /\ Len(<<Blank>>) = 1 /\ <<Blank>>[1] = Blank
    BY SingletonSequence
<1>3. /\ IsSequence(c) /\ Len(c) = n + 1
      /\ \A i \in 1 .. n : c[i] = a[i]
      /\ c[n + 1] = Blank
    <2>1. /\ IsSequence(c) /\ Len(c) = n + Len(<<Blank>>)
          /\ \A i \in 1 .. n : c[i] = a[i]
          /\ \A i \in 1 .. Len(<<Blank>>) : c[n + i] = <<Blank>>[i]
        BY <1>2, ConcatIsSequence
    <2> DEFINE x == <<Blank>>
    <2> HIDE DEF x, c
    <2>2. QED BY <1>2, <2>1 DEF x
<1>4. j = c \o b
    BY DEF WithBlank
<1> HIDE DEF c, n, j
<1>5. /\ IsSequence(j) /\ Len(j) = n + 1 + Len(b)
      /\ \A i \in 1 .. n + 1 : j[i] = c[i]
      /\ \A i \in 1 .. Len(b) : j[n + 1 + i] = b[i]
    <2>1. /\ IsSequence(c \o b) /\ Len(c \o b) = Len(c) + Len(b)
          /\ \A i \in 1 .. Len(c) : (c \o b)[i] = c[i]
          /\ \A i \in 1 .. Len(b) : (c \o b)[Len(c) + i] = b[i]
        BY <1>3, ConcatIsSequence
    <2>2. QED BY <1>3, <1>4, <2>1
<1>6. n + 1 \in 1 .. n + 1 /\ \A i \in 1 .. n : i \in 1 .. n + 1
    BY <1>1
<1>7. QED BY <1>1, <1>3, <1>5, <1>6 DEF j, n, IsSpaced

LEMMA CommentsShow ==
    ASSUME NEW a, IsSequence(a), ~HasComment(a), NEW q \in 1 .. Len(a)
    PROVE  ~BeginsComment(a, q)
<1>1. SUFFICES ASSUME BeginsComment(a, q) PROVE FALSE
    OBVIOUS
<1>2. a[q] = "-" /\ Peek(a, q + 1) = "-"
    BY <1>1 DEF BeginsComment
<1>3. ~(q + 1 > Len(a)) /\ a[q + 1] = "-"
    BY <1>2, NULFacts DEF Peek, AtEnd
<1>4. Len(a) \in Nat
    BY SequenceLength
<1>5. q \in 1 .. Len(a) - 1
    BY <1>3, <1>4
<1>6. QED BY <1>2, <1>3, <1>5 DEF HasComment

LEMMA JoinedComment ==
    ASSUME NEW a, IsSequence(a), NEW b, IsSequence(b), HasComment(WithBlank(a, b))
    PROVE  HasComment(a) \/ HasComment(b)
<1> DEFINE n == Len(a)
           j == WithBlank(a, b)
<1>1. /\ n \in Nat /\ Len(b) \in Nat /\ Len(j) = n + 1 + Len(b)
      /\ \A i \in 1 .. n : j[i] = a[i]
      /\ j[n + 1] = Blank
      /\ \A i \in 1 .. Len(b) : j[n + 1 + i] = b[i]
    <2>1. IsSpaced(j, a, b)
        BY JoinedCharacters
    <2>2. QED BY <2>1 DEF IsSpaced
<1>2. PICK i \in 1 .. Len(j) - 1 : j[i] = "-" /\ j[i + 1] = "-"
    BY DEF HasComment
<1>3. PICK k : k = i + 1
    OBVIOUS
<1> HIDE DEF n, j
<1>4. i # n + 1 /\ k # n + 1
    BY <1>1, <1>2, <1>3, BlankFacts
<1>5. CASE i < n + 1
    <2>1. i \in 1 .. n /\ k \in 1 .. n /\ i \in 1 .. n - 1
        BY <1>1, <1>3, <1>4, <1>5
    <2>2. a[i] = "-" /\ a[i + 1] = "-"
        BY <1>1, <1>2, <1>3, <2>1
    <2>3. QED BY <2>1, <2>2 DEF HasComment, n
<1>6. CASE i > n + 1
    <2>1. PICK x, y : x = i - (n + 1) /\ y = k - (n + 1)
        OBVIOUS
    <2>2. /\ x \in 1 .. Len(b) /\ y \in 1 .. Len(b) /\ x \in 1 .. Len(b) - 1 /\ y = x + 1
          /\ n + 1 + x = i /\ n + 1 + y = k
        BY <1>1, <1>3, <1>6, <2>1
    <2>3. b[x] = "-" /\ b[x + 1] = "-"
        BY <1>1, <1>2, <1>3, <2>2
    <2>4. QED BY <2>2, <2>3 DEF HasComment
<1>7. QED BY <1>1, <1>4, <1>5, <1>6

LEMMA SpacedEmbeds ==
    ASSUME NEW a, IsSequence(a), NEW b, IsSequence(b)
    PROVE  /\ Embeds(a, WithBlank(a, b), 0)
           /\ Embeds(b, WithBlank(a, b), Len(a) + 1)
           /\ Len(WithBlank(a, b)) = Len(b) + (Len(a) + 1)
           /\ Len(a) + 1 \in 1 .. Len(WithBlank(a, b)) + 1
           /\ 1 + (Len(a) + 1) \in 1 .. Len(WithBlank(a, b)) + 1
<1> DEFINE n == Len(a)
           j == WithBlank(a, b)
           m == Len(b)
<1>1. /\ n \in Nat /\ m \in Nat /\ Len(j) = n + 1 + m
      /\ \A i \in 1 .. n : j[i] = a[i]
      /\ j[n + 1] = Blank
      /\ \A i \in 1 .. m : j[n + 1 + i] = b[i]
    <2>1. IsSpaced(j, a, b)
        BY JoinedCharacters
    <2>2. QED BY <2>1 DEF IsSpaced
<1> HIDE DEF n, j, m
<1>2. Embeds(a, j, 0)
    <2>1. /\ 0 \in Nat /\ n + 0 <= Len(j) /\ n + 0 + 1 = n + 1
          /\ \A q \in 1 .. n : q + 0 = q
        BY <1>1
    <2>2. QED BY <1>1, <2>1 DEF Embeds, n
<1>3. Embeds(b, j, n + 1)
    <2>1. /\ n + 1 \in Nat /\ m + (n + 1) = Len(j) /\ m + (n + 1) <= Len(j)
          /\ ~(m + (n + 1) < Len(j)) /\ \A q \in 1 .. m : q + (n + 1) = n + 1 + q
        BY <1>1
    <2>2. \A q \in 1 .. m : j[q + (n + 1)] = b[q]
        BY <1>1, <2>1
    <2>3. PICK d : d = n + 1
        OBVIOUS
    <2>4. Embeds(b, j, d)
        BY <2>1, <2>2, <2>3 DEF Embeds, m
    <2>5. QED BY <2>3, <2>4
<1>4. /\ Len(j) = m + (n + 1) /\ n + 1 \in 1 .. Len(j) + 1 /\ 1 + (n + 1) \in 1 .. Len(j) + 1
    BY <1>1
<1>5. QED BY <1>2, <1>3, <1>4 DEF n, j, m

(* The lexemes of two texts with a blank between them.                     *)
LEMMA SpacedLexemes ==
    ASSUME NEW a, IsSequence(a), NEW b, IsSequence(b), IsClosed(a), ~HasComment(a)
    PROVE  Lexemes(WithBlank(a, b)) = Lexemes(a) \o Lexemes(b)
<1> DEFINE j == WithBlank(a, b)
           n == Len(a)
<1>1. /\ IsSequence(j) /\ n \in Nat /\ Len(b) \in Nat /\ j[n + 1] = Blank
      /\ 1 \in 1 .. n + 1 /\ 1 \in 1 .. Len(b) + 1
    <2>1. IsSequence(j) /\ n \in Nat /\ Len(b) \in Nat /\ j[n + 1] = Blank
        <3>1. IsSpaced(j, a, b)
            BY JoinedCharacters
        <3>2. QED BY <3>1 DEF IsSpaced
    <2> HIDE DEF j, n
    <2>2. QED BY <2>1
<1>2. a \in Seq(ToSet(a)) /\ b \in Seq(ToSet(b)) /\ j \in Seq(ToSet(j))
    BY <1>1 DEF IsSequence
<1>3. PICK atA, fromA : Scans(a, atA, fromA) /\ Tokens(a) = fromA[1]
    BY <1>2, TokensStepwise
<1>4. PICK atB, fromB : Scans(b, atB, fromB) /\ Tokens(b) = fromB[1]
    BY <1>2, TokensStepwise
<1>5. PICK atJ, fromJ : Scans(j, atJ, fromJ) /\ Tokens(j) = fromJ[1]
    BY <1>2, TokensStepwise
<1>6. /\ Lexemes(a) = LexemesOf(fromA[1]) /\ Lexemes(b) = LexemesOf(fromB[1])
      /\ Lexemes(j) = LexemesOf(fromJ[1]) /\ AllClosed(LexemesOf(fromA[1]))
    BY <1>1, <1>3, <1>4, <1>5, ClosedIsAllClosed
<1>7. PICK d : d = n + 1
    OBVIOUS
<1>8. /\ Embeds(a, j, 0) /\ Embeds(b, j, d) /\ Len(j) = Len(b) + d
      /\ d \in 1 .. Len(j) + 1 /\ 1 + d \in 1 .. Len(j) + 1
    BY <1>7, SpacedEmbeds
<1>9. Closes(a, j, 0)
    BY CommentsShow DEF Closes
<1> HIDE DEF j, n
<1>10. LexemesOf(fromJ[1]) = LexemesOf(fromA[1]) \o LexemesOf(fromJ[d])
    <2>1. LexemesOf(fromJ[1]) = LexemesOf(fromA[1]) \o LexemesOf(fromJ[Len(a) + 1])
        <3>1. Begins(a, j) /\ 1 \in 1 .. Len(a) + 1 /\ AllClosed(LexemesOf(fromA[1]))
            BY <1>1, <1>6, <1>7, <1>8, <1>9 DEF n, Begins
        <3>2. QED BY <1>2, <1>3, <1>5, <3>1, PrefixLexemes
    <2>2. QED BY <1>7, <2>1 DEF n
<1>11. LexemesOf(fromJ[d]) = LexemesOf(fromJ[d + 1])
    <2>1. ~(d > Len(j))
        BY <1>1, <1>7, <1>8
    <2>2. ~AtEnd(j, d) /\ j[d] \in Whitespace
        BY <1>1, <1>7, <2>1, BlankFacts DEF AtEnd
    <2>3. /\ d + 1 \in 1 .. Len(j) + 1
          /\ SkipWhitespaceAndComments(j, d) = SkipWhitespaceAndComments(j, d + 1)
        BY <1>2, <1>8, <2>2, SkipEquation
    <2>4. QED BY <1>2, <1>5, <1>8, <2>3, SameFrom DEF Skipped
<1>12. LexemesOf(fromJ[d + 1]) = LexemesOf(fromB[1])
    <2>1. LexemesOf(fromJ[1 + d]) = LexemesOf(fromB[1])
        BY <1>1, <1>2, <1>4, <1>5, <1>8, SuffixLexemes
    <2>2. d + 1 = 1 + d
        BY <1>1, <1>7
    <2>3. QED BY <2>1, <2>2
<1>13. Lexemes(j) = Lexemes(a) \o Lexemes(b)
    BY <1>6, <1>10, <1>11, <1>12, Zenon
<1>14. QED BY <1>13 DEF j

LEMMA ClosedConcat ==
    ASSUME NEW k, IsSequence(k), NEW l, IsSequence(l), AllClosed(k), AllClosed(l)
    PROVE  AllClosed(k \o l)
<1> DEFINE all == k \o l
           m == Len(k)
           n == Len(l)
<1>1. /\ m \in Nat /\ n \in Nat /\ Len(all) = m + n
      /\ \A i \in 1 .. m : all[i] = k[i]
      /\ \A i \in 1 .. n : all[m + i] = l[i]
    BY SequenceLength, ConcatIsSequence
<1>2. /\ \A i \in 1 .. m : k[i].kind # "Invalid"
      /\ \A i \in 1 .. n : l[i].kind # "Invalid"
    BY DEF AllClosed
<1> HIDE DEF all, m, n
<1>3. ASSUME NEW i \in 1 .. m + n
      PROVE  all[i].kind # "Invalid"
    <2>1. CASE i \in 1 .. m
        BY <1>1, <1>2, <2>1
    <2>2. CASE i \notin 1 .. m
        <3>1. PICK p : p = i - m
            OBVIOUS
        <3>2. p \in 1 .. n /\ m + p = i
            BY <1>1, <2>2, <3>1
        <3>3. QED BY <1>1, <1>2, <3>2
    <2>3. QED BY <2>1, <2>2
<1>4. QED BY <1>1, <1>3 DEF AllClosed, all

LEMMA NothingTyped ==
    Lexemes(<< >>) = << >> /\ IsClosed(<< >>) /\ ~HasComment(<< >>)
<1>1. IsSequence(<< >>) /\ Len(<< >>) = 0 /\ << >> \in Seq({})
    BY EmptySequence
<1>2. PICK at, from : Scans(<< >>, at, from) /\ Tokens(<< >>) = from[1]
    BY <1>1, TokensStepwise
<1>3. 1 \in 1 .. Len(<< >>) + 1
    BY <1>1
<1>4. GoesOn(<< >>, at, from, 1)
    BY <1>1, <1>2, <1>3, LexemesStep
<1>5. Skipped(<< >>, 1) = Len(<< >>) + 1
    <2>1. Skipped(<< >>, 1) \in 1 .. Len(<< >>) + 1
        BY <1>4 DEF GoesOn
    <2> DEFINE x == Skipped(<< >>, 1)
    <2> HIDE DEF x
    <2>2. x = 1
        BY <1>1, <2>1 DEF x
    <2>3. QED BY <1>1, <2>2 DEF x
<1>6. LexemesOf(from[1]) = << >>
    BY <1>4, <1>5, Zenon DEF GoesOn
<1>7. Lexemes(<< >>) = << >>
    BY <1>1, <1>2, <1>6, ClosedIsAllClosed
<1>8. AllClosed(<< >>)
    BY <1>1 DEF AllClosed
<1>9. QED BY <1>1, <1>7, <1>8, ClosedIsAllClosed DEF HasComment

(* What Join makes of a closed text without comments and a line.           *)
LEMMA JoinLexemes ==
    ASSUME NEW sql, IsSequence(sql), NEW line, IsSequence(line),
           IsClosed(sql), ~HasComment(sql)
    PROVE  /\ Lexemes(Join(sql, line)) = Lexemes(sql) \o Lexemes(line)
           /\ IsClosed(line) => IsClosed(Join(sql, line))
<1>1. IsSequence(Join(sql, line))
    BY JoinIsText
<1>2. IsSequence(Lexemes(line)) /\ IsSequence(Lexemes(sql))
    BY ClosedIsAllClosed
<1>3. Lexemes(Join(sql, line)) = Lexemes(sql) \o Lexemes(line)
    <2>1. CASE sql = << >>
        <3>1. Join(sql, line) = line /\ Lexemes(sql) = << >>
            BY <2>1, NothingTyped DEF Join
        <3>2. << >> \o Lexemes(line) = Lexemes(line)
            BY <1>2, EmptyInFront
        <3>3. QED BY <3>1, <3>2, Zenon
    <2>2. CASE sql # << >>
        <3>1. Join(sql, line) = WithBlank(sql, line)
            BY <2>2, Zenon DEF Join, WithBlank, Blank
        <3>2. QED BY <3>1, SpacedLexemes
    <2>3. QED BY <2>1, <2>2
<1>4. ASSUME IsClosed(line)
      PROVE  IsClosed(Join(sql, line))
    <2>1. AllClosed(Lexemes(sql)) /\ AllClosed(Lexemes(line))
        BY <1>4, ClosedIsAllClosed
    <2>2. AllClosed(Lexemes(sql) \o Lexemes(line))
        BY <1>2, <2>1, ClosedConcat
    <2>3. QED BY <1>1, <1>3, <2>2, ClosedIsAllClosed
<1>5. QED BY <1>3, <1>4

(* What has been typed: one more line.                                     *)
LEMMA TypedNone == TypedLexemes(<< >>) = << >>
<1> DEFINE pieces == [n \in 1 .. Len(<< >>) |-> Lexemes(<< >>[n])]
<1>1. Len(<< >>) = 0
    BY EmptySequence
<1>2. pieces \in Seq({}) /\ Len(pieces) = 0
    BY <1>1
<1>3. pieces = << >>
    BY <1>2, EmptySeq
<1>4. FlattenSeq(pieces) = << >>
    <2> HIDE DEF pieces
    <2>1. QED BY <1>2, <1>3 DEF FlattenSeq
<1>5. QED BY <1>4 DEF TypedLexemes

LEMMA TypedOneMore ==
    ASSUME NEW lines, IsSequence(lines), \A n \in 1 .. Len(lines) : IsSequence(lines[n]),
           NEW line, IsSequence(line)
    PROVE  TypedLexemes(Append(lines, line)) = TypedLexemes(lines) \o Lexemes(line)
<1> DEFINE more == Append(lines, line)
           N == Len(lines)
           p == [n \in 1 .. N |-> Lexemes(lines[n])]
           q == [n \in 1 .. Len(more) |-> Lexemes(more[n])]
<1>1. /\ N \in Nat /\ Len(more) = N + 1
      /\ more[N + 1] = line /\ \A i \in 1 .. N : more[i] = lines[i]
    <2> DEFINE S == ToSet(lines) \cup {line}
    <2>1. lines \in Seq(S)
        BY SeqMonotonic DEF IsSequence
    <2> HIDE DEF S
    <2>2. line \in S
        BY DEF S
    <2>3. QED BY <2>1, <2>2, AppendProperties, LenProperties
<1> HIDE DEF more, N
<1>2. /\ Len(p) = N /\ Len(q) = N + 1
      /\ q[N + 1] = Lexemes(line) /\ \A i \in 1 .. N : q[i] = p[i]
    <2>1. N + 1 \in 1 .. N + 1 /\ \A i \in 1 .. N : i \in 1 .. N + 1
        BY <1>1
    <2>2. Len(p) = N /\ Len(q) = N + 1
        BY <1>1
    <2>3. q[N + 1] = Lexemes(line)
        BY <1>1, <2>1
    <2>4. \A i \in 1 .. N : q[i] = p[i]
        BY <1>1, <2>1
    <2>5. QED BY <2>2, <2>3, <2>4
<1>3. TypedLexemes(lines) = FlattenSeq(p) /\ TypedLexemes(more) = FlattenSeq(q)
    BY DEF TypedLexemes, N
<1> HIDE DEF p, q
<1>4. PICK f : FlattensTo(f, p)
    BY <1>1, <1>2, FlattenStepwise
<1>5. PICK g : FlattensTo(g, q)
    <2>1. Len(q) \in Nat
        BY <1>1, <1>2
    <2>2. QED BY <2>1, FlattenStepwise
<1>6. /\ \A k \in 1 .. N : f[k] = IF k = 1 THEN p[k] ELSE f[k - 1] \o p[k]
      /\ N > 0 => FlattenSeq(p) = f[N]
    BY <1>2, <1>4 DEF FlattensTo
<1>7. /\ \A k \in 1 .. N + 1 : g[k] = IF k = 1 THEN q[k] ELSE g[k - 1] \o q[k]
      /\ FlattenSeq(q) = g[N + 1]
    BY <1>1, <1>2, <1>5 DEF FlattensTo
<1> DEFINE good == {k \in 1 .. N : f[k] = g[k]}
<1>8. \A k \in 1 .. N : k \in good
    <2>1. ASSUME NEW k \in 1 .. N, \A r \in 1 .. k - 1 : r \in good
          PROVE  k \in good
        <3>1. k \in 1 .. N + 1 /\ (k # 1 => k - 1 \in 1 .. k - 1)
            BY <1>1
        <3>2. CASE k = 1
            BY <1>2, <1>6, <1>7, <3>1, <3>2
        <3>3. CASE k # 1
            <4>1. f[k - 1] = g[k - 1] /\ p[k] = q[k]
                BY <1>2, <2>1, <3>1, <3>3
            <4>2. f[k] = f[k - 1] \o p[k]
                BY <1>6, <3>3
            <4>3. g[k] = g[k - 1] \o q[k]
                BY <1>7, <3>1, <3>3
            <4>4. f[k] = g[k]
                BY <4>1, <4>2, <4>3, Zenon
            <4>5. QED BY <4>4
        <3>4. QED BY <3>2, <3>3
    <2> HIDE DEF good
    <2>2. 1 \in Int /\ N \in Int
        BY <1>1
    <2>3. QED BY <2>1, <2>2, ForwardInduction, Zenon
<1>9. CASE N = 0
    <2>1. lines = << >>
        BY <1>9, EmptySeq DEF N, IsSequence
    <2>2. TypedLexemes(lines) = << >>
        BY <2>1, TypedNone
    <2>3. g[N + 1] = Lexemes(line)
        <3>1. N + 1 = 1 /\ N + 1 \in 1 .. N + 1
            BY <1>1, <1>9
        <3>2. QED BY <1>2, <1>7, <3>1
    <2>4. IsSequence(Lexemes(line))
        BY ClosedIsAllClosed
    <2>5. << >> \o Lexemes(line) = Lexemes(line)
        BY <2>4, EmptyInFront
    <2>6. QED BY <1>3, <1>7, <2>2, <2>3, <2>5, Zenon DEF more
<1>10. CASE N # 0
    <2>1. N \in 1 .. N /\ N > 0 /\ N + 1 # 1 /\ N + 1 - 1 = N /\ N + 1 \in 1 .. N + 1
        BY <1>1, <1>10
    <2>2. f[N] = g[N]
        BY <1>8, <2>1
    <2>3. PICK k : k = N + 1
        OBVIOUS
    <2>4. g[k] = g[k - 1] \o q[k]
        BY <1>7, <2>1, <2>3
    <2>5. g[N + 1] = g[N] \o Lexemes(line)
        <3>1. k - 1 = N /\ q[k] = Lexemes(line)
            BY <1>2, <2>1, <2>3
        <3>2. QED BY <2>3, <2>4, <3>1, Zenon
    <2>6. FlattenSeq(p) = f[N]
        BY <1>6, <2>1
    <2>7. QED BY <1>3, <1>7, <2>2, <2>5, <2>6, Zenon DEF more
<1>11. QED BY <1>9, <1>10

LEMMA TypedOne ==
    ASSUME NEW line, IsSequence(line)
    PROVE  TypedLexemes(<<line>>) = Lexemes(line)
<1>1. Append(<< >>, line) = <<line>>
    OBVIOUS
<1>2. PICK none : none = << >>
    OBVIOUS
<1>3. TypedLexemes(Append(<< >>, line)) = TypedLexemes(<< >>) \o Lexemes(line)
    <2>1. IsSequence(none) /\ Len(none) = 0
        BY <1>2, EmptySequence
    <2>2. \A n \in 1 .. Len(none) : IsSequence(none[n])
        BY <2>1
    <2>3. TypedLexemes(Append(none, line)) = TypedLexemes(none) \o Lexemes(line)
        BY <2>1, <2>2, TypedOneMore
    <2>4. QED BY <1>2, <2>3, Zenon
<1>4. IsSequence(Lexemes(line))
    BY ClosedIsAllClosed
<1>5. << >> \o Lexemes(line) = Lexemes(line)
    BY <1>4, EmptyInFront
<1>6. QED BY <1>1, <1>3, <1>5, TypedNone, Zenon

-----------------------------------------------------------------------------
(* The lines and the buffer.                                               *)
LEMMA BeginJoins ==
    ASSUME NEW line, IsSequence(line), buffer' = line, typed' = <<line>>
    PROVE  LinesJoined'
<1>1. Len(<<line>>) = 1 /\ <<line>>[1] = line
    BY SingletonSequence
<1>2. TypedLexemes(<<line>>) = Lexemes(line)
    BY TypedOne
<1>3. 1 \in 1 .. Len(<<line>>)
    BY <1>1
<1>4. (\A n \in 1 .. Len(<<line>>) : IsClosed(<<line>>[n])) => IsClosed(line)
    BY <1>1, <1>3
<1>5. HasComment(line) => \E n \in 1 .. Len(<<line>>) : HasComment(<<line>>[n])
    BY <1>1, <1>3
<1>6. QED BY <1>2, <1>4, <1>5, Zenon DEF LinesJoined

LEMMA ReturnJoins ==
    ASSUME buffer' = << >>, typed' = << >>
    PROVE  LinesJoined'
<1>1. Lexemes(<< >>) = TypedLexemes(<< >>)
    BY NothingTyped, TypedNone, Zenon
<1>2. QED BY <1>1, NothingTyped, Zenon DEF LinesJoined

LEMMA SameJoins ==
    ASSUME LinesJoined, UNCHANGED <<buffer, typed>>
    PROVE  LinesJoined'
BY DEF LinesJoined

LEMMA MoreJoins ==
    ASSUME LinesJoined, ShellTyped, NEW line, IsSequence(line),
           buffer' = Join(buffer, line), typed' = Append(typed, line)
    PROVE  LinesJoined'
<1> DEFINE more == Append(typed, line)
           N == Len(typed)
<1>1. IsSequence(buffer) /\ IsSequence(typed) /\ \A n \in 1 .. N : IsSequence(typed[n])
    BY DEF ShellTyped
<1>2. /\ N \in Nat /\ Len(more) = N + 1
      /\ more[N + 1] = line /\ \A i \in 1 .. N : more[i] = typed[i]
    <2> DEFINE S == ToSet(typed) \cup {line}
    <2>1. typed \in Seq(S)
        BY <1>1, SeqMonotonic DEF IsSequence
    <2> HIDE DEF S
    <2>2. line \in S
        BY DEF S
    <2>3. QED BY <2>1, <2>2, AppendProperties, LenProperties
<1>3. TypedLexemes(more) = TypedLexemes(typed) \o Lexemes(line)
    BY <1>1, TypedOneMore
<1> HIDE DEF more, N
<1>4. /\ N + 1 \in 1 .. N + 1 /\ \A i \in 1 .. N : i \in 1 .. N + 1
      /\ Len(more) - 1 = N /\ \A i \in 1 .. N - 1 : i \in 1 .. N
    BY <1>2
<1>5. ASSUME \A n \in 1 .. Len(more) : IsClosed(more[n]),
             \A n \in 1 .. Len(more) - 1 : ~HasComment(more[n])
      PROVE  IsClosed(Join(buffer, line)) /\ Lexemes(Join(buffer, line)) = TypedLexemes(more)
    <2>1. IsClosed(line) /\ \A n \in 1 .. N : IsClosed(typed[n])
        <3>1. \A n \in 1 .. N + 1 : IsClosed(more[n])
            BY <1>2, <1>5
        <3>2. QED BY <1>2, <1>4, <3>1
    <2>2. \A n \in 1 .. N : ~HasComment(typed[n])
        <3>1. \A n \in 1 .. N : ~HasComment(more[n])
            BY <1>4, <1>5
        <3>2. QED BY <1>2, <3>1
    <2>3. \A n \in 1 .. N - 1 : ~HasComment(typed[n])
        BY <1>4, <2>2
    <2>4. IsClosed(buffer) /\ Lexemes(buffer) = TypedLexemes(typed) /\ ~HasComment(buffer)
        BY <2>1, <2>2, <2>3, Zenon DEF LinesJoined, N
    <2>5. /\ Lexemes(Join(buffer, line)) = Lexemes(buffer) \o Lexemes(line)
          /\ IsClosed(Join(buffer, line))
        BY <1>1, <2>1, <2>4, JoinLexemes
    <2>6. QED BY <1>3, <2>4, <2>5, Zenon
<1>6. ASSUME HasComment(Join(buffer, line))
      PROVE  \E n \in 1 .. Len(more) : HasComment(more[n])
    <2>1. HasComment(buffer) \/ HasComment(line)
        <3>1. CASE buffer = << >>
            BY <1>6, <3>1, Zenon DEF Join
        <3>2. CASE buffer # << >>
            <4>1. Join(buffer, line) = WithBlank(buffer, line)
                BY <3>2, Zenon DEF Join, WithBlank, Blank
            <4>2. QED BY <1>1, <1>6, <4>1, JoinedComment
        <3>3. QED BY <3>1, <3>2
    <2>2. CASE HasComment(buffer)
        <3>1. PICK n \in 1 .. N : HasComment(typed[n])
            BY <2>2, Zenon DEF LinesJoined, N
        <3>2. n \in 1 .. Len(more) /\ HasComment(more[n])
            BY <1>2, <1>4, <3>1
        <3>3. QED BY <3>2
    <2>3. CASE HasComment(line)
        BY <1>2, <1>4, <2>3
    <2>4. QED BY <2>1, <2>2, <2>3
<1>7. QED BY <1>5, <1>6, Zenon DEF LinesJoined, more

LEMMA JoinedAlways ==
    ASSUME LinesJoined, ShellTyped, [ShellNext]_shellVars
    PROVE  LinesJoined'
<1>0. ASSUME Return PROVE LinesJoined'
    BY <1>0, ReturnJoins DEF Return
<1>1. IsSequence(<< >>) /\ \A line \in Lines : IsSequence(line)
    BY EmptySequence, LinesAssumption, SeqIsSequence
<1>2. ASSUME NEW line, IsSequence(line), NEW next, Begin(line, next) PROVE LinesJoined'
    BY <1>2, BeginJoins DEF Begin
<1>3. CASE UNCHANGED shellVars
    BY <1>3, SameJoins DEF shellVars
<1>4. CASE \E name \in DatabaseNames : Start(name)
    BY <1>4, SameJoins DEF Start
<1>5. CASE Run
    BY <1>5, SameJoins DEF Run
<1>6. CASE EndOfInput
    BY <1>1, <1>2, <1>6 DEF EndOfInput
<1>7. CASE Parse
    BY <1>0, <1>7, SameJoins DEF Parse
<1>8. CASE BindParsed
    BY <1>0, <1>8, SameJoins DEF BindParsed
<1>9. CASE ExecuteBound
    BY <1>0, <1>1, <1>2, <1>9 DEF ExecuteBound
<1>10. ASSUME NEW line \in Lines, ProcessLine(line)
       PROVE  LinesJoined'
    BY <1>0, <1>1, <1>2, <1>10 DEF ProcessLine, DoCommand
<1>11. ASSUME NEW line \in Lines, ReadLine(line)
       PROVE  LinesJoined'
    BY <1>0, <1>1, <1>2, <1>11 DEF ReadLine, DoCommand
<1>12. ASSUME NEW line \in Lines, ReadMore(line)
       PROVE  LinesJoined'
    BY <1>0, <1>1, <1>12, MoreJoins DEF ReadMore
<1>13. QED BY <1>3, <1>4, <1>5, <1>6, <1>7, <1>8, <1>9, <1>10, <1>11, <1>12 DEF ShellNext

(* Every step of the shell preserves what module Shell says of the buffer, *)
(* the statement and the session.                                          *)
THEOREM ShellInvariance == ShellSpec => []ShellInv
<1>1. ShellInit => LinesJoined
    <2>1. ASSUME ShellInit PROVE LinesJoined
        <3>1. buffer = << >> /\ typed = << >>
            BY <2>1 DEF ShellInit
        <3>2. Lexemes(<< >>) = TypedLexemes(<< >>)
            BY NothingTyped, TypedNone, Zenon
        <3>3. QED BY <3>1, <3>2, NothingTyped, Zenon DEF LinesJoined
    <2>2. QED BY <2>1
<1>2. StatementInv /\ LinesJoined /\ [ShellNext]_shellVars => LinesJoined'
    BY JoinedAlways DEF StatementInv
<1>3. Waits /\ [ShellNext]_shellVars => Waits'
    BY WaitsAlways
<1>4. StatementInv /\ Waits /\ LinesJoined => ShellInv
    BY DEF ShellInv
<1>5. QED BY <1>1, <1>2, <1>3, <1>4, WaitsInitially, StatementInvariance, PTL DEF ShellSpec

(* Joining the lines of a statement keeps their tokens, however many lines *)
(* it has (repl.cpp:178-181).                                              *)
THEOREM JoiningKeepsTokens == ShellSpec => []JoinKeepsTokens
<1>1. ShellInv => JoinKeepsTokens
    BY DEF ShellInv, LinesJoined, JoinKeepsTokens
<1>2. QED BY <1>1, ShellInvariance, PTL


=============================================================================
