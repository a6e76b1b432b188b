----------------------------- MODULE ReloadProofs -----------------------------
(***************************************************************************)
(* The reload of the configuration and two of the engines it reaches: that *)
(* the filter decides what the lists of the configuration say, that the    *)
(* engines hold the configuration the manager hands out, and what a reload *)
(* does to the cache and the calls of the routing resolver.                *)
(***************************************************************************)
EXTENDS PacResolver, ConfigReload, FiniteSetTheorems, SequenceTheorems,
        WellFoundedInduction, TLAPS

\* Every set of natural numbers that is not empty has a smallest one.
LEMMA Smallest ==
    ASSUME NEW T \in SUBSET Nat, T # {}
    PROVE  \E n \in T : \A k \in T : n <= k
<1>1. PICK n \in T : \A y \in T : ~(<<y, n>> \in OpToRel(<, Nat))
  BY NatLessThanWellFounded, WFMin, Zenon
<1>2. \A y \in T : ~(y < n)
  BY <1>1 DEF OpToRel
<1> QED
  BY <1>2

-----------------------------------------------------------------------------
(* matchWildcard.                                                          *)

\* A pattern's character fits the piece of the text that ends where cut says.
Piece(p, s, cut, x) ==
    IF p[x] = "*" THEN cut[x - 1] <= cut[x]
    ELSE cut[x] = cut[x - 1] + 1 /\ p[x] \in {"?", s[cut[x]]}

\* The text from position j on can be cut to fit the pattern from i on.
Fits(p, s, i, j) ==
    \E cut \in [i - 1 .. Len(p) -> 0 .. Len(s)] :
        /\ cut[i - 1] = j - 1
        /\ cut[Len(p)] = Len(s)
        /\ \A x \in i .. Len(p) : Piece(p, s, cut, x)

\* Character i of the pattern can take the text from j to before k.
Takes(p, s, i, j, k) ==
    IF p[i] = "*" THEN j <= k ELSE k = j + 1 /\ p[i] \in {"?", s[j]}

\* The definition of what a pattern matches is the case of the whole.
LEMMA FitsWhole ==
    ASSUME NEW p \in Seq(Chars), NEW s \in Seq(Chars)
    PROVE  WildcardSpec(p, s) <=> Fits(p, s, 1, 1)
<1>1. DOMAIN p = 1 .. Len(p) /\ Len(p) \in Nat /\ Len(s) \in Nat
  OBVIOUS
<1>2. 1 - 1 = 0
  OBVIOUS
<1>3. WildcardSpec(p, s) <=> \E cut \in [0 .. Len(p) -> 0 .. Len(s)] :
        /\ cut[0] = 0
        /\ cut[Len(p)] = Len(s)
        /\ \A x \in 1 .. Len(p) : Piece(p, s, cut, x)
  BY <1>1, Zenon DEF WildcardSpec, Piece
<1> QED
  BY <1>2, <1>3, Zenon DEF Fits

\* An empty rest of the pattern fits an empty rest of the text.
LEMMA FitsEnd ==
    ASSUME NEW p \in Seq(Chars), NEW s \in Seq(Chars), NEW j \in 1 .. Len(s) + 1
    PROVE  Fits(p, s, Len(p) + 1, j) <=> j > Len(s)
<1> DEFINE n == Len(p)  L == Len(s)
<1>1. n \in Nat /\ L \in Nat /\ n + 1 - 1 = n
  OBVIOUS
<1>2. ASSUME Fits(p, s, n + 1, j) PROVE j > L
  <2>1. PICK cut \in [n + 1 - 1 .. n -> 0 .. L] : cut[n + 1 - 1] = j - 1 /\ cut[n] = L
    BY <1>2 DEF Fits
  <2> QED
    BY <1>1, <2>1
<1>3. ASSUME j > L PROVE Fits(p, s, n + 1, j)
  <2> DEFINE cut == [x \in n + 1 - 1 .. n |-> L]
  <2>1. cut \in [n + 1 - 1 .. n -> 0 .. L]
    BY <1>1
  <2>2. cut[n + 1 - 1] = j - 1 /\ cut[n] = L
    BY <1>1, <1>3
  <2>3. \A x \in n + 1 .. n : Piece(p, s, cut, x)
    BY <1>1
  <2> HIDE DEF cut
  <2> QED
    BY <2>1, <2>2, <2>3 DEF Fits
<1> QED
  BY <1>2, <1>3

\* One character of the pattern takes a piece, the rest fits what is left.
LEMMA FitsStep ==
    ASSUME NEW p \in Seq(Chars), NEW s \in Seq(Chars),
           NEW i \in 1 .. Len(p), NEW j \in 1 .. Len(s) + 1
    PROVE  Fits(p, s, i, j)
             <=> \E k \in 1 .. Len(s) + 1 : Takes(p, s, i, j, k) /\ Fits(p, s, i + 1, k)
<1> DEFINE n == Len(p)  L == Len(s)
<1>1. n \in Nat /\ L \in Nat /\ i + 1 - 1 = i
  OBVIOUS
<1>2. ASSUME Fits(p, s, i, j)
      PROVE  \E k \in 1 .. L + 1 : Takes(p, s, i, j, k) /\ Fits(p, s, i + 1, k)
  <2>1. PICK cut \in [i - 1 .. n -> 0 .. L] :
           cut[i - 1] = j - 1 /\ cut[n] = L /\ \A x \in i .. n : Piece(p, s, cut, x)
    BY <1>2 DEF Fits
  <2> DEFINE k == cut[i] + 1
             rest == [x \in i + 1 - 1 .. n |-> cut[x]]
  <2>2. cut[i] \in 0 .. L /\ k \in 1 .. L + 1 /\ cut[i] = k - 1
    BY <1>1, <2>1
  <2>3. Takes(p, s, i, j, k)
    BY <1>1, <2>1, <2>2 DEF Piece, Takes
  <2>4. rest \in [i + 1 - 1 .. n -> 0 .. L]
    BY <1>1, <2>1
  <2>5. rest[i + 1 - 1] = k - 1 /\ rest[n] = L
    BY <1>1, <2>1, <2>2
  <2>6. \A x \in i + 1 .. n : Piece(p, s, rest, x)
    BY <1>1, <2>1 DEF Piece
  <2> HIDE DEF rest, k
  <2>7. Fits(p, s, i + 1, k)
    BY <2>4, <2>5, <2>6 DEF Fits
  <2> QED
    BY <2>2, <2>3, <2>7
<1>3. ASSUME NEW k \in 1 .. L + 1, Takes(p, s, i, j, k), Fits(p, s, i + 1, k)
      PROVE  Fits(p, s, i, j)
  <2>1. PICK rest \in [i + 1 - 1 .. n -> 0 .. L] :
           rest[i + 1 - 1] = k - 1 /\ rest[n] = L /\ \A x \in i + 1 .. n : Piece(p, s, rest, x)
    BY <1>3 DEF Fits
  <2> DEFINE cut == [x \in i - 1 .. n |-> IF x = i - 1 THEN j - 1 ELSE rest[x]]
  <2>2. cut \in [i - 1 .. n -> 0 .. L]
    <3>1. ASSUME NEW x \in i - 1 .. n, x # i - 1 PROVE rest[x] \in 0 .. L
      <4>1. x \in i + 1 - 1 .. n
        BY <1>1, <3>1
      <4> QED
        BY <2>1, <4>1
    <3>2. j - 1 \in 0 .. L
      BY <1>1
    <3> QED
      BY <3>1, <3>2
  <2>3. cut[i - 1] = j - 1 /\ cut[n] = L
    BY <1>1, <2>1
  <2>4. cut[i] = k - 1
    BY <1>1, <2>1
  <2>5. \A x \in i + 1 .. n : cut[x] = rest[x] /\ cut[x - 1] = rest[x - 1]
    BY <1>1
  <2> HIDE DEF cut
  <2>6. Piece(p, s, cut, i)
    BY <1>1, <1>3, <2>3, <2>4 DEF Takes, Piece
  <2>7. \A x \in i + 1 .. n : Piece(p, s, cut, x)
    BY <2>1, <2>5 DEF Piece
  <2>8. \A x \in i .. n : Piece(p, s, cut, x)
    BY <1>1, <2>6, <2>7
  <2> QED
    BY <2>2, <2>3, <2>8 DEF Fits
<1> QED
  BY <1>2, <1>3

\* Equivalent truth values are equal.
LEMMA BooleanEqual ==
    ASSUME NEW a \in BOOLEAN, NEW b \in BOOLEAN, a <=> b
    PROVE  a = b
<1>1. CASE a = TRUE
  BY <1>1, Zenon
<1>2. CASE a = FALSE
  BY <1>2, Zenon
<1> QED
  BY <1>1, <1>2, Zenon

\* What matchWildcard computes for positions i and j, g being what it computes
\* for the next position of the pattern.
Cell(p, s, g, i, j) ==
    IF i > Len(p) THEN j > Len(s)
    ELSE IF p[i] = "*"
         THEN IF i < Len(p) /\ p[i + 1] = "*" THEN g[j]
              ELSE i = Len(p) \/ \E k \in j .. Len(s) + 1 : g[k]
    ELSE /\ j <= Len(s)
         /\ p[i] \in {"?", s[j]}
         /\ g[j + 1]

\* A star fits whatever a later star, or the end of the pattern, leaves it.
LEMMA StarFits ==
    ASSUME NEW p \in Seq(Chars), NEW s \in Seq(Chars),
           NEW i \in 1 .. Len(p), NEW j \in 1 .. Len(s) + 1, p[i] = "*"
    PROVE  /\ i = Len(p) => Fits(p, s, i, j)
           /\ i < Len(p) /\ p[i + 1] = "*" => (Fits(p, s, i, j) <=> Fits(p, s, i + 1, j))
           /\ Fits(p, s, i, j) <=> \E k \in j .. Len(s) + 1 : Fits(p, s, i + 1, k)
<1> DEFINE n == Len(p)  L == Len(s)
<1>1. n \in Nat /\ L \in Nat
  OBVIOUS
<1>2. \A k \in 1 .. L + 1 : Takes(p, s, i, j, k) <=> j <= k
  BY DEF Takes
<1>3. Fits(p, s, i, j) <=> \E k \in 1 .. L + 1 : j <= k /\ Fits(p, s, i + 1, k)
  <2>1. Fits(p, s, i, j) <=> \E k \in 1 .. L + 1 : Takes(p, s, i, j, k) /\ Fits(p, s, i + 1, k)
    BY FitsStep
  <2> QED
    BY <1>2, <2>1, Zenon
<1>4. \A k : k \in j .. L + 1 <=> k \in 1 .. L + 1 /\ j <= k
  BY <1>1
<1>5. Fits(p, s, i, j) <=> \E k \in j .. L + 1 : Fits(p, s, i + 1, k)
  BY <1>3, <1>4, Zenon
<1>6. ASSUME i = n PROVE Fits(p, s, i, j)
  <2>1. L + 1 \in j .. L + 1 /\ L + 1 \in 1 .. L + 1 /\ L + 1 > L
    BY <1>1
  <2>2. Fits(p, s, n + 1, L + 1)
    BY <2>1, FitsEnd
  <2> QED
    BY <1>5, <1>6, <2>1, <2>2
<1>7. ASSUME i < n, p[i + 1] = "*" PROVE Fits(p, s, i, j) <=> Fits(p, s, i + 1, j)
  <2>1. i + 1 \in 1 .. n
    BY <1>1, <1>7
  <2>2. ASSUME NEW k \in 1 .. L + 1
        PROVE  Fits(p, s, i + 1, k)
                 <=> \E m \in 1 .. L + 1 : k <= m /\ Fits(p, s, i + 1 + 1, m)
    <3>1. Fits(p, s, i + 1, k)
            <=> \E m \in 1 .. L + 1 : Takes(p, s, i + 1, k, m) /\ Fits(p, s, i + 1 + 1, m)
      BY <2>1, FitsStep
    <3>2. \A m \in 1 .. L + 1 : Takes(p, s, i + 1, k, m) <=> k <= m
      BY <1>7 DEF Takes
    <3> QED
      BY <3>1, <3>2, Zenon
  <2>3. ASSUME Fits(p, s, i + 1, j) PROVE Fits(p, s, i, j)
    BY <1>1, <1>3, <2>3
  <2>4. ASSUME Fits(p, s, i, j) PROVE Fits(p, s, i + 1, j)
    <3>1. PICK k \in 1 .. L + 1 : j <= k /\ Fits(p, s, i + 1, k)
      BY <1>3, <2>4
    <3>2. PICK m \in 1 .. L + 1 : k <= m /\ Fits(p, s, i + 1 + 1, m)
      BY <2>2, <3>1
    <3>3. j <= m
      BY <1>1, <3>1, <3>2
    <3> QED
      BY <2>2, <3>2, <3>3
  <2> QED
    BY <2>3, <2>4
<1> QED
  BY <1>5, <1>6, <1>7

\* If the next row says what fits, so does this one.
LEMMA CellFits ==
    ASSUME NEW p \in Seq(Chars), NEW s \in Seq(Chars),
           NEW i \in 1 .. Len(p) + 1, NEW j \in 1 .. Len(s) + 1, NEW g,
           i <= Len(p) => \A k \in 1 .. Len(s) + 1 : g[k] = Fits(p, s, i + 1, k)
    PROVE  Cell(p, s, g, i, j) = Fits(p, s, i, j)
<1> DEFINE n == Len(p)  L == Len(s)
<1>1. n \in Nat /\ L \in Nat
  OBVIOUS
<1>2. CASE i > n
  <2>1. i = n + 1
    BY <1>1, <1>2
  <2>3. Fits(p, s, i, j) <=> j > L
    BY <2>1, FitsEnd
  <2>4. Fits(p, s, i, j) \in BOOLEAN
    BY Zenon DEF Fits
  <2>5. CASE j > L
    <3>1. Fits(p, s, i, j) = TRUE
      BY <2>3, <2>4, <2>5, Zenon
    <3>2. Cell(p, s, g, i, j) = TRUE
      BY <1>2, <2>5 DEF Cell
    <3> QED
      BY <3>1, <3>2, Zenon
  <2>6. CASE ~(j > L)
    <3>1. Fits(p, s, i, j) = FALSE
      BY <2>3, <2>4, <2>6, Zenon
    <3>2. Cell(p, s, g, i, j) = FALSE
      BY <1>2, <2>6 DEF Cell
    <3> QED
      BY <3>1, <3>2, Zenon
  <2> QED
    BY <2>5, <2>6
<1>3. CASE ~(i > n)
  <2>1. i \in 1 .. n /\ \A k \in 1 .. L + 1 : g[k] = Fits(p, s, i + 1, k)
    BY <1>1, <1>3
  <2>2. CASE p[i] = "*" /\ i < n /\ p[i + 1] = "*"
    <3>1. Cell(p, s, g, i, j) = g[j]
      BY <1>3, <2>2 DEF Cell
    <3>2. Fits(p, s, i, j) <=> Fits(p, s, i + 1, j)
      BY <2>1, <2>2, StarFits
    <3>3. Fits(p, s, i, j) \in BOOLEAN /\ Fits(p, s, i + 1, j) \in BOOLEAN
      BY Zenon DEF Fits
    <3>4. Fits(p, s, i, j) = Fits(p, s, i + 1, j)
      BY <3>2, <3>3, BooleanEqual
    <3> QED
      BY <2>1, <3>1, <3>4, Zenon
  <2>3. CASE p[i] = "*" /\ ~(i < n /\ p[i + 1] = "*")
    <3>1. Cell(p, s, g, i, j) = (i = n \/ \E k \in j .. L + 1 : g[k])
      BY <1>3, <2>3, Zenon DEF Cell
    <3>2. /\ i = n => Fits(p, s, i, j)
          /\ Fits(p, s, i, j) <=> \E k \in j .. L + 1 : Fits(p, s, i + 1, k)
      BY <2>1, <2>3, StarFits
    <3>3. j .. L + 1 \subseteq 1 .. L + 1
      BY <1>1
    <3>4. (i = n \/ \E k \in j .. L + 1 : g[k]) <=> Fits(p, s, i, j)
      BY <2>1, <3>2, <3>3, Zenon
    <3>5. Fits(p, s, i, j) \in BOOLEAN
      BY Zenon DEF Fits
    <3> QED
      BY <3>1, <3>4, <3>5, Zenon
  <2>4. CASE p[i] # "*"
    <3>1. Cell(p, s, g, i, j) = (j <= L /\ p[i] \in {"?", s[j]} /\ g[j + 1])
      BY <1>3, <2>4, Zenon DEF Cell
    <3>2. Fits(p, s, i, j) <=> \E k \in 1 .. L + 1 : k = j + 1 /\ p[i] \in {"?", s[j]} /\ Fits(p, s, i + 1, k)
      <4>1. Fits(p, s, i, j) <=> \E k \in 1 .. L + 1 : Takes(p, s, i, j, k) /\ Fits(p, s, i + 1, k)
        BY <2>1, FitsStep
      <4>2. \A k \in 1 .. L + 1 : Takes(p, s, i, j, k) <=> k = j + 1 /\ p[i] \in {"?", s[j]}
        BY <2>4, Zenon DEF Takes
      <4> QED
        BY <4>1, <4>2, Zenon
    <3>3. j + 1 \in 1 .. L + 1 <=> j <= L
      BY <1>1
    <3>4. (j <= L /\ p[i] \in {"?", s[j]} /\ g[j + 1]) <=> Fits(p, s, i, j)
      BY <2>1, <3>2, <3>3, Zenon
    <3>5. Fits(p, s, i, j) \in BOOLEAN
      BY Zenon DEF Fits
    <3> QED
      BY <3>1, <3>4, <3>5, Zenon
  <2> QED
    BY <2>2, <2>3, <2>4
<1> QED
  BY <1>2, <1>3

\* The recursive equation matchWildcard's table solves.
Solves(p, s, f) ==
    f = [i \in 1 .. Len(p) + 1 |-> [j \in 1 .. Len(s) + 1 |-> Cell(p, s, f[i + 1], i, j)]]

\* matchWildcard reads the first cell of such a table.
LEMMA MatchReads ==
    ASSUME NEW p, NEW s
    PROVE  matchWildcard(p, s) = (CHOOSE f : Solves(p, s, f))[1][1]
BY DEF matchWildcard, Solves, Cell

\* There is one: the table of what fits.
LEMMA TableExists ==
    ASSUME NEW p \in Seq(Chars), NEW s \in Seq(Chars)
    PROVE  \E f : Solves(p, s, f)
<1> DEFINE n == Len(p)  L == Len(s)
           f == [i \in 1 .. n + 1 |-> [j \in 1 .. L + 1 |-> Fits(p, s, i, j)]]
<1>1. n \in Nat /\ L \in Nat
  OBVIOUS
<1>2. ASSUME NEW i \in 1 .. n + 1, NEW j \in 1 .. L + 1
      PROVE  Cell(p, s, f[i + 1], i, j) = Fits(p, s, i, j)
  <2>1. ASSUME i <= n PROVE \A k \in 1 .. L + 1 : f[i + 1][k] = Fits(p, s, i + 1, k)
    <3>1. i + 1 \in 1 .. n + 1
      BY <1>1, <2>1
    <3> QED
      BY <3>1, Zenon
  <2> DEFINE g == f[i + 1]
  <2>2. i <= n => \A k \in 1 .. L + 1 : g[k] = Fits(p, s, i + 1, k)
    BY <2>1, Zenon
  <2>3. Cell(p, s, g, i, j) = Fits(p, s, i, j)
    <3> HIDE DEF f, g
    <3> QED
      BY <2>2, CellFits
  <2> QED
    BY <2>3, Zenon
<1>3. f = [i \in 1 .. n + 1 |-> [j \in 1 .. L + 1 |-> Cell(p, s, f[i + 1], i, j)]]
  BY <1>2, Zenon
<1>4. Solves(p, s, f)
  <2> HIDE DEF f
  <2> QED
    BY <1>3, Zenon DEF Solves
<1> QED
  BY <1>4, Zenon

\* Every such table says what fits: the last row does, and each other row does
\* if the next one does.
LEMMA TableIsFits ==
    ASSUME NEW p \in Seq(Chars), NEW s \in Seq(Chars), NEW f, Solves(p, s, f)
    PROVE  \A i \in 1 .. Len(p) + 1, j \in 1 .. Len(s) + 1 : f[i][j] = Fits(p, s, i, j)
<1> DEFINE n == Len(p)  L == Len(s)
           Right(i) == \A j \in 1 .. L + 1 : f[i][j] = Fits(p, s, i, j)
           Wrong == {d \in 0 .. n : ~Right(n + 1 - d)}
<1>1. n \in Nat /\ L \in Nat
  OBVIOUS
<1>2. ASSUME NEW i \in 1 .. n + 1, NEW j \in 1 .. L + 1
      PROVE  f[i][j] = Cell(p, s, f[i + 1], i, j)
  <2> DEFINE h == [x \in 1 .. n + 1 |-> [y \in 1 .. L + 1 |-> Cell(p, s, f[x + 1], x, y)]]
  <2>1. f = h
    BY Zenon DEF Solves
  <2>2. h[i] = [y \in 1 .. L + 1 |-> Cell(p, s, f[i + 1], i, y)]
    BY Zenon
  <2>3. h[i][j] = Cell(p, s, f[i + 1], i, j)
    BY <2>2, Zenon
  <2> HIDE DEF h
  <2> QED
    BY <2>1, <2>3, Zenon
<1>3. ASSUME NEW i \in 1 .. n + 1, i <= n => Right(i + 1) PROVE Right(i)
  <2> TAKE j \in 1 .. L + 1
  <2> DEFINE g == f[i + 1]
  <2>1. i <= n => \A k \in 1 .. L + 1 : g[k] = Fits(p, s, i + 1, k)
    BY <1>3, Zenon
  <2>2. Cell(p, s, g, i, j) = Fits(p, s, i, j)
    <3> HIDE DEF g
    <3> QED
      BY <2>1, CellFits
  <2> QED
    BY <1>2, <2>2, Zenon
<1> HIDE DEF Right
<1>4. Wrong = {}
  <2> SUFFICES ASSUME Wrong # {} PROVE FALSE
    OBVIOUS
  <2>1. Wrong \in SUBSET Nat
    BY <1>1
  <2>2. PICK d \in Wrong : \A k \in Wrong : d <= k
    BY <2>1, Smallest
  <2>3. d \in 0 .. n /\ ~Right(n + 1 - d)
    OBVIOUS
  <2>4. n + 1 - d \in 1 .. n + 1
    BY <1>1, <2>3
  <2>5. n + 1 - d <= n => Right(n + 1 - d + 1)
    <3> SUFFICES ASSUME n + 1 - d <= n PROVE Right(n + 1 - d + 1)
      OBVIOUS
    <3>1. d - 1 \in 0 .. n /\ ~(d <= d - 1) /\ n + 1 - (d - 1) = n + 1 - d + 1
      BY <1>1, <2>3
    <3>2. d - 1 \notin Wrong
      BY <2>2, <3>1
    <3>3. Right(n + 1 - (d - 1))
      BY <3>1, <3>2
    <3> QED
      BY <3>1, <3>3
  <2> QED
    BY <1>3, <2>3, <2>4, <2>5
<1>5. ASSUME NEW i \in 1 .. n + 1 PROVE Right(i)
  <2>1. n + 1 - i \in 0 .. n /\ n + 1 - (n + 1 - i) = i
    BY <1>1
  <2> QED
    BY <1>4, <2>1
<1> QED
  BY <1>5 DEF Right

\* For every pattern and every text matchWildcard, which goes from star to star
\* and collapses runs of them, decides exactly whether the text can be cut into
\* pieces that fit the pattern.
THEOREM MatchWildcardExact ==
    ASSUME NEW p \in Seq(Chars), NEW s \in Seq(Chars)
    PROVE  matchWildcard(p, s) = WildcardSpec(p, s)
<1> DEFINE f == CHOOSE f : Solves(p, s, f)
<1>1. Solves(p, s, f)
  BY TableExists
<1>2. 1 \in 1 .. Len(p) + 1 /\ 1 \in 1 .. Len(s) + 1
  OBVIOUS
<1>3. matchWildcard(p, s) = f[1][1]
  BY MatchReads
<1> HIDE DEF f
<1>4. f[1][1] = Fits(p, s, 1, 1)
  BY <1>1, <1>2, TableIsFits
<1>5. WildcardSpec(p, s) <=> Fits(p, s, 1, 1)
  BY FitsWhole
<1>6. WildcardSpec(p, s) \in BOOLEAN /\ Fits(p, s, 1, 1) \in BOOLEAN
  BY Zenon DEF WildcardSpec, Fits
<1> QED
  BY <1>3, <1>4, <1>5, <1>6, Zenon

-----------------------------------------------------------------------------
(* Names.                                                                  *)

\* A function on 1 .. n is a sequence of length n.
LEMMA FunctionIsSeq ==
    ASSUME NEW n \in Nat, NEW f \in [1 .. n -> Chars]
    PROVE  f \in Seq(Chars) /\ Len(f) = n
<1>1. f \in Seq(Chars)
  BY SeqDef
<1>2. DOMAIN f = 1 .. Len(f) /\ DOMAIN f = 1 .. n /\ Len(f) \in Nat
  BY <1>1, LenProperties
<1> QED
  BY <1>1, <1>2

\* Lower-casing a name keeps it one, and its length.
LEMMA ToLowerSeq ==
    ASSUME NEW s \in Seq(Chars)
    PROVE  ToLower(s) \in Seq(Chars) /\ Len(ToLower(s)) = Len(s)
<1>1. \A c \in Chars : LowerChar(c) \in Chars
  BY CharsAssumption DEF LowerChar
<1>2. DOMAIN s = 1 .. Len(s) /\ Len(s) \in Nat /\ \A i \in 1 .. Len(s) : s[i] \in Chars
  BY LenProperties, ElementOfSeq
<1>3. ToLower(s) \in [1 .. Len(s) -> Chars]
  BY <1>1, <1>2, Zenon DEF ToLower
<1> QED
  BY <1>2, <1>3, FunctionIsSeq

\* Part of a name is a name.
LEMMA SubName ==
    ASSUME NEW s \in Seq(Chars), NEW m \in 1 .. Len(s) + 1, NEW n \in 0 .. Len(s)
    PROVE  /\ SubSeq(s, m, n) \in Seq(Chars)
           /\ Len(SubSeq(s, m, n)) = IF m <= n THEN n - m + 1 ELSE 0
           /\ \A i \in 1 .. n - m + 1 : SubSeq(s, m, n)[i] = s[m + i - 1]
<1>1. m \in Int /\ n \in Int /\ \A i \in m .. n : s[i] \in Chars
  BY LenProperties, ElementOfSeq
<1> QED
  BY <1>1, SubSeqProperties

\* Without its port and its trailing dot a name is a name.
LEMMA TrimmedIsName ==
    ASSUME NEW s \in Seq(Chars)
    PROVE  ToLower(TrimDot(SplitHostPort(s))) \in Seq(Chars)
<1>1. SplitHostPort(s) \in Seq(Chars)
  <2> DEFINE colons == {i \in DOMAIN s : s[i] = ":"}
             k == CHOOSE i \in colons : TRUE
  <2>1. CASE \E i \in colons : colons = {i}
    <3>1. k \in colons
      BY <2>1
    <3>2. k \in 1 .. Len(s) /\ Len(s) \in Nat
      BY <3>1, LenProperties
    <3>3. SplitHostPort(s) = SubSeq(s, 1, k - 1)
      BY <2>1 DEF SplitHostPort
    <3> HIDE DEF k
    <3>4. 1 \in 1 .. Len(s) + 1 /\ k - 1 \in 0 .. Len(s)
      BY <3>2
    <3> QED
      BY <3>3, <3>4, SubName
  <2>2. CASE ~\E i \in colons : colons = {i}
    BY <2>2 DEF SplitHostPort
  <2> QED
    BY <2>1, <2>2
<1>2. ASSUME NEW t \in Seq(Chars) PROVE TrimDot(t) \in Seq(Chars)
  <2>1. CASE t # <<>> /\ Last(t) = "."
    <3>1. Len(t) \in Nat \ {0}
      BY <2>1, EmptySeq
    <3>2. 1 \in 1 .. Len(t) + 1 /\ Len(t) - 1 \in 0 .. Len(t)
      BY <3>1
    <3>3. TrimDot(t) = SubSeq(t, 1, Len(t) - 1)
      BY <2>1 DEF TrimDot, Front
    <3> QED
      BY <3>2, <3>3, SubName
  <2>2. CASE ~(t # <<>> /\ Last(t) = ".")
    BY <2>2 DEF TrimDot
  <2> QED
    BY <2>1, <2>2
<1>3. TrimDot(SplitHostPort(s)) \in Seq(Chars)
  BY <1>1, <1>2
<1> QED
  BY <1>3, ToLowerSeq

\* UpdateRules and the specification recognise "*.root" the same way.
LEMMA PrefixIsSub ==
    ASSUME NEW d \in Seq(Chars)
    PROVE  IsPrefix(<<"*", ".">>, d) <=> Len(d) >= 2 /\ d[1] = "*" /\ d[2] = "."
<1> DEFINE u == <<"*", ".">>
<1>1. u \in Seq(Chars) /\ Len(u) = 2 /\ u[1] = "*" /\ u[2] = "."
  BY CharsAssumption
<1>2. SubSeq(u, 1, Len(u)) = u
  BY <1>1, SubSeqFull
<1>3. Len(d) \in Nat
  BY LenProperties
<1> HIDE DEF u
<1>4. ASSUME Len(d) >= 2
      PROVE  /\ SubSeq(d, 1, 2) \in Seq(Chars) /\ Len(SubSeq(d, 1, 2)) = 2
             /\ SubSeq(d, 1, 2)[1] = d[1] /\ SubSeq(d, 1, 2)[2] = d[2]
  <2>1. 1 \in 1 .. Len(d) + 1 /\ 2 \in 0 .. Len(d)
    BY <1>3, <1>4
  <2>2. /\ SubSeq(d, 1, 2) \in Seq(Chars)
        /\ Len(SubSeq(d, 1, 2)) = IF 1 <= 2 THEN 2 - 1 + 1 ELSE 0
        /\ \A i \in 1 .. 2 - 1 + 1 : SubSeq(d, 1, 2)[i] = d[1 + i - 1]
    BY <2>1, SubName
  <2>3. Len(SubSeq(d, 1, 2)) = 2
    BY <2>2
  <2>4. \A i \in 1 .. 2 : SubSeq(d, 1, 2)[i] = d[i]
    BY <2>2
  <2>5. 1 \in 1 .. 2 /\ 2 \in 1 .. 2
    OBVIOUS
  <2> QED
    BY <2>2, <2>3, <2>4, <2>5
<1>5. ASSUME Len(d) >= 2 PROVE u = SubSeq(d, 1, 2) <=> d[1] = "*" /\ d[2] = "."
  <2>1. ASSUME d[1] = "*", d[2] = "." PROVE u = SubSeq(d, 1, 2)
    <3> DEFINE v == SubSeq(d, 1, 2)
    <3>1. v \in Seq(Chars) /\ Len(v) = 2 /\ v[1] = "*" /\ v[2] = "."
      BY <1>4, <1>5, <2>1
    <3> HIDE DEF v
    <3>2. \A i \in 1 .. 2 : i = 1 \/ i = 2
      OBVIOUS
    <3>3. \A i \in 1 .. Len(u) : u[i] = v[i]
      BY <1>1, <3>1, <3>2
    <3>4. u = v
      BY <1>1, <3>1, <3>3, SeqEqual
    <3> QED
      BY <3>4 DEF v
  <2>2. ASSUME u = SubSeq(d, 1, 2) PROVE d[1] = "*" /\ d[2] = "."
    BY <1>1, <1>4, <1>5, <2>2
  <2> QED
    BY <2>1, <2>2
<1>6. IsPrefix(u, d) <=> 2 <= Len(d) /\ u = SubSeq(d, 1, 2)
  BY <1>1, <1>2 DEF IsPrefix
<1>7. 2 <= Len(d) <=> Len(d) >= 2
  BY <1>3
<1> QED
  BY <1>5, <1>6, <1>7, Zenon DEF u

\* A suffix, position by position.
LEMMA SuffixPointwise ==
    ASSUME NEW u \in Seq(Chars), NEW t \in Seq(Chars)
    PROVE  IsSuffix(u, t)
             <=> /\ Len(u) <= Len(t)
                 /\ \A i \in 1 .. Len(u) : u[i] = t[Len(t) - Len(u) + i]
<1> DEFINE m == Len(u)  n == Len(t)  ru == Reverse(u)  rt == Reverse(t)
<1>1. /\ m \in Nat /\ n \in Nat
      /\ \A i \in 1 .. m : u[i] \in Chars
      /\ \A i \in 1 .. n : t[i] \in Chars
  BY LenProperties, ElementOfSeq
<1>2. ru \in [1 .. m -> Chars] /\ rt \in [1 .. n -> Chars]
  BY <1>1 DEF Reverse
<1>3. ru \in Seq(Chars) /\ Len(ru) = m /\ rt \in Seq(Chars) /\ Len(rt) = n
  BY <1>1, <1>2, FunctionIsSeq
<1>4. /\ \A i \in 1 .. m : ru[i] = u[(m - i) + 1]
      /\ \A i \in 1 .. n : rt[i] = t[(n - i) + 1]
  BY DEF Reverse
<1> HIDE DEF ru, rt
<1>5. SubSeq(ru, 1, Len(ru)) = ru
  BY <1>3, SubSeqFull
<1>6. IsSuffix(u, t) <=> m <= n /\ ru = SubSeq(rt, 1, m)
  BY <1>3, <1>5 DEF IsSuffix, IsPrefix, ru, rt
<1>7. ASSUME m <= n
      PROVE ru = SubSeq(rt, 1, m) <=> \A i \in 1 .. m : u[i] = t[n - m + i]
  <2> DEFINE v == SubSeq(rt, 1, m)
  <2>1. 1 \in 1 .. Len(rt) + 1 /\ m \in 0 .. Len(rt)
    BY <1>1, <1>3, <1>7
  <2>2. /\ v \in Seq(Chars)
        /\ Len(v) = IF 1 <= m THEN m - 1 + 1 ELSE 0
        /\ \A i \in 1 .. m - 1 + 1 : v[i] = rt[1 + i - 1]
    BY <1>3, <2>1, SubName
  <2>3. Len(v) = m
    BY <1>1, <2>2
  <2>4. \A i \in 1 .. m : v[i] = t[(n - i) + 1]
    BY <1>1, <1>4, <1>7, <2>2
  <2> HIDE DEF v
  <2>5. ASSUME ru = v, NEW i \in 1 .. m PROVE u[i] = t[n - m + i]
    <3>1. (m - i) + 1 \in 1 .. m /\ (m - ((m - i) + 1)) + 1 = i /\ (n - ((m - i) + 1)) + 1 = n - m + i
      BY <1>1
    <3> QED
      BY <1>4, <2>4, <2>5, <3>1
  <2>6. ASSUME \A i \in 1 .. m : u[i] = t[n - m + i] PROVE ru = v
    <3>1. ASSUME NEW i \in 1 .. m PROVE ru[i] = v[i]
      <4>1. (m - i) + 1 \in 1 .. m /\ n - m + ((m - i) + 1) = (n - i) + 1
        BY <1>1
      <4> QED
        BY <1>4, <2>4, <2>6, <4>1
    <3> QED
      BY <1>3, <2>2, <2>3, <3>1, SeqEqual
  <2> QED
    BY <2>5, <2>6 DEF v
<1> QED
  BY <1>6, <1>7, Zenon

\* A name ends in a dot and root exactly if root is what follows one of its
\* dots.
LEMMA SuffixAfterDot ==
    ASSUME NEW root \in Seq(Chars), NEW name \in Seq(Chars)
    PROVE  IsSuffix(<<".">> \o root, name)
             <=> \E i \in DOMAIN name : name[i] = "." /\ SubSeq(name, i + 1, Len(name)) = root
<1> DEFINE u == <<".">> \o root  m == Len(root)  n == Len(name)
<1>1. m \in Nat /\ n \in Nat /\ DOMAIN name = 1 .. n
  BY LenProperties
<1>2. <<".">> \in Seq(Chars) /\ Len(<<".">>) = 1 /\ <<".">>[1] = "."
  BY CharsAssumption
<1>3. /\ u \in Seq(Chars) /\ Len(u) = m + 1
      /\ \A i \in 1 .. m + 1 : u[i] = IF i <= 1 THEN <<".">>[i] ELSE root[i - 1]
  BY <1>1, <1>2, ConcatProperties
<1>4. u[1] = "." /\ \A i \in 1 .. m : u[i + 1] = root[i]
  BY <1>1, <1>2, <1>3
<1> HIDE DEF u
<1>5. IsSuffix(u, name) <=> m + 1 <= n /\ \A i \in 1 .. m + 1 : u[i] = name[n - (m + 1) + i]
  <2>1. IsSuffix(u, name)
          <=> Len(u) <= n /\ \A i \in 1 .. Len(u) : u[i] = name[n - Len(u) + i]
    BY <1>3, SuffixPointwise
  <2> QED
    BY <1>3, <2>1
<1>6. ASSUME NEW i \in 1 .. Len(name)
      PROVE  /\ SubSeq(name, i + 1, n) \in Seq(Chars)
             /\ Len(SubSeq(name, i + 1, n)) = n - i
             /\ \A k \in 1 .. n - i : SubSeq(name, i + 1, n)[k] = name[i + k]
  <2> DEFINE v == SubSeq(name, i + 1, n)
  <2>1. i + 1 \in 1 .. n + 1 /\ n \in 0 .. n
    BY <1>1
  <2>2. /\ v \in Seq(Chars)
        /\ Len(v) = IF i + 1 <= n THEN n - (i + 1) + 1 ELSE 0
        /\ \A k \in 1 .. n - (i + 1) + 1 : v[k] = name[i + 1 + k - 1]
    BY <2>1, SubName
  <2> HIDE DEF v
  <2>3. Len(v) = n - i
    <3>1. CASE i + 1 <= n
      <4>1. n - (i + 1) + 1 = n - i
        BY <1>1
      <4> QED
        BY <2>2, <3>1, <4>1
    <3>2. CASE ~(i + 1 <= n)
      <4>1. n \in Int /\ i \in Int /\ i <= n
        BY <1>1
      <4>2. n - i = 0
        BY <3>2, <4>1
      <4> QED
        BY <2>2, <3>2, <4>2
    <3> QED
      BY <3>1, <3>2
  <2>4. ASSUME NEW k \in 1 .. n - i PROVE v[k] = name[i + k]
    <3>1. k \in 1 .. n - (i + 1) + 1 /\ i + 1 + k - 1 = i + k
      BY <1>1
    <3> QED
      BY <2>2, <3>1
  <2> QED
    BY <2>2, <2>3, <2>4 DEF v
<1>7. ASSUME NEW i \in 1 .. n, name[i] = ".", SubSeq(name, i + 1, n) = root
      PROVE  m + 1 <= n /\ \A k \in 1 .. m + 1 : u[k] = name[n - (m + 1) + k]
  <2>1. m = n - i /\ \A k \in 1 .. m : root[k] = name[i + k]
    BY <1>6, <1>7
  <2>2. m + 1 <= n /\ n - (m + 1) + 1 = i
    BY <1>1, <2>1
  <2>3. ASSUME NEW k \in 1 .. m + 1, k # 1 PROVE u[k] = name[n - (m + 1) + k]
    <3>1. k - 1 \in 1 .. m /\ i + (k - 1) = n - (m + 1) + k /\ (k - 1) + 1 = k
      BY <1>1, <2>2, <2>3
    <3> QED
      BY <1>4, <2>1, <3>1
  <2> QED
    BY <1>4, <1>7, <2>2, <2>3
<1>8. ASSUME m + 1 <= n, \A k \in 1 .. m + 1 : u[k] = name[n - (m + 1) + k]
      PROVE  \E i \in 1 .. n : name[i] = "." /\ SubSeq(name, i + 1, n) = root
  <2> DEFINE i == n - m
  <2>1. i \in 1 .. n /\ n - i = m
    BY <1>1, <1>8
  <2>2. name[i] = "."
    <3>1. 1 \in 1 .. m + 1 /\ n - (m + 1) + 1 = i
      BY <1>1
    <3> QED
      BY <1>4, <1>8, <3>1
  <2>3. ASSUME NEW k \in 1 .. m PROVE name[i + k] = root[k]
    <3>1. k + 1 \in 1 .. m + 1 /\ n - (m + 1) + (k + 1) = i + k
      BY <1>1
    <3> QED
      BY <1>4, <1>8, <3>1
  <2> HIDE DEF i
  <2> DEFINE v == SubSeq(name, i + 1, n)
  <2>4. v \in Seq(Chars) /\ Len(v) = m /\ \A k \in 1 .. m : v[k] = name[i + k]
    BY <1>6, <2>1
  <2> HIDE DEF v
  <2>5. v = root
    BY <2>3, <2>4, SeqEqual
  <2> QED
    BY <2>1, <2>2, <2>5 DEF v
<1>9. IsSuffix(u, name) <=> \E i \in 1 .. n : name[i] = "." /\ SubSeq(name, i + 1, n) = root
  BY <1>5, <1>7, <1>8, Zenon
<1> QED
  BY <1>1, <1>9, Zenon DEF u

-----------------------------------------------------------------------------
(* From the lists of the configuration to the decision.                    *)

\* The kinds of domain rule UpdateRules tells apart.
IsSubRule(d) == Len(d) >= 2 /\ d[1] = "*" /\ d[2] = "."
HasStar(d) == \E i \in DOMAIN d : d[i] = "*"
RuleSet(domains) == {ToLower(d) : d \in domains} \ {<<>>}
RootOf(d) == IF IsSubRule(d) THEN SubSeq(d, 3, Len(d)) ELSE d
RootRules(domains) == {d \in RuleSet(domains) : IsSubRule(d) \/ ~HasStar(d)}

\* A name is below a root, or is the root.
Under(root, name) ==
    \/ name = root
    \/ \E i \in DOMAIN name : name[i] = "." /\ SubSeq(name, i + 1, Len(name)) = root

\* What one rule covers, in terms of the kinds of rule.
LEMMA RuleCovers ==
    ASSUME NEW d \in Seq(Chars), NEW name \in Seq(Chars), d # <<>>
    PROVE  CoversName(d, name)
             <=> \/ (IsSubRule(d) \/ ~HasStar(d)) /\ Under(RootOf(d), name)
                 \/ HasStar(d) /\ ~IsSubRule(d) /\ matchWildcard(d, name)
<1> DEFINE Covers(root) == name = root \/ IsSuffix(<<".">> \o root, name)
<1>1. ASSUME NEW root \in Seq(Chars) PROVE Covers(root) <=> Under(root, name)
  BY SuffixAfterDot, Zenon DEF Under
<1>2. RootOf(d) \in Seq(Chars)
  <2>1. CASE IsSubRule(d)
    <3>1. 3 \in 1 .. Len(d) + 1 /\ Len(d) \in 0 .. Len(d)
      BY <2>1, LenProperties DEF IsSubRule
    <3>2. SubSeq(d, 3, Len(d)) \in Seq(Chars)
      BY <3>1, SubName
    <3> QED
      BY <2>1, <3>2 DEF RootOf
  <2>2. CASE ~IsSubRule(d)
    BY <2>2 DEF RootOf
  <2> QED
    BY <2>1, <2>2
<1>3. Covers(RootOf(d)) <=> Under(RootOf(d), name)
  BY <1>1, <1>2
<1>4. IsPrefix(<<"*", ".">>, d) <=> IsSubRule(d)
  BY PrefixIsSub, Zenon DEF IsSubRule
<1>5. matchWildcard(d, name) = WildcardSpec(d, name)
  BY MatchWildcardExact
<1>6. CASE IsSubRule(d)
  <2>1. CoversName(d, name) <=> Covers(SubSeq(d, 3, Len(d)))
    BY <1>4, <1>6, Zenon DEF CoversName
  <2>2. RootOf(d) = SubSeq(d, 3, Len(d))
    BY <1>6, Zenon DEF RootOf
  <2> HIDE DEF Covers
  <2> QED
    BY <1>3, <1>6, <2>1, <2>2, Zenon
<1>7. CASE ~IsSubRule(d) /\ HasStar(d)
  <2>1. CoversName(d, name) <=> WildcardSpec(d, name)
    BY <1>4, <1>7, Zenon DEF CoversName, HasStar
  <2> QED
    BY <1>5, <1>7, <2>1, Zenon
<1>8. CASE ~IsSubRule(d) /\ ~HasStar(d)
  <2>1. CoversName(d, name) <=> Covers(d)
    BY <1>4, <1>8, Zenon DEF CoversName, HasStar
  <2>2. RootOf(d) = d
    BY <1>8, Zenon DEF RootOf
  <2> HIDE DEF Covers
  <2> QED
    BY <1>3, <1>8, <2>1, <2>2, Zenon
<1> QED
  BY <1>6, <1>7, <1>8, Zenon

\* The three lookups of match find a name exactly if a rule covers it.
LEMMA NamesListed ==
    ASSUME NEW mode, NEW domains \in SUBSET Seq(Chars), NEW ips, NEW name \in Seq(Chars)
    PROVE  LET rs == UpdateRules(mode, domains, ips)
           IN  (\/ name \in rs.exactDomains
                \/ \E i \in DOMAIN name :
                     name[i] = "." /\ SubSeq(name, i + 1, Len(name)) \in rs.suffixRoots
                \/ \E p \in rs.wildcardPatterns : matchWildcard(p, name))
                 <=> \E d \in domains : CoversName(ToLower(d), name)
<1> DEFINE rs == UpdateRules(mode, domains, ips)
<1>1. /\ rs.exactDomains = {RootOf(d) : d \in RootRules(domains)}
      /\ rs.suffixRoots = {RootOf(d) : d \in RootRules(domains)}
      /\ rs.wildcardPatterns = {d \in RuleSet(domains) : HasStar(d) /\ ~IsSubRule(d)}
  BY DEF UpdateRules, RootOf, RootRules, RuleSet, IsSubRule, HasStar
<1> HIDE DEF rs
<1>2. ASSUME NEW d \in RuleSet(domains) PROVE d \in Seq(Chars) /\ d # <<>>
  <2>1. PICK e \in domains : d = ToLower(e)
    BY DEF RuleSet
  <2> QED
    BY <2>1, ToLowerSeq DEF RuleSet
<1>3. (\E d \in domains : CoversName(ToLower(d), name))
        <=> \E d \in RuleSet(domains) : CoversName(d, name)
  <2>1. \A d \in domains : CoversName(ToLower(d), name) => ToLower(d) # <<>>
    BY Zenon DEF CoversName
  <2> QED
    BY <2>1, Zenon DEF RuleSet
<1>4. \A d \in RuleSet(domains) :
        CoversName(d, name)
          <=> \/ (IsSubRule(d) \/ ~HasStar(d)) /\ Under(RootOf(d), name)
              \/ HasStar(d) /\ ~IsSubRule(d) /\ matchWildcard(d, name)
  BY <1>2, RuleCovers
<1>5. (\/ name \in rs.exactDomains
       \/ \E i \in DOMAIN name :
            name[i] = "." /\ SubSeq(name, i + 1, Len(name)) \in rs.suffixRoots)
        <=> \E d \in RootRules(domains) : Under(RootOf(d), name)
  BY <1>1, Zenon DEF Under
<1>6. (\E p \in rs.wildcardPatterns : matchWildcard(p, name))
        <=> \E d \in RuleSet(domains) : HasStar(d) /\ ~IsSubRule(d) /\ matchWildcard(d, name)
  BY <1>1, Zenon
<1>7. (\E d \in RootRules(domains) : Under(RootOf(d), name))
        <=> \E d \in RuleSet(domains) : (IsSubRule(d) \/ ~HasStar(d)) /\ Under(RootOf(d), name)
  BY Zenon DEF RootRules
<1> DEFINE A == name \in rs.exactDomains
           B == \E i \in DOMAIN name :
                  name[i] = "." /\ SubSeq(name, i + 1, Len(name)) \in rs.suffixRoots
           C == \E p \in rs.wildcardPatterns : matchWildcard(p, name)
<1>8. (A \/ B \/ C) <=> \E d \in domains : CoversName(ToLower(d), name)
  <2>1. (A \/ B) <=> \E d \in RuleSet(domains) : (IsSubRule(d) \/ ~HasStar(d)) /\ Under(RootOf(d), name)
    BY <1>5, <1>7, Zenon
  <2>2. C <=> \E d \in RuleSet(domains) : HasStar(d) /\ ~IsSubRule(d) /\ matchWildcard(d, name)
    BY <1>6, Zenon
  <2> HIDE DEF A, B, C
  <2> QED
    BY <1>3, <1>4, <2>1, <2>2, Zenon
<1> QED
  BY <1>8, Zenon DEF rs

\* A number is in one block of a given size, the one its quotient numbers.
LEMMA BlockOf ==
    ASSUME NEW a \in Nat, NEW size \in Nat, size > 0
    PROVE  /\ a \div size \in Nat /\ a \div size <= a
           /\ \A k \in Nat : a \in k * size .. k * size + size - 1 <=> a \div size = k
<1>1. /\ a \div size \in Nat /\ a \div size <= a
      /\ (a \div size) * size <= a /\ a <= (a \div size) * size + size - 1
  OBVIOUS
<1>2. ASSUME NEW x \in Nat, NEW y \in Nat, x < y PROVE x * size + size <= y * size
  <2>1. y = x + 1 + (y - x - 1) /\ y - x - 1 \in Nat
    BY <1>2
  <2>2. PICK z \in Nat : y = x + 1 + z
    BY <2>1
  <2>3. (x + 1 + z) * size = x * size + size + z * size
    OBVIOUS
  <2>4. z * size \in Nat
    OBVIOUS
  <2> QED
    BY <2>2, <2>3, <2>4
<1>3. ASSUME NEW k \in Nat, a \in k * size .. k * size + size - 1 PROVE a \div size = k
  <2>1. PICK j \in Nat : j = a \div size
    BY <1>1
  <2>2. j * size <= a /\ a <= j * size + size - 1
    BY <1>1, <2>1
  <2>3. j < k => j * size + size <= k * size
    BY <1>2
  <2>4. k < j => k * size + size <= j * size
    BY <1>2
  <2>5. k * size <= a /\ a <= k * size + size - 1 /\ k * size \in Nat /\ j * size \in Nat
    BY <1>3
  <2> QED
    BY <2>1, <2>2, <2>3, <2>4, <2>5
<1>4. ASSUME NEW k \in Nat, a \div size = k PROVE a \in k * size .. k * size + size - 1
  <2>1. k * size <= a /\ a <= k * size + size - 1 /\ k * size \in Nat
    BY <1>1, <1>4
  <2> QED
    BY <2>1
<1> QED
  BY <1>1, <1>3, <1>4

\* A rule covers an address exactly if the two have the same quotient.
LEMMA BlockCovers ==
    ASSUME NEW r, r.base \in Addresses, r.bits \in 0 .. AddrBits, NEW ip \in Addresses
    PROVE  CoversIP(r, ip) <=> CIDRContains(r, ip)
<1>1. AddrBits - r.bits \in 0 .. AddrBits /\ r.bits >= 0
  BY AddrBitsAssumption
<1>2. PICK size \in Nat : size = 2^(AddrBits - r.bits) /\ size > 0
  BY <1>1, AddrBitsAssumption
<1>3. PICK top \in Nat : Addresses = 0 .. top - 1
  <2>1. AddrBits \in 0 .. AddrBits
    BY AddrBitsAssumption
  <2>2. 2^AddrBits \in Nat
    BY <2>1, AddrBitsAssumption
  <2> QED
    BY <2>2 DEF Addresses
<1>4. PICK base \in Nat : base = r.base
  BY <1>3
<1>5. CoversIP(r, ip)
        <=> \E k \in Addresses : /\ base \in k * size .. k * size + size - 1
                                 /\ ip \in k * size .. k * size + size - 1
  BY <1>1, <1>2, <1>4, Zenon DEF CoversIP
<1>6. CIDRContains(r, ip) <=> ip \div size = base \div size
  BY <1>2, <1>4, Zenon DEF CIDRContains
<1>7. ip \in Nat /\ base \in Addresses /\ Addresses \subseteq Nat
  BY <1>3, <1>4
<1>8. /\ \A k \in Nat : base \in k * size .. k * size + size - 1 <=> base \div size = k
      /\ \A k \in Nat : ip \in k * size .. k * size + size - 1 <=> ip \div size = k
      /\ base \div size \in Nat /\ base \div size <= base
  BY <1>2, <1>7, BlockOf
<1>9. base \div size \in Addresses
  <2>1. PICK q \in Nat : q = base \div size
    BY <1>8
  <2>2. q <= base
    BY <1>8, <2>1
  <2>3. q \in Addresses
    BY <1>3, <1>7, <2>2
  <2> QED
    BY <2>1, <2>3
<1> QED
  BY <1>5, <1>6, <1>7, <1>8, <1>9, Zenon

\* The addresses and the CIDRs contain an address exactly if a rule covers it.
LEMMA AddressesListed ==
    ASSUME NEW mode, NEW domains, NEW ip \in Addresses,
           NEW ips, \A r \in ips : r.base \in Addresses /\ r.bits \in -1 .. AddrBits
    PROVE  LET rs == UpdateRules(mode, domains, ips)
           IN  (ip \in rs.ips \/ \E c \in rs.cidrs : CIDRContains(c, ip))
                 <=> \E r \in ips : CoversIP(r, ip)
<1> DEFINE rs == UpdateRules(mode, domains, ips)
<1>1. /\ rs.ips = {r.base : r \in {q \in ips : q.bits = AddrBits}}
      /\ rs.cidrs = {r \in ips : r.bits \in 0 .. AddrBits - 1}
  BY DEF UpdateRules, RootOf, RootRules, RuleSet, IsSubRule, HasStar
<1> HIDE DEF rs
<1>2. ASSUME NEW r \in ips PROVE \/ r.bits = -1 \/ r.bits = AddrBits \/ r.bits \in 0 .. AddrBits - 1
  BY AddrBitsAssumption
<1>3. ASSUME NEW r \in ips, r.bits = -1 PROVE ~CoversIP(r, ip)
  <2>1. ~(r.bits >= 0)
    BY <1>3
  <2> QED
    BY <2>1, Zenon DEF CoversIP
<1>4. ASSUME NEW r \in ips, r.bits = AddrBits PROVE CoversIP(r, ip) <=> ip = r.base
  <2>1. r.bits \in 0 .. AddrBits /\ AddrBits - r.bits = 0
    BY <1>4, AddrBitsAssumption
  <2>2. 2^(AddrBits - r.bits) = 1
    <3>1. 2^0 = 1
      OBVIOUS
    <3> QED
      BY <2>1, <3>1, Zenon
  <2>3. CIDRContains(r, ip) <=> ip \div 1 = r.base \div 1
    BY <2>2, Zenon DEF CIDRContains
  <2>4. CoversIP(r, ip) <=> CIDRContains(r, ip)
    BY <2>1, BlockCovers
  <2>5. ip \in Nat /\ r.base \in Nat
    <3>1. AddrBits \in 0 .. AddrBits
      BY AddrBitsAssumption
    <3>2. 2^AddrBits \in Nat
      BY <3>1, AddrBitsAssumption
    <3> QED
      BY <3>2 DEF Addresses
  <2>6. \A a \in Nat : a \div 1 = a
    OBVIOUS
  <2> QED
    BY <2>3, <2>4, <2>5, <2>6, Zenon
<1>5. ASSUME NEW r \in ips, r.bits \in 0 .. AddrBits - 1 PROVE CoversIP(r, ip) <=> CIDRContains(r, ip)
  <2>1. r.bits \in 0 .. AddrBits
    BY <1>5, AddrBitsAssumption
  <2> QED
    BY <2>1, BlockCovers
<1>6. ip \in rs.ips <=> \E r \in ips : r.bits = AddrBits /\ ip = r.base
  BY <1>1, Zenon
<1>7. (\E c \in rs.cidrs : CIDRContains(c, ip))
        <=> \E r \in ips : r.bits \in 0 .. AddrBits - 1 /\ CIDRContains(r, ip)
  BY <1>1, Zenon
<1>8. (ip \in rs.ips \/ \E c \in rs.cidrs : CIDRContains(c, ip)) <=> \E r \in ips : CoversIP(r, ip)
  BY <1>2, <1>3, <1>4, <1>5, <1>6, <1>7, Zenon
<1> QED
  BY <1>8, Zenon DEF rs

-----------------------------------------------------------------------------
(* Hot reload of the configuration.                                        *)

(* What a configuration is once loadFile has filled in its defaults.       *)
Loadable == {Normalise(c) : c \in Configs}

\* An engine has taken the configuration the manager hands out.  The log file
\* named on the command line stays.
UpToDate(e) == applied[e] = currentCfg \/ (e = "log" /\ opts.log)

\* All engines have, and what main computes from the configuration agrees.
AllUpToDate ==
    /\ \A e \in Range(Engines) : UpToDate(e)
    /\ rules = RulesOf(currentCfg)

\* The callback is on its way: the engines before the next one have.
FirstUpToDate ==
    /\ loaded = currentCfg /\ ~skipped /\ loads > 0
    /\ \A i \in DOMAIN Engines : i < next => UpToDate(Engines[i])
    /\ next > 1 => rules = RulesOf(currentCfg)
    /\ \A i \in DOMAIN Engines : i < next => taken[Engines[i]] = loads

\* The engines took their configurations in the order of the callback, the
\* earlier ones from the same reload as the later ones or from a younger one.
TakenInOrder ==
    /\ \A e \in Range(Engines) : taken[e] <= loads
    /\ \A i, j \in DOMAIN Engines : i < j => taken[Engines[j]] <= taken[Engines[i]]

ReloadInv ==
    /\ ConfigTypeOK
    /\ opts \in Options
    /\ TakenInOrder
    /\ watcher = "apply" => FirstUpToDate
    /\ watcher # "apply" /\ ~skipped => AllUpToDate

\* The engines, by position.
LEMMA EngineFacts ==
    /\ DOMAIN Engines = 1 .. 7 /\ Len(Engines) = 7
    /\ Range(Engines) = {"filter", "pac", "dns", "dnsServers", "dryRun", "udp", "log"}
    /\ \A i \in 1 .. 7 : Engines[i] \in Range(Engines)
    /\ \A i \in 1 .. 7 : /\ Engines[i] = "filter" <=> i = 1
                         /\ Engines[i] = "dryRun" <=> i = 5
                         /\ Engines[i] = "log" <=> i = 7
    /\ \A i, j \in 1 .. 7 : Engines[i] = Engines[j] => i = j
<1>1. DOMAIN Engines = 1 .. 7 /\ Len(Engines) = 7
  BY DEF Engines
<1>2. /\ Engines[1] = "filter" /\ Engines[2] = "pac" /\ Engines[3] = "dns"
      /\ Engines[4] = "dnsServers" /\ Engines[5] = "dryRun" /\ Engines[6] = "udp"
      /\ Engines[7] = "log"
  BY DEF Engines
<1>3. \A i \in 1 .. 7 : i = 1 \/ i = 2 \/ i = 3 \/ i = 4 \/ i = 5 \/ i = 6 \/ i = 7
  OBVIOUS
<1>4. \A i, j \in 1 .. 7 : Engines[i] = Engines[j] => i = j
  BY <1>2, <1>3
<1>5. Range(Engines) = {Engines[i] : i \in 1 .. 7}
  BY <1>1 DEF Range
<1>6. Range(Engines) = {"filter", "pac", "dns", "dnsServers", "dryRun", "udp", "log"}
  <2> DEFINE R == {Engines[i] : i \in 1 .. 7}
  <2>1. ASSUME NEW e \in R PROVE e \in {"filter", "pac", "dns", "dnsServers", "dryRun", "udp", "log"}
    BY <1>2, <1>3
  <2>2. 1 \in 1 .. 7 /\ 2 \in 1 .. 7 /\ 3 \in 1 .. 7 /\ 4 \in 1 .. 7 /\ 5 \in 1 .. 7 /\ 6 \in 1 .. 7 /\ 7 \in 1 .. 7
    OBVIOUS
  <2>3. "filter" \in R /\ "pac" \in R /\ "dns" \in R /\ "dnsServers" \in R /\ "dryRun" \in R
        /\ "udp" \in R /\ "log" \in R
    BY <1>2, <2>2, Zenon
  <2> QED
    BY <1>5, <2>1, <2>3, Zenon
<1>7. \A i \in 1 .. 7 : Engines[i] \in Range(Engines)
  BY <1>5
<1>8. \A i \in 1 .. 7 : /\ Engines[i] = "filter" <=> i = 1
                        /\ Engines[i] = "dryRun" <=> i = 5
                        /\ Engines[i] = "log" <=> i = 7
  BY <1>2, <1>3
<1> QED
  BY <1>1, <1>4, <1>6, <1>7, <1>8

\* A configuration keeps the dry-run flag when the defaults are filled in.
LEMMA LoadableFacts == \A c \in Loadable : c.DryRun \in BOOLEAN
<1> SUFFICES ASSUME NEW d \in Configs PROVE Normalise(d).DryRun \in BOOLEAN
  BY DEF Loadable
<1>1. Normalise(d).DryRun = d.DryRun
  BY ConfigsAssumption DEF Normalise
<1> QED
  BY <1>1, ConfigsAssumption

\* At the start every engine is built from the first configuration.
LEMMA ReloadInvInit == ConfigInit => ReloadInv
<1> SUFFICES ASSUME ConfigInit PROVE ReloadInv
  OBVIOUS
<1> USE DEF ConfigInit
<1>1. PICK c \in Configs : /\ file = [content |-> c, mtime |-> 1]
                           /\ currentCfg = Normalise(c)
                           /\ loaded = currentCfg
                           /\ StartEngines(currentCfg)
  OBVIOUS
<1>2. currentCfg \in Loadable /\ loaded \in Loadable
  BY <1>1 DEF Loadable
<1>3. opts \in Options /\ rules = RulesOf(currentCfg)
      /\ applied = [e \in Range(Engines) |-> currentCfg]
      /\ dryRun = (opts.isDryRun \/ currentCfg.DryRun)
  BY <1>1 DEF StartEngines
<1>4. opts.isDryRun \in BOOLEAN /\ currentCfg.DryRun \in BOOLEAN
  BY <1>2, <1>3, LoadableFacts, ConfigsAssumption
<1>5. dryRun \in BOOLEAN /\ stopping \in BOOLEAN /\ skipped \in BOOLEAN
  BY <1>3, <1>4, Zenon
<1>6. {dryRun, stopping, skipped} \subseteq BOOLEAN
  BY <1>5, Zenon
<1>7. DOMAIN applied = Range(Engines) /\ taken \in [Range(Engines) -> Nat]
      /\ \A e \in Range(Engines) : taken[e] = 0
  BY <1>1, <1>3 DEF StartEngines
<1>8. file \in [content : Configs \cup {Partial, Missing}, mtime : 0 .. MaxClock]
  BY <1>1, BoundsAssumption
<1>9. next \in DOMAIN Engines
  BY EngineFacts
<1>10. ConfigTypeOK
  BY <1>2, <1>6, <1>7, <1>8, <1>9, BoundsAssumption DEF ConfigTypeOK, Loadable
<1>11. \A e \in Range(Engines) : UpToDate(e)
  BY <1>3 DEF UpToDate
<1>12. TakenInOrder
  BY <1>7, EngineFacts DEF TakenInOrder
<1> QED
  BY <1>3, <1>10, <1>11, <1>12 DEF ReloadInv, AllUpToDate

\* Changes of the file, and Stop, leave the watcher and the engines alone.
LEMMA OutsideType ==
    ASSUME ConfigTypeOK,
           \/ Tick \/ BeginWrite \/ RemoveFile \/ Stop
           \/ \E c \in Configs : EndWrite(c)
           \/ \E c \in Configs, t \in 1 .. clock : Install(c, t)
    PROVE  ConfigTypeOK' /\ UNCHANGED <<watchVars, engineVars, opts>>
<1> USE BoundsAssumption
<1>0. file \in [content : Configs \cup {Partial, Missing}, mtime : 0 .. MaxClock]
      /\ clock \in 1 .. MaxClock /\ stamps \in 0 .. MaxStamps /\ newest \in 0 .. MaxClock
  BY DEF ConfigTypeOK
<1>1. UNCHANGED <<watchVars, engineVars, opts>>
  BY Zenon DEF Tick, BeginWrite, RemoveFile, Stop, EndWrite, Install, Replace
<1>2. stopping' = stopping \/ stopping' = TRUE
  BY Zenon DEF Tick, BeginWrite, RemoveFile, Stop, EndWrite, Install, Replace
<1>3. file' \in [content : Configs \cup {Partial, Missing}, mtime : 0 .. MaxClock]
      /\ clock' \in 1 .. MaxClock /\ stamps' \in 0 .. MaxStamps /\ newest' \in 0 .. MaxClock
  <2>1. CASE Tick
    BY <1>0, <2>1 DEF Tick
  <2>2. CASE BeginWrite
    BY <1>0, <2>2 DEF BeginWrite, Replace, Later
  <2>3. CASE RemoveFile
    BY <1>0, <2>3 DEF RemoveFile, Replace, Later
  <2>4. CASE Stop
    BY <1>0, <2>4 DEF Stop, fileVars
  <2>5. CASE \E c \in Configs : EndWrite(c)
    BY <1>0, <2>5 DEF EndWrite, Replace
  <2>6. CASE \E c \in Configs, t \in 1 .. clock : Install(c, t)
    BY <1>0, <2>6 DEF Install, Replace, Later
  <2> QED
    BY <2>1, <2>2, <2>3, <2>4, <2>5, <2>6
<1>4. dryRun \in BOOLEAN /\ stopping \in BOOLEAN /\ skipped \in BOOLEAN
  BY Zenon DEF ConfigTypeOK
<1>5. {dryRun', stopping', skipped'} \subseteq BOOLEAN
  BY <1>1, <1>2, <1>4, Zenon DEF engineVars
<1>6. ConfigTypeOK'
  BY <1>1, <1>3, <1>5 DEF ConfigTypeOK, watchVars, engineVars
<1> QED
  BY <1>1, <1>6

\* Looking at the file, and the watcher's end, leave the engines alone.
LEMMA LookingType ==
    ASSUME ConfigTypeOK, Poll \/ LoadStat \/ LoadRead \/ WatcherStops
    PROVE  /\ ConfigTypeOK'
           /\ UNCHANGED <<currentCfg, lastMod, next, loads, engineVars, opts>>
           /\ watcher # "apply" /\ watcher' # "apply"
<1>1. UNCHANGED <<currentCfg, lastMod, next, loads, engineVars, opts, stopping, fileVars>>
  BY Zenon DEF Poll, LoadStat, LoadRead, WatcherStops, KeepWatch
<1>2. watcher \in {"wait", "stat", "read"}
  BY Zenon DEF Poll, LoadStat, LoadRead, WatcherStops
<1>3. watcher' \in {"wait", "stat", "read", "publish", "stopped"}
  BY Zenon DEF Poll, LoadStat, LoadRead, WatcherStops
<1>4. statMod' \in 0 .. MaxClock
  <2>1. statMod' = statMod \/ statMod' = file.mtime \/ statMod' = lastMod
    BY Zenon DEF Poll, LoadStat, LoadRead, WatcherStops
  <2> QED
    BY <2>1 DEF ConfigTypeOK
<1>5. loaded' \in Loadable
  <2>1. loaded' = loaded \/ (file.content \notin {Partial, Missing} /\ loaded' = Normalise(file.content))
    BY Zenon DEF Poll, LoadStat, LoadRead, WatcherStops
  <2>2. file.content \notin {Partial, Missing} => file.content \in Configs
    BY DEF ConfigTypeOK
  <2>3. loaded \in Loadable
    BY DEF ConfigTypeOK, Loadable
  <2> QED
    BY <2>1, <2>2, <2>3, Zenon DEF Loadable
<1>6. ConfigTypeOK'
  <2>1. dryRun \in BOOLEAN /\ stopping \in BOOLEAN /\ skipped \in BOOLEAN
    BY Zenon DEF ConfigTypeOK
  <2>2. {dryRun', stopping', skipped'} \subseteq BOOLEAN
    BY <1>1, <2>1, Zenon DEF engineVars
  <2> QED
    BY <1>1, <1>3, <1>4, <1>5, <2>2 DEF ConfigTypeOK, Loadable, engineVars, fileVars
<1> QED
  BY <1>1, <1>2, <1>3, <1>6

\* The invariant depends on these variables only.
LEMMA ReloadInvFrame ==
    ASSUME ReloadInv, ConfigTypeOK', UNCHANGED <<currentCfg, loads, engineVars, opts>>,
           \/ UNCHANGED <<watcher, loaded, next>>
           \/ watcher # "apply" /\ watcher' # "apply"
    PROVE  ReloadInv'
<1>1. UNCHANGED <<currentCfg, loads, rules, applied, taken, dryRun, skipped, opts>>
  BY DEF engineVars
<1>2. opts' \in Options /\ TakenInOrder'
  BY <1>1 DEF ReloadInv, TakenInOrder
<1>3. \A e : UpToDate(e) <=> UpToDate(e)'
  BY <1>1 DEF UpToDate
<1>4. AllUpToDate <=> AllUpToDate'
  BY <1>1, <1>3 DEF AllUpToDate
<1>5. UNCHANGED <<watcher, loaded, next>> => (FirstUpToDate <=> FirstUpToDate')
  BY <1>1, <1>3 DEF FirstUpToDate
<1> QED
  BY <1>1, <1>2, <1>4, <1>5, Zenon DEF ReloadInv

\* The manager publishes what it loaded; the callback starts.
LEMMA ReloadInvPublish == ReloadInv /\ Publish => ReloadInv'
<1> SUFFICES ASSUME ReloadInv, Publish PROVE ReloadInv'
  OBVIOUS
<1> USE DEF Publish
<1>1. UNCHANGED <<statMod, loaded, fileVars, rules, applied, taken, dryRun, opts, stopping>>
  OBVIOUS
<1>2. {dryRun', stopping', skipped'} \subseteq BOOLEAN
  <2>1. dryRun \in BOOLEAN /\ stopping \in BOOLEAN
    BY Zenon DEF ConfigTypeOK, ReloadInv
  <2>2. dryRun' = dryRun /\ stopping' = stopping /\ skipped' = FALSE
    OBVIOUS
  <2> QED
    BY <2>1, <2>2, Zenon
<1>3. ConfigTypeOK'
  BY <1>1, <1>2, EngineFacts DEF ConfigTypeOK, ReloadInv, fileVars
<1>4. FirstUpToDate'
  BY EngineFacts DEF FirstUpToDate, ReloadInv, ConfigTypeOK
<1>5. opts' \in Options /\ watcher' = "apply"
  BY DEF ReloadInv
<1>6. TakenInOrder'
  <2>1. taken' = taken /\ loads' = loads + 1 /\ loads \in Nat /\ taken \in [Range(Engines) -> Nat]
    BY DEF ReloadInv, ConfigTypeOK
  <2>2. TakenInOrder
    BY DEF ReloadInv
  <2> QED
    BY <2>1, <2>2 DEF TakenInOrder
<1> QED
  BY <1>3, <1>4, <1>5, <1>6, Zenon DEF ReloadInv

\* A panic in the callback ends it early, and is remembered.
LEMMA ReloadInvPanic == ReloadInv /\ CallbackPanics => ReloadInv'
<1> SUFFICES ASSUME ReloadInv, CallbackPanics PROVE ReloadInv'
  OBVIOUS
<1> USE DEF CallbackPanics
<1>2. {dryRun', stopping', skipped'} \subseteq BOOLEAN
  <2>1. dryRun \in BOOLEAN /\ stopping \in BOOLEAN
    BY Zenon DEF ConfigTypeOK, ReloadInv
  <2>2. dryRun' = dryRun /\ stopping' = stopping /\ skipped' = TRUE
    OBVIOUS
  <2> QED
    BY <2>1, <2>2, Zenon
<1>3. ConfigTypeOK'
  BY <1>2, EngineFacts DEF ConfigTypeOK, ReloadInv, fileVars
<1>4. TakenInOrder'
  BY DEF ReloadInv, TakenInOrder
<1> QED
  BY <1>3, <1>4 DEF ReloadInv

\* One engine after the other takes the configuration; after the last one
\* all of them have it.
LEMMA ReloadInvApply == ReloadInv /\ Apply => ReloadInv'
<1> SUFFICES ASSUME ReloadInv, Apply PROVE ReloadInv'
  OBVIOUS
<1> DEFINE e == Engines[next]
<1>1. /\ watcher = "apply"
      /\ applied' = IF e = "log" /\ opts.log THEN applied ELSE [applied EXCEPT ![e] = loaded]
      /\ taken' = IF e = "log" /\ opts.log THEN taken ELSE [taken EXCEPT ![e] = loads]
      /\ rules' = IF e = "filter" THEN RulesOf(loaded) ELSE rules
      /\ dryRun' = IF e = "dryRun" THEN loaded.DryRun ELSE dryRun
      /\ Advance
      /\ UNCHANGED <<currentCfg, lastMod, statMod, loaded, loads, fileVars, opts, stopping, skipped>>
  BY DEF Apply
<1>2. FirstUpToDate /\ ConfigTypeOK /\ opts \in Options
  BY <1>1 DEF ReloadInv
<1>3. loaded = currentCfg /\ loaded' = currentCfg' /\ currentCfg' = currentCfg /\ ~skipped' /\ loads > 0
      /\ loads' = loads /\ opts' = opts
  BY <1>1, <1>2 DEF FirstUpToDate
<1>4. next \in 1 .. 7 /\ e \in Range(Engines) /\ DOMAIN applied = Range(Engines)
  BY <1>2, EngineFacts DEF ConfigTypeOK
<1>5. /\ next = 7 => watcher' = "wait" /\ next' = 1
      /\ next # 7 => watcher' = "apply" /\ next' = next + 1
  BY <1>1, EngineFacts DEF Advance
<1>6. DOMAIN applied' = Range(Engines)
  BY <1>1, <1>4
<1>7. ASSUME NEW x \in Range(Engines), x # e PROVE applied'[x] = applied[x]
  BY <1>1, <1>4, <1>7
<1>8. applied'[e] = currentCfg \/ (e = "log" /\ opts.log)
  BY <1>1, <1>3, <1>4
<1>9. \A i \in 1 .. 7 : i <= next => UpToDate(Engines[i])'
  <2> TAKE i \in 1 .. 7
  <2> HAVE i <= next
  <2>1. CASE i = next
    BY <1>3, <1>8, <2>1 DEF UpToDate
  <2>2. CASE i # next
    <3>1. UpToDate(Engines[i]) /\ Engines[i] \in Range(Engines) /\ Engines[i] # e
      BY <1>2, <1>4, <2>2, EngineFacts DEF FirstUpToDate
    <3> QED
      BY <1>3, <1>7, <3>1 DEF UpToDate
  <2> QED
    BY <2>1, <2>2
<1>10. next >= 1 => rules' = RulesOf(currentCfg')
  BY <1>1, <1>2, <1>3, <1>4, EngineFacts DEF FirstUpToDate
<1>11. /\ taken' \in [Range(Engines) -> Nat] /\ TakenInOrder'
       /\ next # 7 => \A i \in 1 .. 7 : i <= next => taken'[Engines[i]] = loads'
  <2>1. /\ taken \in [Range(Engines) -> Nat] /\ loads \in Nat /\ TakenInOrder
        /\ \A i \in 1 .. 7 : i < next => taken[Engines[i]] = loads
    BY <1>2, EngineFacts DEF ConfigTypeOK, FirstUpToDate, ReloadInv
  <2>2. CASE taken' = taken
    <3>1. next = 7 \/ taken' = [taken EXCEPT ![e] = loads]
      BY <1>1, <1>4, EngineFacts
    <3>2. TakenInOrder'
      BY <1>3, <2>1, <2>2 DEF TakenInOrder
    <3>3. next # 7 => taken[e] = loads
      BY <1>4, <2>1, <2>2, <3>1
    <3> QED
      BY <1>3, <1>4, <2>1, <2>2, <3>2, <3>3
  <2>3. CASE taken' = [taken EXCEPT ![e] = loads]
    <3>1. /\ taken' \in [Range(Engines) -> Nat] /\ taken'[e] = loads
          /\ \A x \in Range(Engines) : x # e => taken'[x] = taken[x]
      BY <1>4, <2>1, <2>3
    <3>2. \A i \in 1 .. 7 : i <= next => taken'[Engines[i]] = loads
      BY <1>4, <2>1, <3>1, EngineFacts
    <3>3. \A x \in Range(Engines) : taken'[x] <= loads
      BY <2>1, <3>1 DEF TakenInOrder
    <3>4. ASSUME NEW i \in 1 .. 7, NEW j \in 1 .. 7, i < j
          PROVE  taken'[Engines[j]] <= taken'[Engines[i]]
      <4>1. CASE i <= next
        BY <3>2, <3>3, <4>1, EngineFacts
      <4>2. CASE ~(i <= next)
        <5>1. i # next /\ j # next
          BY <1>4, <3>4, <4>2
        <5>2. Engines[i] # e /\ Engines[j] # e
          BY <1>4, <5>1, EngineFacts
        <5>3. taken[Engines[j]] <= taken[Engines[i]]
          BY <2>1, <3>4, EngineFacts DEF TakenInOrder
        <5> QED
          BY <3>1, <5>2, <5>3, EngineFacts
      <4> QED
        BY <4>1, <4>2
    <3>5. TakenInOrder'
      BY <1>3, <3>3, <3>4, EngineFacts DEF TakenInOrder
    <3> QED
      BY <1>3, <3>1, <3>2, <3>5
  <2> QED
    BY <1>1, <2>2, <2>3
<1>12. dryRun' \in BOOLEAN
  <2>1. loaded.DryRun \in BOOLEAN /\ dryRun \in BOOLEAN
    BY <1>2, LoadableFacts DEF ConfigTypeOK, Loadable
  <2> QED
    BY <1>1, <2>1, Zenon
<1>13. ConfigTypeOK'
  <2>1. stopping' = stopping /\ stopping \in BOOLEAN /\ skipped' = skipped /\ skipped \in BOOLEAN
    BY <1>1, <1>2, Zenon DEF ConfigTypeOK
  <2>2. {dryRun', stopping', skipped'} \subseteq BOOLEAN
    BY <1>12, <2>1, Zenon
  <2>3. next' \in DOMAIN Engines
    BY <1>4, <1>5, EngineFacts
  <2>4. watcher' \in {"wait", "apply"}
    BY <1>5
  <2>5. UNCHANGED <<currentCfg, lastMod, statMod, loaded, loads, file, clock, stamps, newest>>
    BY <1>1 DEF fileVars
  <2> QED
    BY <1>2, <1>6, <1>11, <2>2, <2>3, <2>4, <2>5 DEF ConfigTypeOK
<1>14. CASE next # 7
  <2>1. \A i \in DOMAIN Engines : i < next' => UpToDate(Engines[i])'
    BY <1>4, <1>5, <1>9, <1>14, EngineFacts
  <2>2. FirstUpToDate'
    <3>1. \A i \in DOMAIN Engines : i < next' => taken'[Engines[i]] = loads'
      BY <1>4, <1>5, <1>11, <1>14, EngineFacts
    <3> QED
      BY <1>3, <1>4, <1>5, <1>10, <1>14, <2>1, <3>1 DEF FirstUpToDate
  <2> QED
    BY <1>1, <1>2, <1>5, <1>11, <1>13, <1>14, <2>2, Zenon DEF ReloadInv
<1>15. CASE next = 7
  <2>1. ASSUME NEW x \in Range(Engines) PROVE UpToDate(x)'
    <3>1. PICK i \in 1 .. 7 : x = Engines[i]
      BY EngineFacts DEF Range
    <3> QED
      BY <1>9, <1>15, <3>1
  <2>2. AllUpToDate'
    BY <1>10, <1>15, <2>1 DEF AllUpToDate
  <2> QED
    BY <1>1, <1>2, <1>5, <1>11, <1>13, <1>15, <2>2, Zenon DEF ReloadInv
<1> QED
  BY <1>14, <1>15

\* Every step keeps the invariant.
LEMMA ReloadInvNext == ReloadInv /\ [ConfigNext]_configVars => ReloadInv'
<1> SUFFICES ASSUME ReloadInv, [ConfigNext]_configVars PROVE ReloadInv'
  OBVIOUS
<1>0. ConfigTypeOK
  BY DEF ReloadInv
<1>1. CASE UNCHANGED configVars
  <2>1. ConfigTypeOK'
    BY <1>0, <1>1 DEF ConfigTypeOK, configVars, fileVars, watchVars, engineVars
  <2>2. UNCHANGED <<currentCfg, loads, engineVars, opts, watcher, loaded, next>>
    BY <1>1 DEF configVars, watchVars
  <2> QED
    BY <2>1, <2>2, ReloadInvFrame
<1>2. CASE \/ Tick \/ BeginWrite \/ RemoveFile \/ Stop
           \/ \E c \in Configs : EndWrite(c)
           \/ \E c \in Configs, t \in 1 .. clock : Install(c, t)
  <2>1. ConfigTypeOK' /\ UNCHANGED <<watchVars, engineVars, opts>>
    BY <1>0, <1>2, OutsideType
  <2>2. UNCHANGED <<currentCfg, loads, engineVars, opts, watcher, loaded, next>>
    BY <2>1 DEF watchVars
  <2> QED
    BY <2>1, <2>2, ReloadInvFrame
<1>3. CASE Poll \/ LoadStat \/ LoadRead \/ WatcherStops
  BY <1>0, <1>3, LookingType, ReloadInvFrame
<1>4. CASE Publish
  BY <1>4, ReloadInvPublish
<1>5. CASE Apply
  BY <1>5, ReloadInvApply
<1>6. CASE CallbackPanics
  BY <1>6, ReloadInvPanic
<1> QED
  BY <1>1, <1>2, <1>3, <1>4, <1>5, <1>6 DEF ConfigNext, Watch

\* The types and the agreement of the engines follow from the invariant.
LEMMA ReloadInvAgrees == ReloadInv => EnginesAgree
<1> SUFFICES ASSUME ReloadInv PROVE EnginesAgree
  OBVIOUS
<1>1. Settled => AllUpToDate
  BY Zenon DEF ReloadInv, Settled
<1>2. Settled => \A e \in Followers : applied[e] = currentCfg \/ (e = "log" /\ opts.log)
  BY <1>1 DEF AllUpToDate, UpToDate, Followers
<1>3. \A i, j \in DOMAIN Engines : i < j => taken[Engines[j]] <= taken[Engines[i]]
  BY DEF ReloadInv, TakenInOrder
<1> QED
  BY <1>2, <1>3, Zenon DEF EnginesAgree, ReloadInv

\* Whatever happens to the file, and however often, no engine that follows the
\* file keeps another configuration than the one the manager hands out, once
\* the callback is over and unless it panicked; and after any panics the engines
\* the callback serves first are never behind the others.
THEOREM EnginesStayInStep == ConfigSpec => []EnginesAgree
BY ReloadInvInit, ReloadInvNext, ReloadInvAgrees, PTL DEF ConfigSpec

-----------------------------------------------------------------------------
(* A version of the file that the watcher has not loaded is a change of the  *)
(* file no load has been charged to.  What a load in progress is about to    *)
(* take is another one.                                                      *)
ChargedInv ==
    /\ watcher \in {"wait", "apply", "stopped"}
         => loads <= stamps /\ (file.mtime # lastMod => loads + 1 <= stamps)
    /\ watcher = "stat" => loads + 1 <= stamps
    /\ watcher \in {"read", "publish"}
         => loads + 1 <= stamps /\ (file.mtime # statMod => loads + 2 <= stamps)

\* A change of the file is one more, and nothing else changes.
LEMMA ChargedOutside ==
    ASSUME ConfigTypeOK, ChargedInv,
           UNCHANGED <<watcher, loads, lastMod, statMod>>,
           stamps' = stamps + 1
    PROVE  ChargedInv'
BY DEF ChargedInv, ConfigTypeOK

\* Every step keeps the account.
LEMMA ChargedNext ==
    ConfigTypeOK /\ ConfigTypeOK' /\ ChargedInv /\ [ConfigNext]_configVars => ChargedInv'
<1> SUFFICES ASSUME ConfigTypeOK, ConfigTypeOK', ChargedInv, [ConfigNext]_configVars PROVE ChargedInv'
  OBVIOUS
<1>0. loads \in Nat /\ stamps \in Nat
  BY BoundsAssumption DEF ConfigTypeOK
<1>1. CASE UNCHANGED <<watcher, loads, stamps, lastMod, statMod, file>>
  BY <1>1 DEF ChargedInv
<1>2. CASE stamps' = stamps + 1 /\ UNCHANGED watchVars
  BY <1>2, ChargedOutside DEF watchVars
<1>3. CASE Poll
  BY <1>0, <1>3 DEF ConfigTypeOK, Poll, KeepWatch, fileVars, ChargedInv
<1>4. CASE LoadStat
  BY <1>0, <1>4 DEF LoadStat, KeepWatch, fileVars, ChargedInv
<1>5. CASE LoadRead
  BY <1>0, <1>5 DEF LoadRead, KeepWatch, fileVars, ChargedInv
<1>6. CASE Publish
  BY <1>0, <1>6 DEF Publish, fileVars, ChargedInv
<1>7. CASE Apply
  BY <1>0, <1>7 DEF Apply, Advance, fileVars, ChargedInv
<1>8. CASE CallbackPanics
  BY <1>0, <1>8 DEF CallbackPanics, fileVars, ChargedInv
<1>9. CASE WatcherStops
  BY <1>0, <1>9 DEF WatcherStops, KeepWatch, fileVars, ChargedInv
<1>10. UNCHANGED configVars \/ Tick \/ Stop => UNCHANGED <<watcher, loads, stamps, lastMod, statMod, file>>
  BY DEF configVars, fileVars, watchVars, Tick, Stop
<1>11. \/ BeginWrite \/ RemoveFile
       \/ \E c \in Configs : EndWrite(c)
       \/ \E c \in Configs, t \in 1 .. clock : Install(c, t)
       => stamps' = stamps + 1 /\ UNCHANGED watchVars
  BY Zenon DEF BeginWrite, RemoveFile, EndWrite, Install, Replace
<1> QED
  BY <1>1, <1>2, <1>3, <1>4, <1>5, <1>6, <1>7, <1>8, <1>9, <1>10, <1>11 DEF ConfigNext, Watch

\* However the file is written, replaced or removed, the watcher loads it at
\* most once for every time it changed: a file that does not parse, that is
\* older, or that changes while it is read, starts no loop of reloads.
THEOREM LoadsStayBounded == ConfigSpec => []LoadsAreBounded
<1>1. ConfigInit => ChargedInv
  BY DEF ConfigInit, ChargedInv
<1>2. ReloadInv => ConfigTypeOK
  BY DEF ReloadInv
<1>3. ConfigTypeOK /\ ChargedInv => LoadsAreBounded
  BY BoundsAssumption DEF ConfigTypeOK, ChargedInv, LoadsAreBounded
<1> QED
  BY <1>1, <1>2, <1>3, ReloadInvInit, ReloadInvNext, ChargedNext, PTL DEF ConfigSpec

-----------------------------------------------------------------------------
(* The filter follows the configuration.                                   *)

\* match finds a destination exactly if the lists name it.
LEMMA MatchListed ==
    ASSUME NEW mode, NEW domains \in SUBSET Seq(Chars), NEW ips \in SUBSET IPRules, NEW h \in Hosts
    PROVE  match(UpdateRules(mode, domains, ips), h) = Listed(domains, ips, h)
<1> DEFINE rs == UpdateRules(mode, domains, ips)
           name == ToLower(TrimDot(SplitHostPort(h.name)))
<1>1. h.name \in Seq(Chars) /\ h.ip \in Addresses \cup {NoIP}
  BY ConfigsAssumption
<1>2. name \in Seq(Chars)
  BY <1>1, TrimmedIsName
<1>3. \A r \in ips : r.base \in Addresses /\ r.bits \in -1 .. AddrBits
  BY DEF IPRules
<1>4. CASE h.ip # NoIP
  <2>1. h.ip \in Addresses
    BY <1>1, <1>4
  <2>2. (h.ip \in rs.ips \/ \E c \in rs.cidrs : CIDRContains(c, h.ip))
          <=> \E r \in ips : CoversIP(r, h.ip)
    BY <1>3, <2>1, AddressesListed
  <2> HIDE DEF rs
  <2>3. match(rs, h) = (h.ip \in rs.ips \/ \E c \in rs.cidrs : CIDRContains(c, h.ip))
    BY <1>4, Zenon DEF match
  <2>4. Listed(domains, ips, h) = \E r \in ips : CoversIP(r, h.ip)
    BY <1>4, Zenon DEF Listed
  <2> QED
    BY <2>2, <2>3, <2>4, Zenon DEF rs
<1>5. CASE h.ip = NoIP
  <2>1. (\/ name \in rs.exactDomains
         \/ \E i \in DOMAIN name :
              name[i] = "." /\ SubSeq(name, i + 1, Len(name)) \in rs.suffixRoots
         \/ \E p \in rs.wildcardPatterns : matchWildcard(p, name))
          <=> \E d \in domains : CoversName(ToLower(d), name)
    BY <1>2, NamesListed
  <2>2. match(rs, h) =
          (\/ name \in rs.exactDomains
           \/ \E i \in DOMAIN name :
                name[i] = "." /\ SubSeq(name, i + 1, Len(name)) \in rs.suffixRoots
           \/ \E p \in rs.wildcardPatterns : matchWildcard(p, name))
    <3> HIDE DEF rs
    <3> QED
      BY <1>5, Zenon DEF match
  <2>3. Listed(domains, ips, h) = \E d \in domains : CoversName(ToLower(d), name)
    BY <1>5, Zenon DEF Listed
  <2> HIDE DEF rs, name
  <2> QED
    BY <2>1, <2>2, <2>3, Zenon DEF rs
<1> QED
  BY <1>4, <1>5

\* UpdateRules keeps the mode, in lower case.
LEMMA CompiledMode ==
    ASSUME NEW mode, NEW domains, NEW ips
    PROVE  UpdateRules(mode, domains, ips).mode
             = IF mode = "" THEN "whitelist" ELSE LowerMode(mode)
BY DEF UpdateRules

\* The decision for a configuration is the intended one, unless its mode is a
\* blacklist not written in lower case.
LEMMA DecisionIsIntended ==
    ASSUME NEW c \in Loadable, NEW h \in Hosts,
           ~(LowerMode(c.FilterMode) = "blacklist" /\ c.FilterMode # "blacklist")
    PROVE  ShouldBlock(RulesOf(c), h) = Intended(c, h)
<1>1. /\ c.AllowedDomains \in SUBSET Seq(Chars) /\ c.BlockedDomains \in SUBSET Seq(Chars)
      /\ c.AllowedIPs \in SUBSET IPRules /\ c.BlockedIPs \in SUBSET IPRules
      /\ c.FilterMode # ""
  <2>1. PICK d \in Configs : c = Normalise(d)
    BY DEF Loadable
  <2>2. /\ c.AllowedDomains = d.AllowedDomains /\ c.BlockedDomains = d.BlockedDomains
        /\ c.AllowedIPs = d.AllowedIPs /\ c.BlockedIPs = d.BlockedIPs
        /\ c.FilterMode = IF d.FilterMode = "" THEN "whitelist" ELSE d.FilterMode
    BY <2>1, ConfigsAssumption DEF Normalise
  <2>3. /\ d.AllowedDomains \in SUBSET Seq(Chars) /\ d.BlockedDomains \in SUBSET Seq(Chars)
        /\ d.AllowedIPs \in SUBSET IPRules /\ d.BlockedIPs \in SUBSET IPRules
    BY ConfigsAssumption
  <2>4. c.FilterMode # ""
    BY <2>2
  <2> QED
    BY <2>2, <2>3, <2>4, Zenon
<1> DEFINE mode == LowerMode(c.FilterMode)
           rs == RulesOf(c)
           empty == h.ip = NoIP /\ h.name = <<>>
           pass == mode \in AllPassModes
           black == c.FilterMode = "blacklist"
           domains == IF pass THEN {} ELSE IF black THEN c.BlockedDomains ELSE c.AllowedDomains
           ips == IF pass THEN {} ELSE IF black THEN c.BlockedIPs ELSE c.AllowedIPs
<1>2. /\ domains \in SUBSET Seq(Chars) /\ ips \in SUBSET IPRules
      /\ rs = UpdateRules(c.FilterMode, domains, ips)
      /\ c.FilterMode = "blacklist" /\ mode \notin AllPassModes
           => domains = c.BlockedDomains /\ ips = c.BlockedIPs
      /\ c.FilterMode # "blacklist" /\ mode \notin AllPassModes
           => domains = c.AllowedDomains /\ ips = c.AllowedIPs
  <2>1. rs = UpdateRules(c.FilterMode, domains, ips)
    BY Zenon DEF RulesOf
  <2>2. domains \in SUBSET Seq(Chars) /\ ips \in SUBSET IPRules
    BY <1>1
  <2>3. black /\ ~pass => domains = c.BlockedDomains /\ ips = c.BlockedIPs
    BY Zenon
  <2>4. ~black /\ ~pass => domains = c.AllowedDomains /\ ips = c.AllowedIPs
    BY Zenon
  <2> QED
    BY <2>1, <2>2, <2>3, <2>4, Zenon
<1> HIDE DEF domains, ips, rs
<1>3. rs.mode = mode
  <2>1. UpdateRules(c.FilterMode, domains, ips).mode
          = IF c.FilterMode = "" THEN "whitelist" ELSE LowerMode(c.FilterMode)
    BY CompiledMode
  <2> QED
    BY <1>1, <1>2, <2>1, Zenon
<1>4. match(rs, h) = Listed(domains, ips, h)
  BY <1>2, MatchListed
<1>5. Intended(c, h) =
        \/ empty
        \/ mode = "blacklist" /\ Listed(c.BlockedDomains, c.BlockedIPs, h)
        \/ mode \notin AllPassModes \cup {"blacklist"} /\ ~Listed(c.AllowedDomains, c.AllowedIPs, h)
  BY Zenon DEF Intended
<1>6. "blacklist" \notin AllPassModes
  BY DEF AllPassModes
<1>7. c.FilterMode = "blacklist" <=> mode = "blacklist"
  <2>1. LowerMode("blacklist") = "blacklist"
    BY DEF LowerMode
  <2> QED
    BY <2>1, Zenon
<1> HIDE DEF mode
<1>8. ShouldBlock(rs, h) = IF empty THEN TRUE
                           ELSE CASE rs.mode \in AllPassModes -> FALSE
                                  [] rs.mode = "blacklist" -> match(rs, h)
                                  [] OTHER -> ~match(rs, h)
  BY DEF ShouldBlock
<1>9. Listed(domains, ips, h) \in BOOLEAN
  BY Zenon DEF Listed
<1>10. CASE empty
  <2>1. ShouldBlock(rs, h) = TRUE
    BY <1>8, <1>10
  <2>2. Intended(c, h) = TRUE
    BY <1>5, <1>10, Zenon
  <2> QED
    BY <2>1, <2>2, Zenon DEF rs
<1>11. CASE ~empty /\ mode \in AllPassModes
  <2>1. ShouldBlock(rs, h) = FALSE
    BY <1>3, <1>6, <1>8, <1>11
  <2>2. Intended(c, h) = FALSE
    BY <1>5, <1>6, <1>11, Zenon
  <2> QED
    BY <2>1, <2>2, Zenon DEF rs
<1>12. CASE ~empty /\ mode = "blacklist"
  <2>1. ShouldBlock(rs, h) = match(rs, h)
    BY <1>3, <1>6, <1>8, <1>12
  <2>2. domains = c.BlockedDomains /\ ips = c.BlockedIPs
    BY <1>2, <1>6, <1>7, <1>12, Zenon
  <2>3. Intended(c, h) = Listed(domains, ips, h)
    BY <1>5, <1>9, <1>12, <2>2, Zenon
  <2> QED
    BY <1>4, <2>1, <2>3, Zenon DEF rs
<1>13. CASE ~empty /\ mode \notin AllPassModes /\ mode # "blacklist"
  <2>1. ShouldBlock(rs, h) = ~match(rs, h)
    BY <1>3, <1>8, <1>13
  <2>2. domains = c.AllowedDomains /\ ips = c.AllowedIPs
    BY <1>2, <1>7, <1>13, Zenon
  <2>3. Intended(c, h) = ~Listed(domains, ips, h)
    BY <1>5, <1>9, <1>13, <2>2, Zenon
  <2>4. ShouldBlock(rs, h) = Intended(c, h)
    BY <1>4, <2>1, <2>3
  <2> QED
    BY <2>4, Zenon DEF rs
<1> QED
  BY <1>10, <1>11, <1>12, <1>13, Zenon

\* The filter decides as the configuration in force says, for any lists and
\* modes, any destinations, and any history of the file and its reloads.
THEOREM PolicyStaysFaithful == ConfigSpec => []PolicyFollowsConfig
<1>1. WildcardIsExact
  <2> SUFFICES ASSUME NEW p \in Patterns, NEW s \in Texts
               PROVE  matchWildcard(p, s) <=> WildcardSpec(p, s)
    BY Zenon DEF WildcardIsExact
  <2>1. p \in Seq(Chars) /\ s \in Seq(Chars)
    BY CharsAssumption
  <2> QED
    BY <2>1, MatchWildcardExact, Zenon
<1>2. ReloadInv => PolicyFollowsConfig
  <2> SUFFICES ASSUME ReloadInv, Settled, NEW h \in Hosts,
                      ~(LowerMode(currentCfg.FilterMode) = "blacklist"
                        /\ currentCfg.FilterMode # "blacklist")
               PROVE  ShouldBlock(rules, h) = IntendedTable[currentCfg][h]
    BY <1>1, Zenon DEF PolicyFollowsConfig
  <2>1. rules = RulesOf(currentCfg)
    BY Zenon DEF ReloadInv, Settled, AllUpToDate
  <2>2. currentCfg \in Loadable
    BY DEF ReloadInv, ConfigTypeOK, Loadable
  <2>3. ShouldBlock(RulesOf(currentCfg), h) = Intended(currentCfg, h)
    BY <2>2, DecisionIsIntended
  <2>4. IntendedTable[currentCfg][h] = Intended(currentCfg, h)
    BY <2>2, Zenon DEF IntendedTable, Loadable
  <2> QED
    BY <2>1, <2>3, <2>4, Zenon
<1> QED
  BY <1>2, ReloadInvInit, ReloadInvNext, PTL DEF ConfigSpec

-----------------------------------------------------------------------------
(* The routing resolver.                                                   *)

\* The initial states have the declared types.
LEMMA PacInitType == Init => TypeOK
<1> SUFFICES ASSUME Init PROVE TypeOK
  OBVIOUS
<1>1. isPACMode \in BOOLEAN /\ session \in BOOLEAN /\ stopped \in BOOLEAN /\ overlap \in BOOLEAN
  BY Zenon DEF Init
<1>2. QED
  BY <1>1, PacAssumption DEF Init, TypeOK, Versions, PC, Writing

\* Storing an entry keeps the types of the cache.
LEMMA PutType ==
    ASSUME TypeOK, NEW c \in Calls, Put(c)
    PROVE  /\ cache' \in [Urls -> Versions \cup {None}]
           /\ expired' \subseteq Urls
           /\ decision[c] # None => late' \subseteq Versions
BY PacAssumption DEF TypeOK, Put

\* The result of a call that is storing it is the configuration it read.
OwnDecision ==
    \A c \in Calls : pc[c] \in {"store"} \cup Writing => decision[c] = snap[c]

\* Every step keeps the types and, as late collects decisions, OwnDecision.
LEMMA PacStepType ==
    ASSUME TypeOK, OwnDecision, [Next]_vars
    PROVE  TypeOK' /\ OwnDecision'
<1> USE PacAssumption DEF TypeOK, OwnDecision, NoteOverlap, config, update, clean, call, entries
<1>1. ASSUME NEW c \in Calls, Resolve(c) PROVE TypeOK' /\ OwnDecision'
  BY <1>1 DEF Resolve, PC, Writing
<1>2. ASSUME NEW c \in Calls, Load(c) PROVE TypeOK' /\ OwnDecision'
  BY <1>2 DEF Load, PC, Writing
<1>3. ASSUME NEW c \in Calls, Evaluate(c) PROVE TypeOK' /\ OwnDecision'
  BY <1>3 DEF Evaluate, PC, Writing
<1>4. ASSUME NEW c \in Calls, LoadOrStore(c) PROVE TypeOK' /\ OwnDecision'
  <2>1. decision[c] \in Versions
    BY <1>4 DEF LoadOrStore
  <2>2. CASE cache[UrlOf[c]] = None
    <3>1. Put(c) /\ pc' = [pc EXCEPT ![c] = "count"]
      BY <1>4, <2>2 DEF LoadOrStore
    <3>2. decision[c] # None
      BY <2>1 DEF Versions
    <3>3. QED
      BY <1>4, <3>1, <3>2, PutType DEF LoadOrStore, PC, Writing
  <2>3. CASE cache[UrlOf[c]] # None
    BY <1>4, <2>3 DEF LoadOrStore, PC, Writing
  <2>4. QED
    BY <2>2, <2>3
<1>5. ASSUME NEW c \in Calls, Overwrite(c) PROVE TypeOK' /\ OwnDecision'
  BY <1>5, PutType DEF Overwrite, PC, Writing, Versions
<1>6. ASSUME NEW c \in Calls, Count(c) PROVE TypeOK' /\ OwnDecision'
  BY <1>6 DEF Count, PC, Writing
<1>7. ASSUME NEW c \in Calls, NEW u \in Urls, Sweep(c, u) PROVE TypeOK' /\ OwnDecision'
  BY <1>7 DEF Sweep, PC, Writing
<1>8. ASSUME NEW c \in Calls, Zero(c) PROVE TypeOK' /\ OwnDecision'
  BY <1>8 DEF Zero, PC, Writing
<1>9. ASSUME NEW c \in Calls, Restore(c) PROVE TypeOK' /\ OwnDecision'
  BY <1>9, PutType DEF Restore, PC, Writing, Versions
<1>10. ASSUME NEW c \in Calls, Recount(c) PROVE TypeOK' /\ OwnDecision'
  BY <1>10 DEF Recount, PC, Writing
<1>11. CASE UpdateConfig
  BY <1>11 DEF UpdateConfig, Versions
<1>12. ASSUME NEW u \in Urls, Clear(u) PROVE TypeOK' /\ OwnDecision'
  BY <1>12 DEF Clear
<1>13. CASE ResetSize
  BY <1>13 DEF ResetSize
<1>14. CASE UpdateSession
  BY <1>14 DEF UpdateSession
<1>15. ASSUME NEW u \in Urls, Expire(u) PROVE TypeOK' /\ OwnDecision'
  BY <1>15 DEF Expire
<1>16. ASSUME NEW u \in Urls, CleanupFind(u) PROVE TypeOK' /\ OwnDecision'
  BY <1>16 DEF CleanupFind
<1>17. CASE CleanupDelete
  BY <1>17 DEF CleanupDelete
<1>18. CASE CleanupCount
  BY <1>18 DEF CleanupCount
<1>19. CASE Close
  BY <1>19 DEF Close
<1>20. CASE UNCHANGED vars
  BY <1>20 DEF vars
<1>21. QED
  BY <1>1, <1>2, <1>3, <1>4, <1>5, <1>6, <1>7, <1>8, <1>9, <1>10, <1>11, <1>12, <1>13,
     <1>14, <1>15, <1>16, <1>17, <1>18, <1>19, <1>20
     DEF Next, Step, Update, Cleanup

\* Whatever Resolve, UpdateConfig, the cleanup and Close do in whatever order,
\* every variable keeps its type; in particular UpdateConfig is clearing the
\* cache exactly while there are keys left to visit.
THEOREM PacTypeCorrect == Spec => []TypeOK
<1>1. Init => OwnDecision
  BY DEF Init, OwnDecision, Writing
<1>2. Spec => [](TypeOK /\ OwnDecision)
  BY <1>1, PacInitType, PacStepType, PTL DEF Spec
<1>3. QED
  BY <1>2, PTL

-----------------------------------------------------------------------------

\* A call reads a configuration under mu, so never the one being installed.
ReadBeforeUpdate ==
    \A c \in Calls : snap[c] <= version /\ (updater # "idle" => snap[c] < version)

\* An entry belongs to the current configuration, was stored late, or is about
\* to be deleted by UpdateConfig.
EntriesAccounted ==
    \A u \in Urls :
        cache[u] # None =>
            \/ cache[u] = version
            \/ cache[u] \in late
            \/ u \in toClear /\ cache[u] = version - 1

StaleInv == TypeOK /\ OwnDecision /\ ReadBeforeUpdate /\ EntriesAccounted /\ StaleNeedsOverlap

\* The inductive step for the calls' and entries' part of StaleInv.
LEMMA PacStepStale ==
    ASSUME StaleInv, TypeOK', [Next]_vars
    PROVE  ReadBeforeUpdate' /\ EntriesAccounted' /\ StaleNeedsOverlap'
<1> DEFINE Goal == ReadBeforeUpdate' /\ EntriesAccounted' /\ StaleNeedsOverlap'
<1> USE PacAssumption DEF StaleInv, TypeOK, OwnDecision, ReadBeforeUpdate, EntriesAccounted,
        StaleNeedsOverlap, Versions, config, update, clean, call, entries
<1>1. ASSUME NEW c \in Calls, Resolve(c) PROVE Goal
  BY <1>1 DEF Resolve
<1>2. ASSUME NEW c \in Calls, Load(c) PROVE Goal
  BY <1>2 DEF Load
<1>3. ASSUME NEW c \in Calls, Evaluate(c) PROVE Goal
  BY <1>3 DEF Evaluate
<1>4. ASSUME NEW c \in Calls, LoadOrStore(c) PROVE Goal
  BY <1>4 DEF LoadOrStore, Put
<1>5. ASSUME NEW c \in Calls, Overwrite(c) PROVE Goal
  BY <1>5 DEF Overwrite, Put, Writing
<1>6. ASSUME NEW c \in Calls, Count(c) PROVE Goal
  BY <1>6 DEF Count, Writing
<1>7. ASSUME NEW c \in Calls, NEW u \in Urls, Sweep(c, u) PROVE Goal
  BY <1>7 DEF Sweep, Writing
<1>8. ASSUME NEW c \in Calls, Zero(c) PROVE Goal
  BY <1>8 DEF Zero, Writing
<1>9. ASSUME NEW c \in Calls, Restore(c) PROVE Goal
  BY <1>9 DEF Restore, Put, Writing
<1>10. ASSUME NEW c \in Calls, Recount(c) PROVE Goal
  BY <1>10 DEF Recount, Writing
<1>11. CASE UpdateConfig
  BY <1>11 DEF UpdateConfig
<1>12. ASSUME NEW u \in Urls, Clear(u) PROVE Goal
  BY <1>12 DEF Clear
<1>13. CASE ResetSize
  BY <1>13 DEF ResetSize
<1>14. CASE UpdateSession
  BY <1>14 DEF UpdateSession
<1>15. ASSUME NEW u \in Urls, Expire(u) PROVE Goal
  BY <1>15 DEF Expire
<1>16. ASSUME NEW u \in Urls, CleanupFind(u) PROVE Goal
  BY <1>16 DEF CleanupFind
<1>17. CASE CleanupDelete
  BY <1>17 DEF CleanupDelete
<1>18. CASE CleanupCount
  BY <1>18 DEF CleanupCount
<1>19. CASE Close
  BY <1>19 DEF Close
<1>20. CASE UNCHANGED vars
  BY <1>20 DEF vars
<1>21. QED
  BY <1>1, <1>2, <1>3, <1>4, <1>5, <1>6, <1>7, <1>8, <1>9, <1>10, <1>11, <1>12, <1>13,
     <1>14, <1>15, <1>16, <1>17, <1>18, <1>19, <1>20
     DEF Next, Step, Update, Cleanup

\* Calls, entries and the clearing under mu keep to StaleInv.
LEMMA StaleInvariant == Spec => []StaleInv
<1>1. Init => StaleInv
  <2> SUFFICES ASSUME Init PROVE StaleInv
    OBVIOUS
  <2>1. TypeOK
    BY PacInitType
  <2>2. QED
    BY <2>1, PacAssumption DEF Init, StaleInv, OwnDecision, ReadBeforeUpdate,
       EntriesAccounted, StaleNeedsOverlap, Writing
<1>2. StaleInv /\ [Next]_vars => StaleInv'
  BY PacStepType, PacStepStale DEF StaleInv
<1>3. QED
  BY <1>1, <1>2, PTL DEF Spec

\* For any number of calls, URLs and reloads, a call that began after a reload
\* gets an older configuration's decision only if a call that had read that
\* configuration stored it late.  The deletion of the entries under mu leaves
\* no other way.
THEOREM StaleDecisions == Spec => []StaleNeedsOverlap
<1>1. StaleInv => StaleNeedsOverlap
  BY DEF StaleInv
<1>2. QED
  BY <1>1, StaleInvariant, PTL

-----------------------------------------------------------------------------
(* The count of the cache.                                                 *)

Writers == {c \in Calls : pc[c] \in Writing}

\* At any time finitely many goroutines are writing and finitely many URLs are
\* cached, whatever the sets they are taken from.
FiniteInv == IsFiniteSet(Writers) /\ IsFiniteSet(Cached)

\* At most one goroutine is changing the cache.
Alone ==
    /\ \A c, d \in Writers : c = d
    /\ Writers # {} => updater \notin {"clear", "zero"} /\ cleaning = "idle"
    /\ updater \in {"clear", "zero"} => cleaning = "idle"

Unchanging == Writers = {} /\ updater \notin {"clear", "zero"} /\ cleaning = "idle"

\* How the count and the entries are related, by where the one goroutine that
\* is changing them has got to.
CallSize(c) ==
    /\ pc[c] = "overwrite" => UrlOf[c] \in Cached /\ cacheSize = Cardinality(Cached)
    /\ pc[c] = "count" => cacheSize + 1 = Cardinality(Cached)
    /\ pc[c] = "clear" => Cached \subseteq sweep[c]
    /\ pc[c] = "zero" => Cached = {}
    /\ pc[c] = "restore" => Cached = {} /\ cacheSize = 0
    /\ pc[c] = "recount" => Cardinality(Cached) = 1 /\ cacheSize = 0

UpdateSize ==
    /\ updater = "clear" => Cached \subseteq toClear
    /\ updater = "zero" => Cached = {}

CleanSize ==
    /\ cleaning = "delete" => cleaner \in Cached /\ cacheSize = Cardinality(Cached)
    /\ cleaning = "count" => cacheSize = Cardinality(Cached) + 1

SizeInv ==
    /\ Alone
    /\ Unchanging => cacheSize = Cardinality(Cached)
    /\ \A c \in Calls : CallSize(c)
    /\ UpdateSize
    /\ CleanSize

DriftInv == expired \subseteq Cached /\ (~overlap => SizeInv)

\* A set with at most one element, seen through its cardinality.
LEMMA AtMostOne ==
    ASSUME NEW S, IsFiniteSet(S), Cardinality(S) <= 1
    PROVE  (\A x, y \in S : x = y) /\ (S # {} => Cardinality(S) = 1)
<1>1. Cardinality(S) \in Nat
  BY FS_CardinalityType
<1>2. CASE Cardinality(S) = 0
  BY <1>2, FS_EmptySet
<1>3. CASE Cardinality(S) = 1
  BY <1>3, FS_Singleton
<1>4. QED
  BY <1>1, <1>2, <1>3

\* A step of one call, of UpdateConfig or of the cleanup adds at most one writer
\* and at most one entry.
LEMMA PacStepFinite ==
    ASSUME TypeOK, FiniteInv, [Next]_vars
    PROVE  FiniteInv'
<1> DEFINE W == Writers  W1 == Writers'  C == Cached  C1 == Cached'
<1>1. ASSUME NEW c \in Calls, W1 \subseteq W \cup {c} PROVE IsFiniteSet(W1)
  <2>1. IsFiniteSet(W \cup {c})
    BY FS_AddElement DEF FiniteInv
  <2>2. QED
    BY <1>1, <2>1, FS_Subset
<1>2. ASSUME NEW u \in Urls, C1 \subseteq C \cup {u} PROVE IsFiniteSet(C1)
  <2>1. IsFiniteSet(C \cup {u})
    BY FS_AddElement DEF FiniteInv
  <2>2. QED
    BY <1>2, <2>1, FS_Subset
<1>3. ASSUME W1 = W PROVE IsFiniteSet(W1)
  BY <1>3 DEF FiniteInv
<1>4. ASSUME C1 = C PROVE IsFiniteSet(C1)
  BY <1>4 DEF FiniteInv
<1>5. ASSUME NEW c \in Calls, Step(c) PROVE W1 \subseteq W \cup {c}
  BY <1>5 DEF Step, Resolve, Load, Evaluate, LoadOrStore, Overwrite, Count, Sweep, Zero,
     Restore, Recount, Writers, TypeOK
<1>6. ASSUME NEW c \in Calls, Step(c) PROVE C1 \subseteq C \cup {UrlOf[c]}
  BY <1>6, PacAssumption DEF Step, Resolve, Load, Evaluate, LoadOrStore, Overwrite, Count,
     Sweep, Zero, Restore, Recount, Put, Cached, TypeOK, entries
<1>7. ASSUME UpdateConfig \/ Update \/ (\E u \in Urls : Expire(u)) \/ Cleanup \/ Close
              \/ UNCHANGED vars
      PROVE  W1 = W
  BY <1>7 DEF UpdateConfig, Update, Clear, ResetSize, UpdateSession, Expire, Cleanup,
     CleanupFind, CleanupDelete, CleanupCount, Close, vars, call, Writers
<1>8. ASSUME UpdateConfig \/ Update \/ (\E u \in Urls : Expire(u)) \/ Cleanup \/ Close
              \/ UNCHANGED vars
      PROVE  C1 \subseteq C
  BY <1>8 DEF UpdateConfig, Update, Clear, ResetSize, UpdateSession, Expire, Cleanup,
     CleanupFind, CleanupDelete, CleanupCount, Close, vars, entries, Cached, TypeOK
<1>9. CASE \E c \in Calls : Step(c)
  <2>1. PICK c \in Calls : Step(c)
    BY <1>9
  <2>2. UrlOf[c] \in Urls
    BY PacAssumption
  <2>3. QED
    BY <1>1, <1>2, <1>5, <1>6, <2>1, <2>2 DEF FiniteInv
<1>10. CASE UpdateConfig \/ Update \/ (\E u \in Urls : Expire(u)) \/ Cleanup \/ Close
              \/ UNCHANGED vars
  <2>1. IsFiniteSet(C1)
    BY <1>8, <1>10, FS_Subset DEF FiniteInv
  <2>2. QED
    BY <1>3, <1>7, <1>10, <2>1 DEF FiniteInv
<1>11. QED
  BY <1>9, <1>10 DEF Next

\* As long as no overlap has been noted, at most one goroutine is changing the
\* cache: NoteOverlap looks at every state a step leads to.
LEMMA PacStepAlone ==
    ASSUME FiniteInv', ~overlap => Alone, [Next]_vars, ~overlap'
    PROVE  Alone' /\ ~overlap
<1>1. CASE UNCHANGED vars
  BY <1>1 DEF vars, update, clean, call, Alone, Writers
<1>2. CASE NoteOverlap
  <2> DEFINE W == Writers'
             U == IF updater' \in {"clear", "zero"} THEN 1 ELSE 0
             K == IF cleaning' = "idle" THEN 0 ELSE 1
  <2>1. ~(Cardinality(W) + U + K > 1) /\ ~overlap
    BY <1>2 DEF NoteOverlap, Busy, Writers
  <2>2. IsFiniteSet(W) /\ Cardinality(W) \in Nat
    BY FS_CardinalityType DEF FiniteInv
  <2>3. /\ Cardinality(W) <= 1
        /\ Cardinality(W) = 1 => updater' \notin {"clear", "zero"} /\ cleaning' = "idle"
        /\ updater' \in {"clear", "zero"} => cleaning' = "idle"
    BY <2>1, <2>2
  <2>4. (\A x, y \in W : x = y) /\ (W # {} => Cardinality(W) = 1)
    BY <2>2, <2>3, AtMostOne
  <2>5. QED
    BY <2>1, <2>3, <2>4 DEF Alone
<1>3. QED
  BY <1>1, <1>2 DEF Next, Step, Update, Cleanup, Resolve, Load, Evaluate, LoadOrStore,
     Overwrite, Count, Sweep, Zero, Restore, Recount, UpdateConfig, Clear, ResetSize,
     UpdateSession, Expire, CleanupFind, CleanupDelete, CleanupCount, Close

\* What storing an entry does to the set of cached URLs.
LEMMA PutCached ==
    ASSUME TypeOK, IsFiniteSet(Cached), NEW c \in Calls, Put(c), decision[c] \in Versions
    PROVE  /\ Cached' = Cached \cup {UrlOf[c]}
           /\ Cardinality(Cached') = IF UrlOf[c] \in Cached THEN Cardinality(Cached)
                                     ELSE Cardinality(Cached) + 1
<1>1. Cached' = Cached \cup {UrlOf[c]}
  BY PacAssumption DEF Put, Cached, TypeOK, Versions
<1>2. QED
  BY <1>1, FS_AddElement

\* What deleting an entry does to it.
LEMMA DeleteCached ==
    ASSUME TypeOK, IsFiniteSet(Cached), NEW u \in Urls, cache' = [cache EXCEPT ![u] = None]
    PROVE  /\ Cached' = Cached \ {u}
           /\ Cardinality(Cached') = IF u \in Cached THEN Cardinality(Cached) - 1
                                     ELSE Cardinality(Cached)
<1>1. Cached' = Cached \ {u}
  BY DEF Cached, TypeOK
<1>2. QED
  BY <1>1, FS_RemoveElement

\* When a call is the one that changes the cache, before or after its step, only
\* its own part of SizeInv need be looked at.
LEMMA CallChanges ==
    ASSUME TypeOK, Alone, Alone', NEW c \in Calls, NEW l \in PC,
           pc' = [pc EXCEPT ![c] = l], UNCHANGED <<updater, cleaning>>,
           pc[c] \in Writing \/ l \in Writing,
           l \in Writing => CallSize(c)',
           l \notin Writing => cacheSize' = Cardinality(Cached')
    PROVE  SizeInv'
<1>1. /\ pc'[c] = l
      /\ \A d \in Calls : d # c => pc'[d] = pc[d]
  BY DEF TypeOK
<1>2. c \in Writers \/ c \in Writers'
  BY <1>1 DEF Writers
<1>3. /\ \A d \in Calls : d # c => pc'[d] \notin Writing
      /\ updater' \notin {"clear", "zero"} /\ cleaning' = "idle"
  BY <1>1, <1>2 DEF Alone, Writers
<1>4. \A d \in Calls : d # c => CallSize(d)'
  BY <1>3 DEF CallSize, Writing
<1>5. CallSize(c)'
  BY <1>1 DEF CallSize, Writing
<1>6. (Unchanging => cacheSize = Cardinality(Cached))'
  BY <1>1 DEF Unchanging, Writers
<1>7. QED
  BY <1>3, <1>4, <1>5, <1>6 DEF SizeInv, UpdateSize, CleanSize

\* The same for UpdateConfig.
LEMMA UpdateChanges ==
    ASSUME Alone, Alone', UNCHANGED <<pc, cleaning>>,
           updater \in {"clear", "zero"} \/ updater' \in {"clear", "zero"},
           UpdateSize',
           updater' \notin {"clear", "zero"} => cacheSize' = Cardinality(Cached')
    PROVE  SizeInv'
<1>1. Writers' = {} /\ cleaning' = "idle"
  BY DEF Alone, Writers
<1>2. \A d \in Calls : CallSize(d)'
  BY <1>1 DEF CallSize, Writing, Writers
<1>3. (Unchanging => cacheSize = Cardinality(Cached))'
  BY DEF Unchanging
<1>4. QED
  BY <1>1, <1>2, <1>3 DEF SizeInv, CleanSize

\* The same for the cleanup.
LEMMA CleanupChanges ==
    ASSUME Alone, Alone', UNCHANGED <<pc, updater>>,
           cleaning # "idle" \/ cleaning' # "idle",
           CleanSize',
           cleaning' = "idle" => cacheSize' = Cardinality(Cached')
    PROVE  SizeInv'
<1>1. Writers' = {} /\ updater' \notin {"clear", "zero"}
  BY DEF Alone, Writers
<1>2. \A d \in Calls : CallSize(d)'
  BY <1>1 DEF CallSize, Writing, Writers
<1>3. (Unchanging => cacheSize = Cardinality(Cached))'
  BY DEF Unchanging
<1>4. QED
  BY <1>1, <1>2, <1>3 DEF SizeInv, UpdateSize

\* A step that touches neither the entries nor the count, by a goroutine that
\* is not changing them.
LEMMA NothingChanges ==
    ASSUME SizeInv, Alone',
           UNCHANGED <<cache, cacheSize, sweep, toClear, cleaner, cleaning>>,
           \A c \in Calls : pc'[c] = pc[c] \/ (pc[c] \notin Writing /\ pc'[c] \notin Writing),
           updater' = updater \/ (/\ updater \notin {"clear", "zero"}
                                 /\ updater' \notin {"clear", "zero"})
    PROVE  SizeInv'
<1>1. Cached' = Cached /\ Writers' = Writers
  BY DEF Cached, Writers
<1>2. \A c \in Calls : CallSize(c)'
  <2> SUFFICES ASSUME NEW c \in Calls PROVE CallSize(c)'
    OBVIOUS
  <2>1. CASE pc'[c] = pc[c]
    BY <1>1, <2>1 DEF SizeInv, CallSize
  <2>2. CASE pc'[c] \notin Writing
    BY <2>2 DEF CallSize, Writing
  <2>3. QED
    BY <2>1, <2>2
<1>3. (Unchanging => cacheSize = Cardinality(Cached))'
  BY <1>1 DEF SizeInv, Unchanging
<1>4. UpdateSize' /\ CleanSize'
  BY <1>1 DEF SizeInv, UpdateSize, CleanSize
<1>5. QED
  BY <1>2, <1>3, <1>4 DEF SizeInv

\* Nobody else is changing the cache when a call, UpdateConfig or the cleanup
\* begins to.
LEMMA StartsAlone ==
    ASSUME SizeInv, Alone',
           \/ /\ UNCHANGED <<updater, cleaning>>
              /\ \E c \in Calls : /\ pc'[c] \in Writing /\ pc[c] \notin Writing
                                  /\ \A d \in Calls : d # c => pc'[d] = pc[d]
           \/ /\ UNCHANGED <<pc, updater>> /\ cleaning = "idle" /\ cleaning' # "idle"
    PROVE  cacheSize = Cardinality(Cached)
BY DEF SizeInv, Unchanging, Alone, Writers

\* Expired entries are entries.
LEMMA PacStepExpired ==
    ASSUME TypeOK, OwnDecision, expired \subseteq Cached, [Next]_vars
    PROVE  (expired \subseteq Cached)'
<1>1. \A c \in Calls : pc[c] \in {"store"} \cup Writing => decision[c] \in Versions
  BY DEF OwnDecision, TypeOK
<1>2. ASSUME NEW c \in Calls, Step(c) PROVE (expired \subseteq Cached)'
  BY <1>1, <1>2, PacAssumption DEF Step, Resolve, Load, Evaluate, LoadOrStore, Overwrite,
     Count, Sweep, Zero, Restore, Recount, Put, Cached, TypeOK, entries, Writing, Versions
<1>3. CASE UpdateConfig \/ Update \/ (\E u \in Urls : Expire(u)) \/ Cleanup \/ Close
              \/ UNCHANGED vars
  BY <1>3 DEF UpdateConfig, Update, Clear, ResetSize, UpdateSession, Expire, Cleanup,
     CleanupFind, CleanupDelete, CleanupCount, Close, vars, entries, Cached, TypeOK
<1>4. QED
  BY <1>2, <1>3 DEF Next

\* The inductive step, with nobody overlapping.
LEMMA PacStepSize ==
    ASSUME TypeOK, OwnDecision, FiniteInv, expired \subseteq Cached, SizeInv, Alone', [Next]_vars
    PROVE  SizeInv'
<1>0. /\ Cardinality(Cached) \in Nat /\ IsFiniteSet(Cached) /\ cacheSize \in Int
      /\ Alone
      /\ \A c \in Calls : pc[c] \in {"store"} \cup Writing => decision[c] \in Versions
      /\ \A c \in Calls : UrlOf[c] \in Urls
  BY FS_CardinalityType, PacAssumption DEF FiniteInv, OwnDecision, TypeOK, SizeInv
<1>1. ASSUME NEW c \in Calls, Resolve(c) \/ Load(c) \/ Evaluate(c) PROVE SizeInv'
  <2>1. \A d \in Calls : pc'[d] = pc[d] \/ (pc[d] \notin Writing /\ pc'[d] \notin Writing)
    BY <1>1 DEF Resolve, Load, Evaluate, TypeOK, Writing
  <2>2. QED
    BY <1>1, <2>1, NothingChanges DEF Resolve, Load, Evaluate, update, clean, entries
<1>2. ASSUME NEW c \in Calls, LoadOrStore(c) PROVE SizeInv'
  <2>1. pc[c] = "store" /\ UNCHANGED <<updater, cleaning, cacheSize>>
    BY <1>2 DEF LoadOrStore, update, clean
  <2>2. cacheSize = Cardinality(Cached)
    <3>1. /\ pc'[c] \in Writing /\ pc[c] \notin Writing
          /\ \A d \in Calls : d # c => pc'[d] = pc[d]
      BY <1>2 DEF LoadOrStore, TypeOK, Writing
    <3>2. QED
      BY <2>1, <3>1, StartsAlone
  <2>3. CASE cache[UrlOf[c]] = None
    <3>1. Put(c) /\ pc' = [pc EXCEPT ![c] = "count"]
      BY <1>2, <2>3 DEF LoadOrStore
    <3>2. Cardinality(Cached') = Cardinality(Cached) + 1
      BY <1>0, <2>1, <2>3, <3>1, PutCached DEF Cached
    <3>3. CallSize(c)'
      BY <1>0, <2>1, <2>2, <3>1, <3>2 DEF CallSize, TypeOK
    <3>4. QED
      BY <1>0, <2>1, <3>1, <3>3, CallChanges DEF PC, Writing
  <2>4. CASE cache[UrlOf[c]] # None
    <3>1. pc' = [pc EXCEPT ![c] = "overwrite"] /\ UNCHANGED cache
      BY <1>2, <2>4 DEF LoadOrStore, entries
    <3>2. UrlOf[c] \in Cached /\ Cached' = Cached
      BY <1>0, <2>4, <3>1 DEF Cached
    <3>3. CallSize(c)'
      BY <2>1, <2>2, <3>1, <3>2 DEF CallSize, TypeOK
    <3>4. QED
      BY <1>0, <2>1, <3>1, <3>3, CallChanges DEF PC, Writing
  <2>5. QED
    BY <2>3, <2>4
<1>3. ASSUME NEW c \in Calls, Overwrite(c) PROVE SizeInv'
  <2>1. /\ pc[c] = "overwrite" /\ UNCHANGED <<updater, cleaning, cacheSize>> /\ Put(c)
        /\ pc' = [pc EXCEPT ![c] = "done"]
    BY <1>3 DEF Overwrite, update, clean
  <2>2. UrlOf[c] \in Cached /\ cacheSize = Cardinality(Cached)
    BY <2>1 DEF SizeInv, CallSize
  <2>3. decision[c] \in Versions
    BY <1>0, <2>1 DEF Writing
  <2>4. Cardinality(Cached') = Cardinality(Cached)
    BY <1>0, <2>1, <2>2, <2>3, PutCached
  <2>5. QED
    BY <1>0, <2>1, <2>2, <2>4, CallChanges DEF PC, Writing
<1>4. ASSUME NEW c \in Calls, Count(c) PROVE SizeInv'
  <2>1. /\ pc[c] = "count" /\ UNCHANGED <<updater, cleaning, cache>>
        /\ cacheSize' = cacheSize + 1
    BY <1>4 DEF Count, update, clean, entries
  <2>2. Cached' = Cached /\ cacheSize + 1 = Cardinality(Cached)
    BY <2>1 DEF SizeInv, CallSize, Cached
  <2>3. CASE cacheSize + 1 > maxCacheEntries
    <3>1. pc' = [pc EXCEPT ![c] = "clear"] /\ sweep'[c] = Urls
      BY <1>4, <2>3 DEF Count, TypeOK
    <3>2. CallSize(c)'
      BY <2>2, <3>1 DEF CallSize, TypeOK, Cached
    <3>3. QED
      BY <1>0, <2>1, <3>1, <3>2, CallChanges DEF PC, Writing
  <2>4. CASE ~(cacheSize + 1 > maxCacheEntries)
    <3>1. pc' = [pc EXCEPT ![c] = "done"]
      BY <1>4, <2>4 DEF Count
    <3>2. QED
      BY <1>0, <2>1, <2>2, <3>1, CallChanges DEF PC, Writing
  <2>5. QED
    BY <2>3, <2>4
<1>5. ASSUME NEW c \in Calls, NEW u \in Urls, Sweep(c, u) PROVE SizeInv'
  <2>1. /\ pc[c] = "clear" /\ UNCHANGED <<updater, cleaning>>
        /\ cache' = [cache EXCEPT ![u] = None]
        /\ sweep'[c] = sweep[c] \ {u}
    BY <1>5 DEF Sweep, update, clean, TypeOK
  <2>2. Cached' = Cached \ {u} /\ Cached \subseteq sweep[c]
    BY <1>0, <2>1, DeleteCached DEF SizeInv, CallSize
  <2>3. PICK l \in {"zero", "clear"} :
           /\ pc' = [pc EXCEPT ![c] = l]
           /\ l = "zero" => sweep[c] = {u}
    BY <1>5 DEF Sweep
  <2>4. pc'[c] = l
    BY <2>3 DEF TypeOK
  <2>5. CallSize(c)'
    BY <2>1, <2>2, <2>3, <2>4 DEF CallSize
  <2>6. QED
    BY <1>0, <2>1, <2>3, <2>5, CallChanges DEF PC, Writing
<1>6. ASSUME NEW c \in Calls, Zero(c) PROVE SizeInv'
  <2>1. /\ pc[c] = "zero" /\ UNCHANGED <<updater, cleaning, cache>>
        /\ cacheSize' = 0 /\ pc' = [pc EXCEPT ![c] = "restore"]
    BY <1>6 DEF Zero, update, clean, entries
  <2>2. CallSize(c)'
    BY <2>1 DEF SizeInv, CallSize, Cached, TypeOK
  <2>3. QED
    BY <1>0, <2>1, <2>2, CallChanges DEF PC, Writing
<1>7. ASSUME NEW c \in Calls, Restore(c) PROVE SizeInv'
  <2>1. /\ pc[c] = "restore" /\ UNCHANGED <<updater, cleaning, cacheSize>> /\ Put(c)
        /\ pc' = [pc EXCEPT ![c] = "recount"]
    BY <1>7 DEF Restore, update, clean
  <2>2. Cached = {} /\ cacheSize = 0
    BY <2>1 DEF SizeInv, CallSize
  <2>3. Cardinality(Cached') = 1
    BY <1>0, <2>1, <2>2, PutCached, FS_EmptySet DEF Writing
  <2>4. CallSize(c)'
    BY <2>1, <2>2, <2>3 DEF CallSize, TypeOK
  <2>5. QED
    BY <1>0, <2>1, <2>4, CallChanges DEF PC, Writing
<1>8. ASSUME NEW c \in Calls, Recount(c) PROVE SizeInv'
  <2>1. /\ pc[c] = "recount" /\ UNCHANGED <<updater, cleaning, cache>>
        /\ cacheSize' = cacheSize + 1 /\ pc' = [pc EXCEPT ![c] = "done"]
    BY <1>8 DEF Recount, update, clean, entries
  <2>2. Cached' = Cached /\ Cardinality(Cached) = 1 /\ cacheSize = 0
    BY <2>1 DEF SizeInv, CallSize, Cached
  <2>3. cacheSize' = Cardinality(Cached')
    BY <2>1, <2>2
  <2>4. QED
    BY <1>0, <2>1, <2>3, CallChanges DEF PC, Writing
<1>9. CASE UpdateConfig
  <2>1. /\ UNCHANGED <<pc, cleaning, cache>> /\ updater' = "clear" /\ toClear' = Urls
    BY <1>9 DEF UpdateConfig, clean, call, entries
  <2>2. UpdateSize'
    BY <2>1 DEF UpdateSize, Cached
  <2>3. QED
    BY <1>0, <2>1, <2>2, UpdateChanges
<1>10. ASSUME NEW u \in Urls, Clear(u) PROVE SizeInv'
  <2>1. /\ UNCHANGED <<pc, cleaning>> /\ updater = "clear" /\ toClear' = toClear \ {u}
        /\ cache' = [cache EXCEPT ![u] = None]
        /\ updater' = "clear" \/ (updater' = "zero" /\ toClear = {u})
    BY <1>10 DEF Clear, clean, call
  <2>2. Cached' = Cached \ {u} /\ Cached \subseteq toClear
    BY <1>0, <2>1, DeleteCached DEF SizeInv, UpdateSize
  <2>3. UpdateSize'
    BY <2>1, <2>2 DEF UpdateSize
  <2>4. QED
    BY <1>0, <2>1, <2>3, UpdateChanges
<1>11. CASE ResetSize
  <2>1. /\ UNCHANGED <<pc, cleaning, cache>> /\ updater = "zero" /\ updater' = "session"
        /\ cacheSize' = 0
    BY <1>11 DEF ResetSize, clean, call, entries
  <2>2. Cached' = {} /\ UpdateSize'
    BY <2>1 DEF SizeInv, UpdateSize, Cached
  <2>3. QED
    BY <1>0, <2>1, <2>2, UpdateChanges, FS_EmptySet
<1>12. CASE UpdateSession \/ (\E u \in Urls : Expire(u)) \/ Close \/ UNCHANGED vars
  BY <1>12, NothingChanges
     DEF UpdateSession, Expire, Close, vars, update, clean, call, entries
<1>13. ASSUME NEW u \in Urls, CleanupFind(u) PROVE SizeInv'
  <2>1. /\ UNCHANGED <<pc, updater, cache, cacheSize>> /\ cleaning = "idle"
        /\ cleaning' = "delete" /\ cleaner' = u /\ u \in expired
    BY <1>13 DEF CleanupFind, update, call, entries
  <2>2. cacheSize = Cardinality(Cached)
    BY <2>1, StartsAlone
  <2>3. CleanSize'
    BY <2>1, <2>2 DEF CleanSize, Cached
  <2>4. QED
    BY <1>0, <2>1, <2>3, CleanupChanges
<1>14. CASE CleanupDelete
  <2>1. /\ UNCHANGED <<pc, updater, cacheSize>> /\ cleaning = "delete"
        /\ cleaning' = "count" /\ cache' = [cache EXCEPT ![cleaner] = None]
    BY <1>14 DEF CleanupDelete, update, call
  <2>2. cleaner \in Cached /\ cleaner \in Urls /\ cacheSize = Cardinality(Cached)
    BY <2>1 DEF SizeInv, CleanSize, Cached
  <2>3. Cardinality(Cached') = Cardinality(Cached) - 1
    BY <1>0, <2>1, <2>2, DeleteCached
  <2>4. CleanSize'
    BY <1>0, <2>1, <2>2, <2>3 DEF CleanSize
  <2>5. QED
    BY <1>0, <2>1, <2>4, CleanupChanges
<1>15. CASE CleanupCount
  <2>1. /\ UNCHANGED <<pc, updater, cache>> /\ cleaning = "count" /\ cleaning' = "idle"
        /\ cacheSize' = cacheSize - 1
    BY <1>15 DEF CleanupCount, update, call, entries
  <2>2. Cached' = Cached /\ cacheSize = Cardinality(Cached) + 1 /\ CleanSize'
    BY <2>1 DEF SizeInv, CleanSize, Cached
  <2>3. cacheSize' = Cardinality(Cached')
    BY <1>0, <2>1, <2>2
  <2>4. QED
    BY <1>0, <2>1, <2>2, <2>3, CleanupChanges
<1>16. QED
  BY <1>1, <1>2, <1>3, <1>4, <1>5, <1>6, <1>7, <1>8, <1>9, <1>10, <1>11, <1>12, <1>13,
     <1>14, <1>15 DEF Next, Step, Update, Cleanup

\* For any number of calls, URLs and reloads and any maximum: whenever nobody is
\* changing the cache, the count storeCache compares with the maximum is the
\* number of entries, unless two goroutines have changed the cache at the same
\* time before.
THEOREM CountDrift == Spec => []DriftNeedsOverlap
<1>1. Init => FiniteInv /\ DriftInv
  <2> SUFFICES ASSUME Init PROVE FiniteInv /\ DriftInv
    OBVIOUS
  <2>1. Writers = {} /\ Cached = {} /\ expired = {}
    BY DEF Init, Writers, Cached, Writing
  <2>2. \A c \in Calls : CallSize(c)
    BY DEF Init, CallSize
  <2>3. SizeInv
    BY <2>1, <2>2, FS_EmptySet DEF Init, SizeInv, Alone, UpdateSize, CleanSize
  <2>4. QED
    BY <2>1, <2>3, FS_EmptySet DEF FiniteInv, DriftInv
<1>2. TypeOK /\ OwnDecision /\ FiniteInv /\ DriftInv /\ [Next]_vars => FiniteInv' /\ DriftInv'
  <2> SUFFICES ASSUME TypeOK, OwnDecision, FiniteInv, DriftInv, [Next]_vars
               PROVE  FiniteInv' /\ DriftInv'
    OBVIOUS
  <2>1. FiniteInv'
    BY PacStepFinite
  <2>2. (expired \subseteq Cached)'
    BY PacStepExpired DEF DriftInv
  <2>3. ASSUME ~overlap' PROVE SizeInv'
    <3>1. Alone' /\ ~overlap
      BY <2>1, <2>3, PacStepAlone DEF DriftInv, SizeInv
    <3>2. QED
      BY <3>1, PacStepSize DEF DriftInv
  <2>4. QED
    BY <2>1, <2>2, <2>3 DEF DriftInv
<1>3. FiniteInv /\ DriftInv => DriftNeedsOverlap
  <2> SUFFICES ASSUME FiniteInv, DriftInv, Busy = 0, ~overlap
               PROVE  cacheSize = Cardinality(Cached)
    BY DEF DriftNeedsOverlap
  <2>1. /\ Cardinality(Writers) \in Nat
        /\ Cardinality(Writers) + (IF updater \in {"clear", "zero"} THEN 1 ELSE 0)
             + (IF cleaning = "idle" THEN 0 ELSE 1) = 0
    BY FS_CardinalityType DEF FiniteInv, Busy, Writers
  <2>2. /\ Cardinality(Writers) = 0
        /\ updater \notin {"clear", "zero"} /\ cleaning = "idle"
    BY <2>1
  <2>3. Writers = {}
    BY <2>2, FS_EmptySet DEF FiniteInv
  <2>4. QED
    BY <2>2, <2>3 DEF DriftInv, SizeInv, Unchanging
<1>4. StaleInv => TypeOK /\ OwnDecision
  BY DEF StaleInv
<1>5. QED
  BY <1>1, <1>2, <1>3, <1>4, StaleInvariant, PTL DEF Spec
=============================================================================
