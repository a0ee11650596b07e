------------------------- MODULE Classifier_proofs -------------------------
(***************************************************************************)
(* The image the Classifier publishes is one pixel times a constant        *)
(* pattern.  A pass over the window overwrites every cell it reads, so the *)
(* window it finds does not matter; what it leaves in a cell is its pixel  *)
(* times 1, 2, 3 or 4; and the last pass runs on the last pixel as the     *)
(* line held it when the block began.                                      *)
(***************************************************************************)
EXTENDS Classifier, WellFoundedInduction, TLAPS

(***************************************************************************)
(* Remainders: a sum, a difference or a multiple of remainders is, modulo  *)
(* W, that of the numbers themselves.                                      *)
(***************************************************************************)

LEMMA ModQuotient ==
  ASSUME NEW W \in Nat \ {0}, NEW p \in Int
  PROVE  p % W \in 0 .. W - 1 /\ p \div W \in Int /\ p = (p \div W) * W + (p % W)
  <1>1. p % W \in 0 .. W - 1
    OBVIOUS
  <1>2. p \div W \in Int
    OBVIOUS
  <1>3. p = (p \div W) * W + (p % W)
    OBVIOUS
  <1> QED
    BY <1>1, <1>2, <1>3

LEMMA ModMultiple ==
  ASSUME NEW W \in Nat \ {0}, NEW q \in Int, -W < q * W, q * W < W
  PROVE  q = 0
  <1>1. CASE q >= 1
    BY <1>1
  <1>2. CASE q <= -1
    BY <1>2
  <1> QED
    BY <1>1, <1>2

LEMMA ModUnique ==
  ASSUME NEW W \in Nat \ {0}, NEW p \in Int, NEW q \in Int, NEW r \in 0 .. W - 1, p = q * W + r
  PROVE  p % W = r
  <1> DEFINE d == p \div W  m == p % W
  <1>1. m \in 0 .. W - 1 /\ d \in Int /\ p = d * W + m
    BY ModQuotient
  <1> HIDE DEF d, m
  <1>2. (d - q) * W = r - m
    BY <1>1
  <1>3. d - q = 0
    <2>1. d - q \in Int /\ -W < (d - q) * W /\ (d - q) * W < W
      BY <1>1, <1>2
    <2> QED
      BY <2>1, ModMultiple
  <1>4. r = m
    BY <1>1, <1>2, <1>3
  <1> QED
    BY <1>4 DEF m

LEMMA ModCongruent ==
  ASSUME NEW W \in Nat \ {0}, NEW p \in Int, NEW q \in Int, NEW c \in Int, p = q + c * W
  PROVE  p % W = q % W
  <1> DEFINE d == q \div W  m == q % W
  <1>1. m \in 0 .. W - 1 /\ d \in Int /\ q = d * W + m
    BY ModQuotient
  <1> HIDE DEF d, m
  <1>2. p = (d + c) * W + m
    BY <1>1
  <1>3. p % W = m
    BY <1>1, <1>2, ModUnique
  <1> QED
    BY <1>3 DEF m

LEMMA ModAdd ==
  ASSUME NEW W \in Nat \ {0}, NEW p \in Int, NEW q \in Int
  PROVE  /\ ((p % W) + (q % W)) % W = (p + q) % W
         /\ ((p % W) - (q % W)) % W = (p - q) % W
  <1> DEFINE d == p \div W  m == p % W  e == q \div W  n == q % W
  <1>1. m \in Int /\ d \in Int /\ p = d * W + m
    BY ModQuotient
  <1>2. n \in Int /\ e \in Int /\ q = e * W + n
    BY ModQuotient
  <1> HIDE DEF d, m, e, n
  <1>3. p + q = (m + n) + (d + e) * W /\ p - q = (m - n) + (d - e) * W
    BY <1>1, <1>2
  <1>4. (p + q) % W = (m + n) % W
    <2> DEFINE a == p + q  b == m + n  c == d + e
    <2>1. a \in Int /\ b \in Int /\ c \in Int /\ a = b + c * W
      BY <1>1, <1>2, <1>3
    <2> HIDE DEF a, b, c
    <2>2. a % W = b % W
      BY <2>1, ModCongruent
    <2> QED
      BY <2>2 DEF a, b
  <1>5. (p - q) % W = (m - n) % W
    <2> DEFINE a == p - q  b == m - n  c == d - e
    <2>1. a \in Int /\ b \in Int /\ c \in Int /\ a = b + c * W
      BY <1>1, <1>2, <1>3
    <2> HIDE DEF a, b, c
    <2>2. a % W = b % W
      BY <2>1, ModCongruent
    <2> QED
      BY <2>2 DEF a, b
  <1> QED
    BY <1>4, <1>5 DEF m, n

LEMMA ModScale ==
  ASSUME NEW W \in Nat \ {0}, NEW p \in Int, NEW b \in Int
  PROVE  ((p % W) * b) % W = (p * b) % W
  <1> DEFINE d == p \div W  m == p % W
  <1>1. m \in Int /\ d \in Int /\ p = d * W + m
    BY ModQuotient
  <1> HIDE DEF d, m
  <1>2. p * b = m * b + (d * b) * W
    BY <1>1
  <1>3. (p * b) % W = (m * b) % W
    <2>1. p * b \in Int /\ m * b \in Int /\ d * b \in Int
      BY <1>1
    <2> QED
      BY <1>2, <2>1, ModCongruent
  <1> QED
    BY <1>3 DEF m

LEMMA DivMod ==
  ASSUME NEW x \in Nat, NEW y \in 0 .. N - 1
  PROVE  (x * N + y) \div N = x /\ (x * N + y) % N = y
  <1> DEFINE p == x * N + y  d == p \div N
  <1>1. N \in Nat \ {0} /\ p \in Int
    BY SizeAssumption
  <1>2. p % N = y
    BY <1>1, ModUnique
  <1>3. d \in Int /\ p = d * N + (p % N)
    BY <1>1, ModQuotient
  <1> HIDE DEF d
  <1>4. (d - x) * N = 0
    BY <1>1, <1>2, <1>3
  <1>5. d - x = 0
    BY <1>1, <1>3, <1>4, ModMultiple
  <1>6. d = x
    BY <1>3, <1>5
  <1> QED
    BY <1>2, <1>6 DEF d

Words == 0 .. WordSpace - 1

LEMMA LessIsWellFounded == IsWellFoundedOn({ss \in Nat \X Nat : ss[1] < ss[2]}, Nat)
  BY NatLessThanWellFounded, Zenon DEF OpToRel

LEMMA Least ==
  ASSUME NEW T \in SUBSET Nat, T # {}
  PROVE  \E n \in T : \A m \in T : n <= m
  <1> DEFINE R == {ss \in Nat \X Nat : ss[1] < ss[2]}
  <1>1. PICK n \in T : \A m \in T : ~(<<m, n>> \in R)
    <2>1. IsWellFoundedOn(R, Nat)
      BY LessIsWellFounded
    <2> HIDE DEF R
    <2> QED
      BY <2>1, WFMin
  <1>2. \A m \in T : n <= m
    <2> TAKE m \in T
    <2>1. <<m, n>> \in Nat \X Nat /\ ~(m < n)
      BY <1>1
    <2> QED
      BY <2>1
  <1> QED
    BY <1>2

(* Two functions that begin alike and go on alike are alike.               *)
LEMMA SameSteps ==
  ASSUME NEW M \in Nat, NEW f, NEW g, f[0] = g[0],
         \A n \in 0 .. M - 1 : f[n] = g[n] => f[n + 1] = g[n + 1]
  PROVE  \A n \in 0 .. M : f[n] = g[n]
  <1> DEFINE T == {n \in 0 .. M : f[n] # g[n]}
  <1> SUFFICES ASSUME T # {}
               PROVE  FALSE
    OBVIOUS
  <1>1. PICK n \in T : \A m \in T : n <= m
    <2>1. T \in SUBSET Nat
      OBVIOUS
    <2> HIDE DEF T
    <2> QED
      BY <2>1, Least
  <1>2. n \in 0 .. M /\ f[n] # g[n] /\ n # 0
    BY <1>1
  <1>3. n - 1 \in 0 .. M - 1 /\ n - 1 \in 0 .. M /\ (n - 1) + 1 = n /\ ~(n <= n - 1)
    BY <1>2
  <1>4. f[n - 1] = g[n - 1]
    BY <1>1, <1>3
  <1>5. f[(n - 1) + 1] = g[(n - 1) + 1]
    BY <1>3, <1>4
  <1> QED
    BY <1>2, <1>3, <1>5

(***************************************************************************)
(* The pattern of a pass: cell y of row x is b, times 2 from the diagonal  *)
(* on, and all over the row where the diagonal is at the margin times 4,   *)
(* or 3 if the row that it takes the upper summand from is the first.      *)
(***************************************************************************)
K(x, y) ==
  IF x = N - 2 THEN (IF N = 4 THEN 3 ELSE 4)
  ELSE IF x >= 1 /\ x <= N - 3 /\ y >= N - 2 - x THEN 2 ELSE 1

P(b, x, y) == (K(x, y) * b) % WordSpace

(* The first n rows of w are there.                                        *)
Filled(w, b, n) == \A x \in 0 .. n - 1, y \in 0 .. N - 1 : w[x * N + y] = P(b, x, y)

LEMMA Multiples ==
  ASSUME NEW b \in Words
  PROVE  /\ (1 * b) % WordSpace = b
         /\ \A p, q \in Nat : ((((p * b) % WordSpace) + ((q * b) % WordSpace)) % WordSpace
                                 = ((p + q) * b) % WordSpace)
  <1>1. WordSpace \in Nat \ {0} /\ b \in Int
    BY SizeAssumption DEF Words
  <1>2. (1 * b) % WordSpace = b
    <2>1. 1 * b = 0 * WordSpace + b /\ 1 * b \in Int
      BY <1>1
    <2> QED
      BY <1>1, <2>1, ModUnique DEF Words
  <1>3. ASSUME NEW p \in Nat, NEW q \in Nat
        PROVE  (((p * b) % WordSpace) + ((q * b) % WordSpace)) % WordSpace = ((p + q) * b) % WordSpace
    <2>1. p * b \in Int /\ q * b \in Int /\ p * b + q * b = (p + q) * b
      BY <1>1
    <2>2. (((p * b) % WordSpace) + ((q * b) % WordSpace)) % WordSpace = (p * b + q * b) % WordSpace
      <3> DEFINE a == p * b  c == q * b
      <3>1. a \in Int /\ c \in Int
        BY <2>1
      <3> HIDE DEF a, c
      <3>2. ((a % WordSpace) + (c % WordSpace)) % WordSpace = (a + c) % WordSpace
        BY <1>1, <3>1, ModAdd
      <3> QED
        BY <3>2 DEF a, c
    <2> QED
      BY <2>1, <2>2
  <1> QED
    BY <1>2, <1>3

(* What the block computes of a cell from the one before.                  *)
CellAt(w, b, x, y, before) ==
  IF OnDiagonal(x, y) THEN (w[(x - 1) * N + y - 1] + before) % WordSpace
  ELSE IF y > 0 THEN before ELSE b

LEMMA PatternSteps ==
  ASSUME NEW b \in Words, NEW n \in 0 .. N - 1, NEW w, Filled(w, b, n), NEW y \in 0 .. 2 * N - 1
  PROVE  P(b, n, y) = CellAt(w, b, n, y, IF y > 0 THEN P(b, n, y - 1) ELSE w[n * N - 1])
  <1>1. N \in Nat /\ N >= 4
    BY SizeAssumption
  <1>2. ASSUME NEW p \in Nat, NEW q \in Nat
        PROVE  (((p * b) % WordSpace) + ((q * b) % WordSpace)) % WordSpace = ((p + q) * b) % WordSpace
    BY Multiples
  <1>3. CASE OnDiagonal(n, y) /\ y > 0
    <2>1. n \in 1 .. N - 3 /\ y = N - 2 - n /\ n - 1 \in 0 .. n - 1 /\ y - 1 \in 0 .. N - 1
      BY <1>1, <1>3 DEF OnDiagonal
    <2>2. (n - 1) * N + y - 1 = (n - 1) * N + (y - 1)
      BY <1>1, <2>1
    <2>3. w[(n - 1) * N + y - 1] = P(b, n - 1, y - 1)
      BY <2>1, <2>2 DEF Filled
    <2>4. K(n - 1, y - 1) = 1 /\ K(n, y - 1) = 1 /\ K(n, y) = 2
      BY <1>1, <2>1 DEF K
    <2>5. (((1 * b) % WordSpace) + ((1 * b) % WordSpace)) % WordSpace = ((1 + 1) * b) % WordSpace
      BY <1>2
    <2>6. P(b, n - 1, y - 1) = (1 * b) % WordSpace /\ P(b, n, y - 1) = (1 * b) % WordSpace
      BY <2>4 DEF P
    <2>7. P(b, n, y) = ((1 + 1) * b) % WordSpace
      BY <2>4 DEF P
    <2>8. CellAt(w, b, n, y, IF y > 0 THEN P(b, n, y - 1) ELSE w[n * N - 1])
            = (P(b, n - 1, y - 1) + P(b, n, y - 1)) % WordSpace
      BY <1>3, <2>3 DEF CellAt
    <2> QED
      BY <2>5, <2>6, <2>7, <2>8
  <1>4. CASE OnDiagonal(n, y) /\ y = 0
    <2>1. n = N - 2 /\ n - 1 \in 0 .. n - 1 /\ n - 2 \in 0 .. n - 1 /\ N - 1 \in 0 .. N - 1 /\ ~(y > 0)
      BY <1>1, <1>4 DEF OnDiagonal
    <2>2. (n - 1) * N + y - 1 = (n - 2) * N + (N - 1) /\ n * N - 1 = (n - 1) * N + (N - 1)
      BY <1>1, <1>4, <2>1
    <2>3. w[(n - 1) * N + y - 1] = P(b, n - 2, N - 1) /\ w[n * N - 1] = P(b, n - 1, N - 1)
      BY <2>1, <2>2 DEF Filled
    <2> DEFINE q == K(n - 2, N - 1)
    <2>4. q \in Nat /\ K(n - 1, N - 1) = 2 /\ K(n, y) = q + 2
      BY <1>1, <2>1 DEF K
    <2> HIDE DEF q
    <2>5. (((q * b) % WordSpace) + ((2 * b) % WordSpace)) % WordSpace = ((q + 2) * b) % WordSpace
      BY <1>2, <2>4
    <2>6. P(b, n - 2, N - 1) = (q * b) % WordSpace /\ P(b, n - 1, N - 1) = (2 * b) % WordSpace
      BY <2>4 DEF P, q
    <2>7. P(b, n, y) = ((q + 2) * b) % WordSpace
      BY <2>4 DEF P
    <2>8. CellAt(w, b, n, y, IF y > 0 THEN P(b, n, y - 1) ELSE w[n * N - 1])
            = (P(b, n - 2, N - 1) + P(b, n - 1, N - 1)) % WordSpace
      BY <1>4, <2>1, <2>3 DEF CellAt
    <2> QED
      BY <2>5, <2>6, <2>7, <2>8
  <1>5. CASE ~OnDiagonal(n, y) /\ y > 0
    <2>1. K(n, y) = K(n, y - 1)
      <3>1. ~(n \in 1 .. N - 3 /\ y = N - 2 - n)
        BY <1>1, <1>5 DEF OnDiagonal
      <3> QED
        BY <1>1, <1>5, <3>1 DEF K
    <2> QED
      BY <1>5, <2>1 DEF CellAt, P
  <1>6. CASE ~OnDiagonal(n, y) /\ y = 0
    <2>1. n # N - 2
      BY <1>1, <1>6 DEF OnDiagonal
    <2>2. K(n, y) = 1 /\ ~(y > 0)
      BY <1>1, <1>6, <2>1 DEF K
    <2>3. (1 * b) % WordSpace = b
      BY Multiples
    <2> QED
      BY <1>6, <2>2, <2>3 DEF CellAt, P
  <1> QED
    BY <1>3, <1>4, <1>5, <1>6

(***************************************************************************)
(* A row of the window.                                                    *)
(***************************************************************************)

(* The function Row chooses.                                               *)
IsRow(r, w, b, x) ==
  r = [y \in 0 .. 2 * N - 1 |->
         LET before == IF y > 0 THEN r[y - 1] ELSE w[x * N - 1]
         IN  IF OnDiagonal(x, y) THEN (w[(x - 1) * N + y - 1] + before) % WordSpace
             ELSE IF y > 0 THEN before ELSE b]

LEMMA RowChooses ==
  ASSUME NEW w, NEW b, NEW x
  PROVE  Row(w, b, x) = LET r == CHOOSE r : IsRow(r, w, b, x)
                        IN  [c \in WindowIdx |->
                              IF c \in x * N .. x * N + 2 * N - 1 THEN r[c - x * N] ELSE w[c]]
  BY DEF Row, IsRow

LEMMA IsRowSteps ==
  ASSUME NEW w, NEW b, NEW x, NEW r, IsRow(r, w, b, x), NEW y \in 0 .. 2 * N - 1
  PROVE  r[y] = CellAt(w, b, x, y, IF y > 0 THEN r[y - 1] ELSE w[x * N - 1])
  BY DEF IsRow, CellAt

LEMMA RowRepeats ==
  ASSUME NEW b \in Words, NEW n \in 0 .. N - 1, NEW w, Filled(w, b, n),
         NEW r, IsRow(r, w, b, n)
  PROVE  \A y \in 0 .. 2 * N - 1 : r[y] = P(b, n, y)
  <1>1. N \in Nat /\ N >= 4
    BY SizeAssumption
  <1> DEFINE h == [y \in 0 .. 2 * N - 1 |-> P(b, n, y)]
  <1>2. ASSUME NEW y \in 0 .. 2 * N - 1
        PROVE  r[y] = CellAt(w, b, n, y, IF y > 0 THEN r[y - 1] ELSE w[n * N - 1])
    BY IsRowSteps
  <1>3. ASSUME NEW y \in 0 .. 2 * N - 1
        PROVE  h[y] = CellAt(w, b, n, y, IF y > 0 THEN h[y - 1] ELSE w[n * N - 1])
    <2>1. P(b, n, y) = CellAt(w, b, n, y, IF y > 0 THEN P(b, n, y - 1) ELSE w[n * N - 1])
      BY PatternSteps
    <2>2. h[y] = P(b, n, y) /\ (y > 0 => h[y - 1] = P(b, n, y - 1))
      BY <1>1
    <2> HIDE DEF h
    <2>3. CASE y > 0
      BY <2>1, <2>2, <2>3
    <2>4. CASE ~(y > 0)
      BY <2>1, <2>2, <2>4
    <2> QED
      BY <2>3, <2>4
  <1>h. \A y \in 0 .. 2 * N - 1 : h[y] = P(b, n, y)
    OBVIOUS
  <1> HIDE DEF h
  <1>4. r[0] = h[0]
    <2>1. 0 \in 0 .. 2 * N - 1 /\ ~(0 > 0)
      BY <1>1
    <2>2. r[0] = CellAt(w, b, n, 0, w[n * N - 1])
      BY <1>2, <2>1
    <2>3. h[0] = CellAt(w, b, n, 0, w[n * N - 1])
      BY <1>3, <2>1
    <2> QED
      BY <2>2, <2>3
  <1>5. ASSUME NEW y \in 0 .. (2 * N - 1) - 1, r[y] = h[y]
        PROVE  r[y + 1] = h[y + 1]
    <2>1. y + 1 \in 0 .. 2 * N - 1 /\ y + 1 > 0 /\ (y + 1) - 1 = y
      BY <1>1
    <2>2. r[y + 1] = CellAt(w, b, n, y + 1, r[y])
      BY <1>2, <2>1
    <2>3. h[y + 1] = CellAt(w, b, n, y + 1, h[y])
      BY <1>3, <2>1
    <2> QED
      BY <1>5, <2>2, <2>3
  <1>6. 2 * N - 1 \in Nat
    BY <1>1
  <1>7. \A y \in 0 .. 2 * N - 1 : r[y] = h[y]
    <2> DEFINE M == 2 * N - 1
    <2>1. M \in Nat /\ \A y \in 0 .. M - 1 : r[y] = h[y] => r[y + 1] = h[y + 1]
      BY <1>5, <1>6
    <2> HIDE DEF M
    <2>2. \A y \in 0 .. M : r[y] = h[y]
      BY <1>4, <2>1, SameSteps
    <2> QED
      BY <2>2 DEF M
  <1> QED
    BY <1>7, <1>h

LEMMA RowExists ==
  ASSUME NEW b \in Words, NEW n \in 0 .. N - 1, NEW w, Filled(w, b, n)
  PROVE  \E r : IsRow(r, w, b, n)
  <1>1. N \in Nat /\ N >= 4
    BY SizeAssumption
  <1> DEFINE h == [y \in 0 .. 2 * N - 1 |-> P(b, n, y)]
  <1>2. ASSUME NEW y \in 0 .. 2 * N - 1
        PROVE  h[y] = LET before == IF y > 0 THEN h[y - 1] ELSE w[n * N - 1]
                      IN  IF OnDiagonal(n, y) THEN (w[(n - 1) * N + y - 1] + before) % WordSpace
                          ELSE IF y > 0 THEN before ELSE b
    <2>1. P(b, n, y) = CellAt(w, b, n, y, IF y > 0 THEN P(b, n, y - 1) ELSE w[n * N - 1])
      BY PatternSteps
    <2>2. h[y] = P(b, n, y) /\ (y > 0 => h[y - 1] = P(b, n, y - 1))
      BY <1>1
    <2> HIDE DEF h
    <2>3. CASE y > 0
      BY <2>1, <2>2, <2>3 DEF CellAt
    <2>4. CASE ~(y > 0)
      BY <2>1, <2>2, <2>4 DEF CellAt
    <2> QED
      BY <2>3, <2>4
  <1>3. h = [y \in 0 .. 2 * N - 1 |-> h[y]]
    OBVIOUS
  <1> HIDE DEF h
  <1>4. IsRow(h, w, b, n)
    BY <1>2, <1>3 DEF IsRow
  <1> QED
    BY <1>4

(* What a row leaves behind, given the rows before it.                     *)
LEMMA RowCells ==
  ASSUME NEW b \in Words, NEW n \in 0 .. N - 1, NEW w, Filled(w, b, n)
  PROVE  Row(w, b, n) = [c \in WindowIdx |-> IF c \in n * N .. n * N + 2 * N - 1
                                             THEN P(b, n, c - n * N) ELSE w[c]]
  <1> DEFINE r == CHOOSE r : IsRow(r, w, b, n)
  <1>1. IsRow(r, w, b, n)
    <2>1. \E s : IsRow(s, w, b, n)
      BY RowExists
    <2> QED
      BY <2>1
  <1>2. Row(w, b, n) = [c \in WindowIdx |-> IF c \in n * N .. n * N + 2 * N - 1
                                            THEN r[c - n * N] ELSE w[c]]
    BY RowChooses
  <1> HIDE DEF r
  <1>3. \A y \in 0 .. 2 * N - 1 : r[y] = P(b, n, y)
    BY <1>1, RowRepeats
  <1>4. ASSUME NEW c \in WindowIdx, c \in n * N .. n * N + 2 * N - 1
        PROVE  r[c - n * N] = P(b, n, c - n * N)
    <2>1. N \in Nat /\ N >= 4 /\ n * N \in Int /\ c \in Int
      BY SizeAssumption, <1>4
    <2>2. c - n * N \in 0 .. 2 * N - 1
      <3> DEFINE s == n * N
      <3> HIDE DEF s
      <3>1. c \in s .. s + 2 * N - 1 /\ s \in Int
        BY <1>4, <2>1 DEF s
      <3>2. c - s \in 0 .. 2 * N - 1
        BY <2>1, <3>1
      <3> QED
        BY <3>2 DEF s
    <2> QED
      BY <1>3, <2>2
  <1> QED
    BY <1>2, <1>4

(***************************************************************************)
(* The rows one after the other.  Nothing of the old window is left in the *)
(* cells that the integral image is computed from.                         *)
(***************************************************************************)

(* The window after n rows.                                                *)
Win(w, b, n) ==
  [c \in WindowIdx |-> IF n = 0 THEN w[c]
                       ELSE IF c < n * N THEN P(b, c \div N, c % N)
                       ELSE IF c < n * N + N THEN P(b, n - 1, c - (n - 1) * N) ELSE w[c]]

LEMMA Products ==
  ASSUME NEW x \in Nat, NEW n \in Nat, x <= n
  PROVE  x * N \in Nat /\ n * N \in Nat /\ x * N <= n * N /\ (n + 1) * N = n * N + N
  <1>1. N \in Nat
    BY SizeAssumption
  <1>2. (n - x) * N \in Nat /\ n * N = x * N + (n - x) * N
    BY <1>1
  <1>3. x * N \in Nat /\ n * N \in Nat /\ (n + 1) * N = n * N + N
    BY <1>1
  <1> QED
    BY <1>2, <1>3

LEMMA InWindow ==
  ASSUME NEW x \in 0 .. N - 1, NEW y \in 0 .. 2 * N - 1
  PROVE  x * N + y \in WindowIdx
  <1>1. N \in Nat /\ N >= 4 /\ x \in Nat /\ N - 1 \in Nat /\ x <= N - 1 /\ y \in Nat /\ y <= 2 * N - 1
    BY SizeAssumption
  <1> DEFINE s == x * N  t == (N - 1) * N  u == N * N
  <1>2. s \in Nat /\ t \in Nat /\ s <= t
    BY <1>1, Products
  <1>3. u = t + N /\ u \in Nat /\ WindowIdx = 0 .. 2 * u - 1
    <2>1. N * N = (N - 1) * N + N /\ N * N \in Nat /\ 2 * N * N = 2 * (N * N)
      BY <1>1
    <2> QED
      BY <2>1 DEF WindowIdx
  <1>4. t >= N
    <2>1. (N - 1) * N = N + (N - 2) * N /\ (N - 2) * N \in Nat
      BY <1>1
    <2> QED
      BY <1>1, <2>1
  <1> HIDE DEF s, t, u
  <1>5. s + y \in 0 .. 2 * u - 1
    BY <1>1, <1>2, <1>3, <1>4
  <1> QED
    BY <1>3, <1>5 DEF s

LEMMA WinIsFilled ==
  ASSUME NEW b \in Words, NEW n \in 0 .. N, NEW w
  PROVE  Filled(Win(w, b, n), b, n)
  <1> SUFFICES ASSUME NEW x \in 0 .. n - 1, NEW y \in 0 .. N - 1
               PROVE  Win(w, b, n)[x * N + y] = P(b, x, y)
    BY DEF Filled
  <1>1. N \in Nat /\ n \in Nat /\ x \in Nat /\ n # 0 /\ x \in 0 .. N - 1 /\ y \in 0 .. 2 * N - 1
        /\ x + 1 <= n /\ x + 1 \in Nat
    BY SizeAssumption
  <1>2. x * N + y \in WindowIdx
    BY <1>1, InWindow
  <1>3. x * N + y < n * N
    <2> DEFINE s == x * N  t == n * N  u == (x + 1) * N
    <2>1. x <= x
      BY <1>1
    <2>2. s \in Nat /\ u = s + N
      BY <1>1, <2>1, Products
    <2>3. t \in Nat /\ u <= t
      BY <1>1, Products
    <2> HIDE DEF s, t, u
    <2>4. s + y < t
      BY <1>1, <2>2, <2>3
    <2> QED
      BY <2>4 DEF s, t
  <1>4. (x * N + y) \div N = x /\ (x * N + y) % N = y
    BY <1>1, DivMod
  <1> DEFINE c == x * N + y
  <1>5. c \in WindowIdx /\ c < n * N /\ c \div N = x /\ c % N = y
    BY <1>2, <1>3, <1>4
  <1> HIDE DEF c
  <1>6. Win(w, b, n)[c] = P(b, x, y)
    BY <1>1, <1>5 DEF Win
  <1> QED
    BY <1>6 DEF c

LEMMA RowSteps ==
  ASSUME NEW b \in Words, NEW n \in 0 .. N - 1, NEW w
  PROVE  Row(Win(w, b, n), b, n) = Win(w, b, n + 1)
  <1> DEFINE v == Win(w, b, n)
             s == n * N
  <1>1. N \in Nat /\ N >= 4 /\ n \in Nat /\ n \in 0 .. N /\ n + 1 # 0 /\ (n + 1) - 1 = n
    BY SizeAssumption
  <1>2. Filled(v, b, n)
    BY <1>1, WinIsFilled
  <1>3. \A c \in WindowIdx : v[c] = IF n = 0 THEN w[c]
                                     ELSE IF c < n * N THEN P(b, c \div N, c % N)
                                     ELSE IF c < n * N + N THEN P(b, n - 1, c - (n - 1) * N) ELSE w[c]
    BY DEF Win
  <1> HIDE DEF v
  <1>4. Row(v, b, n) = [c \in WindowIdx |-> IF c \in s .. s + 2 * N - 1
                                            THEN P(b, n, c - s) ELSE v[c]]
    BY <1>2, RowCells
  <1>5. s \in Nat /\ (n + 1) * N = s + N /\ (n = 0 => s = 0)
    <2>1. n <= n
      BY <1>1
    <2>2. n * N \in Nat /\ (n + 1) * N = n * N + N
      BY <1>1, <2>1, Products
    <2>3. n = 0 => n * N = 0
      BY <1>1
    <2> QED
      BY <2>2, <2>3
  <1>6. Win(w, b, n + 1) = [c \in WindowIdx |-> IF c < s + N THEN P(b, c \div N, c % N)
                                                ELSE IF c < s + 2 * N THEN P(b, n, c - s) ELSE w[c]]
    <2>1. Win(w, b, n + 1) = [c \in WindowIdx |-> IF c < (n + 1) * N THEN P(b, c \div N, c % N)
                                  ELSE IF c < (n + 1) * N + N THEN P(b, (n + 1) - 1, c - ((n + 1) - 1) * N)
                                  ELSE w[c]]
      BY <1>1 DEF Win
    <2>2. (n + 1) * N + N = s + 2 * N
      <3> HIDE DEF s
      <3>1. (s + N) + N = s + 2 * N
        BY <1>1, <1>5
      <3> QED
        BY <1>5, <3>1
    <2> QED
      BY <1>1, <1>5, <2>1, <2>2
  <1>7. ASSUME NEW c \in WindowIdx
        PROVE  (IF c \in s .. s + 2 * N - 1 THEN P(b, n, c - s) ELSE v[c])
                 = (IF c < s + N THEN P(b, c \div N, c % N)
                    ELSE IF c < s + 2 * N THEN P(b, n, c - s) ELSE w[c])
    <2>1. c \in Nat
      BY <1>1 DEF WindowIdx
    <2>2. CASE c < s
      <3>1. n # 0 /\ c < n * N
        BY <1>5, <2>1, <2>2
      <3>2. v[c] = P(b, c \div N, c % N)
        BY <1>3, <3>1
      <3> HIDE DEF s
      <3>3. ~(c \in s .. s + 2 * N - 1) /\ c < s + N
        BY <1>1, <1>5, <2>1, <2>2
      <3> QED
        BY <3>2, <3>3
    <2>3. CASE c >= s /\ c < s + N
      <3> DEFINE y == c - s
      <3>1. y \in 0 .. N - 1 /\ c = s + y
        <4> HIDE DEF s
        <4> QED
          BY <1>1, <1>5, <2>1, <2>3
      <3> HIDE DEF y
      <3>2. (n * N + y) \div N = n /\ (n * N + y) % N = y
        BY <1>1, <3>1, DivMod
      <3>3. c \div N = n /\ c % N = y
        BY <3>1, <3>2
      <3> HIDE DEF s
      <3>4. c \in s .. s + 2 * N - 1
        BY <1>1, <1>5, <2>1, <2>3
      <3>5. P(b, n, c - s) = P(b, c \div N, c % N)
        BY <3>3 DEF y
      <3> QED
        BY <2>3, <3>4, <3>5
    <2>4. CASE c >= s + N /\ c < s + 2 * N
      <3> HIDE DEF s
      <3>1. c \in s .. s + 2 * N - 1 /\ ~(c < s + N)
        BY <1>1, <1>5, <2>1, <2>4
      <3> QED
        BY <2>4, <3>1
    <2>5. CASE c >= s + 2 * N
      <3>1. v[c] = w[c]
        <4>1. ~(c < n * N) /\ ~(c < n * N + N)
          <5>1. ~(c < s) /\ ~(c < s + N)
            <6> HIDE DEF s
            <6> QED
              BY <1>1, <1>5, <2>1, <2>5
          <5> QED
            BY <5>1
        <4> QED
          BY <1>3, <4>1
      <3> HIDE DEF s
      <3>2. ~(c \in s .. s + 2 * N - 1) /\ ~(c < s + N) /\ ~(c < s + 2 * N)
        BY <1>1, <1>5, <2>1, <2>5
      <3> QED
        BY <3>1, <3>2
    <2> HIDE DEF s
    <2> QED
      BY <1>1, <1>5, <2>1, <2>2, <2>3, <2>4, <2>5
  <1> HIDE DEF s
  <1>8. Row(v, b, n) = Win(w, b, n + 1)
    BY <1>4, <1>6, <1>7, Zenon
  <1> QED
    BY <1>8 DEF v

(* The function WindowPass chooses.                                        *)
IsPass(after, w, b) ==
  after = [x \in 0 .. N |-> IF x = 0 THEN w ELSE Row(after[x - 1], b, x - 1)]

LEMMA PassChooses ==
  ASSUME NEW w, NEW b
  PROVE  WindowPass(w, b) = (CHOOSE after : IsPass(after, w, b))[N]
  BY DEF WindowPass, IsPass

LEMMA PassIsPattern ==
  ASSUME NEW b \in Words, NEW w, w = [c \in WindowIdx |-> w[c]]
  PROVE  WindowPass(w, b) = Win(w, b, N)
  <1>1. N \in Nat /\ N >= 4
    BY SizeAssumption
  <1> DEFINE h == [n \in 0 .. N |-> Win(w, b, n)]
  <1>2. h[0] = w /\ \A n \in 0 .. N - 1 : h[n + 1] = Row(h[n], b, n)
    <2>1. Win(w, b, 0) = w
      BY DEF Win
    <2>2. 0 \in 0 .. N /\ \A n \in 0 .. N - 1 : n \in 0 .. N /\ n + 1 \in 0 .. N
      BY <1>1
    <2>3. \A n \in 0 .. N : h[n] = Win(w, b, n)
      OBVIOUS
    <2> HIDE DEF h
    <2>4. ASSUME NEW n \in 0 .. N - 1
          PROVE  h[n + 1] = Row(h[n], b, n)
      <3>1. Row(Win(w, b, n), b, n) = Win(w, b, n + 1)
        BY RowSteps
      <3> QED
        BY <2>2, <2>3, <3>1
    <2> QED
      BY <2>1, <2>2, <2>3, <2>4
  <1>3. h = [n \in 0 .. N |-> h[n]] /\ h[N] = Win(w, b, N)
    BY <1>1
  <1> HIDE DEF h
  <1>4. IsPass(h, w, b)
    <2>1. ASSUME NEW x \in 0 .. N
          PROVE  h[x] = IF x = 0 THEN w ELSE Row(h[x - 1], b, x - 1)
      <3>1. CASE x = 0
        BY <1>2, <3>1
      <3>2. CASE x # 0
        <4>1. x - 1 \in 0 .. N - 1 /\ (x - 1) + 1 = x
          BY <1>1, <3>2
        <4>2. h[(x - 1) + 1] = Row(h[x - 1], b, x - 1)
          BY <1>2, <4>1
        <4> QED
          BY <3>2, <4>1, <4>2
      <3> QED
        BY <3>1, <3>2
    <2>2. h = [x \in 0 .. N |-> IF x = 0 THEN w ELSE Row(h[x - 1], b, x - 1)]
      BY <1>3, <2>1, Zenon
    <2> QED
      BY <2>2 DEF IsPass
  <1> DEFINE after == CHOOSE a : IsPass(a, w, b)
  <1>5. IsPass(after, w, b)
    BY <1>4
  <1>6. WindowPass(w, b) = after[N]
    BY PassChooses
  <1> HIDE DEF after
  <1>7. after[0] = w /\ \A n \in 0 .. N - 1 : after[n + 1] = Row(after[n], b, n)
    <2>1. \A x \in 0 .. N : after[x] = IF x = 0 THEN w ELSE Row(after[x - 1], b, x - 1)
      BY <1>5, Zenon DEF IsPass
    <2>2. ASSUME NEW n \in 0 .. N - 1
          PROVE  after[n + 1] = Row(after[n], b, n)
      <3>1. n + 1 \in 0 .. N /\ n + 1 # 0 /\ (n + 1) - 1 = n
        BY <1>1
      <3> QED
        BY <2>1, <3>1
    <2>3. 0 \in 0 .. N
      BY <1>1
    <2> QED
      BY <2>1, <2>2, <2>3
  <1>8. \A n \in 0 .. N : after[n] = h[n]
    <2>1. \A n \in 0 .. N - 1 : after[n] = h[n] => after[n + 1] = h[n + 1]
      BY <1>2, <1>7
    <2>2. after[0] = h[0]
      BY <1>2, <1>7
    <2> QED
      BY <1>1, <2>1, <2>2, SameSteps
  <1> QED
    BY <1>1, <1>3, <1>6, <1>8

(***************************************************************************)
(* The integral image of a pass.                                           *)
(***************************************************************************)

(* The multiple of the pixel in each cell a pass has written.              *)
Q(c) == IF c < N * N THEN K(c \div N, c % N) ELSE K(N - 1, c - (N - 1) * N)

LEMMA PassMultiplies ==
  ASSUME NEW b \in Words, NEW w, w = [c \in WindowIdx |-> w[c]],
         NEW c \in 0 .. N * N + N - 1
  PROVE  WindowPass(w, b)[c] = (Q(c) * b) % WordSpace /\ Q(c) \in Nat
  <1>1. N \in Nat /\ N >= 4
    BY SizeAssumption
  <1>2. c \in WindowIdx
    <2> DEFINE u == N * N
    <2>1. u \in Nat /\ u >= N /\ WindowIdx = 0 .. 2 * u - 1
      <3>1. N * N = N + N * (N - 1) /\ N * (N - 1) \in Nat /\ 2 * N * N = 2 * (N * N)
        BY <1>1
      <3> QED
        BY <1>1, <3>1 DEF WindowIdx
    <2>2. c \in 0 .. u + N - 1
      OBVIOUS
    <2> HIDE DEF u
    <2>3. c \in 0 .. 2 * u - 1
      BY <1>1, <2>1, <2>2
    <2> QED
      BY <2>1, <2>3
  <1>3. Win(w, b, N)[c] = IF c < N * N THEN P(b, c \div N, c % N) ELSE P(b, N - 1, c - (N - 1) * N)
    <2>1. Win(w, b, N)[c] = IF N = 0 THEN w[c]
                            ELSE IF c < N * N THEN P(b, c \div N, c % N)
                            ELSE IF c < N * N + N THEN P(b, N - 1, c - (N - 1) * N) ELSE w[c]
      BY <1>2 DEF Win
    <2>2. N # 0 /\ c < N * N + N
      <3> DEFINE u == N * N
      <3>1. c \in 0 .. u + N - 1 /\ u \in Nat
        BY <1>1
      <3> HIDE DEF u
      <3>2. c < u + N
        BY <1>1, <3>1
      <3> QED
        BY <1>1, <3>2 DEF u
    <2> QED
      BY <2>1, <2>2
  <1>4. WindowPass(w, b)[c] = Win(w, b, N)[c]
    BY PassIsPattern
  <1>5. Q(c) \in Nat
    BY DEF Q, K
  <1> QED
    BY <1>3, <1>4, <1>5 DEF Q, P

(* The two cells an integral is the difference of.                         *)
Upper(c) == (c \div N) * N + 2 * (c % N)
Lower(c) == (c \div N) * N + (2 * N - (c % N) - 1)

LEMMA BothWritten ==
  ASSUME NEW c \in Cells
  PROVE  Upper(c) \in 0 .. N * N + N - 1 /\ Lower(c) \in 0 .. N * N + N - 1
  <1> DEFINE d == c \div N  m == c % N  t == (N - 1) * N  u == N * N
  <1>1. N \in Nat \ {0} /\ N >= 4 /\ N - 1 \in Nat
    BY SizeAssumption
  <1>2. c \in Int /\ 0 <= c /\ c < u
    BY <1>1 DEF Cells
  <1>3. m \in 0 .. N - 1 /\ d \in Int /\ c = d * N + m
    BY <1>1, <1>2, ModQuotient
  <1>4. u = t + N /\ t \in Nat
    BY <1>1
  <1> HIDE DEF d, m
  <1>5. d >= 0
    <2>1. CASE d <= -1
      <3>1. d * N <= -N
        BY <1>1, <1>3, <2>1
      <3> QED
        BY <1>1, <1>2, <1>3, <3>1
    <2> QED
      BY <1>3, <2>1
  <1>6. d <= N - 1
    <2>1. CASE d >= N
      <3>1. (d - N) * N \in Nat /\ d * N = N * N + (d - N) * N
        BY <1>1, <1>3, <2>1
      <3> QED
        BY <1>1, <1>2, <1>3, <3>1
    <2> QED
      BY <1>1, <1>3, <2>1
  <1> DEFINE s == d * N
  <1>7. s \in Nat /\ s <= t
    <2>1. d \in Nat
      BY <1>3, <1>5
    <2> QED
      BY <1>1, <1>6, <2>1, Products
  <1> HIDE DEF s, t, u
  <1>8. s + 2 * m \in 0 .. u + N - 1 /\ s + (2 * N - m - 1) \in 0 .. u + N - 1
    BY <1>1, <1>3, <1>4, <1>7
  <1> QED
    BY <1>8 DEF Upper, Lower, s, d, m, u

LEMMA ImageOfPass ==
  ASSUME NEW b \in Words, NEW w, w = [c \in WindowIdx |-> w[c]]
  PROVE  IntegralOf(WindowPass(w, b))
           = [c \in Cells |-> ((Q(Upper(c)) - Q(Lower(c))) * b) % WordSpace]
  <1> DEFINE v == WindowPass(w, b)
  <1>1. \A d \in 0 .. N * N + N - 1 : v[d] = (Q(d) * b) % WordSpace /\ Q(d) \in Nat
    BY PassMultiplies
  <1> HIDE DEF v
  <1>2. WordSpace \in Nat \ {0} /\ b \in Int
    BY SizeAssumption DEF Words
  <1>3. ASSUME NEW c \in Cells
        PROVE  (v[Upper(c)] - v[Lower(c)]) % WordSpace
                 = ((Q(Upper(c)) - Q(Lower(c))) * b) % WordSpace
    <2> DEFINE q == Q(Upper(c))  r == Q(Lower(c))  x == q * b  y == r * b
    <2>1. v[Upper(c)] = x % WordSpace /\ v[Lower(c)] = y % WordSpace /\ q \in Nat /\ r \in Nat
      BY <1>1, BothWritten
    <2> HIDE DEF q, r
    <2>2. x \in Int /\ y \in Int /\ x - y = (q - r) * b
      BY <1>2, <2>1
    <2> HIDE DEF x, y
    <2>3. ((x % WordSpace) - (y % WordSpace)) % WordSpace = (x - y) % WordSpace
      BY <1>2, <2>2, ModAdd
    <2>4. (v[Upper(c)] - v[Lower(c)]) % WordSpace = ((q - r) * b) % WordSpace
      BY <2>1, <2>2, <2>3
    <2> QED
      BY <2>4 DEF q, r
  <1>4. IntegralOf(v) = [c \in Cells |-> (v[Upper(c)] - v[Lower(c)]) % WordSpace]
    BY DEF IntegralOf, Upper, Lower
  <1>5. IntegralOf(v) = [c \in Cells |-> ((Q(Upper(c)) - Q(Lower(c))) * b) % WordSpace]
    BY <1>3, <1>4, Zenon
  <1> QED
    BY <1>5 DEF v

(* The image is the pixel times the coefficients, whatever window was      *)
(* there before.                                                           *)
LEMMA ImageScales ==
  ASSUME NEW b \in Words, NEW w, w = [c \in WindowIdx |-> w[c]]
  PROVE  IntegralOf(WindowPass(w, b)) = [c \in Cells |-> (Coefficients[c] * b) % WordSpace]
  <1>1. WordSpace \in Nat \ {0} /\ b \in Int /\ 1 \in Words
    BY SizeAssumption DEF Words
  <1> DEFINE D(c) == Q(Upper(c)) - Q(Lower(c))
             blank == [c \in WindowIdx |-> 0]
  <1>2. blank = [c \in WindowIdx |-> blank[c]]
    OBVIOUS
  <1>3. Coefficients = IntegralOf(WindowPass(blank, 1))
    BY DEF Coefficients
  <1> HIDE DEF blank
  <1>4. Coefficients = [c \in Cells |-> (D(c) * 1) % WordSpace]
    BY <1>1, <1>2, <1>3, ImageOfPass
  <1>5. ASSUME NEW c \in Cells
        PROVE  (D(c) * b) % WordSpace = (Coefficients[c] * b) % WordSpace
    <2> DEFINE e == D(c)
    <2>1. e \in Int
      <3>1. Q(Upper(c)) \in Nat /\ Q(Lower(c)) \in Nat
        BY DEF Q, K
      <3> QED
        BY <3>1
    <2>2. Coefficients[c] = (e * 1) % WordSpace
      BY <1>4
    <2> HIDE DEF e
    <2>3. e * 1 = e
      BY <2>1
    <2>4. ((e % WordSpace) * b) % WordSpace = (e * b) % WordSpace
      BY <1>1, <2>1, ModScale
    <2>5. (e * b) % WordSpace = (Coefficients[c] * b) % WordSpace
      BY <2>2, <2>3, <2>4
    <2> QED
      BY <2>5 DEF e
  <1>6. IntegralOf(WindowPass(w, b)) = [c \in Cells |-> (D(c) * b) % WordSpace]
    BY ImageOfPass
  <1> HIDE DEF D
  <1> QED
    BY <1>5, <1>6, Zenon

(***************************************************************************)
(* While the block runs the line is the one it began with: the pixel that  *)
(* started it is stored only when the block has ended.                     *)
(***************************************************************************)
TypeOK ==
  /\ i \in 0 .. N /\ BW_in \in Words
  /\ buffer \in [Line -> Words]
  /\ window_buffer = [c \in WindowIdx |-> window_buffer[c]]

LineIsOld == i < N => buffer = lineBefore

ClassifierInv == TypeOK /\ LineIsOld

LEMMA WindowPassIsWindow ==
  ASSUME NEW b \in Words, NEW w, w = [c \in WindowIdx |-> w[c]]
  PROVE  WindowPass(w, b) = [c \in WindowIdx |-> WindowPass(w, b)[c]]
  <1>1. WindowPass(w, b) = Win(w, b, N)
    BY PassIsPattern
  <1>2. Win(w, b, N) = [c \in WindowIdx |-> Win(w, b, N)[c]]
    BY DEF Win
  <1> QED
    BY <1>1, <1>2

LEMMA ClassifierInvHolds == Spec => []ClassifierInv
  <1>0. N \in Nat /\ N >= 4 /\ N \in 0 .. N /\ 0 \in 0 .. N /\ WordSpace \in Nat \ {0, 1}
        /\ Pixels \subseteq Words /\ 0 \in Words
    BY SizeAssumption DEF Words
  <1>1. Init => ClassifierInv
    BY <1>0 DEF Init, ClassifierInv, TypeOK, LineIsOld
  <1>2. ClassifierInv /\ [Next]_vars => ClassifierInv'
    <2> SUFFICES ASSUME ClassifierInv, [Next]_vars
                 PROVE  ClassifierInv'
      OBVIOUS
    <2>0. TypeOK /\ LineIsOld
      BY DEF ClassifierInv
    <2>1. ASSUME NEW v \in Pixels, NEW a \in Addresses, Fill(v, a)
          PROVE  ClassifierInv'
      <3>1. i' = i /\ i = N /\ BW_in' \in Words /\ window_buffer' = window_buffer
        BY <1>0, <2>1 DEF Fill
      <3>2. buffer' \in [Line -> Words]
        BY <1>0, <2>0, <2>1 DEF Fill, TypeOK
      <3> QED
        BY <1>0, <2>0, <3>1, <3>2 DEF ClassifierInv, TypeOK, LineIsOld
    <2>2. ASSUME NEW v \in Pixels, NEW a \in Addresses, BeginLine(v, a)
          PROVE  ClassifierInv'
      <3>1. i' = 0 /\ BW_in' \in Words /\ window_buffer' = window_buffer
            /\ buffer' = buffer /\ lineBefore' = buffer
        BY <1>0, <2>2 DEF BeginLine
      <3> QED
        BY <1>0, <2>0, <3>1 DEF ClassifierInv, TypeOK, LineIsOld
    <2>3. CASE Pass
      <3>1. i \in 0 .. N - 1 /\ i \in Line /\ i' = i + 1 /\ i' \in 0 .. N
        BY <1>0, <2>0, <2>3 DEF Pass, TypeOK, Line
      <3>2. buffer[i] \in Words
        BY <2>0, <3>1 DEF TypeOK
      <3>3. window_buffer' = WindowPass(window_buffer, buffer[i])
        BY <2>3 DEF Pass
      <3>4. window_buffer = [c \in WindowIdx |-> window_buffer[c]]
        BY <2>0 DEF TypeOK
      <3>5. window_buffer' = [c \in WindowIdx |-> window_buffer'[c]]
        BY <3>2, <3>3, <3>4, WindowPassIsWindow
      <3>6. buffer' \in [Line -> Words]
        BY <2>0, <2>3 DEF Pass, StorePixel, TypeOK
      <3>7. BW_in' = BW_in /\ lineBefore' = lineBefore /\ (i' # N => buffer' = buffer)
        BY <2>3 DEF Pass
      <3>8. LineIsOld'
        BY <1>0, <2>0, <3>1, <3>7 DEF LineIsOld
      <3> QED
        BY <2>0, <3>1, <3>5, <3>6, <3>7, <3>8 DEF ClassifierInv, TypeOK
    <2>4. CASE UNCHANGED vars
      BY <2>0, <2>4 DEF vars, ClassifierInv, TypeOK, LineIsOld
    <2> QED
      BY <2>1, <2>2, <2>3, <2>4 DEF Next
  <1> QED
    BY <1>1, <1>2, PTL DEF Spec

(* When the block of Classifier.sv ends, the integral image is the last    *)
(* pixel of the line, as it was before the block, times the coefficients:  *)
(* nothing else of the line, and nothing of the earlier windows, is in it. *)
THEOREM OnlyTheLastPixelCounts == Spec => ImageIsOnePixel
  <1>1. ClassifierInv /\ [Next]_vars
          => [i' = N /\ i # N =>
                integral_buffer' = [c \in Cells |-> (Coefficients[c] * lineBefore[N - 1]) % WordSpace]]_vars
    <2> SUFFICES ASSUME ClassifierInv, Next, i' = N, i # N
                 PROVE  integral_buffer'
                          = [c \in Cells |-> (Coefficients[c] * lineBefore[N - 1]) % WordSpace]
      OBVIOUS
    <2>1. N \in Nat /\ N >= 4 /\ i \in 0 .. N /\ N - 1 \in Line
      BY SizeAssumption DEF ClassifierInv, TypeOK, Line
    <2>2. Pass
      BY <2>1 DEF Next, Fill, BeginLine
    <2>3. i = N - 1 /\ i < N
      BY <2>1, <2>2 DEF Pass
    <2>4. buffer[i] = lineBefore[N - 1] /\ buffer[i] \in Words
      BY <2>1, <2>3 DEF ClassifierInv, TypeOK, LineIsOld
    <2>5. integral_buffer' = IntegralOf(WindowPass(window_buffer, buffer[i]))
      BY <2>2 DEF Pass
    <2>6. window_buffer = [c \in WindowIdx |-> window_buffer[c]]
      BY DEF ClassifierInv, TypeOK
    <2>7. integral_buffer' = [c \in Cells |-> (Coefficients[c] * buffer[i]) % WordSpace]
      BY <2>4, <2>5, <2>6, ImageScales
    <2> QED
      BY <2>4, <2>7
  <1>2. QED
    BY <1>1, ClassifierInvHolds, PTL DEF Spec, ImageIsOnePixel
=============================================================================
