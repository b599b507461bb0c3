---------------------------- MODULE BookListProofs ----------------------------
(* Theorems about BookList: the storage of the order book (arena, queues,     *)
(* bitmaps, index) holds exactly the live orders of Book, and every step it   *)
(* takes is one that Book allows.                                             *)
(*                                                                            *)
(* In order: what the three-level bitmap stands for; what following           *)
(* successors yields; the inductive invariant ListInv and what each operation *)
(* (removal, insertion, partial fill) does to it; the steps; the properties.  *)
EXTENDS BookList, BookProofs, SequenceTheorems

-------------------------------------------------------------------------------
(* Bitmap: words and bits, for any width of a word                             *)

LEMMA WordAndBit ==
  ASSUME NEW i \in Nat
  PROVE  /\ Word(i) \in Nat /\ Bit(i) \in 0 .. WordBits - 1
         /\ i = Word(i) * WordBits + Bit(i)
BY WordAssumption DEF Word, Bit

LEMMA Positions ==
  ASSUME NEW w \in Nat, NEW m \in 0 .. WordBits - 1
  PROVE  w * WordBits + m \in Nat
BY WordAssumption

LEMMA PositionsOrdered ==
  ASSUME NEW w \in Nat, NEW m \in 0 .. WordBits - 1,
         NEW v \in Nat, NEW r \in 0 .. WordBits - 1, w < v
  PROVE  w * WordBits + m < v * WordBits + r
BY WordAssumption

LEMMA PositionsDiffer ==
  ASSUME NEW w \in Nat, NEW m \in 0 .. WordBits - 1,
         NEW v \in Nat, NEW r \in 0 .. WordBits - 1,
         w * WordBits + m = v * WordBits + r
  PROVE  w = v /\ m = r
<1>1. ~(w < v) /\ ~(v < w)
  <2>1. w * WordBits + m \in Nat /\ v * WordBits + r \in Nat
    BY Positions
  <2>2. QED
    BY <2>1, PositionsOrdered
<1>2. w = v
  BY <1>1
<1>3. w * WordBits \in Int
  BY WordAssumption
<1>4. QED
  BY <1>2, <1>3

LEMMA AtPosition ==
  ASSUME NEW w \in Nat, NEW m \in 0 .. WordBits - 1
  PROVE  Word(w * WordBits + m) = w /\ Bit(w * WordBits + m) = m
<1> DEFINE i == w * WordBits + m
<1>1. i \in Nat
  BY Positions
<1> HIDE DEF i
<1>2. /\ Word(i) \in Nat /\ Bit(i) \in 0 .. WordBits - 1
      /\ i = Word(i) * WordBits + Bit(i)
  BY <1>1, WordAndBit
<1>3. w * WordBits + m = Word(i) * WordBits + Bit(i)
  BY <1>2 DEF i
<1>4. w = Word(i) /\ m = Bit(i)
  BY <1>2, <1>3, PositionsDiffer
<1>5. QED
  BY <1>4 DEF i

\* A number's word is one of the words for the numbers below n.
LEMMA WordsCover ==
  ASSUME NEW n \in Nat
  PROVE  /\ WordsFor(n) \in Nat
         /\ \A i \in 0 .. n - 1 : Word(i) \in 0 .. WordsFor(n) - 1
         /\ n <= WordsFor(n) * WordBits
<1> DEFINE k == n + WordBits - 1
<1>1. k \in Nat
  BY WordAssumption
<1>2. WordsFor(n) = Word(k)
  BY DEF WordsFor, Word
<1> HIDE DEF k
<1>3. /\ Word(k) \in Nat /\ Bit(k) \in 0 .. WordBits - 1
      /\ k = Word(k) * WordBits + Bit(k)
  BY <1>1, WordAndBit
<1>4. Word(k) * WordBits \in Nat
  BY <1>3, WordAssumption
<1>5. n <= Word(k) * WordBits
  BY <1>3, <1>4, WordAssumption DEF k
<1>6. ASSUME NEW i \in 0 .. n - 1 PROVE Word(i) < Word(k)
  <2>1. /\ Word(i) \in Nat /\ Bit(i) \in 0 .. WordBits - 1
        /\ i = Word(i) * WordBits + Bit(i)
    BY WordAndBit
  <2>2. SUFFICES ASSUME Word(k) <= Word(i) PROVE FALSE
    BY <1>3, <2>1
  <2>3. Word(k) * WordBits <= Word(i) * WordBits
    BY <1>3, <2>1, <2>2, WordAssumption
  <2>4. Word(i) * WordBits \in Nat
    BY <2>1, WordAssumption
  <2>5. QED
    BY <1>4, <1>5, <2>1, <2>3, <2>4
<1>7. QED
  BY <1>2, <1>3, <1>5, <1>6, WordAndBit

-------------------------------------------------------------------------------
(* Rows of words                                                               *)

Row(k) == [0 .. k - 1 -> SUBSET (0 .. WordBits - 1)]

\* The numbers a row of words stands for.
BitsOf(words) == {w * WordBits + m : w \in DOMAIN words, m \in 0 .. WordBits - 1}
                   \cap {i \in Nat : Bit(i) \in words[Word(i)]}

LEMMA BitsOfRow ==
  ASSUME NEW k \in Nat, NEW words \in Row(k), NEW i
  PROVE  i \in BitsOf(words) <=> /\ i \in Nat /\ Word(i) \in 0 .. k - 1
                                 /\ Bit(i) \in words[Word(i)]
<1>1. DOMAIN words = 0 .. k - 1
  BY DEF Row
<1>2. ASSUME i \in BitsOf(words)
      PROVE  i \in Nat /\ Word(i) \in 0 .. k - 1 /\ Bit(i) \in words[Word(i)]
  <2>1. PICK w \in 0 .. k - 1, m \in 0 .. WordBits - 1 : i = w * WordBits + m
    BY <1>1, <1>2 DEF BitsOf
  <2>2. Word(i) = w
    BY <2>1, AtPosition
  <2>3. QED
    BY <1>2, <2>2 DEF BitsOf
<1>3. ASSUME i \in Nat, Word(i) \in 0 .. k - 1, Bit(i) \in words[Word(i)]
      PROVE  i \in BitsOf(words)
  BY <1>1, <1>3, WordAndBit DEF BitsOf
<1>4. QED
  BY <1>2, <1>3

LEMMA BitOfWord ==
  ASSUME NEW k \in Nat, NEW words \in Row(k), NEW w \in 0 .. k - 1, NEW m \in words[w]
  PROVE  m \in 0 .. WordBits - 1 /\ w * WordBits + m \in BitsOf(words)
<1>1. m \in 0 .. WordBits - 1
  BY DEF Row
<1>2. /\ w * WordBits + m \in Nat /\ Word(w * WordBits + m) = w /\ Bit(w * WordBits + m) = m
  BY <1>1, Positions, AtPosition
<1>3. QED
  BY <1>1, <1>2, BitsOfRow

LEMMA NonzeroRow ==
  ASSUME NEW k \in Nat, NEW words \in Row(k), NEW w
  PROVE  w \in Nonzero(words) <=> w \in 0 .. k - 1 /\ words[w] # {}
BY DEF Nonzero, Row

\* The least and the greatest of a set, if it has one.
IsLeast(i, S) == i \in S /\ \A j \in S : i <= j
IsGreatest(i, S) == i \in S /\ \A j \in S : j <= i

LEMMA LeastIsMin ==
  ASSUME NEW S, Numbers(S), NEW i, IsLeast(i, S)
  PROVE  Min(S) = i
<1>1. \E x \in S : \A y \in S : x <= y
  BY DEF IsLeast
<1>2. Min(S) \in S /\ \A y \in S : Min(S) <= y
  BY <1>1 DEF Min
<1>3. Min(S) <= i /\ i <= Min(S) /\ i \in Int /\ Min(S) \in Int
  BY <1>2 DEF IsLeast, Numbers
<1>4. QED
  BY <1>3

LEMMA GreatestIsMax ==
  ASSUME NEW S, Numbers(S), NEW i, IsGreatest(i, S)
  PROVE  Max(S) = i
<1>1. \E x \in S : \A y \in S : x >= y
  BY DEF IsGreatest, Numbers
<1>2. Max(S) \in S /\ \A y \in S : Max(S) >= y
  BY <1>1 DEF Max
<1>3. Max(S) >= i /\ i >= Max(S) /\ i \in Int /\ Max(S) \in Int
  BY <1>2 DEF IsGreatest, Numbers
<1>4. QED
  BY <1>3

LEMMA LeastNumber ==
  ASSUME NEW S, S \subseteq Nat, S # {}
  PROVE  \E i : IsLeast(i, S)
<1>1. PICK x \in S : x \in Nat
  OBVIOUS
<1> DEFINE T == {x - y : y \in {z \in S : z <= x}}
<1>2. T \subseteq 0 .. x /\ x - x \in T
  BY <1>1
<1>3. IsFiniteSet(T) /\ Numbers(T)
  <2> HIDE DEF T
  <2>1. 0 \in Int /\ x \in Int
    BY <1>1
  <2>2. IsFiniteSet(0 .. x)
    BY <2>1, FS_Interval
  <2>3. IsFiniteSet(T)
    BY <1>2, <2>2, FS_Subset
  <2>4. QED
    BY <1>2, <2>3 DEF Numbers
<1>4. Max(T) \in T /\ \A v \in T : Max(T) >= v
  <2> HIDE DEF T
  <2>1. QED
    BY <1>2, <1>3, MaxIsGreatest
<1>5. PICK i \in S : i <= x /\ Max(T) = x - i
  BY <1>4
<1>6. ASSUME NEW y \in S PROVE i <= y
  <2>1. CASE y <= x
    <3>1. x - y \in T
      BY <2>1
    <3>2. x - i >= x - y
      BY <1>4, <1>5, <3>1
    <3>3. QED
      BY <1>1, <3>2
  <2>2. CASE ~(y <= x)
    <3>1. y \in Nat /\ i \in Nat
      OBVIOUS
    <3>2. QED
      BY <1>1, <1>5, <2>2, <3>1
  <2>3. QED
    BY <2>1, <2>2
<1>7. QED
  BY <1>6 DEF IsLeast

LEMMA GreatestNumber ==
  ASSUME NEW S, Numbers(S), IsFiniteSet(S), S # {}
  PROVE  \E i : IsGreatest(i, S)
<1>1. Max(S) \in S /\ \A y \in S : Max(S) >= y
  BY MaxIsGreatest
<1>2. \A y \in S : y <= Max(S)
  BY <1>1 DEF Numbers
<1>3. QED
  BY <1>1, <1>2 DEF IsGreatest

\* A set of bits below some number has a least and a greatest.
LEMMA EndsOfBits ==
  ASSUME NEW n \in Nat, NEW S \in SUBSET (0 .. n - 1)
  PROVE  /\ S = {} \/ IsLeast(Min(S), S)
         /\ S = {} \/ IsGreatest(Max(S), S)
<1>1. Numbers(S)
  BY DEF Numbers
<1>2. IsFiniteSet(S)
  <2>1. 0 \in Int /\ n - 1 \in Int
    OBVIOUS
  <2>2. IsFiniteSet(0 .. n - 1)
    BY <2>1, FS_Interval
  <2>3. QED
    BY <2>2, FS_Subset
<1>3. S \subseteq Nat
  OBVIOUS
<1>4. QED
  BY <1>1, <1>2, <1>3, LeastNumber, GreatestNumber, LeastIsMin, GreatestIsMax

LEMMA RowIsBits ==
  ASSUME NEW k \in Nat, NEW words \in Row(k)
  PROVE  /\ Nonzero(words) \in SUBSET (0 .. k - 1)
         /\ \A w \in 0 .. k - 1 : words[w] \in SUBSET (0 .. WordBits - 1)
         /\ WordBits \in Nat
         /\ BitsOf(words) \subseteq Nat
         /\ BitsOf(words) = {} <=> Nonzero(words) = {}
<1>1. Nonzero(words) \in SUBSET (0 .. k - 1)
  BY DEF Row, Nonzero
<1>2. \A w \in 0 .. k - 1 : words[w] \in SUBSET (0 .. WordBits - 1)
  BY DEF Row
<1>3. BitsOf(words) \subseteq Nat
  BY DEF BitsOf
<1>4. ASSUME NEW w \in Nonzero(words) PROVE BitsOf(words) # {}
  <2>1. w \in 0 .. k - 1 /\ words[w] # {}
    BY NonzeroRow
  <2>2. PICK m \in words[w] : TRUE
    BY <2>1
  <2>3. QED
    BY <2>1, <2>2, BitOfWord
<1>5. ASSUME NEW i \in BitsOf(words) PROVE Nonzero(words) # {}
  BY BitsOfRow, NonzeroRow
<1>6. QED
  BY <1>1, <1>2, <1>3, <1>4, <1>5, WordAssumption

\* The least bit is in the first word that is not zero, the greatest in the last.
LEMMA LeastBit ==
  ASSUME NEW k \in Nat, NEW words \in Row(k), NEW w, IsLeast(w, Nonzero(words))
  PROVE  IsLeast(w * WordBits + Min(words[w]), BitsOf(words))
<1> DEFINE m == Min(words[w])
<1>1. w \in 0 .. k - 1 /\ words[w] # {} /\ w \in Nat
  BY NonzeroRow DEF IsLeast
<1>2. words[w] \in SUBSET (0 .. WordBits - 1) /\ WordBits \in Nat
  BY <1>1, RowIsBits
<1>3. IsLeast(m, words[w])
  BY <1>1, <1>2, EndsOfBits
<1> HIDE DEF m
<1>4. m \in words[w] /\ m \in 0 .. WordBits - 1
  BY <1>2, <1>3 DEF IsLeast
<1>5. w * WordBits + m \in BitsOf(words)
  BY <1>1, <1>4, BitOfWord
<1>6. ASSUME NEW i \in BitsOf(words) PROVE w * WordBits + m <= i
  <2>1. i \in Nat /\ Word(i) \in 0 .. k - 1 /\ Bit(i) \in words[Word(i)]
    BY <1>6, BitsOfRow
  <2>2. /\ Bit(i) \in 0 .. WordBits - 1 /\ Word(i) \in Nat
        /\ i = Word(i) * WordBits + Bit(i)
    BY <2>1, WordAndBit
  <2>3. w <= Word(i)
    BY <2>1, NonzeroRow DEF IsLeast
  <2>4. CASE w = Word(i)
    <3>1. m <= Bit(i)
      BY <1>3, <2>1, <2>4 DEF IsLeast
    <3>2. w * WordBits \in Int
      BY <1>1, <1>2
    <3>3. QED
      BY <1>4, <2>2, <2>4, <3>1, <3>2
  <2>5. CASE w < Word(i)
    <3>1. w * WordBits + m < Word(i) * WordBits + Bit(i)
      BY <1>1, <1>4, <2>2, <2>5, PositionsOrdered
    <3>2. w * WordBits + m \in Nat
      BY <1>1, <1>4, Positions
    <3>3. QED
      BY <2>1, <2>2, <3>1, <3>2
  <2>6. QED
    BY <1>1, <2>2, <2>3, <2>4, <2>5
<1>7. QED
  BY <1>5, <1>6 DEF IsLeast, m

LEMMA GreatestBit ==
  ASSUME NEW k \in Nat, NEW words \in Row(k), NEW w, IsGreatest(w, Nonzero(words))
  PROVE  IsGreatest(w * WordBits + Max(words[w]), BitsOf(words))
<1> DEFINE m == Max(words[w])
<1>1. w \in 0 .. k - 1 /\ words[w] # {} /\ w \in Nat
  BY NonzeroRow DEF IsGreatest
<1>2. words[w] \in SUBSET (0 .. WordBits - 1) /\ WordBits \in Nat
  BY <1>1, RowIsBits
<1>3. IsGreatest(m, words[w])
  BY <1>1, <1>2, EndsOfBits
<1> HIDE DEF m
<1>4. m \in words[w] /\ m \in 0 .. WordBits - 1
  BY <1>2, <1>3 DEF IsGreatest
<1>5. w * WordBits + m \in BitsOf(words)
  BY <1>1, <1>4, BitOfWord
<1>6. ASSUME NEW i \in BitsOf(words) PROVE i <= w * WordBits + m
  <2>1. i \in Nat /\ Word(i) \in 0 .. k - 1 /\ Bit(i) \in words[Word(i)]
    BY <1>6, BitsOfRow
  <2>2. /\ Bit(i) \in 0 .. WordBits - 1 /\ Word(i) \in Nat
        /\ i = Word(i) * WordBits + Bit(i)
    BY <2>1, WordAndBit
  <2>3. Word(i) <= w
    BY <2>1, NonzeroRow DEF IsGreatest
  <2>4. CASE w = Word(i)
    <3>1. Bit(i) <= m
      BY <1>3, <2>1, <2>4 DEF IsGreatest
    <3>2. w * WordBits \in Int
      BY <1>1, <1>2
    <3>3. QED
      BY <1>4, <2>2, <2>4, <3>1, <3>2
  <2>5. CASE Word(i) < w
    <3>1. Word(i) * WordBits + Bit(i) < w * WordBits + m
      BY <1>1, <1>4, <2>2, <2>5, PositionsOrdered
    <3>2. w * WordBits + m \in Nat
      BY <1>1, <1>4, Positions
    <3>3. QED
      BY <2>1, <2>2, <3>1, <3>2
  <2>6. QED
    BY <1>1, <2>2, <2>3, <2>4, <2>5
<1>7. QED
  BY <1>5, <1>6 DEF IsGreatest, m

-------------------------------------------------------------------------------
(* One bit of a row                                                            *)

BitSetIn(words, i)     == [words EXCEPT ![Word(i)] = @ \cup {Bit(i)}]
BitClearedIn(words, i) == [words EXCEPT ![Word(i)] = @ \ {Bit(i)}]

LEMMA RowSet ==
  ASSUME NEW k \in Nat, NEW words \in Row(k), NEW i \in Nat, Word(i) \in 0 .. k - 1
  PROVE  /\ BitSetIn(words, i) \in Row(k)
         /\ BitsOf(BitSetIn(words, i)) = BitsOf(words) \cup {i}
         /\ Nonzero(BitSetIn(words, i)) = Nonzero(words) \cup {Word(i)}
<1> DEFINE new == BitSetIn(words, i)
           w == Word(i)
<1>1. /\ Bit(i) \in 0 .. WordBits - 1 /\ w \in Nat /\ i = w * WordBits + Bit(i)
  BY WordAndBit
<1>2. new \in Row(k) /\ new[w] = words[w] \cup {Bit(i)}
      /\ \A v \in 0 .. k - 1 : v # w => new[v] = words[v]
  BY <1>1 DEF Row, BitSetIn
<1> HIDE DEF new
<1>3. ASSUME NEW j \in Nat
      PROVE  j \in BitsOf(new) <=> j \in BitsOf(words) \/ j = i
  <2>1. /\ j \in BitsOf(new) <=> Word(j) \in 0 .. k - 1 /\ Bit(j) \in new[Word(j)]
        /\ j \in BitsOf(words) <=> Word(j) \in 0 .. k - 1 /\ Bit(j) \in words[Word(j)]
    BY <1>2, BitsOfRow
  <2>2. j = Word(j) * WordBits + Bit(j)
    BY WordAndBit
  <2>3. QED
    BY <1>1, <1>2, <2>1, <2>2
<1>4. BitsOf(new) = BitsOf(words) \cup {i}
  <2>1. BitsOf(new) \subseteq Nat /\ BitsOf(words) \subseteq Nat
    BY <1>2, RowIsBits
  <2>2. QED
    BY <1>3, <2>1
<1>5. Nonzero(new) = Nonzero(words) \cup {w}
  <2>1. \A v : v \in Nonzero(new) <=> v \in 0 .. k - 1 /\ new[v] # {}
    BY <1>2, NonzeroRow
  <2>2. \A v : v \in Nonzero(words) <=> v \in 0 .. k - 1 /\ words[v] # {}
    BY NonzeroRow
  <2>3. QED
    BY <1>2, <2>1, <2>2
<1>6. QED
  BY <1>2, <1>4, <1>5 DEF new

LEMMA RowClear ==
  ASSUME NEW k \in Nat, NEW words \in Row(k), NEW i \in Nat, Word(i) \in 0 .. k - 1
  PROVE  /\ BitClearedIn(words, i) \in Row(k)
         /\ BitsOf(BitClearedIn(words, i)) = BitsOf(words) \ {i}
         /\ words[Word(i)] \ {Bit(i)} = {}
              => Nonzero(BitClearedIn(words, i)) = Nonzero(words) \ {Word(i)}
         /\ words[Word(i)] \ {Bit(i)} # {}
              => Nonzero(BitClearedIn(words, i)) = Nonzero(words)
<1> DEFINE new == BitClearedIn(words, i)
           w == Word(i)
<1>1. /\ Bit(i) \in 0 .. WordBits - 1 /\ w \in Nat /\ i = w * WordBits + Bit(i)
  BY WordAndBit
<1>2. new \in Row(k) /\ new[w] = words[w] \ {Bit(i)}
      /\ \A v \in 0 .. k - 1 : v # w => new[v] = words[v]
  BY <1>1 DEF Row, BitClearedIn
<1> HIDE DEF new
<1>3. ASSUME NEW j \in Nat
      PROVE  j \in BitsOf(new) <=> j \in BitsOf(words) /\ j # i
  <2>1. /\ j \in BitsOf(new) <=> Word(j) \in 0 .. k - 1 /\ Bit(j) \in new[Word(j)]
        /\ j \in BitsOf(words) <=> Word(j) \in 0 .. k - 1 /\ Bit(j) \in words[Word(j)]
    BY <1>2, BitsOfRow
  <2>2. j = Word(j) * WordBits + Bit(j)
    BY WordAndBit
  <2>3. QED
    BY <1>1, <1>2, <2>1, <2>2
<1>4. BitsOf(new) = BitsOf(words) \ {i}
  <2>1. BitsOf(new) \subseteq Nat /\ BitsOf(words) \subseteq Nat
    BY <1>2, RowIsBits
  <2>2. QED
    BY <1>3, <2>1
<1>5. /\ words[w] \ {Bit(i)} = {} => Nonzero(new) = Nonzero(words) \ {w}
      /\ words[w] \ {Bit(i)} # {} => Nonzero(new) = Nonzero(words)
  <2>1. \A v : v \in Nonzero(new) <=> v \in 0 .. k - 1 /\ new[v] # {}
    BY <1>2, NonzeroRow
  <2>2. \A v : v \in Nonzero(words) <=> v \in 0 .. k - 1 /\ words[v] # {}
    BY NonzeroRow
  <2>3. QED
    BY <1>2, <2>1, <2>2
<1>6. QED
  BY <1>2, <1>4, <1>5 DEF new

-------------------------------------------------------------------------------
(* A bitmap: three rows, each of which sums up the one below                   *)

Bitmaps(n) ==
  [l0 : Row(WordsFor(n)), l1 : Row(WordsFor(WordsFor(n))),
   l2 : Row(WordsFor(WordsFor(WordsFor(n))))]

Summarised(b) == BitsOf(b.l1) = Nonzero(b.l0) /\ BitsOf(b.l2) = Nonzero(b.l1)

\* b marks exactly these of n ticks.
Marks(b, n, ticks) ==
  /\ b \in Bitmaps(n) /\ Summarised(b)
  /\ ticks \in SUBSET (0 .. n - 1) /\ BitsOf(b.l0) = ticks

LEMMA BitmapRows ==
  ASSUME NEW n \in Nat, NEW b \in Bitmaps(n)
  PROVE  /\ WordsFor(n) \in Nat /\ WordsFor(WordsFor(n)) \in Nat
         /\ WordsFor(WordsFor(WordsFor(n))) \in Nat
         /\ b.l0 \in Row(WordsFor(n)) /\ b.l1 \in Row(WordsFor(WordsFor(n)))
         /\ b.l2 \in Row(WordsFor(WordsFor(WordsFor(n))))
<1>1. WordsFor(n) \in Nat
  BY WordsCover
<1>2. WordsFor(WordsFor(n)) \in Nat
  BY <1>1, WordsCover
<1>3. WordsFor(WordsFor(WordsFor(n))) \in Nat
  BY <1>2, WordsCover
<1>4. QED
  BY <1>1, <1>2, <1>3 DEF Bitmaps

\* One word replaced in each row.
WordsSet(b, u, v, w, x, y, z) == [b EXCEPT !.l0[u] = x, !.l1[v] = y, !.l2[w] = z]

LEMMA WordsReplaced ==
  ASSUME NEW n, NEW b \in Bitmaps(n), NEW u, NEW v, NEW w, NEW x, NEW y, NEW z
  PROVE  WordsSet(b, u, v, w, x, y, z)
           = [l0 |-> [b.l0 EXCEPT ![u] = x], l1 |-> [b.l1 EXCEPT ![v] = y],
              l2 |-> [b.l2 EXCEPT ![w] = z]]
<1> DEFINE c == WordsSet(b, u, v, w, x, y, z)
<1>1. c = [b EXCEPT !.l0[u] = x, !.l1[v] = y, !.l2[w] = z]
  BY DEF WordsSet
<1> HIDE DEF c
<1>2. b = [l0 |-> b.l0, l1 |-> b.l1, l2 |-> b.l2]
  BY DEF Bitmaps
<1>3. c = [l0 |-> [b.l0 EXCEPT ![u] = x], l1 |-> [b.l1 EXCEPT ![v] = y],
           l2 |-> [b.l2 EXCEPT ![w] = z]]
  BY <1>1, <1>2
<1>4. QED
  BY <1>3 DEF c

\* The words a tick is summed up in.
LEMMA TickWords ==
  ASSUME NEW n \in Nat, NEW i \in 0 .. n - 1
  PROVE  /\ i \in Nat /\ Word(i) \in Nat /\ Word(Word(i)) \in Nat
         /\ Word(i) \in 0 .. WordsFor(n) - 1
         /\ Word(Word(i)) \in 0 .. WordsFor(WordsFor(n)) - 1
         /\ Word(Word(Word(i))) \in 0 .. WordsFor(WordsFor(WordsFor(n))) - 1
<1>1. WordsFor(n) \in Nat /\ Word(i) \in 0 .. WordsFor(n) - 1
  BY WordsCover
<1>2. WordsFor(WordsFor(n)) \in Nat /\ Word(Word(i)) \in 0 .. WordsFor(WordsFor(n)) - 1
  BY <1>1, WordsCover
<1>3. Word(Word(Word(i))) \in 0 .. WordsFor(WordsFor(WordsFor(n))) - 1
  BY <1>2, WordsCover
<1>4. QED
  BY <1>1, <1>2, <1>3

LEMMA NewMarks ==
  ASSUME NEW n \in Nat
  PROVE  Marks(NewBitmap(n), n, {})
<1>1. ASSUME NEW k \in Nat
      PROVE  Zeros(k) \in Row(k) /\ Nonzero(Zeros(k)) = {} /\ BitsOf(Zeros(k)) = {}
  <2>1. Zeros(k) \in Row(k)
    BY DEF Zeros, Row
  <2>2. Nonzero(Zeros(k)) = {}
    BY DEF Nonzero, Zeros
  <2>3. QED
    BY <2>1, <2>2, RowIsBits
<1>2. /\ WordsFor(n) \in Nat /\ WordsFor(WordsFor(n)) \in Nat
      /\ WordsFor(WordsFor(WordsFor(n))) \in Nat
  BY WordsCover
<1>3. QED
  BY <1>1, <1>2 DEF Marks, Bitmaps, Summarised, NewBitmap

LEMMA SetMarks ==
  ASSUME NEW n \in Nat, NEW b, NEW ticks, Marks(b, n, ticks), NEW i \in 0 .. n - 1
  PROVE  Marks(SetBit(b, i), n, ticks \cup {i})
<1> DEFINE w == Word(i)
           j == Word(w)
<1>1. /\ b \in Bitmaps(n) /\ Summarised(b) /\ ticks \in SUBSET (0 .. n - 1)
      /\ BitsOf(b.l0) = ticks
  BY DEF Marks
<1>2. /\ SetBit(b, i).l0 = BitSetIn(b.l0, i)
      /\ SetBit(b, i).l1 = BitSetIn(b.l1, w)
      /\ SetBit(b, i).l2 = BitSetIn(b.l2, j)
      /\ SetBit(b, i) = [l0 |-> BitSetIn(b.l0, i), l1 |-> BitSetIn(b.l1, w),
                         l2 |-> BitSetIn(b.l2, j)]
  <2> DEFINE x0 == b.l0[w] \cup {Bit(i)}
             x1 == b.l1[j] \cup {Bit(w)}
             x2 == b.l2[Word(j)] \cup {Bit(j)}
  <2>1. SetBit(b, i) = WordsSet(b, w, j, Word(j), x0, x1, x2)
    BY DEF SetBit, WordsSet
  <2>2. /\ BitSetIn(b.l0, i) = [b.l0 EXCEPT ![w] = x0]
        /\ BitSetIn(b.l1, w) = [b.l1 EXCEPT ![j] = x1]
        /\ BitSetIn(b.l2, j) = [b.l2 EXCEPT ![Word(j)] = x2]
    BY DEF BitSetIn
  <2> HIDE DEF x0, x1, x2, w, j
  <2>3. SetBit(b, i) = [l0 |-> [b.l0 EXCEPT ![w] = x0], l1 |-> [b.l1 EXCEPT ![j] = x1],
                        l2 |-> [b.l2 EXCEPT ![Word(j)] = x2]]
    BY <1>1, <2>1, WordsReplaced
  <2>4. QED
    BY <2>2, <2>3
<1>3. /\ i \in Nat /\ w \in Nat /\ j \in Nat
      /\ w \in 0 .. WordsFor(n) - 1 /\ j \in 0 .. WordsFor(WordsFor(n)) - 1
      /\ Word(j) \in 0 .. WordsFor(WordsFor(WordsFor(n))) - 1
  BY TickWords
<1>4. /\ WordsFor(n) \in Nat /\ WordsFor(WordsFor(n)) \in Nat
      /\ WordsFor(WordsFor(WordsFor(n))) \in Nat
      /\ b.l0 \in Row(WordsFor(n)) /\ b.l1 \in Row(WordsFor(WordsFor(n)))
      /\ b.l2 \in Row(WordsFor(WordsFor(WordsFor(n))))
  BY <1>1, BitmapRows
<1> HIDE DEF j, w
<1>5. /\ BitSetIn(b.l0, i) \in Row(WordsFor(n))
      /\ BitsOf(BitSetIn(b.l0, i)) = ticks \cup {i}
      /\ Nonzero(BitSetIn(b.l0, i)) = Nonzero(b.l0) \cup {w}
  BY <1>1, <1>3, <1>4, RowSet DEF w
<1>6. /\ BitSetIn(b.l1, w) \in Row(WordsFor(WordsFor(n)))
      /\ BitsOf(BitSetIn(b.l1, w)) = Nonzero(b.l0) \cup {w}
      /\ Nonzero(BitSetIn(b.l1, w)) = Nonzero(b.l1) \cup {j}
  BY <1>1, <1>3, <1>4, RowSet DEF j, Summarised
<1>7. /\ BitSetIn(b.l2, j) \in Row(WordsFor(WordsFor(WordsFor(n))))
      /\ BitsOf(BitSetIn(b.l2, j)) = Nonzero(b.l1) \cup {j}
  BY <1>1, <1>3, <1>4, RowSet DEF Summarised
<1>8. SetBit(b, i) \in Bitmaps(n)
  BY <1>2, <1>5, <1>6, <1>7 DEF Bitmaps
<1>9. Summarised(SetBit(b, i))
  BY <1>2, <1>5, <1>6, <1>7 DEF Summarised
<1>10. QED
  BY <1>1, <1>2, <1>5, <1>8, <1>9 DEF Marks

LEMMA ClearMarks ==
  ASSUME NEW n \in Nat, NEW b, NEW ticks, Marks(b, n, ticks), NEW i \in 0 .. n - 1
  PROVE  Marks(ClearBit(b, i), n, ticks \ {i})
<1> DEFINE w == Word(i)
           j == Word(w)
           w0 == b.l0[w] \ {Bit(i)}
           l1 == IF w0 = {} THEN BitClearedIn(b.l1, w) ELSE b.l1
           w1 == b.l1[j] \ {Bit(w)}
           l2 == IF w0 = {} /\ w1 = {} THEN BitClearedIn(b.l2, j) ELSE b.l2
<1>1. /\ b \in Bitmaps(n) /\ Summarised(b) /\ ticks \in SUBSET (0 .. n - 1)
      /\ BitsOf(b.l0) = ticks
  BY DEF Marks
<1>3. /\ i \in Nat /\ w \in Nat /\ j \in Nat
      /\ w \in 0 .. WordsFor(n) - 1 /\ j \in 0 .. WordsFor(WordsFor(n)) - 1
      /\ Word(j) \in 0 .. WordsFor(WordsFor(WordsFor(n))) - 1
  BY TickWords
<1>4. /\ WordsFor(n) \in Nat /\ WordsFor(WordsFor(n)) \in Nat
      /\ WordsFor(WordsFor(WordsFor(n))) \in Nat
      /\ b.l0 \in Row(WordsFor(n)) /\ b.l1 \in Row(WordsFor(WordsFor(n)))
      /\ b.l2 \in Row(WordsFor(WordsFor(WordsFor(n))))
  BY <1>1, BitmapRows
<1>2. ClearBit(b, i) = [l0 |-> BitClearedIn(b.l0, i), l1 |-> l1, l2 |-> l2]
  <2>1. /\ [b.l1 EXCEPT ![j] = b.l1[j]] = b.l1
        /\ [b.l2 EXCEPT ![Word(j)] = b.l2[Word(j)]] = b.l2
    BY <1>3, <1>4 DEF Row
  <2> DEFINE c1 == IF w0 = {} THEN b.l1[j] \ {Bit(w)} ELSE b.l1[j]
             c2 == IF w0 = {} /\ c1 = {} THEN b.l2[Word(j)] \ {Bit(j)} ELSE b.l2[Word(j)]
  <2>2. ClearBit(b, i) = WordsSet(b, w, j, Word(j), w0, c1, c2)
    BY DEF ClearBit, WordsSet
  <2>3. [b.l0 EXCEPT ![w] = w0] = BitClearedIn(b.l0, i)
    BY DEF BitClearedIn
  <2>4. [b.l1 EXCEPT ![j] = c1] = l1
    BY <2>1 DEF BitClearedIn
  <2>5. [b.l2 EXCEPT ![Word(j)] = c2] = l2
    BY <2>1 DEF BitClearedIn
  <2> HIDE DEF w0, c1, c2, l1, l2, w, j
  <2>6. ClearBit(b, i) = [l0 |-> [b.l0 EXCEPT ![w] = w0], l1 |-> [b.l1 EXCEPT ![j] = c1],
                          l2 |-> [b.l2 EXCEPT ![Word(j)] = c2]]
    BY <1>1, <2>2, WordsReplaced
  <2>7. QED
    BY <2>3, <2>4, <2>5, <2>6
<1>5. /\ BitClearedIn(b.l0, i) \in Row(WordsFor(n))
      /\ BitsOf(BitClearedIn(b.l0, i)) = ticks \ {i}
      /\ w0 = {} => Nonzero(BitClearedIn(b.l0, i)) = Nonzero(b.l0) \ {w}
      /\ w0 # {} => Nonzero(BitClearedIn(b.l0, i)) = Nonzero(b.l0)
  <2> HIDE DEF l1, l2, w1, j
  <2>1. QED
    BY <1>1, <1>3, <1>4, RowClear
<1>6. /\ l1 \in Row(WordsFor(WordsFor(n)))
      /\ BitsOf(l1) = Nonzero(BitClearedIn(b.l0, i))
      /\ Nonzero(l1) = IF w0 = {} /\ w1 = {} THEN Nonzero(b.l1) \ {j} ELSE Nonzero(b.l1)
  <2> HIDE DEF w0
  <2>1. /\ BitClearedIn(b.l1, w) \in Row(WordsFor(WordsFor(n)))
        /\ BitsOf(BitClearedIn(b.l1, w)) = Nonzero(b.l0) \ {w}
        /\ w1 = {} => Nonzero(BitClearedIn(b.l1, w)) = Nonzero(b.l1) \ {j}
        /\ w1 # {} => Nonzero(BitClearedIn(b.l1, w)) = Nonzero(b.l1)
    <3> HIDE DEF l1, l2, w
    <3>1. QED
      BY <1>1, <1>3, <1>4, RowClear DEF Summarised
  <2>2. BitsOf(b.l1) = Nonzero(b.l0)
    BY <1>1 DEF Summarised
  <2>3. QED
    BY <1>4, <1>5, <2>1, <2>2
<1>7. /\ l2 \in Row(WordsFor(WordsFor(WordsFor(n))))
      /\ BitsOf(l2) = Nonzero(l1)
  <2> HIDE DEF w0, w1, l1
  <2>1. /\ BitClearedIn(b.l2, j) \in Row(WordsFor(WordsFor(WordsFor(n))))
        /\ BitsOf(BitClearedIn(b.l2, j)) = Nonzero(b.l1) \ {j}
    BY <1>1, <1>3, <1>4, RowClear DEF Summarised
  <2>2. BitsOf(b.l2) = Nonzero(b.l1)
    BY <1>1 DEF Summarised
  <2>3. QED
    BY <1>4, <1>6, <2>1, <2>2
<1> HIDE DEF l1, l2, w0, w1
<1>8. ClearBit(b, i) \in Bitmaps(n)
  BY <1>2, <1>5, <1>6, <1>7 DEF Bitmaps
<1>9. Summarised(ClearBit(b, i))
  BY <1>2, <1>6, <1>7 DEF Summarised
<1>10. QED
  BY <1>1, <1>2, <1>5, <1>8, <1>9 DEF Marks

-------------------------------------------------------------------------------
(* The lookups                                                                 *)

\* Numbers are ordered by their words, and in one word by their bits.
LEMMA OrderOfBits ==
  ASSUME NEW t \in Nat, NEW q \in Nat
  PROVE  t >= q <=> \/ Word(t) > Word(q)
                    \/ Word(t) = Word(q) /\ Bit(t) >= Bit(q)
<1>1. /\ Word(t) \in Nat /\ Bit(t) \in 0 .. WordBits - 1
      /\ t = Word(t) * WordBits + Bit(t)
      /\ Word(q) \in Nat /\ Bit(q) \in 0 .. WordBits - 1
      /\ q = Word(q) * WordBits + Bit(q)
  BY WordAndBit
<1>2. Word(t) < Word(q) => t < q
  BY <1>1, PositionsOrdered
<1>3. Word(q) < Word(t) => q < t
  BY <1>1, PositionsOrdered
<1>4. Word(t) = Word(q) => (t >= q <=> Bit(t) >= Bit(q))
  <2>1. Word(q) * WordBits \in Int
    BY <1>1, WordAssumption
  <2>2. QED
    BY <1>1, <2>1
<1>5. QED
  BY <1>1, <1>2, <1>3, <1>4

\* The bit at a place of a row.
LEMMA BitAt ==
  ASSUME NEW k \in Nat, NEW words \in Row(k), NEW w \in 0 .. k - 1, NEW m \in words[w]
  PROVE  /\ w * WordBits + m \in BitsOf(words) /\ w * WordBits + m \in Nat
         /\ Word(w * WordBits + m) = w /\ Bit(w * WordBits + m) = m
<1>1. m \in 0 .. WordBits - 1 /\ w * WordBits + m \in BitsOf(words) /\ w \in Nat
  BY BitOfWord
<1>2. QED
  BY <1>1, Positions, AtPosition

\* A lookup gives the least (the greatest) of a set, -1 if there is none.
LeastOf(x, S)    == IF S = {} THEN x = -1 ELSE IsLeast(x, S)
GreatestOf(x, S) == IF S = {} THEN x = -1 ELSE IsGreatest(x, S)

LEMMA MarksRows ==
  ASSUME NEW n \in Nat, NEW b, NEW ticks, Marks(b, n, ticks)
  PROVE  /\ WordsFor(n) \in Nat /\ b.l0 \in Row(WordsFor(n))
         /\ BitsOf(b.l0) = ticks /\ ticks \in SUBSET (0 .. n - 1) /\ ticks \subseteq Nat
BY BitmapRows DEF Marks

LEMMA MinBitWorks ==
  ASSUME NEW n \in Nat, NEW b, NEW ticks, Marks(b, n, ticks)
  PROVE  LeastOf(MinBit(b), ticks)
<1> DEFINE r0 == WordsFor(n)
           r1 == WordsFor(r0)
           r2 == WordsFor(r1)
<1>1. /\ r0 \in Nat /\ r1 \in Nat /\ r2 \in Nat
      /\ b.l0 \in Row(r0) /\ b.l1 \in Row(r1) /\ b.l2 \in Row(r2)
  BY BitmapRows DEF Marks
<1> HIDE DEF r0, r1, r2
<1>2. /\ BitsOf(b.l0) = ticks /\ BitsOf(b.l1) = Nonzero(b.l0)
      /\ BitsOf(b.l2) = Nonzero(b.l1)
  BY DEF Marks, Summarised
<1>3. Nonzero(b.l2) = {} <=> ticks = {}
  BY <1>1, <1>2, RowIsBits
<1>4. CASE Nonzero(b.l2) = {}
  BY <1>3, <1>4 DEF MinBit, LeastOf
<1>5. CASE Nonzero(b.l2) # {}
  <2> DEFINE k == Min(Nonzero(b.l2))
             j == k * WordBits + Min(b.l2[k])
             i == j * WordBits + Min(b.l1[j])
  <2>1. IsLeast(k, Nonzero(b.l2))
    BY <1>1, <1>5, RowIsBits, EndsOfBits
  <2> HIDE DEF k
  <2>2. IsLeast(j, Nonzero(b.l1))
    BY <1>1, <1>2, <2>1, LeastBit
  <2> HIDE DEF j
  <2>3. IsLeast(i, Nonzero(b.l0))
    BY <1>1, <1>2, <2>2, LeastBit
  <2> HIDE DEF i
  <2>4. IsLeast(i * WordBits + Min(b.l0[i]), ticks)
    BY <1>1, <1>2, <2>3, LeastBit
  <2>5. MinBit(b) = i * WordBits + Min(b.l0[i])
    BY <1>5 DEF MinBit, i, j, k
  <2>6. QED
    BY <1>3, <1>5, <2>4, <2>5 DEF LeastOf
<1>6. QED
  BY <1>4, <1>5

LEMMA MaxBitWorks ==
  ASSUME NEW n \in Nat, NEW b, NEW ticks, Marks(b, n, ticks)
  PROVE  GreatestOf(MaxBit(b), ticks)
<1> DEFINE r0 == WordsFor(n)
           r1 == WordsFor(r0)
           r2 == WordsFor(r1)
<1>1. /\ r0 \in Nat /\ r1 \in Nat /\ r2 \in Nat
      /\ b.l0 \in Row(r0) /\ b.l1 \in Row(r1) /\ b.l2 \in Row(r2)
  BY BitmapRows DEF Marks
<1> HIDE DEF r0, r1, r2
<1>2. /\ BitsOf(b.l0) = ticks /\ BitsOf(b.l1) = Nonzero(b.l0)
      /\ BitsOf(b.l2) = Nonzero(b.l1)
  BY DEF Marks, Summarised
<1>3. Nonzero(b.l2) = {} <=> ticks = {}
  BY <1>1, <1>2, RowIsBits
<1>4. CASE Nonzero(b.l2) = {}
  BY <1>3, <1>4 DEF MaxBit, GreatestOf
<1>5. CASE Nonzero(b.l2) # {}
  <2> DEFINE k == Max(Nonzero(b.l2))
             j == k * WordBits + Max(b.l2[k])
             i == j * WordBits + Max(b.l1[j])
  <2>1. IsGreatest(k, Nonzero(b.l2))
    BY <1>1, <1>5, RowIsBits, EndsOfBits
  <2> HIDE DEF k
  <2>2. IsGreatest(j, Nonzero(b.l1))
    BY <1>1, <1>2, <2>1, GreatestBit
  <2> HIDE DEF j
  <2>3. IsGreatest(i, Nonzero(b.l0))
    BY <1>1, <1>2, <2>2, GreatestBit
  <2> HIDE DEF i
  <2>4. IsGreatest(i * WordBits + Max(b.l0[i]), ticks)
    BY <1>1, <1>2, <2>3, GreatestBit
  <2>5. MaxBit(b) = i * WordBits + Max(b.l0[i])
    BY <1>5 DEF MaxBit, i, j, k
  <2>6. QED
    BY <1>3, <1>5, <2>4, <2>5 DEF GreatestOf
<1>6. QED
  BY <1>4, <1>5

\* The bits not below q, those in its word and the words after it.
From(words, q, w, rest, more, S) ==
  /\ w = Word(q) /\ rest = {m \in words[w] : m >= Bit(q)}
  /\ more = {v \in Nonzero(words) : v > w}
  /\ S = {t \in BitsOf(words) : t >= q}

\* The least bit not below q: in q's word, or in a later one.
LEMMA LeastFrom ==
  ASSUME NEW k \in Nat, NEW words \in Row(k), NEW q \in Nat,
         NEW w, NEW rest, NEW more, NEW S, From(words, q, w, rest, more, S)
  PROVE  /\ w \notin 0 .. k - 1 => S = {}
         /\ w \in 0 .. k - 1 /\ rest # {} => IsLeast(w * WordBits + Min(rest), S)
         /\ w \in 0 .. k - 1 /\ rest = {} /\ more # {}
              => IsLeast(Min(more) * WordBits + Min(words[Min(more)]), S)
         /\ w \in 0 .. k - 1 /\ rest = {} /\ more = {} => S = {}
<1> USE DEF From
<1>1. /\ w \in Nat /\ Bit(q) \in 0 .. WordBits - 1 /\ WordBits \in Nat
  BY WordAndBit, WordAssumption
<1>2. ASSUME NEW t \in S
      PROVE  /\ t \in Nat /\ Word(t) \in 0 .. k - 1 /\ Bit(t) \in words[Word(t)]
             /\ Bit(t) \in 0 .. WordBits - 1
             /\ \/ Word(t) > w /\ Word(t) \in more
                \/ Word(t) = w /\ Bit(t) \in rest
  <2>1. t \in Nat /\ Word(t) \in 0 .. k - 1 /\ Bit(t) \in words[Word(t)] /\ t >= q
    BY BitsOfRow
  <2>2. Word(t) \in Nonzero(words)
    BY <2>1, NonzeroRow
  <2>3. QED
    BY <2>1, <2>2, OrderOfBits, WordAndBit
<1>3. ASSUME NEW v \in 0 .. k - 1, NEW m \in words[v], \/ v > w
                                                       \/ v = w /\ m \in rest
      PROVE  v * WordBits + m \in S
  <2>1. /\ v * WordBits + m \in BitsOf(words) /\ v * WordBits + m \in Nat
        /\ Word(v * WordBits + m) = v /\ Bit(v * WordBits + m) = m
    BY BitAt
  <2>2. v * WordBits + m >= q
    BY <1>3, <2>1, OrderOfBits
  <2>3. QED
    BY <2>1, <2>2
<1>4. ASSUME NEW v \in 0 .. k - 1, NEW m \in words[v], NEW t \in S,
             \/ Word(t) > v
             \/ Word(t) = v /\ Bit(t) >= m
      PROVE  v * WordBits + m <= t
  <2>1. /\ v * WordBits + m \in Nat
        /\ Word(v * WordBits + m) = v /\ Bit(v * WordBits + m) = m
    BY BitAt
  <2>2. t \in Nat
    BY <1>2
  <2>3. t >= v * WordBits + m
    BY <1>4, <2>1, <2>2, OrderOfBits
  <2>4. QED
    BY <2>1, <2>2, <2>3
<1>5. CASE w \notin 0 .. k - 1
  <2>1. \A t \in S : FALSE
    BY <1>1, <1>2, <1>5
  <2>2. QED
    BY <1>5, <2>1
<1>6. CASE w \in 0 .. k - 1 /\ rest # {}
  <2> DEFINE m == Min(rest)
  <2>1. rest \in SUBSET (0 .. WordBits - 1) /\ rest \subseteq words[w]
    BY <1>6, RowIsBits
  <2>2. IsLeast(m, rest)
    BY <1>1, <1>6, <2>1, EndsOfBits
  <2> HIDE DEF m
  <2>3. m \in rest /\ m \in words[w] /\ m \in Nat
    BY <2>1, <2>2 DEF IsLeast
  <2>4. w * WordBits + m \in S
    BY <1>3, <1>6, <2>3
  <2>5. ASSUME NEW t \in S PROVE w * WordBits + m <= t
    <3>1. \/ Word(t) > w
          \/ Word(t) = w /\ Bit(t) >= m
      BY <1>2, <2>2, <2>3 DEF IsLeast
    <3>2. QED
      BY <1>4, <1>6, <2>3, <3>1
  <2>6. QED
    BY <1>6, <2>4, <2>5 DEF IsLeast, m
<1>7. CASE w \in 0 .. k - 1 /\ rest = {} /\ more # {}
  <2> DEFINE v == Min(more)
             m == Min(words[v])
  <2>1. more \in SUBSET (0 .. k - 1)
    BY RowIsBits
  <2>2. IsLeast(v, more)
    BY <1>7, <2>1, EndsOfBits
  <2> HIDE DEF v
  <2>3. v \in more /\ v \in 0 .. k - 1 /\ words[v] # {} /\ v > w /\ v \in Nat
    BY <2>1, <2>2, NonzeroRow DEF IsLeast
  <2>4. words[v] \in SUBSET (0 .. WordBits - 1)
    BY <2>3, RowIsBits
  <2>5. IsLeast(m, words[v])
    BY <1>1, <2>3, <2>4, EndsOfBits
  <2> HIDE DEF m
  <2>6. m \in words[v] /\ m \in Nat
    BY <2>4, <2>5 DEF IsLeast
  <2>7. v * WordBits + m \in S
    BY <1>3, <2>3, <2>6
  <2>8. ASSUME NEW t \in S PROVE v * WordBits + m <= t
    <3>1. Word(t) \in more /\ Word(t) \in Nat /\ Bit(t) \in words[Word(t)]
      BY <1>2, <1>7
    <3>2. Word(t) >= v
      BY <2>2, <2>3, <3>1 DEF IsLeast
    <3>3. Word(t) = v => Bit(t) >= m
      BY <1>2, <2>5, <2>6, <3>1 DEF IsLeast
    <3>4. QED
      BY <1>4, <2>3, <2>6, <3>1, <3>2, <3>3
  <2>9. QED
    BY <1>7, <2>7, <2>8 DEF IsLeast, m, v
<1>8. CASE w \in 0 .. k - 1 /\ rest = {} /\ more = {}
  <2>1. \A t \in S : FALSE
    BY <1>2, <1>8
  <2>2. QED
    BY <1>8, <2>1
<1>9. QED
  BY <1>5, <1>6, <1>7, <1>8

LEMMA NextAboveWorks ==
  ASSUME NEW n \in Nat, NEW b, NEW ticks, Marks(b, n, ticks), NEW i \in -1 .. n
  PROVE  LeastOf(NextAbove(b, i), {t \in ticks : t > i})
<1>1. /\ WordsFor(n) \in Nat /\ b.l0 \in Row(WordsFor(n))
      /\ BitsOf(b.l0) = ticks /\ ticks \subseteq Nat
  BY MarksRows
<1> DEFINE q == i + 1
           w == Word(q)
           rest == {m \in b.l0[w] : m >= Bit(q)}
           more == {v \in Nonzero(b.l0) : v > w}
           S == {t \in ticks : t > i}
           T == {t \in ticks : t >= q}
           x == NextAbove(b, i)
<1>2. q \in Nat
  OBVIOUS
<1>3. S = T
  <2>1. \A t \in ticks : t \in Nat
    BY <1>1
  <2>2. \A t \in ticks : t > i <=> t >= q
    BY <2>1
  <2>3. QED
    BY <2>2
<1>4. DOMAIN b.l0 = 0 .. WordsFor(n) - 1
  BY <1>1 DEF Row
<1>5. /\ w \notin 0 .. WordsFor(n) - 1 => T = {}
      /\ w \in 0 .. WordsFor(n) - 1 /\ rest # {} => IsLeast(w * WordBits + Min(rest), T)
      /\ w \in 0 .. WordsFor(n) - 1 /\ rest = {} /\ more # {}
           => IsLeast(Min(more) * WordBits + Min(b.l0[Min(more)]), T)
      /\ w \in 0 .. WordsFor(n) - 1 /\ rest = {} /\ more = {} => T = {}
  <2> HIDE DEF q
  <2>1. T = {t \in BitsOf(b.l0) : t >= q}
    BY <1>1
  <2>2. From(b.l0, q, w, rest, more, T)
    BY <2>1 DEF From
  <2> HIDE DEF T, w, rest, more
  <2>3. QED
    BY <1>1, <1>2, <2>2, LeastFrom
<1>6. x = IF w \notin DOMAIN b.l0 THEN -1
          ELSE IF rest # {} THEN w * WordBits + Min(rest)
          ELSE IF more # {} THEN Min(more) * WordBits + Min(b.l0[Min(more)])
          ELSE -1
  BY DEF NextAbove
<1>7. ASSUME NEW y, IsLeast(y, T) PROVE T # {}
  BY <1>7 DEF IsLeast
<1> HIDE DEF x, w, rest, more, q, S, T
<1>8. LeastOf(x, T)
  BY <1>4, <1>5, <1>6, <1>7 DEF LeastOf
<1>9. QED
  BY <1>3, <1>8 DEF x, S

\* The bits not above q, those in its word and the words before it.
UpTo(words, q, w, rest, less, S) ==
  /\ w = Word(q) /\ rest = {m \in words[w] : m <= Bit(q)}
  /\ less = {v \in Nonzero(words) : v < w}
  /\ S = {t \in BitsOf(words) : t <= q}

\* The greatest bit not above q.
LEMMA GreatestUpTo ==
  ASSUME NEW k \in Nat, NEW words \in Row(k), NEW q \in Nat,
         NEW w \in 0 .. k - 1, NEW rest, NEW less, NEW S, UpTo(words, q, w, rest, less, S)
  PROVE  /\ rest # {} => IsGreatest(w * WordBits + Max(rest), S)
         /\ rest = {} /\ less # {}
              => IsGreatest(Max(less) * WordBits + Max(words[Max(less)]), S)
         /\ rest = {} /\ less = {} => S = {}
<1> USE DEF UpTo
<1>1. /\ w \in Nat /\ Bit(q) \in 0 .. WordBits - 1 /\ WordBits \in Nat
  BY WordAndBit, WordAssumption
<1>2. ASSUME NEW t \in S
      PROVE  /\ t \in Nat /\ Word(t) \in 0 .. k - 1 /\ Bit(t) \in words[Word(t)]
             /\ Bit(t) \in 0 .. WordBits - 1
             /\ \/ Word(t) < w /\ Word(t) \in less
                \/ Word(t) = w /\ Bit(t) \in rest
  <2>1. t \in Nat /\ Word(t) \in 0 .. k - 1 /\ Bit(t) \in words[Word(t)] /\ q >= t
    BY BitsOfRow
  <2>2. Word(t) \in Nonzero(words)
    BY <2>1, NonzeroRow
  <2>3. Bit(t) \in 0 .. WordBits - 1
    BY <2>1, WordAndBit
  <2>4. \/ w > Word(t)
        \/ w = Word(t) /\ Bit(q) >= Bit(t)
    BY <2>1, OrderOfBits
  <2>5. QED
    BY <1>1, <2>1, <2>2, <2>3, <2>4
<1>3. ASSUME NEW v \in 0 .. k - 1, NEW m \in words[v], \/ v < w
                                                       \/ v = w /\ m \in rest
      PROVE  v * WordBits + m \in S
  <2>1. /\ v * WordBits + m \in BitsOf(words) /\ v * WordBits + m \in Nat
        /\ Word(v * WordBits + m) = v /\ Bit(v * WordBits + m) = m
    BY BitAt
  <2>2. m \in 0 .. WordBits - 1
    BY RowIsBits
  <2>3. q >= v * WordBits + m
    BY <1>1, <1>3, <2>1, <2>2, OrderOfBits
  <2>4. QED
    BY <2>1, <2>3
<1>4. ASSUME NEW v \in 0 .. k - 1, NEW m \in words[v], NEW t \in S,
             \/ v > Word(t)
             \/ v = Word(t) /\ m >= Bit(t)
      PROVE  t <= v * WordBits + m
  <2>1. /\ v * WordBits + m \in Nat
        /\ Word(v * WordBits + m) = v /\ Bit(v * WordBits + m) = m
    BY BitAt
  <2>2. t \in Nat
    BY <1>2
  <2>3. v * WordBits + m >= t
    BY <1>4, <2>1, <2>2, OrderOfBits
  <2>4. QED
    BY <2>1, <2>2, <2>3
<1>6. CASE rest # {}
  <2> DEFINE m == Max(rest)
  <2>1. rest \in SUBSET (0 .. WordBits - 1) /\ rest \subseteq words[w]
    BY RowIsBits
  <2>2. IsGreatest(m, rest)
    BY <1>1, <1>6, <2>1, EndsOfBits
  <2> HIDE DEF m
  <2>3. m \in rest /\ m \in words[w] /\ m \in Nat
    BY <2>1, <2>2 DEF IsGreatest
  <2>4. w * WordBits + m \in S
    BY <1>3, <2>3
  <2>5. ASSUME NEW t \in S PROVE t <= w * WordBits + m
    <3>1. \/ w > Word(t)
          \/ w = Word(t) /\ m >= Bit(t)
      BY <1>1, <1>2, <2>2, <2>3 DEF IsGreatest
    <3>2. QED
      BY <1>4, <2>3, <3>1
  <2>6. QED
    BY <1>6, <2>4, <2>5 DEF IsGreatest, m
<1>7. CASE rest = {} /\ less # {}
  <2> DEFINE v == Max(less)
             m == Max(words[v])
  <2>1. less \in SUBSET (0 .. k - 1)
    BY RowIsBits
  <2>2. IsGreatest(v, less)
    BY <1>7, <2>1, EndsOfBits
  <2> HIDE DEF v
  <2>3. v \in less /\ v \in 0 .. k - 1 /\ words[v] # {} /\ v < w /\ v \in Nat
    BY <2>1, <2>2, NonzeroRow DEF IsGreatest
  <2>4. words[v] \in SUBSET (0 .. WordBits - 1)
    BY <2>3, RowIsBits
  <2>5. IsGreatest(m, words[v])
    BY <1>1, <2>3, <2>4, EndsOfBits
  <2> HIDE DEF m
  <2>6. m \in words[v] /\ m \in Nat
    BY <2>4, <2>5 DEF IsGreatest
  <2>7. v * WordBits + m \in S
    BY <1>3, <2>3, <2>6
  <2>8. ASSUME NEW t \in S PROVE t <= v * WordBits + m
    <3>1. Word(t) \in less /\ Word(t) \in Nat /\ Bit(t) \in words[Word(t)]
      BY <1>2, <1>7
    <3>2. v >= Word(t)
      BY <2>2, <2>3, <3>1 DEF IsGreatest
    <3>3. Word(t) = v => m >= Bit(t)
      BY <1>2, <2>5, <2>6, <3>1 DEF IsGreatest
    <3>4. QED
      BY <1>4, <2>3, <2>6, <3>1, <3>2, <3>3
  <2>9. QED
    BY <1>7, <2>7, <2>8 DEF IsGreatest, m, v
<1>8. CASE rest = {} /\ less = {}
  <2>1. \A t \in S : FALSE
    BY <1>2, <1>8
  <2>2. QED
    BY <1>8, <2>1
<1>9. QED
  BY <1>6, <1>7, <1>8

LEMMA NextBelowWorks ==
  ASSUME NEW n \in Nat, NEW b, NEW ticks, Marks(b, n, ticks), NEW i \in -1 .. n
  PROVE  GreatestOf(NextBelow(b, i), {t \in ticks : t < i})
<1> DEFINE k == WordsFor(n)
           top == Cardinality(DOMAIN b.l0) * WordBits - 1
           p == IF i - 1 > top THEN top ELSE i - 1
           w == Word(p)
           rest == {m \in b.l0[w] : m <= Bit(p)}
           less == {v \in Nonzero(b.l0) : v < w}
           S == {t \in ticks : t < i}
           T == {t \in ticks : t <= p}
           x == NextBelow(b, i)
<1>1. /\ k \in Nat /\ b.l0 \in Row(k) /\ n <= k * WordBits
      /\ BitsOf(b.l0) = ticks /\ ticks \in SUBSET (0 .. n - 1) /\ ticks \subseteq Nat
  BY MarksRows, WordsCover
<1> HIDE DEF k
<1>2. top = k * WordBits - 1 /\ k * WordBits \in Nat
  <2>1. DOMAIN b.l0 = 0 .. k - 1
    BY <1>1 DEF Row
  <2>2. Cardinality(0 .. k - 1) = k
    BY <1>1, FS_Interval
  <2>3. QED
    BY <1>1, <2>1, <2>2, WordAssumption
<1>3. x = IF p < 0 THEN -1
          ELSE IF rest # {} THEN w * WordBits + Max(rest)
          ELSE IF less # {} THEN Max(less) * WordBits + Max(b.l0[Max(less)])
          ELSE -1
  BY DEF NextBelow
<1> HIDE DEF x, top
<1>4. S = T /\ p \in Int /\ p < k * WordBits
  <2> DEFINE z == k * WordBits - 1
  <2>1. z \in Int /\ top = z /\ n - 1 <= z
    BY <1>1, <1>2
  <2>2. \A t \in ticks : t \in Nat /\ t <= z
    BY <1>1, <2>1
  <2>3. p \in Int /\ p <= z
    <3> HIDE DEF z
    <3>1. QED
      BY <2>1
  <2>4. \A t \in ticks : t < i <=> t <= p
    <3> HIDE DEF z
    <3>1. QED
      BY <2>1, <2>2
  <2>5. p < k * WordBits
    BY <1>2, <2>3
  <2>6. QED
    BY <2>3, <2>4, <2>5
<1> HIDE DEF p, S
<1>5. CASE p < 0
  <2>1. T = {}
    <3>1. \A t \in ticks : t \in Nat
      BY <1>1
    <3>2. \A t \in ticks : ~(t <= p)
      BY <1>4, <1>5, <3>1
    <3>3. QED
      BY <3>2
  <2>2. QED
    BY <1>3, <1>4, <1>5, <2>1 DEF GreatestOf, x, S
<1>6. CASE p >= 0
  <2>1. p \in Nat
    BY <1>4, <1>6
  <2>2. w \in 0 .. k - 1
    <3>1. /\ w \in Nat /\ Bit(p) \in 0 .. WordBits - 1 /\ p = w * WordBits + Bit(p)
      BY <2>1, WordAndBit
    <3>2. SUFFICES ASSUME k <= w PROVE FALSE
      BY <1>1, <3>1
    <3>3. k * WordBits <= w * WordBits /\ w * WordBits \in Nat
      BY <1>1, <3>1, <3>2, WordAssumption
    <3>4. QED
      BY <1>2, <1>4, <3>1, <3>3
  <2>3. /\ rest # {} => IsGreatest(w * WordBits + Max(rest), T)
        /\ rest = {} /\ less # {}
             => IsGreatest(Max(less) * WordBits + Max(b.l0[Max(less)]), T)
        /\ rest = {} /\ less = {} => T = {}
    <3>1. T = {t \in BitsOf(b.l0) : t <= p}
      BY <1>1
    <3>2. UpTo(b.l0, p, w, rest, less, T)
      BY <3>1 DEF UpTo
    <3> HIDE DEF T, w, rest, less
    <3>3. QED
      BY <1>1, <2>1, <2>2, <3>2, GreatestUpTo
  <2>4. ASSUME NEW y, IsGreatest(y, T) PROVE T # {}
    BY <2>4 DEF IsGreatest
  <2> HIDE DEF w, rest, less, T
  <2>5. ~(p < 0)
    BY <1>4, <1>6
  <2>6. GreatestOf(x, T)
    BY <1>3, <2>3, <2>4, <2>5 DEF GreatestOf
  <2>7. QED
    BY <1>4, <2>6 DEF x, S
<1>7. QED
  BY <1>4, <1>5, <1>6

\* A bitmap that marks some ticks is what its invariant says it is.
LEMMA MarksTicks ==
  ASSUME NEW n \in Nat, NEW b, NEW ticks, Marks(b, n, ticks)
  PROVE  /\ TicksIn(b, n) = ticks
         /\ \A i \in 0 .. n - 1 : IsSet(b, i) <=> i \in ticks
<1>1. /\ WordsFor(n) \in Nat /\ b.l0 \in Row(WordsFor(n))
      /\ BitsOf(b.l0) = ticks /\ ticks \in SUBSET (0 .. n - 1)
  BY MarksRows
<1>2. ASSUME NEW i \in 0 .. n - 1 PROVE IsSet(b, i) <=> i \in ticks
  <2>1. Word(i) \in 0 .. WordsFor(n) - 1 /\ i \in Nat
    BY TickWords
  <2>2. QED
    BY <1>1, <2>1, BitsOfRow DEF IsSet
<1>3. QED
  BY <1>1, <1>2 DEF TicksIn

LEMMA MarksSummarised ==
  ASSUME NEW n \in Nat, NEW b, NEW ticks, Marks(b, n, ticks)
  PROVE  WellSummarised(b, n)
<1> DEFINE r0 == WordsFor(n)
           r1 == WordsFor(r0)
           r2 == WordsFor(r1)
<1>1. /\ r0 \in Nat /\ r1 \in Nat /\ r2 \in Nat
      /\ b.l0 \in Row(r0) /\ b.l1 \in Row(r1) /\ b.l2 \in Row(r2)
      /\ \A w \in 0 .. r0 - 1 : Word(w) \in 0 .. r1 - 1
      /\ \A w \in 0 .. r1 - 1 : Word(w) \in 0 .. r2 - 1
  BY BitmapRows, WordsCover DEF Marks
<1> HIDE DEF r0, r1, r2
<1>2. /\ BitsOf(b.l0) = ticks /\ BitsOf(b.l1) = Nonzero(b.l0)
      /\ BitsOf(b.l2) = Nonzero(b.l1) /\ ticks \in SUBSET (0 .. n - 1)
  BY DEF Marks, Summarised
<1>3. DOMAIN b.l0 = 0 .. r0 - 1 /\ DOMAIN b.l1 = 0 .. r1 - 1 /\ DOMAIN b.l2 = 0 .. r2 - 1
  BY <1>1 DEF Row
<1>4. ASSUME NEW w \in 0 .. r0 - 1, NEW m \in b.l0[w] PROVE w * WordBits + m < n
  <2>1. w * WordBits + m \in 0 .. n - 1
    BY <1>1, <1>2, BitOfWord
  <2>2. QED
    BY <2>1
<1>5. ASSUME NEW w \in 0 .. r0 - 1 PROVE Bit(w) \in b.l1[Word(w)] <=> b.l0[w] # {}
  BY <1>1, <1>2, NonzeroRow, BitsOfRow
<1>6. ASSUME NEW j \in 0 .. r1 - 1 PROVE Bit(j) \in b.l2[Word(j)] <=> b.l1[j] # {}
  BY <1>1, <1>2, NonzeroRow, BitsOfRow
<1>7. ASSUME NEW j \in 0 .. r1 - 1, NEW m \in b.l1[j] PROVE j * WordBits + m \in 0 .. r0 - 1
  BY <1>1, <1>2, NonzeroRow, BitOfWord
<1>8. ASSUME NEW k \in 0 .. r2 - 1, NEW m \in b.l2[k] PROVE k * WordBits + m \in 0 .. r1 - 1
  BY <1>1, <1>2, NonzeroRow, BitOfWord
<1>9. QED
  BY <1>3, <1>4, <1>5, <1>6, <1>7, <1>8 DEF WellSummarised

LEMMA LeastIs ==
  ASSUME NEW x, NEW S, Numbers(S), LeastOf(x, S)
  PROVE  x = IF S = {} THEN -1 ELSE Min(S)
BY LeastIsMin DEF LeastOf

LEMMA GreatestIs ==
  ASSUME NEW x, NEW S, Numbers(S), GreatestOf(x, S)
  PROVE  x = IF S = {} THEN -1 ELSE Max(S)
BY GreatestIsMax DEF GreatestOf

LEMMA MarksLookups ==
  ASSUME NEW n \in Nat, NEW b, NEW ticks, Marks(b, n, ticks)
  PROVE  LookupsExact(b, n)
<1> DEFINE Least(S)    == IF S = {} THEN -1 ELSE Min(S)
           Greatest(S) == IF S = {} THEN -1 ELSE Max(S)
<1>1. TicksIn(b, n) = ticks
  BY MarksTicks
<1>2. \A S \in SUBSET ticks : Numbers(S)
  BY MarksRows DEF Numbers
<1>3. MinBit(b) = Least(ticks) /\ MaxBit(b) = Greatest(ticks)
  BY <1>2, MinBitWorks, MaxBitWorks, LeastIs, GreatestIs
<1>4. ASSUME NEW i \in -1 .. n
      PROVE  /\ NextAbove(b, i) = Least({t \in ticks : t > i})
             /\ NextBelow(b, i) = Greatest({t \in ticks : t < i})
  <2> DEFINE above == {t \in ticks : t > i}
             below == {t \in ticks : t < i}
  <2>1. Numbers(above) /\ Numbers(below)
    BY <1>2
  <2>2. LeastOf(NextAbove(b, i), above) /\ GreatestOf(NextBelow(b, i), below)
    BY NextAboveWorks, NextBelowWorks
  <2> HIDE DEF above, below
  <2>3. QED
    BY <2>1, <2>2, LeastIs, GreatestIs DEF above, below
<1>5. QED
  BY <1>1, <1>3, <1>4 DEF LookupsExact

-------------------------------------------------------------------------------
(* Following successors                                                        *)

LEMMA CountTo ==
  ASSUME NEW n \in Nat
  PROVE  IsFiniteSet(1 .. n) /\ Cardinality(1 .. n) = n
<1>1. 1 \in Int /\ n \in Int
  OBVIOUS
<1>2. IsFiniteSet(1 .. n) /\ Cardinality(1 .. n) = IF 1 > n THEN 0 ELSE n - 1 + 1
  BY <1>1, FS_Interval
<1>3. QED
  BY <1>2

\* Only values that have a successor are kept.
Extended(succ, x, c) ==
  LET v == IF c = <<>> THEN x ELSE succ[Last(c)]
  IN  IF v \in DOMAIN succ THEN Append(c, v) ELSE c

Extension(succ, x, n) ==
  [p \in (1 .. n) \X Seq(DOMAIN succ) |-> Extended(succ, x, p[2])]

LEMMA ExtendedType ==
  ASSUME NEW succ, NEW x, NEW c \in Seq(DOMAIN succ)
  PROVE  Extended(succ, x, c) \in Seq(DOMAIN succ)
<1> DEFINE v == IF c = <<>> THEN x ELSE succ[Last(c)]
<1>1. Extended(succ, x, c) = IF v \in DOMAIN succ THEN Append(c, v) ELSE c
  BY DEF Extended
<1> HIDE DEF v
<1>2. v \in DOMAIN succ => Append(c, v) \in Seq(DOMAIN succ)
  OBVIOUS
<1>3. QED
  BY <1>1, <1>2

LEMMA IteratesIsFold ==
  ASSUME NEW succ, NEW x, NEW n \in Nat
  PROVE  Iterates(succ, x, n) = FoldOf(Extension(succ, x, n), <<>>, 1 .. n)
<1> DEFINE F == Extension(succ, x, n)
           ids == 1 .. n
           W == Seq(DOMAIN succ)
           Folds(g) == g = [s \in SUBSET ids |->
                              IF s = {} THEN <<>>
                              ELSE Extended(succ, x, g[s \ {Max(s)}])]
           it == CHOOSE g : Folds(g)
<1>1. Iterates(succ, x, n) = it[ids]
  BY DEF Iterates, MapThenFoldSet, Extended
<1>2. IsFiniteSet(ids) /\ Numbers(ids)
  <2>1. 1 \in Int /\ n \in Int
    OBVIOUS
  <2>2. QED
    BY <2>1, FS_Interval DEF Numbers
<1>3. <<>> \in W
  OBVIOUS
<1>5. \A i \in ids, w \in W : F[<<i, w>>] \in W /\ F[<<i, w>>] = Extended(succ, x, w)
  BY ExtendedType DEF Extension
<1> HIDE DEF F, ids, W
<1>4. PICK g : InOrder(g, F, <<>>, ids)
  BY <1>2, InOrderExists
<1>6. ASSUME NEW s \in SUBSET ids, s # {}
      PROVE  Max(s) \in s /\ s \ {Max(s)} \in SUBSET ids
  BY <1>2, <1>6, FS_Subset, NumbersIn, MaxIsGreatest
<1>7. ASSUME NEW h, InOrder(h, F, <<>>, ids), NEW s \in SUBSET ids PROVE h[s] \in W
  <2>1. IsFiniteSet(s) /\ Numbers(s) /\ \A i \in s : i \in ids
    BY <1>2, FS_Subset, NumbersIn
  <2>2. FoldOf(F, <<>>, s) = h[s]
    BY <1>2, <1>7, FoldIsInOrder
  <2>3. \A i \in s, w \in W : F[<<i, w>>] \in W
    BY <1>5, <2>1
  <2>4. FoldOf(F, <<>>, s) \in W
    BY <1>3, <2>1, <2>3, FoldIn
  <2>5. QED
    BY <2>2, <2>4
<1>8. ASSUME NEW h PROVE InOrder(h, F, <<>>, ids) => Folds(h)
  <2>1. ASSUME InOrder(h, F, <<>>, ids), NEW s \in SUBSET ids, s # {}
        PROVE  F[<<Max(s), h[s \ {Max(s)}]>>] = Extended(succ, x, h[s \ {Max(s)}])
    <3>1. Max(s) \in ids /\ h[s \ {Max(s)}] \in W
      BY <1>6, <1>7, <2>1
    <3>2. QED
      BY <1>5, <3>1
  <2>2. QED
    BY <2>1 DEF InOrder
<1>9. Folds(it)
  BY <1>4, <1>8
<1> HIDE DEF it
<1>10. it[ids] = g[ids]
  <2> DEFINE B == {s \in SUBSET ids : it[s] # g[s]}
  <2>1. SUFFICES ASSUME B # {} PROVE FALSE
    OBVIOUS
  <2>2. PICK s \in B : \A t \in B : t \subseteq s => t = s
    <3> HIDE DEF B
    <3>1. B \subseteq SUBSET ids
      BY DEF B
    <3>2. QED
      BY <1>2, <2>1, <3>1, SmallestSubset
  <2>3. Folds(g)
    BY <1>4, <1>8
  <2>4. /\ it[s] = IF s = {} THEN <<>> ELSE Extended(succ, x, it[s \ {Max(s)}])
        /\ g[s] = IF s = {} THEN <<>> ELSE Extended(succ, x, g[s \ {Max(s)}])
    BY <1>9, <2>3
  <2>5. s # {}
    BY <2>4
  <2>6. Max(s) \in s /\ s \ {Max(s)} \in SUBSET ids
    BY <1>6, <2>5
  <2>7. s \ {Max(s)} \notin B
    BY <2>2, <2>6
  <2>8. QED
    BY <2>4, <2>5, <2>6, <2>7
<1>11. FoldOf(F, <<>>, ids) = g[ids]
  BY <1>2, <1>4, FoldIsInOrder
<1>12. QED
  BY <1>1, <1>10, <1>11 DEF F, ids

\* What the iterates of x are, as far as they were followed.
Followed(c, succ, x, k) ==
  /\ c \in Seq(DOMAIN succ) /\ Len(c) <= k
  /\ c # <<>> => c[1] = x
  /\ \A m \in 1 .. Len(c) : m + 1 <= Len(c) => c[m + 1] = succ[c[m]]
  /\ Len(c) < k /\ c = <<>> => x \notin DOMAIN succ
  /\ Len(c) < k /\ c # <<>> => succ[c[Len(c)]] \notin DOMAIN succ

LEMMA FollowedOn ==
  ASSUME NEW succ, NEW x, NEW k \in Nat, NEW c, Followed(c, succ, x, k)
  PROVE  Followed(Extended(succ, x, c), succ, x, k + 1)
<1> DEFINE v == IF c = <<>> THEN x ELSE succ[c[Len(c)]]
           d == Append(c, v)
<1>1. c \in Seq(DOMAIN succ) /\ Len(c) \in Nat /\ Len(c) <= k
  BY DEF Followed
<1>2. Extended(succ, x, c) = IF v \in DOMAIN succ THEN d ELSE c
  BY DEF Extended, Last
<1>3. CASE v \in DOMAIN succ
  <2>1. Len(c) = k
    BY <1>1, <1>3 DEF Followed
  <2>2. /\ d \in Seq(DOMAIN succ) /\ Len(d) = k + 1 /\ d[k + 1] = v
        /\ \A m \in 1 .. k : d[m] = c[m]
    BY <1>1, <1>3, <2>1
  <2>3. c = <<>> <=> k = 0
    BY <1>1, <2>1
  <2> HIDE DEF d
  <2>4. d[1] = x
    BY <1>1, <2>1, <2>2, <2>3 DEF Followed
  <2>5. ASSUME NEW m \in 1 .. k + 1, m + 1 <= k + 1 PROVE d[m + 1] = succ[d[m]]
    <3>1. CASE m = k
      BY <2>1, <2>2, <2>3, <2>5, <3>1
    <3>2. CASE m # k
      <4>1. m \in 1 .. Len(c) /\ m + 1 <= Len(c) /\ m + 1 \in 1 .. k /\ m \in 1 .. k
        BY <2>1, <2>5, <3>2
      <4>2. c[m + 1] = succ[c[m]]
        BY <4>1 DEF Followed
      <4>3. QED
        BY <2>2, <4>1, <4>2
    <3>3. QED
      BY <3>1, <3>2
  <2>6. Followed(d, succ, x, k + 1)
    BY <2>2, <2>4, <2>5 DEF Followed
  <2>7. QED
    BY <1>2, <1>3, <2>6
<1>4. CASE v \notin DOMAIN succ
  <2>1. Followed(c, succ, x, k + 1)
    BY <1>1, <1>4 DEF Followed
  <2>2. QED
    BY <1>2, <1>4, <2>1
<1>5. QED
  BY <1>3, <1>4

LEMMA IteratesFollow ==
  ASSUME NEW succ, NEW x, NEW n \in Nat
  PROVE  Followed(Iterates(succ, x, n), succ, x, n)
<1> DEFINE F == Extension(succ, x, n)
           It(k) == FoldOf(F, <<>>, 1 .. k)
           B == {k \in 0 .. n : ~Followed(It(k), succ, x, k)}
<1>1. SUFFICES ASSUME B # {} PROVE FALSE
  <2>1. n \notin B
    BY <1>1
  <2>2. n \in 0 .. n
    OBVIOUS
  <2>3. Followed(It(n), succ, x, n)
    BY <2>1, <2>2
  <2>4. QED
    BY <2>3, IteratesIsFold
<1>2. PICK k \in B : \A j \in B : k <= j
  <2> HIDE DEF B
  <2>1. B \subseteq Nat
    BY DEF B
  <2>2. QED
    BY <1>1, <2>1, LeastNumber DEF IsLeast
<1>3. k \in Nat /\ k <= n /\ ~Followed(It(k), succ, x, k)
  OBVIOUS
<1>4. IsFiniteSet(1 .. k) /\ Numbers(1 .. k)
  <2>1. 1 \in Int /\ k \in Int
    BY <1>3
  <2>2. QED
    BY <2>1, FS_Interval DEF Numbers
<1> HIDE DEF F
<1>5. It(k) = IF 1 .. k = {} THEN <<>>
              ELSE F[<<Max(1 .. k), FoldOf(F, <<>>, (1 .. k) \ {Max(1 .. k)})>>]
  BY <1>4, FoldLast
<1>6. CASE k = 0
  <2>1. It(k) = <<>>
    BY <1>5, <1>6
  <2>2. Followed(<<>>, succ, x, 0)
    BY DEF Followed
  <2>3. QED
    BY <1>3, <1>6, <2>1, <2>2
<1>7. CASE k # 0
  <2>1. k - 1 \in 0 .. n /\ k \in 1 .. n /\ k - 1 \in Nat
    BY <1>3, <1>7
  <2>2. Max(1 .. k) = k
    <3>1. Max(1 .. k) \in 1 .. k /\ \A y \in 1 .. k : Max(1 .. k) >= y
      BY <1>4, <2>1, MaxIsGreatest, SMTT(20)
    <3>2. QED
      BY <2>1, <3>1
  <2>3. (1 .. k) \ {k} = 1 .. (k - 1)
    BY <2>1
  <2>4. It(k) = F[<<k, It(k - 1)>>]
    <3> DEFINE s == 1 .. k
               r == s \ {Max(s)}
    <3>1. s # {} /\ Max(s) = k /\ r = 1 .. (k - 1)
      BY <2>1, <2>2, <2>3
    <3>2. It(k) = IF s = {} THEN <<>> ELSE F[<<Max(s), FoldOf(F, <<>>, r)>>]
      BY <1>5
    <3> HIDE DEF s, r
    <3>3. It(k) = F[<<k, FoldOf(F, <<>>, r)>>]
      BY <3>1, <3>2
    <3>4. QED
      BY <3>1, <3>3
  <2>5. Followed(It(k - 1), succ, x, k - 1)
    <3>1. k - 1 \notin B
      BY <1>2, <1>3
    <3>2. QED
      BY <2>1, <3>1
  <2>6. F[<<k, It(k - 1)>>] = Extended(succ, x, It(k - 1))
    BY <2>1, <2>5 DEF F, Extension, Followed
  <2>7. Followed(Extended(succ, x, It(k - 1)), succ, x, k - 1 + 1)
    BY <2>1, <2>5, FollowedOn
  <2>8. k - 1 + 1 = k
    BY <1>3
  <2>9. QED
    BY <1>3, <2>4, <2>6, <2>7, <2>8
<1>8. QED
  BY <1>6, <1>7

\* The successors thread a set: from x, in the order of the keys, to its end.
Threads(succ, S, key, x) ==
  /\ S \subseteq DOMAIN succ
  /\ \A y \in S : key[y] \in Int
  /\ \A y, z \in S : key[y] = key[z] => y = z
  /\ S = {} => x \notin DOMAIN succ
  /\ S # {} => x \in S /\ \A z \in S : key[x] <= key[z]
  /\ \A y \in S : \/ /\ succ[y] \in S /\ key[y] < key[succ[y]]
                     /\ \A z \in S : key[y] < key[z] => key[succ[y]] <= key[z]
                  \/ /\ succ[y] \notin DOMAIN succ
                     /\ \A z \in S : key[z] <= key[y]

\* c is that thread.
IsThread(c, succ, S, key, x) ==
  /\ c \in Seq(S) /\ Range(c) = S /\ Len(c) = Cardinality(S)
  /\ c # <<>> => c[1] = x
  /\ \A m \in 1 .. Len(c) : m + 1 <= Len(c) => c[m + 1] = succ[c[m]]
  /\ c # <<>> => succ[c[Len(c)]] \notin DOMAIN succ
  /\ \A j, k \in 1 .. Len(c) : j < k => key[c[j]] < key[c[k]]

LEMMA IteratesThread ==
  ASSUME NEW succ, NEW S, IsFiniteSet(S), NEW key, NEW x, Threads(succ, S, key, x),
         NEW n \in Nat, Cardinality(S) < n
  PROVE  IsThread(Iterates(succ, x, n), succ, S, key, x)
<1> DEFINE c == Iterates(succ, x, n)
<1>1. /\ c \in Seq(DOMAIN succ) /\ Len(c) \in Nat /\ Len(c) <= n
      /\ c # <<>> => c[1] = x
      /\ \A m \in 1 .. Len(c) : m + 1 <= Len(c) => c[m + 1] = succ[c[m]]
      /\ Len(c) < n /\ c = <<>> => x \notin DOMAIN succ
      /\ Len(c) < n /\ c # <<>> => succ[c[Len(c)]] \notin DOMAIN succ
  BY IteratesFollow DEF Followed
<1> HIDE DEF c
<1>a. \A m \in 1 .. Len(c) : c[m] \in DOMAIN succ
  BY <1>1
<1>b. c = <<>> <=> Len(c) = 0
  BY <1>1
<1>2. \A m \in 1 .. Len(c) : c[m] \in S
  <2> DEFINE B == {m \in 1 .. Len(c) : c[m] \notin S}
  <2>1. SUFFICES ASSUME B # {} PROVE FALSE
    OBVIOUS
  <2>2. PICK m \in B : \A j \in B : m <= j
    <3> HIDE DEF B
    <3>1. B \subseteq Nat
      BY DEF B
    <3>2. QED
      BY <2>1, <3>1, LeastNumber DEF IsLeast
  <2>3. m \in 1 .. Len(c) /\ c[m] \notin S /\ c[m] \in DOMAIN succ
    BY <1>a
  <2>4. CASE m = 1
    BY <1>1, <1>b, <2>3, <2>4 DEF Threads
  <2>5. CASE m # 1
    <3>1. m - 1 \in 1 .. Len(c) /\ (m - 1) + 1 <= Len(c) /\ (m - 1) + 1 = m
      BY <1>1, <2>3, <2>5
    <3>2. c[m - 1] \in S
      BY <2>2, <3>1
    <3>3. c[m] = succ[c[m - 1]]
      BY <1>1, <3>1
    <3>4. QED
      BY <2>3, <3>2, <3>3 DEF Threads
  <2>6. QED
    BY <2>4, <2>5
<1>3. ASSUME NEW m \in 1 .. Len(c), m + 1 <= Len(c)
      PROVE  /\ m + 1 \in 1 .. Len(c) /\ c[m + 1] = succ[c[m]]
             /\ key[c[m]] < key[c[m + 1]]
             /\ \A z \in S : key[c[m]] < key[z] => key[c[m + 1]] <= key[z]
  <2>1. m + 1 \in 1 .. Len(c)
    BY <1>1, <1>3
  <2>2. c[m + 1] = succ[c[m]] /\ c[m] \in S /\ c[m + 1] \in DOMAIN succ
    BY <1>1, <1>3, <1>a, <1>2, <2>1
  <2>3. QED
    BY <2>1, <2>2 DEF Threads
<1>4. \A m \in 1 .. Len(c) : key[c[m]] \in Int
  BY <1>2 DEF Threads
<1>5. \A j, k \in 1 .. Len(c) : j < k => key[c[j]] < key[c[k]]
  <2> DEFINE B == {k \in 1 .. Len(c) : \E j \in 1 .. Len(c) : j < k /\ ~(key[c[j]] < key[c[k]])}
  <2>1. SUFFICES ASSUME B # {} PROVE FALSE
    OBVIOUS
  <2>2. PICK k \in B : \A j \in B : k <= j
    <3> HIDE DEF B
    <3>1. B \subseteq Nat
      BY DEF B
    <3>2. QED
      BY <2>1, <3>1, LeastNumber DEF IsLeast
  <2>3. PICK j \in 1 .. Len(c) : j < k /\ ~(key[c[j]] < key[c[k]])
    OBVIOUS
  <2>4. k - 1 \in 1 .. Len(c) /\ (k - 1) + 1 <= Len(c) /\ (k - 1) + 1 = k
    BY <1>1, <2>3
  <2>5. key[c[k - 1]] < key[c[k]]
    BY <1>3, <2>4
  <2>6. CASE j = k - 1
    BY <2>3, <2>5, <2>6
  <2>7. CASE j < k - 1
    <3>1. k - 1 \notin B
      BY <1>1, <2>2, <2>4
    <3>2. key[c[j]] < key[c[k - 1]]
      BY <2>4, <2>7, <3>1
    <3>3. k \in 1 .. Len(c)
      OBVIOUS
    <3>4. key[c[j]] \in Int /\ key[c[k - 1]] \in Int /\ key[c[k]] \in Int
      BY <1>4, <2>4, <3>3
    <3>5. QED
      BY <2>3, <2>5, <3>2, <3>4
  <2>8. QED
    BY <1>1, <2>3, <2>4, <2>6, <2>7
<1>6. ASSUME NEW j \in 1 .. Len(c), NEW k \in 1 .. Len(c), c[j] = c[k] PROVE j = k
  <2>1. ~(j < k) /\ ~(k < j)
    BY <1>4, <1>5, <1>6
  <2>2. QED
    BY <1>1, <2>1
<1>7. Len(c) <= Cardinality(S)
  <2> DEFINE f == [m \in 1 .. Len(c) |-> c[m]]
  <2>1. f \in Injection(1 .. Len(c), S)
    BY <1>2, <1>6 DEF Injection, IsInjective
  <2> HIDE DEF f
  <2>2. Cardinality(1 .. Len(c)) = Len(c)
    BY <1>1, CountTo
  <2>3. QED
    BY <2>1, <2>2, FS_Injection
<1>8. Cardinality(S) \in Nat
  BY FS_CardinalityType
<1>9. Len(c) < n
  BY <1>1, <1>7, <1>8
<1>10. \A m \in 1 .. Len(c) : \A z \in S : (\A j \in 1 .. m : c[j] # z) => key[c[m]] < key[z]
  <2> DEFINE B == {m \in 1 .. Len(c) : \E z \in S : (\A j \in 1 .. m : c[j] # z)
                                                     /\ ~(key[c[m]] < key[z])}
  <2>1. SUFFICES ASSUME B # {} PROVE FALSE
    OBVIOUS
  <2>2. PICK m \in B : \A j \in B : m <= j
    <3> HIDE DEF B
    <3>1. B \subseteq Nat
      BY DEF B
    <3>2. QED
      BY <2>1, <3>1, LeastNumber DEF IsLeast
  <2>3. PICK z \in S : (\A j \in 1 .. m : c[j] # z) /\ ~(key[c[m]] < key[z])
    OBVIOUS
  <2>4. m \in 1 .. Len(c) /\ m \in 1 .. m
    BY <1>1
  <2>5. c[m] # z /\ key[c[m]] # key[z] /\ key[c[m]] \in Int /\ key[z] \in Int
    BY <1>2, <2>3, <2>4 DEF Threads
  <2>6. CASE m = 1
    <3>1. key[c[m]] <= key[z]
      BY <1>1, <1>b, <2>4, <2>6 DEF Threads
    <3>2. QED
      BY <2>3, <2>5, <3>1
  <2>7. CASE m # 1
    <3>1. m - 1 \in 1 .. Len(c) /\ (m - 1) + 1 <= Len(c) /\ (m - 1) + 1 = m
      BY <1>1, <2>4, <2>7
    <3>2. m - 1 \notin B
      BY <2>2, <2>4
    <3>3. \A j \in 1 .. (m - 1) : c[j] # z
      <4>1. \A j \in 1 .. (m - 1) : j \in 1 .. m
        BY <2>4
      <4>2. QED
        BY <2>3, <4>1
    <3>4. key[c[m - 1]] < key[z]
      BY <3>1, <3>2, <3>3
    <3>5. key[c[m]] <= key[z]
      BY <1>3, <3>1, <3>4
    <3>6. QED
      BY <2>3, <2>5, <3>5
  <2>8. QED
    BY <2>6, <2>7
<1>11. ASSUME NEW z \in S PROVE \E j \in 1 .. Len(c) : c[j] = z
  <2>1. SUFFICES ASSUME \A j \in 1 .. Len(c) : c[j] # z PROVE FALSE
    OBVIOUS
  <2>2. c # <<>>
    BY <1>1, <1>9 DEF Threads
  <2>3. Len(c) \in 1 .. Len(c)
    BY <1>1, <1>b, <2>2
  <2>4. key[c[Len(c)]] < key[z]
    BY <1>10, <2>1, <2>3
  <2>5. succ[c[Len(c)]] \notin DOMAIN succ /\ c[Len(c)] \in S
    BY <1>1, <1>2, <1>9, <2>2, <2>3
  <2>6. key[z] <= key[c[Len(c)]]
    BY <2>5 DEF Threads
  <2>7. key[z] \in Int /\ key[c[Len(c)]] \in Int
    BY <1>4, <2>3 DEF Threads
  <2>8. QED
    BY <2>4, <2>6, <2>7
<1>12. DOMAIN c = 1 .. Len(c)
  BY <1>1
<1>13. Range(c) = S
  BY <1>2, <1>11, <1>12 DEF Range
<1>14. Len(c) = Cardinality(S)
  <2> DEFINE f == [m \in 1 .. Len(c) |-> c[m]]
  <2>1. f \in Surjection(1 .. Len(c), S)
    BY <1>2, <1>11 DEF Surjection
  <2> HIDE DEF f
  <2>2. Cardinality(1 .. Len(c)) = Len(c) /\ IsFiniteSet(1 .. Len(c))
    BY <1>1, CountTo
  <2>3. Cardinality(S) <= Len(c)
    BY <2>1, <2>2, FS_Surjection
  <2>4. QED
    BY <1>1, <1>7, <1>8, <2>3
<1>15. c \in Seq(S)
  BY <1>1, <1>2, <1>12
<1>16. QED
  BY <1>1, <1>5, <1>9, <1>13, <1>14, <1>15 DEF IsThread, c

-------------------------------------------------------------------------------
(* The inductive invariant: what the storage s holds of the live orders l      *)

Ticks == 0 .. NTicks - 1
Links == Handles \cup {NilHandle}

\* The orders of a level.
Level(l, a, t) ==
  {i \in DOMAIN l : l[i].side = a[1] /\ l[i].pending = a[2] /\ TickOf(l[i].level) = t}

\* i is queued before j, and right before it.
Before(l, i, j) ==
  /\ l[i].side = l[j].side /\ l[i].pending = l[j].pending
  /\ TickOf(l[i].level) = TickOf(l[j].level) /\ l[i].seq < l[j].seq

RightBefore(l, i, j) ==
  Before(l, i, j) /\ \A k \in DOMAIN l : ~(Before(l, i, k) /\ Before(l, k, j))

Slots ==
  [id : OrderIds, px : Prices, qty : Nat, seq : Nat \ {0}, tick : Ticks,
   owner : Owners, side : Sides, tif : TIFs, pending : BOOLEAN, prev : Links, next : Links]
FreeSlots == [next : Links]
LevelRecords == [head : Links, tail : Links, total : Int, count : Int]

NodeTables == [Handles -> Slots \cup FreeSlots]
LevelTables == [Arrays -> [Ticks -> LevelRecords]]
MapTables == [Arrays -> Bitmaps(NTicks)]
Indexes(ids) == [ids -> Handles]

Stores(ids) ==
  [nodes : NodeTables, free : Links, used : Int, levels : LevelTables, maps : MapTables,
   index : Indexes(ids)]

\* Every live order has a slot of its own, with its data.
Carries(n, i, o) ==
  /\ n \in Slots
  /\ n.id = i /\ n.px = o.px /\ n.qty = o.qty /\ n.seq = o.seq /\ n.owner = o.owner
  /\ n.side = o.side /\ n.tif = o.tif /\ n.pending = o.pending
  /\ n.tick = TickOf(o.level)

SlotOf(s, i) == s.nodes[s.index[i]]

Indexed(s, l) ==
  /\ \A i \in DOMAIN l : Carries(SlotOf(s, i), i, l[i])
  /\ \A i, j \in DOMAIN l : s.index[i] = s.index[j] => i = j

\* The links of a slot lead to its neighbours in the queue.
Linked(s, l) ==
  \A i \in DOMAIN l :
    /\ IF SlotOf(s, i).next = NilHandle THEN \A j \in DOMAIN l : ~Before(l, i, j)
       ELSE \E j \in DOMAIN l : RightBefore(l, i, j) /\ SlotOf(s, i).next = s.index[j]
    /\ IF SlotOf(s, i).prev = NilHandle THEN \A j \in DOMAIN l : ~Before(l, j, i)
       ELSE \E j \in DOMAIN l : RightBefore(l, j, i) /\ SlotOf(s, i).prev = s.index[j]

\* A level knows its ends and its aggregates.
EndsAt(s, l, lv, S) ==
  /\ IF lv.head = NilHandle THEN S = {}
     ELSE \E i \in S : lv.head = s.index[i] /\ \A j \in S : l[i].seq <= l[j].seq
  /\ IF lv.tail = NilHandle THEN S = {}
     ELSE \E i \in S : lv.tail = s.index[i] /\ \A j \in S : l[j].seq <= l[i].seq

QtyOn(l, S) == Total([i \in S |-> l[i].qty], S)

Levelled(s, l) ==
  \A a \in Arrays, t \in Ticks :
    /\ EndsAt(s, l, s.levels[a][t], Level(l, a, t))
    /\ s.levels[a][t].count = Cardinality(Level(l, a, t))
    /\ s.levels[a][t].total = QtyOn(l, Level(l, a, t))

\* The bitmaps mark the levels that are not empty.
NonEmpty(l, a) == {t \in Ticks : Level(l, a, t) # {}}
Mapped(s, l) == \A a \in Arrays : Marks(s.maps[a], NTicks, NonEmpty(l, a))

\* The free list holds the slots that no order has, g[1] at its end.
FreeList(s, g, m) ==
  /\ s.free = IF m = 0 THEN NilHandle ELSE g[m]
  /\ \A k \in 1 .. m : s.nodes[g[k]].next = IF k = 1 THEN NilHandle ELSE g[k - 1]

Freed(s, l) ==
  \E m \in Nat : \E g \in [1 .. m -> Handles] :
    /\ \A j, k \in 1 .. m : g[j] = g[k] => j = k
    /\ {g[k] : k \in 1 .. m} = Handles \ {s.index[i] : i \in DOMAIN l}
    /\ FreeList(s, g, m)

Threaded(s, l) ==
  /\ s \in Stores(DOMAIN l)
  /\ Indexed(s, l) /\ Linked(s, l) /\ Levelled(s, l) /\ Mapped(s, l) /\ Freed(s, l)
  /\ s.used = Cardinality(DOMAIN l)

\* Arrival numbers are handed out once.
Numbered(l, n) ==
  /\ \A i \in DOMAIN l : l[i].seq <= n
  /\ \A i, j \in DOMAIN l : l[i].seq = l[j].seq => i = j

ListInv == Threaded(store, live) /\ Numbered(live, arrSeq)

-------------------------------------------------------------------------------
(* Prices and ticks                                                            *)

LEMMA TickScale ==
  ASSUME NEW p \in Prices
  PROVE  TickOf(p) \in Nat /\ p = MinPx + TickOf(p) * Tick /\ p \in Int
<1>1. /\ p \in Int /\ MinPx \in Int /\ p - MinPx \in Nat /\ (p - MinPx) % Tick = 0
      /\ Tick \in Nat \ {0}
  BY BookAssumption DEF Prices, ValidPx
<1> DEFINE d == p - MinPx
<1>2. d \in Nat /\ d % Tick = 0
  BY <1>1
<1> HIDE DEF d
<1>3. d \div Tick \in Nat /\ d = (d \div Tick) * Tick + (d % Tick)
  <2>1. Tick \in Nat \ {0}
    BY <1>1
  <2>2. d \in Nat
    BY <1>2
  <2>3. QED
    BY <2>1, <2>2
<1>4. d = (d \div Tick) * Tick
  BY <1>1, <1>2, <1>3
<1>5. TickOf(p) = d \div Tick
  BY DEF TickOf, d
<1>6. p = MinPx + d
  BY <1>1 DEF d
<1>7. QED
  BY <1>1, <1>3, <1>4, <1>5, <1>6

LEMMA TicksOrdered ==
  ASSUME NEW p \in Prices, NEW q \in Prices
  PROVE  /\ p <= q <=> TickOf(p) <= TickOf(q)
         /\ p = q <=> TickOf(p) = TickOf(q)
<1>1. /\ TickOf(p) \in Nat /\ p = MinPx + TickOf(p) * Tick /\ p \in Int
      /\ TickOf(q) \in Nat /\ q = MinPx + TickOf(q) * Tick /\ q \in Int
  BY TickScale
<1>2. /\ MinPx \in Int /\ Tick \in Nat \ {0}
  BY BookAssumption
<1> DEFINE x == TickOf(p)
           y == TickOf(q)
<1> HIDE DEF x, y
<1>3. x \in Nat /\ y \in Nat /\ p = MinPx + x * Tick /\ q = MinPx + y * Tick
  BY <1>1 DEF x, y
<1>4. x < y => x * Tick < y * Tick
  BY <1>2, <1>3
<1>5. y < x => y * Tick < x * Tick
  BY <1>2, <1>3
<1>6. x * Tick \in Int /\ y * Tick \in Int
  BY <1>2, <1>3
<1>7. /\ x < y => p < q
      /\ y < x => q < p
      /\ x = y => p = q
  BY <1>2, <1>3, <1>4, <1>5, <1>6
<1>8. (p <= q <=> x <= y) /\ (p = q <=> x = y)
  BY <1>1, <1>3, <1>7
<1>9. QED
  BY <1>8 DEF x, y

LEMMA TickRange ==
  /\ NTicks \in Nat /\ NTicks > 0 /\ MinPx \in Prices /\ MaxPx \in Prices
  /\ \A p \in Prices : TickOf(p) \in Ticks
<1>1. MinPx \in Prices /\ MaxPx \in Prices
  BY BandEdges
<1>2. TickOf(MaxPx) \in Nat /\ NTicks = TickOf(MaxPx) + 1
  BY <1>1, TickScale DEF NTicks
<1>3. ASSUME NEW p \in Prices PROVE TickOf(p) \in Ticks
  <2>1. p <= MaxPx
    BY BookAssumption DEF Prices
  <2>2. TickOf(p) <= TickOf(MaxPx) /\ TickOf(p) \in Nat
    BY <1>1, <2>1, TicksOrdered, TickScale
  <2>3. QED
    BY <1>2, <2>2 DEF Ticks
<1>4. QED
  BY <1>1, <1>2, <1>3

-------------------------------------------------------------------------------
(* The order of a queue                                                        *)

\* l is a book whose orders arrived in turn.
Arrived(l) == Book(l) /\ \A i, j \in DOMAIN l : l[i].seq = l[j].seq => i = j

SameLevel(l, i, j) ==
  /\ l[i].side = l[j].side /\ l[i].pending = l[j].pending
  /\ TickOf(l[i].level) = TickOf(l[j].level)

\* Facts about the order of arrival, for three orders of a book.
LEMMA Arrivals ==
  ASSUME NEW l, Arrived(l), NEW i \in DOMAIN l, NEW j \in DOMAIN l
  PROVE  /\ l[i].seq \in Nat /\ l[j].seq \in Nat
         /\ i # j => l[i].seq # l[j].seq
         /\ Before(l, i, j) <=> SameLevel(l, i, j) /\ l[i].seq < l[j].seq
BY DEF Arrived, Book, Nodes, Before, SameLevel

\* What is right before an order is unique, and so is what is right behind it.
LEMMA OneNeighbour ==
  ASSUME NEW l, Arrived(l), NEW i \in DOMAIN l, NEW j \in DOMAIN l, NEW k \in DOMAIN l
  PROVE  /\ RightBefore(l, j, i) /\ RightBefore(l, k, i) => j = k
         /\ RightBefore(l, i, j) /\ RightBefore(l, i, k) => j = k
<1>1. /\ l[i].seq \in Nat /\ l[j].seq \in Nat /\ l[k].seq \in Nat
      /\ j # k => l[j].seq # l[k].seq
  BY Arrivals
<1>2. QED
  BY <1>1 DEF RightBefore, Before

\* An order leaves the book.
Left(l, i) == Restrict(l, DOMAIN l \ {i})

LEMMA LeftIs ==
  ASSUME NEW l, NEW i \in DOMAIN l
  PROVE  /\ DOMAIN Left(l, i) = DOMAIN l \ {i}
         /\ \A j \in DOMAIN l : j # i => Left(l, i)[j] = l[j]
BY DEF Left, Restrict

LEMMA LeftArrived ==
  ASSUME NEW l, Arrived(l), NEW i \in DOMAIN l
  PROVE  Arrived(Left(l, i))
<1>1. /\ DOMAIN Left(l, i) = DOMAIN l \ {i}
      /\ \A j \in DOMAIN l : j # i => Left(l, i)[j] = l[j]
  BY LeftIs
<1>2. IsFiniteSet(DOMAIN l \ {i})
  BY FS_Subset DEF Arrived, Book
<1>3. QED
  BY <1>1, <1>2 DEF Arrived, Book

\* The neighbours of the others stay, those of the one that leaves join.
LEMMA LeftNeighbours ==
  ASSUME NEW l, Arrived(l), NEW i \in DOMAIN l,
         NEW j \in DOMAIN l \ {i}, NEW k \in DOMAIN l \ {i}
  PROVE  /\ Before(Left(l, i), j, k) <=> Before(l, j, k)
         /\ RightBefore(l, j, k) => RightBefore(Left(l, i), j, k)
         /\ RightBefore(l, j, i) /\ RightBefore(l, i, k) => RightBefore(Left(l, i), j, k)
<1> DEFINE r == Left(l, i)
<1>1. /\ DOMAIN r = DOMAIN l \ {i}
      /\ \A x \in DOMAIN l : x # i => r[x] = l[x]
  BY LeftIs
<1> HIDE DEF r
<1>2. \A x, y \in DOMAIN r : Before(r, x, y) <=> Before(l, x, y)
  BY <1>1 DEF Before
<1>3. RightBefore(l, j, k) => RightBefore(r, j, k)
  BY <1>1, <1>2 DEF RightBefore
<1>4. ASSUME RightBefore(l, j, i), RightBefore(l, i, k) PROVE RightBefore(r, j, k)
  <2>1. Before(l, j, k)
    BY <1>4, Arrivals DEF RightBefore, Before
  <2>2. ASSUME NEW x \in DOMAIN r, Before(l, j, x), Before(l, x, k) PROVE FALSE
    <3>1. x \in DOMAIN l /\ x # i
      BY <1>1
    <3>2. l[x].seq # l[i].seq /\ l[x].seq \in Nat /\ l[i].seq \in Nat
      BY <3>1, Arrivals
    <3>3. Before(l, x, i) \/ Before(l, i, x)
      BY <1>4, <2>2, <3>2 DEF RightBefore, Before
    <3>4. QED
      BY <1>4, <2>2, <3>1, <3>3 DEF RightBefore
  <2>3. QED
    BY <1>1, <1>2, <2>1, <2>2 DEF RightBefore
<1>5. QED
  BY <1>1, <1>2, <1>3, <1>4 DEF r

\* Nothing comes behind (before) the neighbour of an order that was last (first).
LEMMA LeftEnds ==
  ASSUME NEW l, Arrived(l), NEW i \in DOMAIN l,
         NEW j \in DOMAIN l \ {i}, NEW k \in DOMAIN l \ {i}
  PROVE  /\ RightBefore(l, j, i) /\ Before(l, j, k) => Before(l, i, k)
         /\ RightBefore(l, i, j) /\ Before(l, k, j) => Before(l, k, i)
<1>1. /\ l[i].seq \in Nat /\ l[j].seq \in Nat /\ l[k].seq \in Nat
      /\ l[k].seq # l[i].seq
  BY Arrivals
<1>2. ASSUME RightBefore(l, j, i), Before(l, j, k) PROVE Before(l, i, k)
  <2>1. ~Before(l, k, i)
    BY <1>2 DEF RightBefore
  <2>2. QED
    BY <1>1, <1>2, <2>1 DEF RightBefore, Before
<1>3. ASSUME RightBefore(l, i, j), Before(l, k, j) PROVE Before(l, k, i)
  <2>1. ~Before(l, i, k)
    BY <1>3 DEF RightBefore
  <2>2. QED
    BY <1>1, <1>3, <2>1 DEF RightBefore, Before
<1>4. QED
  BY <1>2, <1>3

\* Two orders of a level are queued one before the other.
LEMMA OnOneLevel ==
  ASSUME NEW l, Arrived(l), NEW a, NEW t, NEW i \in Level(l, a, t), NEW j \in Level(l, a, t)
  PROVE  /\ i \in DOMAIN l /\ j \in DOMAIN l
         /\ i = j \/ Before(l, i, j) \/ Before(l, j, i)
<1>1. i \in DOMAIN l /\ j \in DOMAIN l
  BY DEF Level
<1>2. /\ l[i].seq \in Nat /\ l[j].seq \in Nat
      /\ i # j => l[i].seq # l[j].seq
  BY <1>1, Arrivals
<1>3. QED
  BY <1>1, <1>2 DEF Level, Before

\* An order is on one level.
LEMMA PlaceOf ==
  ASSUME NEW l, Book(l), NEW i \in DOMAIN l
  PROVE  /\ <<l[i].side, l[i].pending>> \in Arrays /\ TickOf(l[i].level) \in Ticks
         /\ i \in Level(l, <<l[i].side, l[i].pending>>, TickOf(l[i].level))
         /\ \A a \in Arrays : \A t : i \in Level(l, a, t)
              => a = <<l[i].side, l[i].pending>> /\ t = TickOf(l[i].level)
<1>1. l[i].side \in Sides /\ l[i].pending \in BOOLEAN /\ l[i].level \in Prices
  BY DEF Book, Nodes
<1>2. ASSUME NEW a \in Arrays PROVE a = <<a[1], a[2]>>
  BY DEF Arrays
<1>3. QED
  BY <1>1, <1>2, TickRange DEF Level, Arrays

-------------------------------------------------------------------------------
(* The fields of a store                                                       *)

StoreOf(nodes, free, used, levels, maps, index) ==
  [nodes |-> nodes, free |-> free, used |-> used, levels |-> levels, maps |-> maps,
   index |-> index]

LEMMA StoreFields ==
  ASSUME NEW ids, NEW s \in Stores(ids)
  PROVE  /\ s = StoreOf(s.nodes, s.free, s.used, s.levels, s.maps, s.index)
         /\ s.nodes \in NodeTables /\ s.free \in Links /\ s.used \in Int
         /\ s.levels \in LevelTables
         /\ s.maps \in MapTables /\ s.index \in Indexes(ids)
BY DEF Stores, StoreOf

LEMMA StoreMade ==
  ASSUME NEW ids, NEW nodes \in NodeTables, NEW free \in Links,
         NEW used \in Int, NEW levels \in LevelTables,
         NEW maps \in MapTables, NEW index \in Indexes(ids),
         NEW s, s = StoreOf(nodes, free, used, levels, maps, index)
  PROVE  /\ s \in Stores(ids)
         /\ s.nodes = nodes /\ s.free = free /\ s.used = used /\ s.levels = levels
         /\ s.maps = maps /\ s.index = index
BY DEF Stores, StoreOf

\* One level replaced.
LevelSet(levels, a, t, lv) == [levels EXCEPT ![a][t] = lv]

OneLevelSet(new, levels, a, t, lv) ==
  /\ new \in LevelTables /\ new[a][t] = lv
  /\ \A b \in Arrays, u \in Ticks : b # a \/ u # t => new[b][u] = levels[b][u]

LEMMA LevelSetIs ==
  ASSUME NEW levels \in LevelTables,
         NEW a \in Arrays, NEW t \in Ticks, NEW lv \in LevelRecords
  PROVE  OneLevelSet(LevelSet(levels, a, t, lv), levels, a, t, lv)
<1> DEFINE row == [levels[a] EXCEPT ![t] = lv]
           new == LevelSet(levels, a, t, lv)
<1>0. levels \in [Arrays -> [Ticks -> LevelRecords]]
  BY DEF LevelTables
<1>1. new = [levels EXCEPT ![a] = row]
  BY DEF LevelSet
<1>2. /\ row \in [Ticks -> LevelRecords] /\ row[t] = lv
      /\ \A u \in Ticks : u # t => row[u] = levels[a][u]
  BY <1>0
<1> HIDE DEF row, new
<1>3. /\ new \in [Arrays -> [Ticks -> LevelRecords]] /\ new[a] = row
      /\ \A b \in Arrays : b # a => new[b] = levels[b]
  BY <1>0, <1>1, <1>2
<1>4. QED
  BY <1>2, <1>3 DEF new, OneLevelSet, LevelTables

-------------------------------------------------------------------------------
(* A slot leaves its queue                                                     *)

\* The same order in a slot, whatever its links.
SameData(new, old) ==
  /\ new \in Slots /\ old \in Slots
  /\ new.id = old.id /\ new.px = old.px /\ new.qty = old.qty /\ new.seq = old.seq
  /\ new.tick = old.tick /\ new.owner = old.owner /\ new.side = old.side
  /\ new.tif = old.tif /\ new.pending = old.pending

WithNext(n, x) == [n EXCEPT !.next = x]
WithPrev(n, x) == [n EXCEPT !.prev = x]

LEMMA LinksSet ==
  ASSUME NEW n \in Slots, NEW x \in Links
  PROVE  /\ SameData(WithNext(n, x), n) /\ WithNext(n, x) \in Slots
         /\ WithNext(n, x).next = x /\ WithNext(n, x).prev = n.prev
         /\ SameData(WithPrev(n, x), n) /\ WithPrev(n, x) \in Slots
         /\ WithPrev(n, x).prev = x /\ WithPrev(n, x).next = n.next
BY DEF SameData, Slots, WithNext, WithPrev

LEMMA NoHandleIsNil == \A h \in Handles : h # NilHandle
  BY BookAssumption DEF Handles, NilHandle

LEMMA RelinkedIs ==
  ASSUME NEW nodes \in NodeTables, NEW n \in Slots,
         n.prev # NilHandle => nodes[n.prev] \in Slots,
         n.next # NilHandle => nodes[n.next] \in Slots,
         n.prev = n.next => n.prev = NilHandle
  PROVE  /\ Relinked(nodes, n) \in NodeTables
         /\ \A x \in Handles : x # n.prev /\ x # n.next => Relinked(nodes, n)[x] = nodes[x]
         /\ \A x \in Handles : x = n.prev \/ x = n.next =>
              /\ SameData(Relinked(nodes, n)[x], nodes[x])
              /\ Relinked(nodes, n)[x].next = IF x = n.prev THEN n.next ELSE nodes[x].next
              /\ Relinked(nodes, n)[x].prev = IF x = n.next THEN n.prev ELSE nodes[x].prev
<1> DEFINE ahead == IF n.prev = NilHandle THEN nodes
                    ELSE [nodes EXCEPT ![n.prev] = WithNext(nodes[n.prev], n.next)]
           new == Relinked(nodes, n)
<1>1. n.prev \in Links /\ n.next \in Links
  BY DEF Slots
<1>2. new = IF n.next = NilHandle THEN ahead
            ELSE [ahead EXCEPT ![n.next] = WithPrev(ahead[n.next], n.prev)]
  BY DEF Relinked, WithNext, WithPrev
<1>3. /\ ahead \in NodeTables
      /\ \A x \in Handles : x # n.prev => ahead[x] = nodes[x]
      /\ n.prev # NilHandle =>
           /\ n.prev \in Handles /\ SameData(ahead[n.prev], nodes[n.prev])
           /\ ahead[n.prev].next = n.next /\ ahead[n.prev].prev = nodes[n.prev].prev
  <2>1. CASE n.prev = NilHandle
    BY <2>1, <1>1, NoHandleIsNil
  <2>2. CASE n.prev # NilHandle
    <3> DEFINE m == WithNext(nodes[n.prev], n.next)
    <3>1. n.prev \in Handles /\ nodes[n.prev] \in Slots
      BY <1>1, <2>2 DEF Links
    <3>2. /\ SameData(m, nodes[n.prev]) /\ m.next = n.next /\ m.prev = nodes[n.prev].prev
          /\ m \in Slots
      BY <1>1, <3>1, LinksSet
    <3> HIDE DEF m
    <3>3. ahead = [nodes EXCEPT ![n.prev] = m]
      BY <2>2 DEF m
    <3> HIDE DEF ahead
    <3>4. QED
      BY <2>2, <3>1, <3>2, <3>3 DEF NodeTables
  <2>3. QED
    BY <2>1, <2>2
<1> HIDE DEF ahead, new
<1>4. CASE n.next = NilHandle
  <2>1. new = ahead
    BY <1>2, <1>4
  <2>2. ASSUME NEW x \in Handles, x = n.prev \/ x = n.next
        PROVE  /\ SameData(new[x], nodes[x])
               /\ new[x].next = IF x = n.prev THEN n.next ELSE nodes[x].next
               /\ new[x].prev = IF x = n.next THEN n.prev ELSE nodes[x].prev
    <3>1. x = n.prev /\ x # n.next
      BY <1>4, <2>2, NoHandleIsNil
    <3>2. QED
      BY <1>3, <1>4, <2>1, <3>1
  <2>3. QED
    BY <1>3, <2>1, <2>2 DEF new
<1>5. CASE n.next # NilHandle
  <2> DEFINE m == WithPrev(ahead[n.next], n.prev)
  <2>1. n.next \in Handles /\ n.next # n.prev /\ ahead[n.next] = nodes[n.next]
        /\ nodes[n.next] \in Slots
    BY <1>1, <1>3, <1>5 DEF Links
  <2>2. /\ SameData(m, nodes[n.next]) /\ m.prev = n.prev /\ m.next = nodes[n.next].next
        /\ m \in Slots
    <3> DEFINE o == ahead[n.next]
    <3>1. o \in Slots /\ o = nodes[n.next] /\ m = WithPrev(o, n.prev)
      BY <2>1
    <3> HIDE DEF o, m
    <3>2. SameData(m, o) /\ m.prev = n.prev /\ m.next = o.next /\ m \in Slots
      BY <1>1, <3>1, LinksSet
    <3>3. QED
      BY <3>1, <3>2
  <2>3. new = [ahead EXCEPT ![n.next] = m]
    BY <1>2, <1>5
  <2> HIDE DEF m
  <2>4. /\ new \in NodeTables /\ new[n.next] = m
        /\ \A x \in Handles : x # n.next => new[x] = ahead[x]
    BY <1>3, <2>1, <2>2, <2>3 DEF NodeTables
  <2>5. ASSUME NEW x \in Handles, x = n.prev \/ x = n.next
        PROVE  /\ SameData(new[x], nodes[x])
               /\ new[x].next = IF x = n.prev THEN n.next ELSE nodes[x].next
               /\ new[x].prev = IF x = n.next THEN n.prev ELSE nodes[x].prev
    <3>1. CASE x = n.next
      BY <2>1, <2>2, <2>4, <3>1
    <3>2. CASE x = n.prev
      BY <1>3, <2>1, <2>4, <3>2, NoHandleIsNil
    <3>3. QED
      BY <2>5, <3>1, <3>2
  <2>6. QED
    BY <1>3, <2>4, <2>5 DEF new
<1>6. QED
  BY <1>4, <1>5

\* The level a slot n has left, and the bitmap of its side and kind.
LeftLevel(lv, n) ==
  [head  |-> IF lv.count = 1 THEN NilHandle
             ELSE IF n.prev = NilHandle THEN n.next ELSE lv.head,
   tail  |-> IF lv.count = 1 THEN NilHandle
             ELSE IF n.next = NilHandle THEN n.prev ELSE lv.tail,
   total |-> lv.total - n.qty, count |-> lv.count - 1]

LeftMap(map, lv, n) == IF lv.count = 1 THEN ClearBit(map, n.tick) ELSE map

LEMMA RemovedIs ==
  ASSUME NEW ids, NEW s \in Stores(ids), NEW h \in Handles, NEW n, n = s.nodes[h],
         NEW a, a = <<n.side, n.pending>>, NEW t
  PROVE  Removed(s, a, t, h) =
           StoreOf([Relinked(s.nodes, n) EXCEPT ![h] = FreeSlot(s.free)], h, s.used - 1,
                   LevelSet(s.levels, a, t, LeftLevel(s.levels[a][t], n)),
                   [s.maps EXCEPT ![a] = LeftMap(s.maps[a], s.levels[a][t], n)],
                   Restrict(s.index, DOMAIN s.index \ {n.id}))
<1> DEFINE lv == s.levels[a][t]
           nodes == Relinked(s.nodes, n)
           levels == LevelSet(s.levels, a, t, LeftLevel(lv, n))
           maps == [s.maps EXCEPT ![a] = LeftMap(s.maps[a], lv, n)]
           index == Restrict(s.index, DOMAIN s.index \ {n.id})
<1>1. s = StoreOf(s.nodes, s.free, s.used, s.levels, s.maps, s.index)
  BY StoreFields
<1>2. <<a[1], n.pending>> = a
  OBVIOUS
<1> DEFINE u == Unlink(s, a, t, h)
<1>3. u = [s EXCEPT !.nodes = nodes, !.levels = levels, !.maps = maps]
  <2>1. u = [s EXCEPT !.nodes = Relinked(s.nodes, n),
                      !.levels = [s.levels EXCEPT ![a][t] = LeftLevel(lv, n)],
                      !.maps = [s.maps EXCEPT ![<<a[1], n.pending>>] =
                                  IF lv.count = 1 THEN ClearBit(s.maps[<<a[1], n.pending>>], n.tick)
                                  ELSE s.maps[<<a[1], n.pending>>]]]
    BY <1>1 DEF Unlink, LeftLevel
  <2>2. QED
    BY <1>2, <2>1 DEF LevelSet, LeftMap
<1> HIDE DEF u, nodes, levels, maps
<1>4. u = StoreOf(nodes, s.free, s.used, levels, maps, s.index)
  BY <1>1, <1>3 DEF StoreOf
<1>5. Removed(s, a, t, h) = ReleaseSlot([u EXCEPT !.index = index], h)
  <2>1. [u EXCEPT !.index = Restrict(@, DOMAIN @ \ {n.id})] = [u EXCEPT !.index = index]
    BY <1>4 DEF StoreOf
  <2>2. QED
    BY <2>1 DEF Removed, u
<1> HIDE DEF index
<1>6. [u EXCEPT !.index = index] = StoreOf(nodes, s.free, s.used, levels, maps, index)
  BY <1>4 DEF StoreOf
<1> DEFINE v == StoreOf(nodes, s.free, s.used, levels, maps, index)
<1>7. ReleaseSlot(v, h) = StoreOf([nodes EXCEPT ![h] = FreeSlot(s.free)], h, s.used - 1,
                                  levels, maps, index)
  <2> DEFINE f == [nodes EXCEPT ![h] = FreeSlot(s.free)]
  <2>1. /\ v.nodes = nodes /\ v.free = s.free /\ v.used = s.used
        /\ v = StoreOf(v.nodes, v.free, v.used, v.levels, v.maps, v.index)
        /\ v.levels = levels /\ v.maps = maps /\ v.index = index
    BY DEF StoreOf
  <2> HIDE DEF v
  <2>2. ReleaseSlot(v, h) = [v EXCEPT !.nodes = f, !.free = h, !.used = s.used - 1]
    BY <2>1 DEF ReleaseSlot
  <2> HIDE DEF f
  <2>3. ReleaseSlot(v, h) = StoreOf(f, h, s.used - 1, v.levels, v.maps, v.index)
    BY <2>1, <2>2 DEF StoreOf
  <2>4. QED
    BY <2>1, <2>3 DEF v, f
<1>8. QED
  BY <1>5, <1>6, <1>7 DEF nodes, levels, maps, index

\* Where the links of a slot lead.
LEMMA NextIs ==
  ASSUME NEW s, NEW l, Arrived(l), s \in Stores(DOMAIN l), Indexed(s, l), Linked(s, l),
         NEW i \in DOMAIN l, NEW j \in DOMAIN l
  PROVE  /\ SlotOf(s, i).next = s.index[j] <=> RightBefore(l, i, j)
         /\ SlotOf(s, i).next = NilHandle => ~Before(l, i, j)
         /\ SlotOf(s, i).next # NilHandle => \E k \in DOMAIN l : RightBefore(l, i, k)
                                               /\ SlotOf(s, i).next = s.index[k]
<1> DEFINE n == SlotOf(s, i)
<1>1. /\ n.next = NilHandle => ~Before(l, i, j)
      /\ n.next # NilHandle => \E k \in DOMAIN l : RightBefore(l, i, k) /\ n.next = s.index[k]
  BY DEF Linked
<1>2. s.index \in [DOMAIN l -> Handles]
  BY StoreFields DEF Indexes
<1>3. s.index[j] # NilHandle
  BY <1>2, NoHandleIsNil
<1> HIDE DEF n
<1>4. ASSUME n.next = s.index[j] PROVE RightBefore(l, i, j)
  BY <1>1, <1>3, <1>4 DEF Indexed
<1>5. ASSUME RightBefore(l, i, j) PROVE n.next = s.index[j]
  <2>1. PICK k \in DOMAIN l : RightBefore(l, i, k) /\ n.next = s.index[k]
    BY <1>1, <1>5 DEF RightBefore
  <2>2. k = j
    BY <1>5, <2>1, OneNeighbour
  <2>3. QED
    BY <2>1, <2>2
<1>6. QED
  BY <1>1, <1>4, <1>5 DEF n

LEMMA PrevIs ==
  ASSUME NEW s, NEW l, Arrived(l), s \in Stores(DOMAIN l), Indexed(s, l), Linked(s, l),
         NEW i \in DOMAIN l, NEW j \in DOMAIN l
  PROVE  /\ SlotOf(s, i).prev = s.index[j] <=> RightBefore(l, j, i)
         /\ SlotOf(s, i).prev = NilHandle => ~Before(l, j, i)
         /\ SlotOf(s, i).prev # NilHandle => \E k \in DOMAIN l : RightBefore(l, k, i)
                                               /\ SlotOf(s, i).prev = s.index[k]
<1> DEFINE n == SlotOf(s, i)
<1>1. /\ n.prev = NilHandle => ~Before(l, j, i)
      /\ n.prev # NilHandle => \E k \in DOMAIN l : RightBefore(l, k, i) /\ n.prev = s.index[k]
  BY DEF Linked
<1>2. s.index \in [DOMAIN l -> Handles]
  BY StoreFields DEF Indexes
<1>3. s.index[j] # NilHandle
  BY <1>2, NoHandleIsNil
<1> HIDE DEF n
<1>4. ASSUME n.prev = s.index[j] PROVE RightBefore(l, j, i)
  BY <1>1, <1>3, <1>4 DEF Indexed
<1>5. ASSUME RightBefore(l, j, i) PROVE n.prev = s.index[j]
  <2>1. PICK k \in DOMAIN l : RightBefore(l, k, i) /\ n.prev = s.index[k]
    BY <1>1, <1>5 DEF RightBefore
  <2>2. k = j
    BY <1>5, <2>1, OneNeighbour
  <2>3. QED
    BY <2>1, <2>2
<1>6. QED
  BY <1>1, <1>4, <1>5 DEF n

\* A live slot holds its order.
LEMMA SlotIs ==
  ASSUME NEW s, NEW l, s \in Stores(DOMAIN l), Indexed(s, l), NEW i \in DOMAIN l
  PROVE  /\ s.index[i] \in Handles /\ SlotOf(s, i) = s.nodes[s.index[i]]
         /\ SlotOf(s, i) \in Slots /\ SlotOf(s, i).id = i
         /\ SlotOf(s, i).prev \in Links /\ SlotOf(s, i).next \in Links
         /\ SlotOf(s, i).qty = l[i].qty /\ SlotOf(s, i).side = l[i].side
         /\ SlotOf(s, i).pending = l[i].pending /\ SlotOf(s, i).tick = TickOf(l[i].level)
BY StoreFields DEF Indexes, Indexed, Carries, SlotOf, Slots

\* What leaving does to the fields of a store.
Leaves(s, l, i, u) ==
  LET n == SlotOf(s, i)
      a == <<l[i].side, l[i].pending>>
      t == TickOf(l[i].level)
  IN  /\ u \in Stores(DOMAIN l \ {i})
      /\ u.free = s.index[i] /\ u.used = s.used - 1
      /\ u.nodes[s.index[i]] = FreeSlot(s.free)
      /\ \A x \in Handles : (\A j \in DOMAIN l : s.index[j] # x) => u.nodes[x] = s.nodes[x]
      /\ \A j \in DOMAIN l \ {i} :
           /\ u.index[j] = s.index[j] /\ SameData(SlotOf(u, j), SlotOf(s, j))
           /\ SlotOf(u, j).next = IF s.index[j] = n.prev THEN n.next ELSE SlotOf(s, j).next
           /\ SlotOf(u, j).prev = IF s.index[j] = n.next THEN n.prev ELSE SlotOf(s, j).prev
      /\ u.levels[a][t] = LeftLevel(s.levels[a][t], n)
      /\ \A b \in Arrays, k \in Ticks : b # a \/ k # t => u.levels[b][k] = s.levels[b][k]
      /\ u.maps[a] = LeftMap(s.maps[a], s.levels[a][t], n)
      /\ \A b \in Arrays : b # a => u.maps[b] = s.maps[b]

LEMMA LevelType ==
  ASSUME NEW lv \in LevelRecords, NEW n \in Slots
  PROVE  LeftLevel(lv, n) \in LevelRecords
<1>1. NilHandle \in Links /\ n.prev \in Links /\ n.next \in Links /\ n.qty \in Int
  BY DEF Links, Slots
<1>2. lv.head \in Links /\ lv.tail \in Links /\ lv.total \in Int /\ lv.count \in Int
  BY DEF LevelRecords
<1>3. QED
  BY <1>1, <1>2 DEF LeftLevel, LevelRecords

LEMMA MarksClear ==
  ASSUME NEW map, NEW ticks, Marks(map, NTicks, ticks), NEW t \in Ticks
  PROVE  /\ Marks(ClearBit(map, t), NTicks, ticks \ {t})
         /\ ClearBit(map, t) \in Bitmaps(NTicks)
<1>1. NTicks \in Nat /\ t \in 0 .. NTicks - 1
  BY TickRange DEF Ticks
<1>2. Marks(ClearBit(map, t), NTicks, ticks \ {t})
  BY <1>1, ClearMarks
<1>3. QED
  BY <1>2 DEF Marks

LEMMA SlotLeaves ==
  ASSUME NEW s, NEW l, Arrived(l), Threaded(s, l), NEW i \in DOMAIN l
  PROVE  Leaves(s, l, i, Removed(s, <<l[i].side, l[i].pending>>, TickOf(l[i].level), s.index[i]))
<1> DEFINE n == SlotOf(s, i)
           h == s.index[i]
           a == <<l[i].side, l[i].pending>>
           t == TickOf(l[i].level)
           u == Removed(s, a, t, h)
           nodes == Relinked(s.nodes, n)
           new == [nodes EXCEPT ![h] = FreeSlot(s.free)]
           lv == s.levels[a][t]
           left == LeftLevel(lv, n)
           levels == LevelSet(s.levels, a, t, left)
           map == LeftMap(s.maps[a], lv, n)
           maps == [s.maps EXCEPT ![a] = map]
           index == Restrict(s.index, DOMAIN s.index \ {i})
           used == s.used - 1
           ids == DOMAIN l \ {i}
<1>1. /\ s \in Stores(DOMAIN l) /\ Indexed(s, l) /\ Linked(s, l) /\ Mapped(s, l)
  BY DEF Threaded
<1>2. /\ h \in Handles /\ n = s.nodes[h] /\ n \in Slots /\ n.id = i
      /\ n.prev \in Links /\ n.next \in Links
      /\ n.qty = l[i].qty /\ a = <<n.side, n.pending>> /\ n.tick = t
  BY <1>1, SlotIs
<1>3. a \in Arrays /\ t \in Ticks
  BY PlaceOf DEF Arrived
<1>4. /\ s.nodes \in NodeTables /\ s.free \in Links /\ s.used \in Int
      /\ s.levels \in LevelTables
      /\ s.maps \in MapTables /\ s.index \in [DOMAIN l -> Handles]
  BY <1>1, StoreFields DEF Indexes
<1> DEFINE v == u
<1>21. v = Removed(s, a, t, h)
  OBVIOUS
<1> HIDE DEF n, h, a, t, u, v
<1>5. v = StoreOf(new, h, used, levels, maps, index)
  BY <1>1, <1>2, <1>21, RemovedIs, SMTT(20)
<1> HIDE DEF used, ids
<1>6. /\ n.prev # NilHandle => s.nodes[n.prev] \in Slots /\ n.prev # h
      /\ n.next # NilHandle => s.nodes[n.next] \in Slots /\ n.next # h
      /\ n.prev = n.next => n.prev = NilHandle
  <2>1. ASSUME n.prev # NilHandle
        PROVE  \E p \in DOMAIN l : RightBefore(l, p, i) /\ n.prev = s.index[p]
    BY <1>1, <2>1, PrevIs DEF n
  <2>2. ASSUME n.next # NilHandle
        PROVE  \E q \in DOMAIN l : RightBefore(l, i, q) /\ n.next = s.index[q]
    BY <1>1, <2>2, NextIs DEF n
  <2>3. ASSUME NEW p \in DOMAIN l, RightBefore(l, p, i)
        PROVE  p # i /\ s.nodes[s.index[p]] \in Slots /\ s.index[p] # h
    <3>1. p # i
      BY <2>3, Arrivals DEF RightBefore, Before
    <3>2. QED
      BY <1>1, <3>1, SlotIs DEF Indexed, h
  <2>4. ASSUME NEW q \in DOMAIN l, RightBefore(l, i, q)
        PROVE  q # i /\ s.nodes[s.index[q]] \in Slots /\ s.index[q] # h
    <3>1. q # i
      BY <2>4, Arrivals DEF RightBefore, Before
    <3>2. QED
      BY <1>1, <3>1, SlotIs DEF Indexed, h
  <2>5. ASSUME NEW p \in DOMAIN l, RightBefore(l, p, i), NEW q \in DOMAIN l, RightBefore(l, i, q)
        PROVE  s.index[p] # s.index[q]
    <3>1. p # q
      BY <2>5, Arrivals DEF RightBefore, Before
    <3>2. QED
      BY <1>1, <3>1 DEF Indexed
  <2>6. QED
    BY <2>1, <2>2, <2>3, <2>4, <2>5
<1>7. /\ nodes \in NodeTables
      /\ \A x \in Handles : x # n.prev /\ x # n.next => nodes[x] = s.nodes[x]
      /\ \A x \in Handles : x = n.prev \/ x = n.next =>
           /\ SameData(nodes[x], s.nodes[x])
           /\ nodes[x].next = IF x = n.prev THEN n.next ELSE s.nodes[x].next
           /\ nodes[x].prev = IF x = n.next THEN n.prev ELSE s.nodes[x].prev
  BY <1>2, <1>4, <1>6, RelinkedIs
<1> HIDE DEF nodes
<1>8. FreeSlot(s.free) \in FreeSlots
  BY <1>4 DEF FreeSlot, FreeSlots
<1>9. /\ new \in NodeTables /\ new[h] = FreeSlot(s.free)
      /\ \A x \in Handles : x # h => new[x] = nodes[x]
  BY <1>2, <1>7, <1>8 DEF NodeTables
<1>10. lv \in LevelRecords
  BY <1>3, <1>4 DEF LevelTables
<1>11. left \in LevelRecords
  BY <1>2, <1>10, LevelType
<1> HIDE DEF lv, left
<1>12. /\ levels \in LevelTables
       /\ levels[a][t] = left
       /\ \A b \in Arrays, k \in Ticks : b # a \/ k # t => levels[b][k] = s.levels[b][k]
  <2>1. OneLevelSet(levels, s.levels, a, t, left)
    BY <1>3, <1>4, <1>11, LevelSetIs
  <2>2. QED
    BY <2>1 DEF OneLevelSet
<1>13. map \in Bitmaps(NTicks)
  BY <1>1, <1>2, <1>3, MarksClear DEF Mapped, Marks, LeftMap
<1> HIDE DEF map
<1>14. /\ maps \in MapTables /\ maps[a] = map
       /\ \A b \in Arrays : b # a => maps[b] = s.maps[b]
  BY <1>3, <1>4, <1>13 DEF MapTables
<1>15. /\ index \in Indexes(ids)
       /\ \A j \in DOMAIN l \ {i} : index[j] = s.index[j]
  BY <1>4 DEF Restrict, ids, Indexes
<1> HIDE DEF new, levels, maps, index
<1>16. h \in Links /\ used \in Int
  BY <1>2, <1>4 DEF Links, used
<1>17. /\ v \in Stores(ids)
       /\ v.nodes = new /\ v.free = h /\ v.used = used /\ v.levels = levels
       /\ v.maps = maps /\ v.index = index
  BY <1>5, <1>9, <1>12, <1>14, <1>15, <1>16, StoreMade
<1>18. ASSUME NEW j \in DOMAIN l \ {i}
       PROVE  /\ v.index[j] = s.index[j] /\ SameData(SlotOf(v, j), SlotOf(s, j))
              /\ SlotOf(v, j).next = IF s.index[j] = n.prev THEN n.next ELSE SlotOf(s, j).next
              /\ SlotOf(v, j).prev = IF s.index[j] = n.next THEN n.prev ELSE SlotOf(s, j).prev
  <2> DEFINE x == s.index[j]
  <2>1. /\ x \in Handles /\ x # h /\ SlotOf(s, j) = s.nodes[x] /\ s.nodes[x] \in Slots
    BY <1>1, SlotIs DEF Indexed, h
  <2>2. v.index[j] = x /\ SlotOf(v, j) = nodes[x]
    BY <1>9, <1>15, <1>17, <2>1 DEF SlotOf
  <2> HIDE DEF x
  <2>3. /\ SameData(nodes[x], s.nodes[x])
        /\ nodes[x].next = IF x = n.prev THEN n.next ELSE s.nodes[x].next
        /\ nodes[x].prev = IF x = n.next THEN n.prev ELSE s.nodes[x].prev
    <3>1. CASE x = n.prev \/ x = n.next
      BY <1>7, <2>1, <3>1
    <3>2. CASE x # n.prev /\ x # n.next
      <4>1. nodes[x] = s.nodes[x]
        BY <1>7, <2>1, <3>2
      <4>2. SameData(s.nodes[x], s.nodes[x])
        BY <2>1 DEF SameData
      <4>3. QED
        BY <3>2, <4>1, <4>2
    <3>3. QED
      BY <3>1, <3>2
  <2>4. QED
    BY <2>1, <2>2, <2>3 DEF x
<1>19. ASSUME NEW x \in Handles, \A j \in DOMAIN l : s.index[j] # x
       PROVE  v.nodes[x] = s.nodes[x]
  <2>1. x # h /\ x # n.prev /\ x # n.next
    <3>1. x # h
      BY <1>19 DEF h
    <3>2. x # NilHandle
      BY NoHandleIsNil
    <3>3. n.prev = x => FALSE
      BY <1>1, <1>19, <3>2, PrevIs DEF n
    <3>4. n.next = x => FALSE
      BY <1>1, <1>19, <3>2, NextIs DEF n
    <3>5. QED
      BY <3>1, <3>3, <3>4
  <2>2. QED
    BY <1>7, <1>9, <1>17, <2>1
<1>20. QED
  BY <1>9, <1>12, <1>14, <1>17, <1>18, <1>19 DEF Leaves, n, h, a, t, u, v, lv, left, map, used, ids

LEMMA LeavesIndexed ==
  ASSUME NEW s, NEW l, Arrived(l), Threaded(s, l), NEW i \in DOMAIN l,
         NEW u, Leaves(s, l, i, u)
  PROVE  Indexed(u, Left(l, i))
<1>1. /\ DOMAIN Left(l, i) = DOMAIN l \ {i}
      /\ \A j \in DOMAIN l : j # i => Left(l, i)[j] = l[j]
  BY LeftIs
<1>2. ASSUME NEW j \in DOMAIN l \ {i}
      PROVE  Carries(SlotOf(u, j), j, l[j]) /\ u.index[j] = s.index[j]
  <2>1. SameData(SlotOf(u, j), SlotOf(s, j)) /\ u.index[j] = s.index[j]
    BY DEF Leaves
  <2>2. Carries(SlotOf(s, j), j, l[j])
    BY DEF Threaded, Indexed
  <2>3. QED
    BY <2>1, <2>2 DEF Carries, SameData
<1>3. QED
  BY <1>1, <1>2 DEF Indexed, Threaded

LEMMA LeavesLinked ==
  ASSUME NEW s, NEW l, Arrived(l), Threaded(s, l), NEW i \in DOMAIN l,
         NEW u, Leaves(s, l, i, u)
  PROVE  Linked(u, Left(l, i))
<1> DEFINE r == Left(l, i)
           n == SlotOf(s, i)
<1>1. DOMAIN r = DOMAIN l \ {i}
  BY LeftIs
<1>2. s \in Stores(DOMAIN l) /\ Indexed(s, l) /\ Linked(s, l)
  BY DEF Threaded
<1>3. ASSUME NEW j \in DOMAIN l \ {i}
      PROVE  /\ u.index[j] = s.index[j]
             /\ SlotOf(u, j).next = IF s.index[j] = n.prev THEN n.next ELSE SlotOf(s, j).next
             /\ SlotOf(u, j).prev = IF s.index[j] = n.next THEN n.prev ELSE SlotOf(s, j).prev
  BY DEF Leaves
<1> HIDE DEF r
<1>4. ASSUME NEW j \in DOMAIN r
      PROVE  IF SlotOf(u, j).next = NilHandle THEN \A k \in DOMAIN r : ~Before(r, j, k)
             ELSE \E k \in DOMAIN r : RightBefore(r, j, k) /\ SlotOf(u, j).next = u.index[k]
  <2>1. CASE RightBefore(l, j, i)
    <3>1. SlotOf(u, j).next = n.next
      BY <1>1, <1>2, <1>3, <2>1, PrevIs
    <3>2. ASSUME n.next = NilHandle, NEW k \in DOMAIN r PROVE ~Before(r, j, k)
      <4>1. ~Before(l, i, k)
        BY <1>1, <1>2, <3>2, NextIs
      <4>2. ~Before(l, j, k)
        BY <1>1, <2>1, <4>1, LeftEnds
      <4>3. QED
        BY <1>1, <4>2, LeftNeighbours DEF r
    <3>3. ASSUME n.next # NilHandle
          PROVE  \E k \in DOMAIN r : RightBefore(r, j, k) /\ n.next = u.index[k]
      <4>1. PICK k \in DOMAIN l : RightBefore(l, i, k) /\ n.next = s.index[k]
        BY <1>2, <3>3, NextIs
      <4>2. k # i
        BY <4>1, Arrivals DEF RightBefore, Before
      <4>3. RightBefore(r, j, k)
        BY <1>1, <2>1, <4>1, <4>2, LeftNeighbours DEF r
      <4>4. QED
        BY <1>1, <1>3, <4>1, <4>2, <4>3
    <3>4. QED
      BY <3>1, <3>2, <3>3
  <2>2. CASE ~RightBefore(l, j, i)
    <3>1. SlotOf(u, j).next = SlotOf(s, j).next
      BY <1>1, <1>2, <1>3, <2>2, PrevIs
    <3>2. ASSUME SlotOf(s, j).next = NilHandle, NEW k \in DOMAIN r PROVE ~Before(r, j, k)
      <4>1. ~Before(l, j, k)
        BY <1>1, <1>2, <3>2, NextIs
      <4>2. QED
        BY <1>1, <4>1, LeftNeighbours DEF r
    <3>3. ASSUME SlotOf(s, j).next # NilHandle
          PROVE  \E k \in DOMAIN r : RightBefore(r, j, k) /\ SlotOf(s, j).next = u.index[k]
      <4>1. PICK k \in DOMAIN l : RightBefore(l, j, k) /\ SlotOf(s, j).next = s.index[k]
        BY <1>1, <1>2, <3>3, NextIs
      <4>2. k # i
        BY <2>2, <4>1
      <4>3. RightBefore(r, j, k)
        BY <1>1, <4>1, <4>2, LeftNeighbours DEF r
      <4>4. QED
        BY <1>1, <1>3, <4>1, <4>2, <4>3
    <3>4. QED
      BY <3>1, <3>2, <3>3
  <2>3. QED
    BY <2>1, <2>2
<1>5. ASSUME NEW j \in DOMAIN r
      PROVE  IF SlotOf(u, j).prev = NilHandle THEN \A k \in DOMAIN r : ~Before(r, k, j)
             ELSE \E k \in DOMAIN r : RightBefore(r, k, j) /\ SlotOf(u, j).prev = u.index[k]
  <2>1. CASE RightBefore(l, i, j)
    <3>1. SlotOf(u, j).prev = n.prev
      BY <1>1, <1>2, <1>3, <2>1, NextIs
    <3>2. ASSUME n.prev = NilHandle, NEW k \in DOMAIN r PROVE ~Before(r, k, j)
      <4>1. ~Before(l, k, i)
        BY <1>1, <1>2, <3>2, PrevIs
      <4>2. ~Before(l, k, j)
        BY <1>1, <2>1, <4>1, LeftEnds
      <4>3. QED
        BY <1>1, <4>2, LeftNeighbours DEF r
    <3>3. ASSUME n.prev # NilHandle
          PROVE  \E k \in DOMAIN r : RightBefore(r, k, j) /\ n.prev = u.index[k]
      <4>1. PICK k \in DOMAIN l : RightBefore(l, k, i) /\ n.prev = s.index[k]
        BY <1>2, <3>3, PrevIs
      <4>2. k # i
        BY <4>1, Arrivals DEF RightBefore, Before
      <4>3. RightBefore(r, k, j)
        BY <1>1, <2>1, <4>1, <4>2, LeftNeighbours DEF r
      <4>4. QED
        BY <1>1, <1>3, <4>1, <4>2, <4>3
    <3>4. QED
      BY <3>1, <3>2, <3>3
  <2>2. CASE ~RightBefore(l, i, j)
    <3>1. SlotOf(u, j).prev = SlotOf(s, j).prev
      BY <1>1, <1>2, <1>3, <2>2, NextIs
    <3>2. ASSUME SlotOf(s, j).prev = NilHandle, NEW k \in DOMAIN r PROVE ~Before(r, k, j)
      <4>1. ~Before(l, k, j)
        BY <1>1, <1>2, <3>2, PrevIs
      <4>2. QED
        BY <1>1, <4>1, LeftNeighbours DEF r
    <3>3. ASSUME SlotOf(s, j).prev # NilHandle
          PROVE  \E k \in DOMAIN r : RightBefore(r, k, j) /\ SlotOf(s, j).prev = u.index[k]
      <4>1. PICK k \in DOMAIN l : RightBefore(l, k, j) /\ SlotOf(s, j).prev = s.index[k]
        BY <1>1, <1>2, <3>3, PrevIs
      <4>2. k # i
        BY <2>2, <4>1
      <4>3. RightBefore(r, k, j)
        BY <1>1, <4>1, <4>2, LeftNeighbours DEF r
      <4>4. QED
        BY <1>1, <1>3, <4>1, <4>2, <4>3
    <3>4. QED
      BY <3>1, <3>2, <3>3
  <2>3. QED
    BY <2>1, <2>2
<1>6. QED
  BY <1>4, <1>5 DEF Linked, r

\* A level without one of its orders.
LEMMA LevelLeft ==
  ASSUME NEW l, NEW i \in DOMAIN l, NEW a, NEW t
  PROVE  Level(Left(l, i), a, t) = Level(l, a, t) \ {i}
<1>1. /\ DOMAIN Left(l, i) = DOMAIN l \ {i}
      /\ \A j \in DOMAIN l : j # i => Left(l, i)[j] = l[j]
  BY LeftIs
<1> DEFINE r == Left(l, i)
<1> HIDE DEF r
<1>2. DOMAIN r = DOMAIN l \ {i} /\ \A j \in DOMAIN l : j # i => r[j] = l[j]
  BY <1>1 DEF r
<1>3. Level(r, a, t) = Level(l, a, t) \ {i}
  BY <1>2 DEF Level
<1>4. QED
  BY <1>3 DEF r

\* A level that is as it was in a book that is as it was there.
LEMMA EndsKept ==
  ASSUME NEW s, NEW l, NEW u, NEW r, NEW lv, NEW S, EndsAt(s, l, lv, S),
         \A i \in S : u.index[i] = s.index[i] /\ r[i].seq = l[i].seq
  PROVE  EndsAt(u, r, lv, S)
BY DEF EndsAt

LEMMA QtyKept ==
  ASSUME NEW l, NEW r, NEW S, \A i \in S : r[i].qty = l[i].qty
  PROVE  QtyOn(r, S) = QtyOn(l, S)
<1>1. [i \in S |-> r[i].qty] = [i \in S |-> l[i].qty]
  OBVIOUS
<1>2. QED
  BY <1>1 DEF QtyOn

LEMMA LevelFinite ==
  ASSUME NEW l, Book(l), NEW a, NEW t
  PROVE  /\ IsFiniteSet(Level(l, a, t)) /\ Level(l, a, t) \subseteq DOMAIN l
         /\ Cardinality(Level(l, a, t)) \in Nat
         /\ Cardinality(Level(l, a, t)) = 0 <=> Level(l, a, t) = {}
<1>1. Level(l, a, t) \subseteq DOMAIN l /\ IsFiniteSet(DOMAIN l)
  BY DEF Book, Level
<1>2. IsFiniteSet(Level(l, a, t))
  BY <1>1, FS_Subset
<1>3. QED
  BY <1>1, <1>2, FS_CardinalityType, FS_EmptySet

\* The sum without one of its orders.
LEMMA QtyLeft ==
  ASSUME NEW l, Book(l), NEW S, IsFiniteSet(S), S \subseteq DOMAIN l, NEW i \in S
  PROVE  QtyOn(l, S \ {i}) = QtyOn(l, S) - l[i].qty /\ QtyOn(l, S) \in Int
<1> DEFINE f == [j \in S |-> l[j].qty]
           g == [j \in S \ {i} |-> l[j].qty]
<1>1. \A j \in S : f[j] \in Int /\ f[j] = l[j].qty
  BY DEF Book, Nodes
<1>2. \A j \in S \ {i} : g[j] = f[j]
  OBVIOUS
<1>3. QtyOn(l, S) = Total(f, S) /\ QtyOn(l, S \ {i}) = Total(g, S \ {i})
  BY DEF QtyOn
<1> HIDE DEF f, g
<1>4. Total(f, S) = f[i] + Total(f, S \ {i})
  BY <1>1, TotalRemove
<1>5. IsFiniteSet(S \ {i})
  BY FS_Subset
<1>6. Total(g, S \ {i}) = Total(f, S \ {i})
  BY <1>2, <1>5, TotalSame
<1>7. Total(f, S \ {i}) \in Int /\ f[i] \in Int /\ Total(f, S) \in Int
  BY <1>1, <1>5, TotalType
<1>8. QED
  BY <1>1, <1>3, <1>4, <1>6, <1>7

\* The ends of the level the order has left.
LEMMA LeavesHead ==
  ASSUME NEW s, NEW l, Arrived(l), Threaded(s, l), NEW i \in DOMAIN l,
         NEW a, NEW t, NEW S, S = Level(l, a, t), i \in S, NEW lv, EndsAt(s, l, lv, S), S \ {i} # {}
  PROVE  LET first == IF SlotOf(s, i).prev = NilHandle THEN SlotOf(s, i).next ELSE lv.head
         IN  /\ first # NilHandle
             /\ \E j \in S \ {i} : first = s.index[j] /\ \A k \in S \ {i} : l[j].seq <= l[k].seq
<1> DEFINE n == SlotOf(s, i)
<1>1. s \in Stores(DOMAIN l) /\ Indexed(s, l) /\ Linked(s, l)
  BY DEF Threaded
<1>2. S \subseteq DOMAIN l /\ \A j \in DOMAIN l : l[j].seq \in Nat /\ s.index[j] # NilHandle
  <2>1. \A j \in DOMAIN l : s.index[j] # NilHandle
    BY <1>1, SlotIs, NoHandleIsNil
  <2>2. QED
    BY <2>1, Arrivals DEF Level
<1>3. CASE n.prev = NilHandle
  <2>1. ASSUME NEW j \in S \ {i} PROVE Before(l, i, j)
    BY <1>1, <1>2, <1>3, OnOneLevel, PrevIs
  <2>2. n.next # NilHandle
    BY <1>1, <1>2, <2>1, NextIs
  <2>3. PICK k \in DOMAIN l : RightBefore(l, i, k) /\ n.next = s.index[k]
    BY <1>1, <2>2, NextIs
  <2>4. k \in S \ {i}
    BY <2>3, Arrivals DEF RightBefore, Before, Level
  <2>5. ASSUME NEW j \in S \ {i} PROVE l[k].seq <= l[j].seq
    <3>1. j = k \/ Before(l, k, j) \/ Before(l, j, k)
      BY <2>4, OnOneLevel
    <3>2. ~Before(l, j, k)
      BY <1>2, <2>1, <2>3 DEF RightBefore
    <3>3. QED
      BY <1>2, <2>4, <3>1, <3>2 DEF Before
  <2>6. QED
    BY <1>3, <2>2, <2>3, <2>4, <2>5
<1>4. CASE n.prev # NilHandle
  <2>1. PICK p \in DOMAIN l : RightBefore(l, p, i)
    BY <1>1, <1>4, PrevIs
  <2>2. p \in S /\ l[p].seq < l[i].seq
    BY <2>1 DEF RightBefore, Before, Level
  <2>3. lv.head # NilHandle /\ \E m \in S : lv.head = s.index[m] /\ \A j \in S : l[m].seq <= l[j].seq
    BY DEF EndsAt
  <2>4. PICK m \in S : lv.head = s.index[m] /\ \A j \in S : l[m].seq <= l[j].seq
    BY <2>3
  <2>5. m # i
    BY <1>2, <2>2, <2>4
  <2>6. QED
    BY <1>4, <2>3, <2>4, <2>5
<1>5. QED
  BY <1>3, <1>4

LEMMA LeavesTail ==
  ASSUME NEW s, NEW l, Arrived(l), Threaded(s, l), NEW i \in DOMAIN l,
         NEW a, NEW t, NEW S, S = Level(l, a, t), i \in S, NEW lv, EndsAt(s, l, lv, S), S \ {i} # {}
  PROVE  LET last == IF SlotOf(s, i).next = NilHandle THEN SlotOf(s, i).prev ELSE lv.tail
         IN  /\ last # NilHandle
             /\ \E j \in S \ {i} : last = s.index[j] /\ \A k \in S \ {i} : l[k].seq <= l[j].seq
<1> DEFINE n == SlotOf(s, i)
<1>1. s \in Stores(DOMAIN l) /\ Indexed(s, l) /\ Linked(s, l)
  BY DEF Threaded
<1>2. S \subseteq DOMAIN l /\ \A j \in DOMAIN l : l[j].seq \in Nat /\ s.index[j] # NilHandle
  <2>1. \A j \in DOMAIN l : s.index[j] # NilHandle
    BY <1>1, SlotIs, NoHandleIsNil
  <2>2. QED
    BY <2>1, Arrivals DEF Level
<1>3. CASE n.next = NilHandle
  <2>1. ASSUME NEW j \in S \ {i} PROVE Before(l, j, i)
    BY <1>1, <1>2, <1>3, OnOneLevel, NextIs
  <2>2. n.prev # NilHandle
    BY <1>1, <1>2, <2>1, PrevIs
  <2>3. PICK k \in DOMAIN l : RightBefore(l, k, i) /\ n.prev = s.index[k]
    BY <1>1, <2>2, PrevIs
  <2>4. k \in S \ {i}
    BY <2>3, Arrivals DEF RightBefore, Before, Level
  <2>5. ASSUME NEW j \in S \ {i} PROVE l[j].seq <= l[k].seq
    <3>1. j = k \/ Before(l, k, j) \/ Before(l, j, k)
      BY <2>4, OnOneLevel
    <3>2. ~Before(l, k, j)
      BY <1>2, <2>1, <2>3 DEF RightBefore
    <3>3. QED
      BY <1>2, <2>4, <3>1, <3>2 DEF Before
  <2>6. QED
    BY <1>3, <2>2, <2>3, <2>4, <2>5
<1>4. CASE n.next # NilHandle
  <2>1. PICK p \in DOMAIN l : RightBefore(l, i, p)
    BY <1>1, <1>4, NextIs
  <2>2. p \in S /\ l[i].seq < l[p].seq
    BY <2>1 DEF RightBefore, Before, Level
  <2>3. lv.tail # NilHandle /\ \E m \in S : lv.tail = s.index[m] /\ \A j \in S : l[j].seq <= l[m].seq
    BY DEF EndsAt
  <2>4. PICK m \in S : lv.tail = s.index[m] /\ \A j \in S : l[j].seq <= l[m].seq
    BY <2>3
  <2>5. m # i
    BY <1>2, <2>2, <2>4
  <2>6. QED
    BY <1>4, <2>3, <2>4, <2>5
<1>5. QED
  BY <1>3, <1>4

\* Leaving, in the arrays the order is not in.
LEMMA LeavesLevelled ==
  ASSUME NEW s, NEW l, Arrived(l), Threaded(s, l), NEW i \in DOMAIN l,
         NEW u, Leaves(s, l, i, u)
  PROVE  Levelled(u, Left(l, i))
<1> DEFINE r == Left(l, i)
           n == SlotOf(s, i)
           a == <<l[i].side, l[i].pending>>
           t == TickOf(l[i].level)
<1>1. /\ DOMAIN r = DOMAIN l \ {i}
      /\ \A j \in DOMAIN l : j # i => r[j] = l[j]
  BY LeftIs
<1>2. s \in Stores(DOMAIN l) /\ Indexed(s, l) /\ Linked(s, l) /\ Levelled(s, l)
  BY DEF Threaded
<1>3. \A j \in DOMAIN l \ {i} : u.index[j] = s.index[j]
  BY DEF Leaves
<1>4. /\ u.levels[a][t] = LeftLevel(s.levels[a][t], n)
      /\ \A b \in Arrays, k \in Ticks : b # a \/ k # t => u.levels[b][k] = s.levels[b][k]
  BY DEF Leaves
<1>5. /\ a \in Arrays /\ t \in Ticks /\ i \in Level(l, a, t)
      /\ \A b \in Arrays : \A k : i \in Level(l, b, k) => b = a /\ k = t
  BY PlaceOf DEF Arrived
<1>6. Book(l)
  BY DEF Arrived
<1>7. n.qty = l[i].qty
  BY <1>2, SlotIs
<1> HIDE DEF r, a, t
<1>8. ASSUME NEW b \in Arrays, NEW k \in Ticks
      PROVE  /\ EndsAt(u, r, u.levels[b][k], Level(r, b, k))
             /\ u.levels[b][k].count = Cardinality(Level(r, b, k))
             /\ u.levels[b][k].total = QtyOn(r, Level(r, b, k))
  <2> DEFINE S == Level(l, b, k)
             T == S \ {i}
             lv == s.levels[b][k]
  <2>1. Level(r, b, k) = T
    BY LevelLeft DEF r
  <2>2. EndsAt(s, l, lv, S) /\ lv.count = Cardinality(S) /\ lv.total = QtyOn(l, S)
    BY <1>2 DEF Levelled
  <2>3. IsFiniteSet(S) /\ S \subseteq DOMAIN l /\ Cardinality(S) \in Nat
    BY <1>6, LevelFinite
  <2>4. \A j \in T : u.index[j] = s.index[j] /\ r[j] = l[j]
    BY <1>1, <1>3, <2>3
  <2>5. QtyOn(r, T) = QtyOn(l, T)
    <3>1. \A j \in T : r[j].qty = l[j].qty
      BY <2>4
    <3> HIDE DEF T
    <3>2. QED
      BY <3>1, QtyKept
  <2>6. CASE b # a \/ k # t
    <3>1. i \notin S
      BY <1>5, <2>6
    <3>2. T = S /\ u.levels[b][k] = lv
      BY <1>4, <2>6, <3>1
    <3>3. EndsAt(u, r, lv, S)
      <4>1. \A j \in S : u.index[j] = s.index[j] /\ r[j].seq = l[j].seq
        BY <2>4, <3>2
      <4> HIDE DEF S, lv
      <4>2. QED
        BY <2>2, <4>1, EndsKept
    <3>4. QED
      BY <2>1, <2>2, <2>5, <3>2, <3>3
  <2>7. CASE b = a /\ k = t
    <3>1. i \in S /\ u.levels[b][k] = LeftLevel(lv, n)
      BY <1>4, <1>5, <2>7
    <3>2. Cardinality(T) = Cardinality(S) - 1 /\ IsFiniteSet(T)
      BY <2>3, <3>1, FS_RemoveElement
    <3>3. T = {} <=> Cardinality(S) = 1
      <4>1. Cardinality(T) = 0 <=> T = {}
        BY <3>2, FS_EmptySet
      <4>2. QED
        BY <2>3, <3>2, <4>1
    <3>4. QtyOn(l, T) = QtyOn(l, S) - l[i].qty
      <4> HIDE DEF S
      <4>1. QED
        BY <1>6, <2>3, <3>1, QtyLeft DEF T
    <3> DEFINE first == IF n.prev = NilHandle THEN n.next ELSE lv.head
               last == IF n.next = NilHandle THEN n.prev ELSE lv.tail
               new == u.levels[b][k]
    <3>5. /\ new.head = IF lv.count = 1 THEN NilHandle ELSE first
          /\ new.tail = IF lv.count = 1 THEN NilHandle ELSE last
          /\ new.total = lv.total - n.qty /\ new.count = lv.count - 1
      BY <3>1 DEF LeftLevel
    <3>6. ASSUME T # {}
          PROVE  /\ first # NilHandle
                 /\ \E j \in T : first = s.index[j] /\ \A x \in T : l[j].seq <= l[x].seq
      BY <2>2, <3>1, <3>6, LeavesHead
    <3>7. ASSUME T # {}
          PROVE  /\ last # NilHandle
                 /\ \E j \in T : last = s.index[j] /\ \A x \in T : l[x].seq <= l[j].seq
      BY <2>2, <3>1, <3>7, LeavesTail
    <3> HIDE DEF first, last, new
    <3>8. EndsAt(u, r, new, T)
      <4>1. CASE T = {}
        BY <2>2, <3>3, <3>5, <4>1 DEF EndsAt
      <4>2. CASE T # {}
        <5>1. new.head = first /\ new.tail = last
          BY <2>2, <3>3, <3>5, <4>2
        <5>2. \E j \in T : first = u.index[j] /\ \A x \in T : r[j].seq <= r[x].seq
          BY <2>4, <3>6, <4>2
        <5>3. \E j \in T : last = u.index[j] /\ \A x \in T : r[x].seq <= r[j].seq
          BY <2>4, <3>7, <4>2
        <5>4. QED
          BY <3>6, <3>7, <4>2, <5>1, <5>2, <5>3 DEF EndsAt
      <4>3. QED
        BY <4>1, <4>2
    <3>9. QED
      BY <1>7, <2>1, <2>2, <2>5, <3>2, <3>4, <3>5, <3>8 DEF new
  <2>8. QED
    BY <2>6, <2>7
<1>9. QED
  BY <1>8 DEF Levelled, r

LEMMA LeavesMapped ==
  ASSUME NEW s, NEW l, Arrived(l), Threaded(s, l), NEW i \in DOMAIN l,
         NEW u, Leaves(s, l, i, u)
  PROVE  Mapped(u, Left(l, i))
<1> DEFINE r == Left(l, i)
           n == SlotOf(s, i)
           a == <<l[i].side, l[i].pending>>
           t == TickOf(l[i].level)
           lv == s.levels[a][t]
<1>1. s \in Stores(DOMAIN l) /\ Indexed(s, l) /\ Levelled(s, l) /\ Mapped(s, l)
  BY DEF Threaded
<1>2. /\ u.maps[a] = LeftMap(s.maps[a], lv, n)
      /\ \A b \in Arrays : b # a => u.maps[b] = s.maps[b]
  BY DEF Leaves
<1>3. /\ a \in Arrays /\ t \in Ticks /\ i \in Level(l, a, t)
      /\ \A b \in Arrays : \A k : i \in Level(l, b, k) => b = a /\ k = t
  BY PlaceOf DEF Arrived
<1>4. n.tick = t
  BY <1>1, SlotIs
<1>5. \A b, k : Level(r, b, k) = Level(l, b, k) \ {i}
  BY LevelLeft
<1>6. lv.count = Cardinality(Level(l, a, t))
  BY <1>1, <1>3 DEF Levelled
<1> HIDE DEF r, n, a, t, lv
<1>7. ASSUME NEW b \in Arrays PROVE Marks(u.maps[b], NTicks, NonEmpty(r, b))
  <2>1. Marks(s.maps[b], NTicks, NonEmpty(l, b))
    BY <1>1 DEF Mapped
  <2>2. \A k \in Ticks : b # a \/ k # t => Level(r, b, k) = Level(l, b, k)
    BY <1>3, <1>5
  <2>3. CASE b # a
    <3>1. NonEmpty(r, b) = NonEmpty(l, b)
      BY <2>2, <2>3 DEF NonEmpty
    <3>2. QED
      BY <1>2, <2>1, <2>3, <3>1
  <2>4. CASE b = a
    <3>1. t \in NonEmpty(l, a)
      BY <1>3 DEF NonEmpty
    <3>2. Level(r, a, t) = {} <=> lv.count = 1
      <4> DEFINE S == Level(l, a, t)
      <4>1. IsFiniteSet(S) /\ Cardinality(S) \in Nat
        BY LevelFinite DEF Arrived
      <4>2. Cardinality(S \ {i}) = Cardinality(S) - 1 /\ IsFiniteSet(S \ {i})
        BY <1>3, <4>1, FS_RemoveElement
      <4>3. Cardinality(S \ {i}) = 0 <=> S \ {i} = {}
        BY <4>2, FS_EmptySet
      <4> HIDE DEF S
      <4>4. QED
        BY <1>5, <1>6, <4>1, <4>2, <4>3 DEF S
    <3>3. CASE lv.count = 1
      <4>1. NonEmpty(r, a) = NonEmpty(l, a) \ {t}
        BY <2>2, <2>4, <3>2, <3>3 DEF NonEmpty
      <4>2. u.maps[a] = ClearBit(s.maps[a], t)
        BY <1>2, <1>4, <3>3 DEF LeftMap
      <4>3. Marks(ClearBit(s.maps[a], t), NTicks, NonEmpty(l, a) \ {t})
        BY <1>3, <2>1, <2>4, MarksClear
      <4>4. QED
        BY <2>4, <4>1, <4>2, <4>3
    <3>4. CASE lv.count # 1
      <4>1. \A k \in Ticks : Level(r, a, k) = {} <=> Level(l, a, k) = {}
        BY <1>3, <2>2, <2>4, <3>2, <3>4
      <4>2. NonEmpty(r, a) = NonEmpty(l, a)
        BY <4>1 DEF NonEmpty
      <4>3. u.maps[a] = s.maps[a]
        BY <1>2, <3>4 DEF LeftMap
      <4>4. QED
        BY <2>1, <2>4, <4>2, <4>3
    <3>5. QED
      BY <3>3, <3>4
  <2>5. QED
    BY <2>3, <2>4
<1>8. QED
  BY <1>7 DEF Mapped, r

LEMMA LeavesFreed ==
  ASSUME NEW s, NEW l, Arrived(l), Threaded(s, l), NEW i \in DOMAIN l,
         NEW u, Leaves(s, l, i, u)
  PROVE  Freed(u, Left(l, i))
<1> DEFINE r == Left(l, i)
           h == s.index[i]
<1>1. DOMAIN r = DOMAIN l \ {i}
  BY LeftIs
<1>2. s \in Stores(DOMAIN l) /\ Indexed(s, l) /\ Freed(s, l)
  BY DEF Threaded
<1>3. h \in Handles
  BY <1>2, SlotIs
<1>4. /\ u.free = h /\ u.nodes[h] = FreeSlot(s.free)
      /\ \A x \in Handles : (\A j \in DOMAIN l : s.index[j] # x) => u.nodes[x] = s.nodes[x]
      /\ \A j \in DOMAIN l \ {i} : u.index[j] = s.index[j]
  BY DEF Leaves
<1>5. PICK m \in Nat : \E g \in [1 .. m -> Handles] :
        /\ \A j, k \in 1 .. m : g[j] = g[k] => j = k
        /\ {g[k] : k \in 1 .. m} = Handles \ {s.index[j] : j \in DOMAIN l}
        /\ FreeList(s, g, m)
  BY <1>2 DEF Freed
<1>6. PICK g \in [1 .. m -> Handles] :
        /\ \A j, k \in 1 .. m : g[j] = g[k] => j = k
        /\ {g[k] : k \in 1 .. m} = Handles \ {s.index[j] : j \in DOMAIN l}
        /\ FreeList(s, g, m)
  BY <1>5
<1> DEFINE e == [k \in 1 .. m + 1 |-> IF k = m + 1 THEN h ELSE g[k]]
<1>7. \A k \in 1 .. m + 1 : k = m + 1 \/ k \in 1 .. m
  OBVIOUS
<1>8. /\ m + 1 \in Nat /\ m + 1 \in 1 .. m + 1 /\ \A k \in 1 .. m : k \in 1 .. m + 1 /\ k # m + 1
  OBVIOUS
<1>9. e[m + 1] = h /\ \A k \in 1 .. m : e[k] = g[k]
  BY <1>8
<1>10. e \in [1 .. m + 1 -> Handles]
  BY <1>3, <1>7
<1> HIDE DEF e, h, r
<1>11. \A k \in 1 .. m : g[k] \in Handles /\ \A j \in DOMAIN l : s.index[j] # g[k]
  BY <1>6
<1>12. \A k \in 1 .. m : g[k] # h /\ u.nodes[g[k]] = s.nodes[g[k]]
  BY <1>4, <1>11 DEF h
<1>13. \A j, k \in 1 .. m + 1 : e[j] = e[k] => j = k
  BY <1>6, <1>7, <1>9, <1>12
<1>14. {e[k] : k \in 1 .. m + 1} = Handles \ {u.index[j] : j \in DOMAIN r}
  <2>1. ASSUME NEW x \in Handles
        PROVE  (\E k \in 1 .. m + 1 : x = e[k]) <=> ~ \E j \in DOMAIN r : x = u.index[j]
    <3>1. (\E k \in 1 .. m : x = g[k]) <=> ~ \E j \in DOMAIN l : x = s.index[j]
      BY <1>6
    <3>2. (\E k \in 1 .. m + 1 : x = e[k]) <=> (\E k \in 1 .. m : x = g[k]) \/ x = h
      BY <1>7, <1>8, <1>9
    <3>3. (\E j \in DOMAIN r : x = u.index[j]) <=> (\E j \in DOMAIN l : x = s.index[j]) /\ x # h
      BY <1>1, <1>2, <1>4 DEF h, Indexed
    <3>4. QED
      BY <3>1, <3>2, <3>3
  <2>2. \A k \in 1 .. m + 1 : e[k] \in Handles
    BY <1>10
  <2>3. QED
    BY <2>1, <2>2
<1>15. FreeList(u, e, m + 1)
  <2>1. u.free = IF m + 1 = 0 THEN NilHandle ELSE e[m + 1]
    BY <1>4, <1>9
  <2>2. ASSUME NEW k \in 1 .. m + 1
        PROVE  u.nodes[e[k]].next = IF k = 1 THEN NilHandle ELSE e[k - 1]
    <3>1. CASE k = m + 1
      <4>1. u.nodes[e[k]].next = s.free
        BY <1>4, <1>9, <3>1 DEF FreeSlot
      <4>2. s.free = IF m = 0 THEN NilHandle ELSE g[m]
        BY <1>6 DEF FreeList
      <4>3. m # 0 => m \in 1 .. m /\ e[m] = g[m]
        BY <1>9
      <4>4. QED
        BY <3>1, <4>1, <4>2, <4>3
    <3>2. CASE k \in 1 .. m
      <4>1. u.nodes[e[k]].next = IF k = 1 THEN NilHandle ELSE g[k - 1]
        BY <1>6, <1>9, <1>12, <3>2 DEF FreeList
      <4>2. k # 1 => k - 1 \in 1 .. m
        BY <3>2
      <4>3. QED
        BY <1>9, <4>1, <4>2
    <3>3. QED
      BY <1>7, <3>1, <3>2
  <2>3. QED
    BY <2>1, <2>2 DEF FreeList
<1>16. QED
  BY <1>8, <1>10, <1>13, <1>14, <1>15 DEF Freed, r

\* A removal takes the order out and leaves everything else in its place.
LEMMA RemovedWorks ==
  ASSUME NEW s, NEW l, Arrived(l), Threaded(s, l), NEW i \in DOMAIN l
  PROVE  Threaded(Removed(s, <<l[i].side, l[i].pending>>, TickOf(l[i].level), s.index[i]),
                  Left(l, i))
<1> DEFINE u == Removed(s, <<l[i].side, l[i].pending>>, TickOf(l[i].level), s.index[i])
<1>1. Leaves(s, l, i, u)
  BY SlotLeaves
<1> HIDE DEF u
<1>2. u \in Stores(DOMAIN l \ {i}) /\ u.used = s.used - 1
  BY <1>1 DEF Leaves
<1>3. DOMAIN Left(l, i) = DOMAIN l \ {i}
  BY LeftIs
<1>4. Cardinality(DOMAIN l \ {i}) = Cardinality(DOMAIN l) - 1
  BY FS_RemoveElement DEF Arrived, Book
<1>5. u.used = Cardinality(DOMAIN Left(l, i))
  BY <1>2, <1>3, <1>4 DEF Threaded
<1>6. /\ Indexed(u, Left(l, i)) /\ Linked(u, Left(l, i)) /\ Levelled(u, Left(l, i))
      /\ Mapped(u, Left(l, i)) /\ Freed(u, Left(l, i))
  BY <1>1, LeavesIndexed, LeavesLinked, LeavesLevelled, LeavesMapped, LeavesFreed
<1>7. QED
  BY <1>2, <1>3, <1>5, <1>6 DEF Threaded, u

-------------------------------------------------------------------------------
(* An order joins its queue                                                    *)

Joined(l, id, n) == [i \in DOMAIN l \cup {id} |-> IF i = id THEN n ELSE l[i]]

IsJoined(r, l, id, n) ==
  DOMAIN r = DOMAIN l \cup {id} /\ r[id] = n /\ \A j \in DOMAIN l : r[j] = l[j]

LEMMA JoinedIs ==
  ASSUME NEW l, NEW id, id \notin DOMAIN l, NEW n
  PROVE  IsJoined(Joined(l, id, n), l, id, n)
BY DEF Joined, IsJoined

\* The slot of a new order, the neighbour it is linked to, and its level.
JoinedSlot(id, n, tail) ==
  [id |-> id, px |-> n.px, qty |-> n.qty, seq |-> n.seq, tick |-> TickOf(n.level),
   owner |-> n.owner, side |-> n.side, tif |-> n.tif, pending |-> n.pending,
   prev |-> tail, next |-> NilHandle]

Appended(nodes, tail, h) ==
  IF tail = NilHandle THEN nodes ELSE [nodes EXCEPT ![tail] = WithNext(nodes[tail], h)]

JoinedLevel(lv, h, q) ==
  [head |-> IF lv.tail = NilHandle THEN h ELSE lv.head, tail |-> h,
   total |-> lv.total + q, count |-> lv.count + 1]

LEMMA EnqueuedIs ==
  ASSUME NEW ids, NEW s \in Stores(ids), NEW id, NEW n, NEW h, h = s.free,
         NEW a, a = <<n.side, n.pending>>, NEW t, t = TickOf(n.level)
  PROVE  Enqueue(s, id, n) =
           StoreOf([Appended(s.nodes, s.levels[a][t].tail, h) EXCEPT
                      ![h] = JoinedSlot(id, n, s.levels[a][t].tail)],
                   s.nodes[h].next, s.used + 1,
                   LevelSet(s.levels, a, t, JoinedLevel(s.levels[a][t], h, n.qty)),
                   [s.maps EXCEPT ![a] = SetBit(s.maps[a], t)],
                   Joined(s.index, id, h))
<1> DEFINE lv == s.levels[a][t]
           linked == IF lv.tail = NilHandle THEN s.nodes
                     ELSE [s.nodes EXCEPT ![lv.tail].next = h]
           nodes == [linked EXCEPT ![h] = JoinedSlot(id, n, lv.tail)]
           level == JoinedLevel(lv, h, n.qty)
           levels == LevelSet(s.levels, a, t, level)
           maps == [s.maps EXCEPT ![a] = SetBit(s.maps[a], t)]
           index == Joined(s.index, id, h)
<1>1. s = StoreOf(s.nodes, s.free, s.used, s.levels, s.maps, s.index)
  BY StoreFields
<1>2. linked = Appended(s.nodes, lv.tail, h)
  BY DEF Appended, WithNext
<1>3. Enqueue(s, id, n) =
        [s EXCEPT !.free = s.nodes[h].next, !.used = s.used + 1, !.nodes = nodes,
                  !.levels = [s.levels EXCEPT ![a][t] = level],
                  !.maps = maps, !.index = index]
  BY <1>1 DEF Enqueue, JoinedSlot, JoinedLevel, Joined
<1> HIDE DEF nodes, levels, maps, index
<1>4. [s.levels EXCEPT ![a][t] = level] = levels
  BY DEF levels, LevelSet
<1>5. Enqueue(s, id, n) = StoreOf(nodes, s.nodes[h].next, s.used + 1, levels, maps, index)
  BY <1>1, <1>3, <1>4 DEF StoreOf
<1>6. QED
  BY <1>2, <1>5 DEF nodes, levels, maps, index

\* The front of the free list.
LEMMA FreeFront ==
  ASSUME NEW s, NEW l, Threaded(s, l), s.free # NilHandle
  PROVE  /\ s.free \in Handles /\ \A j \in DOMAIN l : s.index[j] # s.free
         /\ s.nodes[s.free].next \in Links
<1>1. PICK m \in Nat : \E g \in [1 .. m -> Handles] :
        /\ \A j, k \in 1 .. m : g[j] = g[k] => j = k
        /\ {g[k] : k \in 1 .. m} = Handles \ {s.index[j] : j \in DOMAIN l}
        /\ FreeList(s, g, m)
  BY DEF Threaded, Freed
<1>2. PICK g \in [1 .. m -> Handles] :
        /\ \A j, k \in 1 .. m : g[j] = g[k] => j = k
        /\ {g[k] : k \in 1 .. m} = Handles \ {s.index[j] : j \in DOMAIN l}
        /\ FreeList(s, g, m)
  BY <1>1
<1>3. m # 0 /\ s.free = g[m] /\ m \in 1 .. m
  BY <1>2 DEF FreeList
<1>4. s.nodes[g[m]].next = IF m = 1 THEN NilHandle ELSE g[m - 1]
  BY <1>2, <1>3 DEF FreeList
<1>5. m # 1 => m - 1 \in 1 .. m
  BY <1>3
<1>6. QED
  BY <1>2, <1>3, <1>4, <1>5 DEF Links

\* What joining does to the fields of a store.
Joins(s, l, id, n, u) ==
  LET h == s.free
      a == <<n.side, n.pending>>
      t == TickOf(n.level)
      tail == s.levels[a][t].tail
  IN  /\ u \in Stores(DOMAIN l \cup {id})
      /\ u.free = s.nodes[h].next /\ u.used = s.used + 1
      /\ u.index[id] = h /\ SlotOf(u, id) = JoinedSlot(id, n, tail)
      /\ JoinedSlot(id, n, tail) \in Slots
      /\ \A x \in Handles : x # h /\ (\A j \in DOMAIN l : s.index[j] # x) => u.nodes[x] = s.nodes[x]
      /\ \A j \in DOMAIN l :
           /\ u.index[j] = s.index[j] /\ SameData(SlotOf(u, j), SlotOf(s, j))
           /\ SlotOf(u, j).next = IF s.index[j] = tail THEN h ELSE SlotOf(s, j).next
           /\ SlotOf(u, j).prev = SlotOf(s, j).prev
      /\ u.levels[a][t] = JoinedLevel(s.levels[a][t], h, n.qty)
      /\ \A b \in Arrays, k \in Ticks : b # a \/ k # t => u.levels[b][k] = s.levels[b][k]
      /\ u.maps[a] = SetBit(s.maps[a], t)
      /\ \A b \in Arrays : b # a => u.maps[b] = s.maps[b]

LEMMA MarksSet ==
  ASSUME NEW map, NEW ticks, Marks(map, NTicks, ticks), NEW t \in Ticks
  PROVE  /\ Marks(SetBit(map, t), NTicks, ticks \cup {t})
         /\ SetBit(map, t) \in Bitmaps(NTicks)
<1>1. NTicks \in Nat /\ t \in 0 .. NTicks - 1
  BY TickRange DEF Ticks
<1>2. Marks(SetBit(map, t), NTicks, ticks \cup {t})
  BY <1>1, SetMarks
<1>3. QED
  BY <1>2 DEF Marks

LEMMA AppendedIs ==
  ASSUME NEW nodes \in NodeTables, NEW tail \in Links, NEW h \in Handles,
         tail # NilHandle => nodes[tail] \in Slots
  PROVE  /\ Appended(nodes, tail, h) \in NodeTables
         /\ \A x \in Handles : x # tail => Appended(nodes, tail, h)[x] = nodes[x]
         /\ tail # NilHandle =>
              /\ tail \in Handles
              /\ SameData(Appended(nodes, tail, h)[tail], nodes[tail])
              /\ Appended(nodes, tail, h)[tail].next = h
              /\ Appended(nodes, tail, h)[tail].prev = nodes[tail].prev
<1>1. CASE tail = NilHandle
  BY <1>1 DEF Appended
<1>2. CASE tail # NilHandle
  <2> DEFINE m == WithNext(nodes[tail], h)
             new == Appended(nodes, tail, h)
  <2>1. tail \in Handles /\ nodes[tail] \in Slots /\ h \in Links
    BY <1>2 DEF Links
  <2>2. /\ SameData(m, nodes[tail]) /\ m.next = h /\ m.prev = nodes[tail].prev /\ m \in Slots
    BY <2>1, LinksSet
  <2> HIDE DEF m
  <2>3. new = [nodes EXCEPT ![tail] = m]
    BY <1>2 DEF m, Appended
  <2> HIDE DEF new
  <2>4. /\ new \in NodeTables /\ new[tail] = m
        /\ \A x \in Handles : x # tail => new[x] = nodes[x]
    BY <2>1, <2>2, <2>3 DEF NodeTables
  <2>5. QED
    BY <1>2, <2>1, <2>2, <2>4 DEF new
<1>3. QED
  BY <1>1, <1>2

LEMMA SlotJoins ==
  ASSUME NEW s, NEW l, Arrived(l), Threaded(s, l), s.free # NilHandle,
         NEW id \in OrderIds, id \notin DOMAIN l, NEW n \in Nodes
  PROVE  Joins(s, l, id, n, Enqueue(s, id, n))
<1> DEFINE h == s.free
           a == <<n.side, n.pending>>
           t == TickOf(n.level)
           u == Enqueue(s, id, n)
           lv == s.levels[a][t]
           tail == lv.tail
           nodes == Appended(s.nodes, tail, h)
           slot == JoinedSlot(id, n, tail)
           new == [nodes EXCEPT ![h] = slot]
           level == JoinedLevel(lv, h, n.qty)
           levels == LevelSet(s.levels, a, t, level)
           map == SetBit(s.maps[a], t)
           maps == [s.maps EXCEPT ![a] = map]
           index == Joined(s.index, id, h)
           free == s.nodes[h].next
           used == s.used + 1
           ids == DOMAIN l \cup {id}
<1>1. /\ s \in Stores(DOMAIN l) /\ Indexed(s, l) /\ Linked(s, l) /\ Mapped(s, l)
      /\ Levelled(s, l)
  BY DEF Threaded
<1>2. /\ h \in Handles /\ \A j \in DOMAIN l : s.index[j] # h
      /\ free \in Links
  BY FreeFront
<1>3. a \in Arrays /\ t \in Ticks
  BY TickRange DEF Arrays, Nodes
<1>4. /\ s.nodes \in NodeTables /\ s.free \in Links /\ s.used \in Int
      /\ s.levels \in LevelTables
      /\ s.maps \in MapTables /\ s.index \in [DOMAIN l -> Handles]
  BY <1>1, StoreFields DEF Indexes
<1> DEFINE v == u
<1>5. v = Enqueue(s, id, n)
  OBVIOUS
<1> HIDE DEF h, a, t, u, v
<1>6. v = StoreOf(new, free, used, levels, maps, index)
  BY <1>1, <1>5, EnqueuedIs DEF h, a, t
<1>7. lv \in LevelRecords
  BY <1>3, <1>4 DEF LevelTables
<1>8. tail \in Links /\ lv.head \in Links /\ lv.total \in Int /\ lv.count \in Int
  BY <1>7 DEF LevelRecords
<1>9. tail # NilHandle => \E i \in DOMAIN l : tail = s.index[i]
  BY <1>1, <1>3 DEF Levelled, EndsAt, Level
<1>10. tail # NilHandle => s.nodes[tail] \in Slots /\ tail # h
  BY <1>1, <1>2, <1>9, SlotIs
<1>11. slot \in Slots
  BY <1>3, <1>8 DEF JoinedSlot, Slots, Nodes, Links, t
<1>12. level \in LevelRecords
  <2>1. n.qty \in Int /\ h \in Links
    BY <1>2 DEF Nodes, Links
  <2>2. QED
    BY <1>8, <2>1 DEF JoinedLevel, LevelRecords
<1> HIDE DEF lv, tail, used, ids, free
<1>13. /\ nodes \in NodeTables
       /\ \A x \in Handles : x # tail => nodes[x] = s.nodes[x]
       /\ tail # NilHandle =>
            /\ tail \in Handles /\ SameData(nodes[tail], s.nodes[tail])
            /\ nodes[tail].next = h /\ nodes[tail].prev = s.nodes[tail].prev
  BY <1>2, <1>4, <1>8, <1>10, AppendedIs
<1> HIDE DEF nodes, slot, level
<1>14. /\ new \in NodeTables /\ new[h] = slot
       /\ \A x \in Handles : x # h => new[x] = nodes[x]
  BY <1>2, <1>11, <1>13 DEF NodeTables
<1>15. /\ levels \in LevelTables
       /\ levels[a][t] = level
       /\ \A b \in Arrays, k \in Ticks : b # a \/ k # t => levels[b][k] = s.levels[b][k]
  <2>1. OneLevelSet(levels, s.levels, a, t, level)
    BY <1>3, <1>4, <1>12, LevelSetIs
  <2>2. QED
    BY <2>1 DEF OneLevelSet
<1>16. map \in Bitmaps(NTicks)
  <2>1. Marks(s.maps[a], NTicks, NonEmpty(l, a))
    BY <1>1, <1>3 DEF Mapped
  <2>2. QED
    BY <1>3, <2>1, MarksSet
<1> HIDE DEF map
<1>17. /\ maps \in MapTables /\ maps[a] = map
       /\ \A b \in Arrays : b # a => maps[b] = s.maps[b]
  BY <1>3, <1>4, <1>16 DEF MapTables
<1>18. /\ index \in Indexes(ids) /\ index[id] = h
       /\ \A j \in DOMAIN l : index[j] = s.index[j]
  BY <1>2, <1>4 DEF Joined, ids, Indexes
<1> HIDE DEF new, levels, maps, index
<1>19. free \in Links /\ used \in Int
  BY <1>2, <1>4 DEF free, used
<1>20. /\ v \in Stores(ids)
       /\ v.nodes = new /\ v.free = free /\ v.used = used /\ v.levels = levels
       /\ v.maps = maps /\ v.index = index
  BY <1>6, <1>14, <1>15, <1>17, <1>18, <1>19, StoreMade
<1>21. ASSUME NEW j \in DOMAIN l
       PROVE  /\ v.index[j] = s.index[j] /\ SameData(SlotOf(v, j), SlotOf(s, j))
              /\ SlotOf(v, j).next = IF s.index[j] = tail THEN h ELSE SlotOf(s, j).next
              /\ SlotOf(v, j).prev = SlotOf(s, j).prev
  <2> DEFINE x == s.index[j]
  <2>1. /\ x \in Handles /\ x # h /\ SlotOf(s, j) = s.nodes[x] /\ s.nodes[x] \in Slots
        /\ x # NilHandle
    BY <1>1, <1>2, SlotIs, NoHandleIsNil
  <2>2. v.index[j] = x /\ SlotOf(v, j) = nodes[x]
    BY <1>14, <1>18, <1>20, <2>1 DEF SlotOf
  <2> HIDE DEF x
  <2>3. /\ SameData(nodes[x], s.nodes[x])
        /\ nodes[x].next = IF x = tail THEN h ELSE s.nodes[x].next
        /\ nodes[x].prev = s.nodes[x].prev
    <3>1. CASE x = tail
      BY <1>13, <2>1, <3>1
    <3>2. CASE x # tail
      <4>1. nodes[x] = s.nodes[x]
        BY <1>13, <2>1, <3>2
      <4>2. SameData(s.nodes[x], s.nodes[x])
        BY <2>1 DEF SameData
      <4>3. QED
        BY <3>2, <4>1, <4>2
    <3>3. QED
      BY <3>1, <3>2
  <2>4. QED
    BY <2>1, <2>2, <2>3 DEF x
<1>22. ASSUME NEW x \in Handles, x # h, \A j \in DOMAIN l : s.index[j] # x
       PROVE  v.nodes[x] = s.nodes[x]
  <2>1. x # tail
    BY <1>9, <1>22, NoHandleIsNil
  <2>2. QED
    BY <1>13, <1>14, <1>20, <1>22, <2>1
<1>23. v.index[id] = h /\ SlotOf(v, id) = slot
  BY <1>14, <1>18, <1>20 DEF SlotOf
<1>24. QED
  BY <1>11, <1>15, <1>17, <1>20, <1>21, <1>22, <1>23
     DEF Joins, h, a, t, u, v, lv, tail, slot, level, map, free, used, ids

\* The order that joins is the newest.
Newest(l, n) == \A j \in DOMAIN l : l[j].seq < n.seq

LEMMA JoinedArrived ==
  ASSUME NEW l, Arrived(l), NEW id, id \notin DOMAIN l, NEW n \in Nodes, Newest(l, n)
  PROVE  Arrived(Joined(l, id, n))
<1> DEFINE r == Joined(l, id, n)
<1>1. DOMAIN r = DOMAIN l \cup {id} /\ r[id] = n /\ \A j \in DOMAIN l : r[j] = l[j]
  <2>1. IsJoined(Joined(l, id, n), l, id, n)
    BY JoinedIs
  <2>2. QED
    BY <2>1 DEF IsJoined
<1> HIDE DEF r
<1>2. IsFiniteSet(DOMAIN l \cup {id})
  BY FS_AddElement DEF Arrived, Book
<1>3. Book(r)
  BY <1>1, <1>2 DEF Arrived, Book
<1>4. \A j \in DOMAIN l : l[j].seq \in Nat /\ n.seq \in Nat /\ l[j].seq < n.seq
  BY DEF Arrived, Book, Nodes, Newest
<1>5. ASSUME NEW j \in DOMAIN r, NEW k \in DOMAIN r, r[j].seq = r[k].seq PROVE j = k
  <2>1. CASE j \in DOMAIN l /\ k \in DOMAIN l
    BY <1>1, <1>5, <2>1 DEF Arrived
  <2>2. CASE j \in DOMAIN l /\ k = id
    BY <1>1, <1>4, <1>5, <2>2
  <2>3. CASE j = id /\ k \in DOMAIN l
    BY <1>1, <1>4, <1>5, <2>3
  <2>4. QED
    BY <1>1, <2>1, <2>2, <2>3
<1>6. QED
  BY <1>3, <1>5 DEF Arrived, r

\* The neighbours of the others stay, the last of the level gets one.
LEMMA JoinedNeighbours ==
  ASSUME NEW l, Arrived(l), NEW id, id \notin DOMAIN l, NEW n \in Nodes, Newest(l, n),
         NEW j \in DOMAIN l
  PROVE  /\ \A k \in DOMAIN l : Before(Joined(l, id, n), j, k) <=> Before(l, j, k)
         /\ \A k \in DOMAIN l : RightBefore(l, j, k) => RightBefore(Joined(l, id, n), j, k)
         /\ ~Before(Joined(l, id, n), id, j) /\ ~Before(Joined(l, id, n), id, id)
         /\ Before(Joined(l, id, n), j, id)
              <=> j \in Level(l, <<n.side, n.pending>>, TickOf(n.level))
         /\ j \in Level(l, <<n.side, n.pending>>, TickOf(n.level))
            /\ (\A k \in Level(l, <<n.side, n.pending>>, TickOf(n.level)) : l[k].seq <= l[j].seq)
              => RightBefore(Joined(l, id, n), j, id)
<1> DEFINE r == Joined(l, id, n)
           S == Level(l, <<n.side, n.pending>>, TickOf(n.level))
<1>1. DOMAIN r = DOMAIN l \cup {id} /\ r[id] = n /\ \A k \in DOMAIN l : r[k] = l[k]
  <2>1. IsJoined(Joined(l, id, n), l, id, n)
    BY JoinedIs
  <2>2. QED
    BY <2>1 DEF IsJoined
<1> HIDE DEF r
<1>2. \A k \in DOMAIN l : l[k].seq \in Nat /\ n.seq \in Nat /\ l[k].seq < n.seq
  BY DEF Arrived, Book, Nodes, Newest
<1>3. \A x, y \in DOMAIN l : Before(r, x, y) <=> Before(l, x, y)
  BY <1>1 DEF Before
<1>4. \A x \in DOMAIN l : ~Before(r, id, x)
  BY <1>1, <1>2 DEF Before
<1>5. ~Before(r, id, id)
  BY <1>1, <1>2 DEF Before
<1>6. \A x \in DOMAIN l : Before(r, x, id) <=> x \in S
  BY <1>1, <1>2 DEF Before, Level
<1>7. \A k \in DOMAIN l : RightBefore(l, j, k) => RightBefore(r, j, k)
  BY <1>1, <1>3, <1>4 DEF RightBefore
<1>8. ASSUME j \in S, \A k \in S : l[k].seq <= l[j].seq PROVE RightBefore(r, j, id)
  <2>1. ASSUME NEW k \in DOMAIN r, Before(r, j, k), Before(r, k, id) PROVE FALSE
    <3>1. k \in DOMAIN l /\ k \in S
      BY <1>1, <1>5, <1>6, <2>1
    <3>2. l[j].seq < l[k].seq
      BY <1>1, <2>1, <3>1 DEF Before
    <3>3. QED
      BY <1>2, <1>8, <3>1, <3>2
  <2>2. QED
    BY <1>6, <1>8, <2>1 DEF RightBefore
<1>9. QED
  BY <1>3, <1>4, <1>5, <1>6, <1>7, <1>8 DEF r

LEMMA LevelJoined ==
  ASSUME NEW l, NEW id, id \notin DOMAIN l, NEW n, NEW b, NEW k
  PROVE  /\ id \notin Level(l, b, k)
         /\ b[1] = n.side /\ b[2] = n.pending /\ k = TickOf(n.level)
              => Level(Joined(l, id, n), b, k) = Level(l, b, k) \cup {id}
         /\ b[1] # n.side \/ b[2] # n.pending \/ k # TickOf(n.level)
              => Level(Joined(l, id, n), b, k) = Level(l, b, k)
<1> DEFINE r == Joined(l, id, n)
<1>1. DOMAIN r = DOMAIN l \cup {id} /\ r[id] = n /\ \A j \in DOMAIN l : r[j] = l[j]
  <2>1. IsJoined(Joined(l, id, n), l, id, n)
    BY JoinedIs
  <2>2. QED
    BY <2>1 DEF IsJoined
<1> HIDE DEF r
<1>2. id \notin Level(l, b, k)
  BY DEF Level
<1>3. ASSUME b[1] = n.side /\ b[2] = n.pending /\ k = TickOf(n.level)
      PROVE Level(r, b, k) = Level(l, b, k) \cup {id}
  BY <1>1, <1>3 DEF Level
<1>4. ASSUME b[1] # n.side \/ b[2] # n.pending \/ k # TickOf(n.level)
      PROVE Level(r, b, k) = Level(l, b, k)
  BY <1>1, <1>4 DEF Level
<1>5. QED
  BY <1>2, <1>3, <1>4 DEF r

LEMMA JoinsIndexed ==
  ASSUME NEW s, NEW l, Arrived(l), Threaded(s, l), s.free # NilHandle,
         NEW id \in OrderIds, id \notin DOMAIN l, NEW n \in Nodes,
         NEW u, Joins(s, l, id, n, u)
  PROVE  Indexed(u, Joined(l, id, n))
<1>1. /\ DOMAIN Joined(l, id, n) = DOMAIN l \cup {id} /\ Joined(l, id, n)[id] = n
      /\ \A j \in DOMAIN l : Joined(l, id, n)[j] = l[j]
  <2>1. IsJoined(Joined(l, id, n), l, id, n)
    BY JoinedIs
  <2>2. QED
    BY <2>1 DEF IsJoined
<1>2. ASSUME NEW j \in DOMAIN l
      PROVE  Carries(SlotOf(u, j), j, l[j]) /\ u.index[j] = s.index[j] /\ s.index[j] # s.free
  <2>1. SameData(SlotOf(u, j), SlotOf(s, j)) /\ u.index[j] = s.index[j]
    BY DEF Joins
  <2>2. Carries(SlotOf(s, j), j, l[j])
    BY DEF Threaded, Indexed
  <2>3. QED
    BY <2>1, <2>2, FreeFront DEF Carries, SameData
<1>3. Carries(SlotOf(u, id), id, n) /\ u.index[id] = s.free
  BY DEF Joins, Carries, JoinedSlot
<1>4. \A j, k \in DOMAIN l : s.index[j] = s.index[k] => j = k
  BY DEF Threaded, Indexed
<1>5. QED
  BY <1>1, <1>2, <1>3, <1>4 DEF Indexed

LEMMA JoinsLinked ==
  ASSUME NEW s, NEW l, Arrived(l), Threaded(s, l), s.free # NilHandle,
         NEW id \in OrderIds, id \notin DOMAIN l, NEW n \in Nodes, Newest(l, n),
         NEW u, Joins(s, l, id, n, u)
  PROVE  Linked(u, Joined(l, id, n))
<1> DEFINE r == Joined(l, id, n)
           a == <<n.side, n.pending>>
           t == TickOf(n.level)
           S == Level(l, a, t)
           tail == s.levels[a][t].tail
<1>1. DOMAIN r = DOMAIN l \cup {id}
  <2>1. IsJoined(Joined(l, id, n), l, id, n)
    BY JoinedIs
  <2>2. QED
    BY <2>1 DEF IsJoined
<1>2. s \in Stores(DOMAIN l) /\ Indexed(s, l) /\ Linked(s, l)
  BY DEF Threaded
<1>3. a \in Arrays /\ t \in Ticks
  BY TickRange DEF Arrays, Nodes
<1>4. IF tail = NilHandle THEN S = {}
      ELSE \E i \in S : tail = s.index[i] /\ \A j \in S : l[j].seq <= l[i].seq
  BY <1>3 DEF Threaded, Levelled, EndsAt
<1>5. /\ u.index[id] = s.free /\ SlotOf(u, id).prev = tail /\ SlotOf(u, id).next = NilHandle
  BY DEF Joins, JoinedSlot
<1>6. ASSUME NEW j \in DOMAIN l
      PROVE  /\ u.index[j] = s.index[j] /\ s.index[j] # NilHandle
             /\ SlotOf(u, j).next = IF s.index[j] = tail THEN s.free ELSE SlotOf(s, j).next
             /\ SlotOf(u, j).prev = SlotOf(s, j).prev
  BY <1>2, SlotIs, NoHandleIsNil DEF Joins
<1>7. ASSUME NEW j \in DOMAIN l
      PROVE  /\ \A k \in DOMAIN l : Before(r, j, k) <=> Before(l, j, k)
             /\ \A k \in DOMAIN l : RightBefore(l, j, k) => RightBefore(r, j, k)
             /\ ~Before(r, id, j) /\ ~Before(r, id, id)
             /\ Before(r, j, id) <=> j \in S
             /\ j \in S /\ (\A k \in S : l[k].seq <= l[j].seq) => RightBefore(r, j, id)
  BY JoinedNeighbours
<1>8. ~Before(r, id, id)
  <2>1. r[id] = n /\ n.seq \in Nat
    <3>1. IsJoined(Joined(l, id, n), l, id, n)
      BY JoinedIs
    <3>2. QED
      BY <3>1 DEF IsJoined, Nodes
  <2>2. QED
    BY <2>1 DEF Before
<1>9. S \subseteq DOMAIN l
  BY DEF Level
<1> HIDE DEF r, S, tail, a, t
<1>10. ASSUME NEW j \in DOMAIN l
       PROVE  IF SlotOf(u, j).next = NilHandle THEN \A k \in DOMAIN r : ~Before(r, j, k)
              ELSE \E k \in DOMAIN r : RightBefore(r, j, k) /\ SlotOf(u, j).next = u.index[k]
  <2>1. CASE s.index[j] = tail
    <3>1. tail # NilHandle
      BY <1>6, <2>1
    <3>2. PICK i \in S : tail = s.index[i] /\ \A k \in S : l[k].seq <= l[i].seq
      BY <1>4, <3>1
    <3>3. i = j
      BY <1>2, <1>9, <2>1, <3>2 DEF Indexed
    <3>4. RightBefore(r, j, id)
      BY <1>7, <3>2, <3>3
    <3>5. SlotOf(u, j).next = u.index[id]
      BY <1>5, <1>6, <2>1
    <3>6. QED
      BY <1>1, <3>4, <3>5, NoHandleIsNil, FreeFront, <1>5
  <2>2. CASE s.index[j] # tail
    <3>1. SlotOf(u, j).next = SlotOf(s, j).next
      BY <1>6, <2>2
    <3>2. ASSUME SlotOf(s, j).next = NilHandle PROVE \A k \in DOMAIN r : ~Before(r, j, k)
      <4>1. \A k \in DOMAIN l : ~Before(r, j, k)
        BY <1>2, <1>7, <3>2, NextIs
      <4>2. ~Before(r, j, id)
        <5>1. SUFFICES ASSUME j \in S PROVE FALSE
          BY <1>7
        <5>2. PICK i \in S : tail = s.index[i] /\ \A k \in S : l[k].seq <= l[i].seq
          BY <1>4, <5>1
        <5>3. i # j /\ i \in DOMAIN l
          BY <1>9, <2>2, <5>2
        <5>4. l[j].seq <= l[i].seq
          BY <5>1, <5>2
        <5>5. Before(l, j, i) \/ Before(l, i, j)
          BY <5>1, <5>2, <5>3, OnOneLevel DEF S
        <5>6. l[j].seq \in Nat /\ l[i].seq \in Nat
          BY <5>3, Arrivals
        <5>7. Before(l, j, i)
          BY <5>4, <5>5, <5>6 DEF Before
        <5>8. QED
          BY <1>7, <4>1, <5>3, <5>7
      <4>3. QED
        BY <1>1, <4>1, <4>2
    <3>3. ASSUME SlotOf(s, j).next # NilHandle
          PROVE  \E k \in DOMAIN r : RightBefore(r, j, k) /\ SlotOf(s, j).next = u.index[k]
      <4>1. PICK k \in DOMAIN l : RightBefore(l, j, k) /\ SlotOf(s, j).next = s.index[k]
        BY <1>2, <3>3, NextIs
      <4>2. QED
        BY <1>1, <1>6, <1>7, <4>1
    <3>4. QED
      BY <3>1, <3>2, <3>3
  <2>3. QED
    BY <2>1, <2>2
<1>11. ASSUME NEW j \in DOMAIN l
       PROVE  IF SlotOf(u, j).prev = NilHandle THEN \A k \in DOMAIN r : ~Before(r, k, j)
              ELSE \E k \in DOMAIN r : RightBefore(r, k, j) /\ SlotOf(u, j).prev = u.index[k]
  <2>1. SlotOf(u, j).prev = SlotOf(s, j).prev
    BY <1>6
  <2>2. ASSUME SlotOf(s, j).prev = NilHandle PROVE \A k \in DOMAIN r : ~Before(r, k, j)
    <3>1. \A k \in DOMAIN l : ~Before(r, k, j)
      BY <1>2, <1>7, <2>2, PrevIs
    <3>2. QED
      BY <1>1, <1>7, <3>1
  <2>3. ASSUME SlotOf(s, j).prev # NilHandle
        PROVE  \E k \in DOMAIN r : RightBefore(r, k, j) /\ SlotOf(s, j).prev = u.index[k]
    <3>1. PICK k \in DOMAIN l : RightBefore(l, k, j) /\ SlotOf(s, j).prev = s.index[k]
      BY <1>2, <2>3, PrevIs
    <3>2. QED
      BY <1>1, <1>6, <1>7, <3>1
  <2>4. QED
    BY <2>1, <2>2, <2>3
<1>12. \A k \in DOMAIN r : ~Before(r, id, k)
  BY <1>1, <1>7, <1>8
<1>13. IF tail = NilHandle THEN \A k \in DOMAIN r : ~Before(r, k, id)
       ELSE \E k \in DOMAIN r : RightBefore(r, k, id) /\ tail = u.index[k]
  <2>1. ASSUME tail = NilHandle PROVE \A k \in DOMAIN r : ~Before(r, k, id)
    BY <1>1, <1>4, <1>7, <1>8, <2>1
  <2>2. ASSUME tail # NilHandle
        PROVE \E k \in DOMAIN r : RightBefore(r, k, id) /\ tail = u.index[k]
    <3>1. PICK i \in S : tail = s.index[i] /\ \A k \in S : l[k].seq <= l[i].seq
      BY <1>4, <2>2
    <3>2. QED
      BY <1>1, <1>6, <1>7, <1>9, <3>1
  <2>3. QED
    BY <2>1, <2>2
<1>14. QED
  BY <1>1, <1>5, <1>10, <1>11, <1>12, <1>13 DEF Linked, r

\* The sum with one more order.
LEMMA QtyJoined ==
  ASSUME NEW l, Book(l), NEW S, IsFiniteSet(S), S \subseteq DOMAIN l,
         NEW id, id \notin DOMAIN l, NEW n \in Nodes
  PROVE  QtyOn(Joined(l, id, n), S \cup {id}) = QtyOn(l, S) + n.qty
<1> DEFINE r == Joined(l, id, n)
           T == S \cup {id}
<1>1. DOMAIN r = DOMAIN l \cup {id} /\ r[id] = n /\ \A j \in DOMAIN l : r[j] = l[j]
  <2>1. IsJoined(Joined(l, id, n), l, id, n)
    BY JoinedIs
  <2>2. QED
    BY <2>1 DEF IsJoined
<1> HIDE DEF r
<1>2. Book(r)
  <2>1. IsFiniteSet(DOMAIN l \cup {id})
    BY FS_AddElement DEF Book
  <2>2. QED
    BY <1>1, <2>1 DEF Book
<1>3. IsFiniteSet(T) /\ T \subseteq DOMAIN r /\ id \in T /\ T \ {id} = S
  BY <1>1, FS_AddElement
<1> HIDE DEF T
<1>4. QtyOn(r, T \ {id}) = QtyOn(r, T) - r[id].qty /\ QtyOn(r, T) \in Int
  BY <1>2, <1>3, QtyLeft
<1>5. \A j \in S : r[j].qty = l[j].qty
  BY <1>1
<1>6. QtyOn(r, S) = QtyOn(l, S)
  BY <1>5, QtyKept
<1>7. n.qty \in Int
  BY DEF Nodes
<1> DEFINE x == QtyOn(r, T)
           y == QtyOn(l, S)
<1>9. y = x - n.qty /\ x \in Int
  BY <1>1, <1>3, <1>4, <1>6
<1> HIDE DEF x, y
<1>10. x = y + n.qty
  BY <1>7, <1>9
<1>8. QED
  BY <1>10 DEF r, T, x, y

LEMMA JoinsLevelled ==
  ASSUME NEW s, NEW l, Arrived(l), Threaded(s, l), s.free # NilHandle,
         NEW id \in OrderIds, id \notin DOMAIN l, NEW n \in Nodes, Newest(l, n),
         NEW u, Joins(s, l, id, n, u)
  PROVE  Levelled(u, Joined(l, id, n))
<1> DEFINE r == Joined(l, id, n)
           a == <<n.side, n.pending>>
           t == TickOf(n.level)
<1>1. DOMAIN r = DOMAIN l \cup {id} /\ r[id] = n /\ \A j \in DOMAIN l : r[j] = l[j]
  <2>1. IsJoined(Joined(l, id, n), l, id, n)
    BY JoinedIs
  <2>2. QED
    BY <2>1 DEF IsJoined
<1>2. s \in Stores(DOMAIN l) /\ Indexed(s, l) /\ Levelled(s, l)
  BY DEF Threaded
<1>3. u.index[id] = s.free /\ \A j \in DOMAIN l : u.index[j] = s.index[j]
  BY DEF Joins
<1>4. /\ u.levels[a][t] = JoinedLevel(s.levels[a][t], s.free, n.qty)
      /\ \A b \in Arrays, k \in Ticks : b # a \/ k # t => u.levels[b][k] = s.levels[b][k]
  BY DEF Joins
<1>5. s.free \in Handles /\ s.free # NilHandle
  BY FreeFront
<1>6. Book(l) /\ \A j \in DOMAIN l : l[j].seq \in Nat /\ n.seq \in Nat /\ l[j].seq < n.seq
  BY DEF Arrived, Book, Nodes, Newest
<1>7. \A b, k : /\ id \notin Level(l, b, k)
                /\ b[1] = n.side /\ b[2] = n.pending /\ k = t => Level(r, b, k) = Level(l, b, k) \cup {id}
                /\ b[1] # n.side \/ b[2] # n.pending \/ k # t => Level(r, b, k) = Level(l, b, k)
  BY LevelJoined
<1>8. a \in Arrays /\ a[1] = n.side /\ a[2] = n.pending
      /\ \A b \in Arrays : b[1] = n.side /\ b[2] = n.pending => b = a
  BY DEF Arrays, Nodes
<1> HIDE DEF r, a, t
<1>9. ASSUME NEW b \in Arrays, NEW k \in Ticks
      PROVE  /\ EndsAt(u, r, u.levels[b][k], Level(r, b, k))
             /\ u.levels[b][k].count = Cardinality(Level(r, b, k))
             /\ u.levels[b][k].total = QtyOn(r, Level(r, b, k))
  <2> DEFINE S == Level(l, b, k)
             lv == s.levels[b][k]
  <2>1. EndsAt(s, l, lv, S) /\ lv.count = Cardinality(S) /\ lv.total = QtyOn(l, S)
    BY <1>2 DEF Levelled
  <2>2. IsFiniteSet(S) /\ S \subseteq DOMAIN l /\ Cardinality(S) \in Nat
    BY <1>6, LevelFinite
  <2>3. \A j \in S : u.index[j] = s.index[j] /\ r[j] = l[j]
    BY <1>1, <1>3, <2>2
  <2>4. CASE b # a \/ k # t
    <3>1. Level(r, b, k) = S
      BY <1>7, <1>8, <2>4
    <3>2. u.levels[b][k] = lv
      BY <1>4, <2>4
    <3>3. EndsAt(u, r, lv, S)
      <4>1. \A j \in S : u.index[j] = s.index[j] /\ r[j].seq = l[j].seq
        BY <2>3
      <4> HIDE DEF S, lv
      <4>2. QED
        BY <2>1, <4>1, EndsKept
    <3>4. QtyOn(r, S) = QtyOn(l, S)
      <4>1. \A j \in S : r[j].qty = l[j].qty
        BY <2>3
      <4> HIDE DEF S
      <4>2. QED
        BY <4>1, QtyKept
    <3>5. QED
      BY <2>1, <3>1, <3>2, <3>3, <3>4
  <2>5. CASE b = a /\ k = t
    <3> DEFINE T == S \cup {id}
               new == u.levels[b][k]
    <3>1. Level(r, b, k) = T
      BY <1>7, <1>8, <2>5
    <3>2. new = JoinedLevel(lv, s.free, n.qty)
      BY <1>4, <2>5
    <3>3. id \notin S
      BY <1>7
    <3>4. Cardinality(T) = Cardinality(S) + 1
      BY <2>2, <3>3, FS_AddElement
    <3>5. QtyOn(r, T) = QtyOn(l, S) + n.qty
      <4> HIDE DEF S
      <4>1. QED
        BY <1>6, <2>2, QtyJoined DEF r, T
    <3>6. /\ new.head = IF lv.tail = NilHandle THEN s.free ELSE lv.head
          /\ new.tail = s.free /\ new.total = lv.total + n.qty /\ new.count = lv.count + 1
      BY <3>2 DEF JoinedLevel
    <3> HIDE DEF new
    <3>7. /\ lv.tail = NilHandle => S = {}
          /\ lv.tail # NilHandle => S # {}
          /\ S # {} => lv.head # NilHandle /\ \E i \in S : lv.head = s.index[i] /\ \A j \in S : l[i].seq <= l[j].seq
      BY <2>1 DEF EndsAt
    <3>8. \A j \in S : r[j].seq < r[id].seq /\ r[j].seq \in Nat /\ r[id].seq \in Nat
      BY <1>1, <1>6, <2>2
    <3>9. r[id].seq <= r[id].seq
      BY <1>1 DEF Nodes
    <3> HIDE DEF S, lv
    <3>10. new.head # NilHandle /\ \E i \in T : new.head = u.index[i] /\ \A j \in T : r[i].seq <= r[j].seq
      <4>1. CASE lv.tail = NilHandle
        BY <1>3, <1>5, <3>6, <3>7, <3>9, <4>1
      <4>2. CASE lv.tail # NilHandle
        <5>1. PICK i \in S : lv.head = s.index[i] /\ \A j \in S : l[i].seq <= l[j].seq
          BY <3>7, <4>2
        <5>2. new.head = u.index[i] /\ i \in T /\ new.head # NilHandle
          BY <2>3, <3>6, <3>7, <4>2, <5>1
        <5>3. \A j \in T : r[i].seq <= r[j].seq
          BY <2>3, <3>8, <5>1
        <5>4. QED
          BY <5>2, <5>3
      <4>3. QED
        BY <4>1, <4>2
    <3>11. new.tail # NilHandle /\ \E i \in T : new.tail = u.index[i] /\ \A j \in T : r[j].seq <= r[i].seq
      <4>1. \A j \in T : r[j].seq <= r[id].seq
        BY <3>8, <3>9
      <4>2. QED
        BY <1>3, <1>5, <3>6, <4>1
    <3>12. EndsAt(u, r, new, T)
      BY <3>10, <3>11 DEF EndsAt
    <3>13. QED
      BY <2>1, <3>1, <3>4, <3>5, <3>6, <3>12 DEF new, S, lv
  <2>6. QED
    BY <2>4, <2>5
<1>10. QED
  BY <1>9 DEF Levelled, r

LEMMA JoinsMapped ==
  ASSUME NEW s, NEW l, Arrived(l), Threaded(s, l), s.free # NilHandle,
         NEW id \in OrderIds, id \notin DOMAIN l, NEW n \in Nodes,
         NEW u, Joins(s, l, id, n, u)
  PROVE  Mapped(u, Joined(l, id, n))
<1> DEFINE r == Joined(l, id, n)
           a == <<n.side, n.pending>>
           t == TickOf(n.level)
<1>1. Mapped(s, l)
  BY DEF Threaded
<1>2. u.maps[a] = SetBit(s.maps[a], t) /\ \A b \in Arrays : b # a => u.maps[b] = s.maps[b]
  BY DEF Joins
<1>3. /\ a \in Arrays /\ a[1] = n.side /\ a[2] = n.pending /\ t \in Ticks
      /\ \A b \in Arrays : b[1] = n.side /\ b[2] = n.pending => b = a
  BY TickRange DEF Arrays, Nodes
<1>4. \A b, k : /\ b[1] = n.side /\ b[2] = n.pending /\ k = t => Level(r, b, k) = Level(l, b, k) \cup {id}
                /\ b[1] # n.side \/ b[2] # n.pending \/ k # t => Level(r, b, k) = Level(l, b, k)
  BY LevelJoined
<1> HIDE DEF r, a, t
<1>5. ASSUME NEW b \in Arrays PROVE Marks(u.maps[b], NTicks, NonEmpty(r, b))
  <2>1. Marks(s.maps[b], NTicks, NonEmpty(l, b))
    BY <1>1 DEF Mapped
  <2>2. CASE b # a
    <3>1. \A k \in Ticks : Level(r, b, k) = Level(l, b, k)
      BY <1>3, <1>4, <2>2
    <3>2. NonEmpty(r, b) = NonEmpty(l, b)
      BY <3>1 DEF NonEmpty
    <3>3. QED
      BY <1>2, <2>1, <2>2, <3>2
  <2>3. CASE b = a
    <3>1. /\ \A k \in Ticks : k # t => Level(r, b, k) = Level(l, b, k)
          /\ Level(r, b, t) # {}
      BY <1>3, <1>4, <2>3
    <3>2. NonEmpty(r, b) = NonEmpty(l, b) \cup {t}
      BY <1>3, <3>1 DEF NonEmpty
    <3>3. Marks(SetBit(s.maps[b], t), NTicks, NonEmpty(l, b) \cup {t})
      BY <1>3, <2>1, MarksSet
    <3>4. QED
      BY <1>2, <2>3, <3>2, <3>3
  <2>4. QED
    BY <2>2, <2>3
<1>6. QED
  BY <1>5 DEF Mapped, r

LEMMA JoinsFreed ==
  ASSUME NEW s, NEW l, Arrived(l), Threaded(s, l), s.free # NilHandle,
         NEW id \in OrderIds, id \notin DOMAIN l, NEW n \in Nodes,
         NEW u, Joins(s, l, id, n, u)
  PROVE  Freed(u, Joined(l, id, n))
<1> DEFINE r == Joined(l, id, n)
           h == s.free
<1>1. DOMAIN r = DOMAIN l \cup {id}
  <2>1. IsJoined(Joined(l, id, n), l, id, n)
    BY JoinedIs
  <2>2. QED
    BY <2>1 DEF IsJoined
<1>2. s \in Stores(DOMAIN l) /\ Freed(s, l)
  BY DEF Threaded
<1>3. /\ u.free = s.nodes[h].next /\ u.index[id] = h
      /\ \A x \in Handles : x # h /\ (\A j \in DOMAIN l : s.index[j] # x) => u.nodes[x] = s.nodes[x]
      /\ \A j \in DOMAIN l : u.index[j] = s.index[j]
  BY DEF Joins
<1>4. PICK m \in Nat : \E g \in [1 .. m -> Handles] :
        /\ \A j, k \in 1 .. m : g[j] = g[k] => j = k
        /\ {g[k] : k \in 1 .. m} = Handles \ {s.index[j] : j \in DOMAIN l}
        /\ FreeList(s, g, m)
  BY <1>2 DEF Freed
<1>5. PICK g \in [1 .. m -> Handles] :
        /\ \A j, k \in 1 .. m : g[j] = g[k] => j = k
        /\ {g[k] : k \in 1 .. m} = Handles \ {s.index[j] : j \in DOMAIN l}
        /\ FreeList(s, g, m)
  BY <1>4
<1>6. m # 0 /\ h = g[m]
  BY <1>5 DEF FreeList
<1> DEFINE e == [k \in 1 .. m - 1 |-> g[k]]
<1>7. m - 1 \in Nat /\ m \in 1 .. m /\ \A k \in 1 .. m - 1 : k \in 1 .. m /\ k # m
  BY <1>6
<1>8. \A k \in 1 .. m : k = m \/ k \in 1 .. m - 1
  BY <1>6
<1>9. e \in [1 .. m - 1 -> Handles] /\ \A k \in 1 .. m - 1 : e[k] = g[k]
  BY <1>7
<1> HIDE DEF e, r, h
<1>10. \A k \in 1 .. m : g[k] \in Handles /\ \A j \in DOMAIN l : s.index[j] # g[k]
  BY <1>5
<1>11. \A k \in 1 .. m - 1 : g[k] # h
  BY <1>5, <1>6, <1>7
<1>12. \A k \in 1 .. m - 1 : u.nodes[g[k]] = s.nodes[g[k]]
  BY <1>3, <1>7, <1>10, <1>11
<1>13. \A j, k \in 1 .. m - 1 : e[j] = e[k] => j = k
  BY <1>5, <1>7, <1>9
<1>14. {e[k] : k \in 1 .. m - 1} = Handles \ {u.index[j] : j \in DOMAIN r}
  <2>1. ASSUME NEW x \in Handles
        PROVE  (\E k \in 1 .. m - 1 : x = e[k]) <=> ~ \E j \in DOMAIN r : x = u.index[j]
    <3>1. (\E k \in 1 .. m : x = g[k]) <=> ~ \E j \in DOMAIN l : x = s.index[j]
      BY <1>5
    <3>2. (\E k \in 1 .. m - 1 : x = e[k]) <=> (\E k \in 1 .. m : x = g[k]) /\ x # h
      BY <1>6, <1>7, <1>8, <1>9, <1>11
    <3>3. (\E j \in DOMAIN r : x = u.index[j]) <=> (\E j \in DOMAIN l : x = s.index[j]) \/ x = h
      BY <1>1, <1>3
    <3>4. QED
      BY <3>1, <3>2, <3>3
  <2>2. \A k \in 1 .. m - 1 : e[k] \in Handles
    BY <1>9
  <2>3. QED
    BY <2>1, <2>2
<1>15. FreeList(u, e, m - 1)
  <2>1. u.free = IF m - 1 = 0 THEN NilHandle ELSE e[m - 1]
    <3>1. s.nodes[g[m]].next = IF m = 1 THEN NilHandle ELSE g[m - 1]
      BY <1>5, <1>7 DEF FreeList
    <3>2. m # 1 => m - 1 \in 1 .. m - 1
      BY <1>7
    <3>3. QED
      BY <1>3, <1>6, <1>9, <3>1, <3>2
  <2>2. ASSUME NEW k \in 1 .. m - 1
        PROVE  u.nodes[e[k]].next = IF k = 1 THEN NilHandle ELSE e[k - 1]
    <3>1. u.nodes[e[k]].next = IF k = 1 THEN NilHandle ELSE g[k - 1]
      BY <1>5, <1>7, <1>9, <1>12 DEF FreeList
    <3>2. k # 1 => k - 1 \in 1 .. m - 1
      BY <1>7
    <3>3. QED
      BY <1>9, <3>1, <3>2
  <2>3. QED
    BY <2>1, <2>2 DEF FreeList
<1>16. QED
  BY <1>7, <1>9, <1>13, <1>14, <1>15 DEF Freed, r

\* Joining appends the order to its queue and leaves everything else in its place.
LEMMA EnqueuedWorks ==
  ASSUME NEW s, NEW l, Arrived(l), Threaded(s, l), s.free # NilHandle,
         NEW id \in OrderIds, id \notin DOMAIN l, NEW n \in Nodes, Newest(l, n)
  PROVE  Threaded(Enqueue(s, id, n), Joined(l, id, n))
<1> DEFINE u == Enqueue(s, id, n)
<1>1. Joins(s, l, id, n, u)
  BY SlotJoins
<1> HIDE DEF u
<1>2. u \in Stores(DOMAIN l \cup {id}) /\ u.used = s.used + 1
  BY <1>1 DEF Joins
<1>3. DOMAIN Joined(l, id, n) = DOMAIN l \cup {id}
  <2>1. IsJoined(Joined(l, id, n), l, id, n)
    BY JoinedIs
  <2>2. QED
    BY <2>1 DEF IsJoined
<1>4. Cardinality(DOMAIN l \cup {id}) = Cardinality(DOMAIN l) + 1
  BY FS_AddElement DEF Arrived, Book
<1>5. u.used = Cardinality(DOMAIN Joined(l, id, n))
  BY <1>2, <1>3, <1>4 DEF Threaded
<1>6. /\ Indexed(u, Joined(l, id, n)) /\ Linked(u, Joined(l, id, n))
      /\ Levelled(u, Joined(l, id, n))
      /\ Mapped(u, Joined(l, id, n)) /\ Freed(u, Joined(l, id, n))
  BY <1>1, JoinsIndexed, JoinsLinked, JoinsLevelled, JoinsMapped, JoinsFreed
<1>7. QED
  BY <1>2, <1>3, <1>5, <1>6 DEF Threaded, u

-------------------------------------------------------------------------------
(* A slot is consumed                                                          *)

WithQty(n, q) == [n EXCEPT !.qty = q]
WithTotal(lv, x) == [lv EXCEPT !.total = x]

LEMMA ReducedIs ==
  ASSUME NEW ids, NEW s \in Stores(ids), NEW h \in Handles, NEW q,
         NEW a \in Arrays, NEW t \in Ticks
  PROVE  Reduced(s, a, t, h, q) =
           StoreOf([s.nodes EXCEPT ![h] = WithQty(s.nodes[h], s.nodes[h].qty - q)],
                   s.free, s.used,
                   LevelSet(s.levels, a, t, WithTotal(s.levels[a][t], s.levels[a][t].total - q)),
                   s.maps, s.index)
<1> DEFINE nodes == [s.nodes EXCEPT ![h] = WithQty(s.nodes[h], s.nodes[h].qty - q)]
           levels == LevelSet(s.levels, a, t, WithTotal(s.levels[a][t], s.levels[a][t].total - q))
<1>1. s = StoreOf(s.nodes, s.free, s.used, s.levels, s.maps, s.index)
  BY StoreFields
<1>2. nodes = [s.nodes EXCEPT ![h].qty = s.nodes[h].qty - q]
  BY DEF WithQty
<1>3. levels = [s.levels EXCEPT ![a][t].total = s.levels[a][t].total - q]
  BY DEF WithTotal, LevelSet
<1>4. Reduced(s, a, t, h, q) =
        [s EXCEPT !.nodes = [s.nodes EXCEPT ![h].qty = s.nodes[h].qty - q],
                  !.levels = [s.levels EXCEPT ![a][t].total = s.levels[a][t].total - q]]
  BY <1>1 DEF Reduced, StoreOf
<1> HIDE DEF nodes, levels
<1>5. Reduced(s, a, t, h, q) = [s EXCEPT !.nodes = nodes, !.levels = levels]
  BY <1>2, <1>3, <1>4
<1>6. Reduced(s, a, t, h, q) = StoreOf(nodes, s.free, s.used, levels, s.maps, s.index)
  BY <1>1, <1>5 DEF StoreOf
<1>7. QED
  BY <1>6 DEF nodes, levels

LEMMA QtySet ==
  ASSUME NEW n \in Slots, NEW q \in Nat
  PROVE  /\ WithQty(n, q) \in Slots /\ WithQty(n, q).qty = q
         /\ WithQty(n, q).id = n.id /\ WithQty(n, q).px = n.px /\ WithQty(n, q).seq = n.seq
         /\ WithQty(n, q).tick = n.tick /\ WithQty(n, q).owner = n.owner
         /\ WithQty(n, q).side = n.side /\ WithQty(n, q).tif = n.tif
         /\ WithQty(n, q).pending = n.pending
         /\ WithQty(n, q).prev = n.prev /\ WithQty(n, q).next = n.next
BY DEF WithQty, Slots

LEMMA TotalSet ==
  ASSUME NEW lv \in LevelRecords, NEW x \in Int
  PROVE  /\ WithTotal(lv, x) \in LevelRecords /\ WithTotal(lv, x).total = x
         /\ WithTotal(lv, x).head = lv.head /\ WithTotal(lv, x).tail = lv.tail
         /\ WithTotal(lv, x).count = lv.count
BY DEF WithTotal, LevelRecords

\* What being consumed in part does to the fields of a store.
Shrinks(s, l, i, q, u) ==
  LET n == SlotOf(s, i)
      a == <<l[i].side, l[i].pending>>
      t == TickOf(l[i].level)
      h == s.index[i]
  IN  /\ u \in Stores(DOMAIN l)
      /\ u.free = s.free /\ u.used = s.used /\ u.maps = s.maps /\ u.index = s.index
      /\ u.nodes[h] = WithQty(n, n.qty - q)
      /\ \A x \in Handles : x # h => u.nodes[x] = s.nodes[x]
      /\ u.levels[a][t] = WithTotal(s.levels[a][t], s.levels[a][t].total - q)
      /\ u.levels[a][t] \in LevelRecords /\ s.levels[a][t] \in LevelRecords
      /\ \A b \in Arrays, k \in Ticks : b # a \/ k # t => u.levels[b][k] = s.levels[b][k]

LEMMA SlotShrinks ==
  ASSUME NEW s, NEW l, Arrived(l), Threaded(s, l), NEW i \in DOMAIN l,
         NEW q \in Nat, q <= l[i].qty
  PROVE  Shrinks(s, l, i, q,
                 Reduced(s, <<l[i].side, l[i].pending>>, TickOf(l[i].level), s.index[i], q))
<1> DEFINE h == s.index[i]
           a == <<l[i].side, l[i].pending>>
           t == TickOf(l[i].level)
           u == Reduced(s, a, t, h, q)
           n == s.nodes[h]
           lv == s.levels[a][t]
           rest == n.qty - q
           slot == WithQty(n, rest)
           nodes == [s.nodes EXCEPT ![h] = slot]
           level == WithTotal(lv, lv.total - q)
           levels == LevelSet(s.levels, a, t, level)
           ids == DOMAIN l
<1>1. s \in Stores(DOMAIN l) /\ Indexed(s, l)
  BY DEF Threaded
<1>2. h \in Handles /\ n = SlotOf(s, i) /\ n \in Slots /\ n.qty = l[i].qty
  BY <1>1, SlotIs
<1>3. a \in Arrays /\ t \in Ticks
  BY PlaceOf DEF Arrived
<1>4. /\ s.nodes \in NodeTables /\ s.free \in Links /\ s.used \in Int
      /\ s.levels \in LevelTables /\ s.maps \in MapTables /\ s.index \in Indexes(DOMAIN l)
  BY <1>1, StoreFields
<1> DEFINE v == u
<1>5. v = Reduced(s, a, t, h, q)
  OBVIOUS
<1> HIDE DEF h, a, t, u, v
<1>6. v = StoreOf(nodes, s.free, s.used, levels, s.maps, s.index)
  BY <1>1, <1>2, <1>3, <1>5, ReducedIs
<1>7. lv \in LevelRecords /\ lv.total \in Int
  BY <1>3, <1>4 DEF LevelTables, LevelRecords
<1>8. level \in LevelRecords
  BY <1>7, TotalSet
<1>9. l[i].qty \in Nat
  BY DEF Arrived, Book, Nodes
<1>10. rest \in Nat
  BY <1>2, <1>9
<1> HIDE DEF n, rest
<1>11. slot \in Slots
  BY <1>2, <1>10, QtySet
<1> HIDE DEF slot, lv, level
<1>12. /\ nodes \in NodeTables /\ nodes[h] = slot
       /\ \A x \in Handles : x # h => nodes[x] = s.nodes[x]
  BY <1>2, <1>4, <1>11 DEF NodeTables
<1>13. /\ levels \in LevelTables
       /\ levels[a][t] = level
       /\ \A b \in Arrays, k \in Ticks : b # a \/ k # t => levels[b][k] = s.levels[b][k]
  <2>1. OneLevelSet(levels, s.levels, a, t, level)
    BY <1>3, <1>4, <1>8, LevelSetIs
  <2>2. QED
    BY <2>1 DEF OneLevelSet
<1> HIDE DEF nodes, levels, ids
<1>14. s.index \in Indexes(ids)
  BY <1>4 DEF ids
<1>15. /\ v \in Stores(ids)
       /\ v.nodes = nodes /\ v.free = s.free /\ v.used = s.used /\ v.levels = levels
       /\ v.maps = s.maps /\ v.index = s.index
  BY <1>4, <1>6, <1>12, <1>13, <1>14, StoreMade
<1>16. QED
  BY <1>2, <1>7, <1>8, <1>12, <1>13, <1>15 DEF Shrinks, h, a, t, u, v, lv, level, slot, n, rest, ids

\* Shrunk orders keep their place.
IsShrunk(r, l, i, q) ==
  /\ DOMAIN r = DOMAIN l /\ r[i] \in Nodes /\ r[i].qty = l[i].qty - q
  /\ \A j \in DOMAIN l : j # i => r[j] = l[j]
  /\ \A j \in DOMAIN l :
       /\ r[j].side = l[j].side /\ r[j].pending = l[j].pending /\ r[j].level = l[j].level
       /\ r[j].seq = l[j].seq /\ r[j].px = l[j].px /\ r[j].owner = l[j].owner
       /\ r[j].tif = l[j].tif

LEMMA LiveReducedIs ==
  ASSUME NEW l, Arrived(l), NEW i \in DOMAIN l, NEW q \in Nat, q < l[i].qty
  PROVE  IsShrunk(LiveReduced(l, i, q), l, i, q)
<1>1. l[i] \in Nodes
  BY DEF Arrived, Book
<1> DEFINE o == [l[i] EXCEPT !.qty = l[i].qty - q]
<1>2. /\ o \in Nodes /\ o.qty = l[i].qty - q /\ o.side = l[i].side /\ o.pending = l[i].pending
      /\ o.level = l[i].level /\ o.seq = l[i].seq /\ o.px = l[i].px /\ o.owner = l[i].owner
      /\ o.tif = l[i].tif
  BY <1>1 DEF Nodes
<1>3. LiveReduced(l, i, q) = [l EXCEPT ![i] = o]
  BY DEF LiveReduced
<1> HIDE DEF o
<1> DEFINE r == LiveReduced(l, i, q)
<1> HIDE DEF r
<1>4. DOMAIN r = DOMAIN l /\ r[i] = o /\ \A j \in DOMAIN l : j # i => r[j] = l[j]
  BY <1>3 DEF r
<1>5. QED
  BY <1>2, <1>4 DEF o, r, IsShrunk

LEMMA ReducedArrived ==
  ASSUME NEW l, Arrived(l), NEW i \in DOMAIN l, NEW q \in Nat, q < l[i].qty
  PROVE  Arrived(LiveReduced(l, i, q))
<1> DEFINE r == LiveReduced(l, i, q)
<1>1. /\ DOMAIN r = DOMAIN l /\ r[i] \in Nodes /\ \A j \in DOMAIN l : j # i => r[j] = l[j]
      /\ \A j \in DOMAIN l : r[j].seq = l[j].seq
  <2>1. IsShrunk(LiveReduced(l, i, q), l, i, q)
    BY LiveReducedIs
  <2>2. QED
    BY <2>1 DEF IsShrunk
<1> HIDE DEF r
<1>2. QED
  BY <1>1 DEF Arrived, Book, r

LEMMA ReducedWorks ==
  ASSUME NEW s, NEW l, Arrived(l), Threaded(s, l), NEW i \in DOMAIN l,
         NEW q \in Nat, q < l[i].qty
  PROVE  Threaded(Reduced(s, <<l[i].side, l[i].pending>>, TickOf(l[i].level), s.index[i], q),
                  LiveReduced(l, i, q))
<1> DEFINE r == LiveReduced(l, i, q)
           h == s.index[i]
           a == <<l[i].side, l[i].pending>>
           t == TickOf(l[i].level)
           u == Reduced(s, a, t, h, q)
           n == SlotOf(s, i)
<1>1. l[i].qty \in Nat
  BY DEF Arrived, Book, Nodes
<1>2. Shrinks(s, l, i, q, u)
  BY <1>1, SlotShrinks
<1>3. /\ DOMAIN r = DOMAIN l /\ \A j \in DOMAIN l : j # i => r[j] = l[j]
      /\ r[i].qty = l[i].qty - q
      /\ \A j \in DOMAIN l :
           /\ r[j].side = l[j].side /\ r[j].pending = l[j].pending /\ r[j].level = l[j].level
           /\ r[j].seq = l[j].seq /\ r[j].px = l[j].px /\ r[j].owner = l[j].owner
           /\ r[j].tif = l[j].tif
  <2>1. IsShrunk(LiveReduced(l, i, q), l, i, q)
    BY LiveReducedIs
  <2>2. QED
    BY <2>1 DEF IsShrunk
<1>4. /\ a \in Arrays /\ t \in Ticks /\ i \in Level(l, a, t)
      /\ \A b \in Arrays : \A k : i \in Level(l, b, k) => b = a /\ k = t
  BY PlaceOf DEF Arrived
<1> HIDE DEF u, r, a, t
<1>5. /\ u \in Stores(DOMAIN l)
      /\ u.free = s.free /\ u.used = s.used /\ u.maps = s.maps /\ u.index = s.index
      /\ u.nodes[h] = WithQty(n, n.qty - q)
      /\ \A x \in Handles : x # h => u.nodes[x] = s.nodes[x]
      /\ u.levels[a][t] = WithTotal(s.levels[a][t], s.levels[a][t].total - q)
      /\ s.levels[a][t] \in LevelRecords
      /\ \A b \in Arrays, k \in Ticks : b # a \/ k # t => u.levels[b][k] = s.levels[b][k]
  BY <1>2 DEF Shrinks, a, t
<1>6. /\ s \in Stores(DOMAIN l) /\ Indexed(s, l) /\ Linked(s, l) /\ Levelled(s, l)
      /\ Mapped(s, l) /\ Freed(s, l) /\ s.used = Cardinality(DOMAIN l)
  BY DEF Threaded
<1>7. h \in Handles /\ n \in Slots /\ n.qty = l[i].qty /\ n = s.nodes[h]
  BY <1>6, SlotIs
<1> HIDE DEF n, h
<1>8. n.qty - q \in Nat
  BY <1>1, <1>7
<1> DEFINE rest == n.qty - q
<1> HIDE DEF rest
<1>9. /\ WithQty(n, rest) \in Slots /\ WithQty(n, rest).qty = rest
      /\ WithQty(n, rest).id = n.id /\ WithQty(n, rest).px = n.px /\ WithQty(n, rest).seq = n.seq
      /\ WithQty(n, rest).tick = n.tick /\ WithQty(n, rest).owner = n.owner
      /\ WithQty(n, rest).side = n.side /\ WithQty(n, rest).tif = n.tif
      /\ WithQty(n, rest).pending = n.pending
      /\ WithQty(n, rest).prev = n.prev /\ WithQty(n, rest).next = n.next
  BY <1>7, <1>8, QtySet DEF rest
<1>10. SlotOf(u, i) = WithQty(n, rest)
  BY <1>5 DEF SlotOf, h, rest
<1>11. \A j \in DOMAIN l : j # i => SlotOf(u, j) = SlotOf(s, j)
  <2>1. ASSUME NEW j \in DOMAIN l, j # i PROVE s.index[j] \in Handles /\ s.index[j] # h
    BY <1>6, <2>1, SlotIs DEF Indexed, h
  <2>2. QED
    BY <1>5, <2>1 DEF SlotOf
<1>12. Indexed(u, r)
  <2>1. ASSUME NEW j \in DOMAIN l PROVE Carries(SlotOf(u, j), j, r[j])
    <3>1. Carries(SlotOf(s, j), j, l[j])
      BY <1>6 DEF Indexed
    <3>2. CASE j # i
      BY <1>3, <1>11, <3>1, <3>2
    <3>3. CASE j = i
      BY <1>3, <1>7, <1>9, <1>10, <3>1, <3>3 DEF Carries, n, rest
    <3>4. QED
      BY <3>2, <3>3
  <2>2. QED
    BY <1>3, <1>5, <1>6, <2>1 DEF Indexed
<1>13. \A j \in DOMAIN l : SlotOf(u, j).next = SlotOf(s, j).next /\ SlotOf(u, j).prev = SlotOf(s, j).prev
  BY <1>9, <1>10, <1>11 DEF n
<1>14. \A j, k \in DOMAIN l : /\ Before(r, j, k) <=> Before(l, j, k)
  BY <1>3 DEF Before
<1>15. \A j, k \in DOMAIN l : RightBefore(r, j, k) <=> RightBefore(l, j, k)
  BY <1>3, <1>14 DEF RightBefore
<1>16. Linked(u, r)
  BY <1>3, <1>5, <1>6, <1>13, <1>14, <1>15 DEF Linked
<1>17. \A b, k : Level(r, b, k) = Level(l, b, k)
  BY <1>3 DEF Level
<1>18. Mapped(u, r)
  BY <1>5, <1>6, <1>17 DEF Mapped, NonEmpty
<1>19. Freed(u, r)
  <2>1. PICK m \in Nat : \E g \in [1 .. m -> Handles] :
          /\ \A j, k \in 1 .. m : g[j] = g[k] => j = k
          /\ {g[k] : k \in 1 .. m} = Handles \ {s.index[j] : j \in DOMAIN l}
          /\ FreeList(s, g, m)
    BY <1>6 DEF Freed
  <2>2. PICK g \in [1 .. m -> Handles] :
          /\ \A j, k \in 1 .. m : g[j] = g[k] => j = k
          /\ {g[k] : k \in 1 .. m} = Handles \ {s.index[j] : j \in DOMAIN l}
          /\ FreeList(s, g, m)
    BY <2>1
  <2>3. \A k \in 1 .. m : u.nodes[g[k]] = s.nodes[g[k]]
    BY <1>5, <2>2 DEF h
  <2>4. FreeList(u, g, m)
    BY <1>5, <2>2, <2>3 DEF FreeList
  <2>5. QED
    BY <1>3, <1>5, <2>2, <2>4, SMTT(20) DEF Freed
<1>20. ASSUME NEW b \in Arrays, NEW k \in Ticks
       PROVE  /\ EndsAt(u, r, u.levels[b][k], Level(r, b, k))
              /\ u.levels[b][k].count = Cardinality(Level(r, b, k))
              /\ u.levels[b][k].total = QtyOn(r, Level(r, b, k))
  <2> DEFINE S == Level(l, b, k)
             lv == s.levels[b][k]
             new == u.levels[b][k]
  <2>1. EndsAt(s, l, lv, S) /\ lv.count = Cardinality(S) /\ lv.total = QtyOn(l, S)
    BY <1>6 DEF Levelled
  <2>2. Book(l) /\ IsFiniteSet(S) /\ S \subseteq DOMAIN l
    BY LevelFinite DEF Arrived
  <2>3. Level(r, b, k) = S
    BY <1>17
  <2>4. \A j \in S : u.index[j] = s.index[j] /\ r[j].seq = l[j].seq
    BY <1>3, <1>5, <2>2
  <2>5. CASE b # a \/ k # t
    <3>1. new = lv
      BY <1>5, <2>5
    <3>2. i \notin S
      BY <1>4, <2>5
    <3>3. \A j \in S : r[j].qty = l[j].qty
      BY <1>3, <2>2, <3>2
    <3> HIDE DEF S, lv, new
    <3>4. EndsAt(u, r, lv, S)
      BY <2>1, <2>4, EndsKept
    <3>5. QtyOn(r, S) = QtyOn(l, S)
      BY <3>3, QtyKept
    <3>6. QED
      BY <2>1, <2>3, <3>1, <3>4, <3>5 DEF new
  <2>6. CASE b = a /\ k = t
    <3>1. i \in S /\ new = WithTotal(lv, lv.total - q) /\ lv \in LevelRecords
      BY <1>4, <1>5, <2>6
    <3>2. lv.total \in Int
      BY <3>1 DEF LevelRecords
    <3>3. new.total = lv.total - q /\ new.head = lv.head /\ new.tail = lv.tail /\ new.count = lv.count
      <4> DEFINE x == lv.total - q
      <4>1. x \in Int
        BY <3>2
      <4> HIDE DEF x, lv, new
      <4>2. new = WithTotal(lv, x)
        BY <3>1 DEF x
      <4>3. QED
        BY <3>1, <4>1, <4>2, TotalSet DEF x
    <3> HIDE DEF S, lv, new
    <3>4. EndsAt(u, r, lv, S)
      BY <2>1, <2>4, EndsKept
    <3>5. EndsAt(u, r, new, S)
      BY <3>3, <3>4 DEF EndsAt
    <3>6. QtyOn(r, S) = QtyOn(l, S) - q
      <4> DEFINE f == [j \in S |-> l[j].qty]
                 g == [j \in S |-> r[j].qty]
      <4>1. \A j \in S : f[j] = l[j].qty /\ f[j] \in Int
        BY <2>2 DEF Book, Nodes
      <4>2. \A j \in S \ {i} : g[j] = f[j]
        BY <1>3, <2>2
      <4>3. g[i] = f[i] - q /\ f[i] \in Int /\ q \in Int
        BY <1>3, <3>1, <4>1
      <4>4. QtyOn(r, S) = Total(g, S) /\ QtyOn(l, S) = Total(f, S)
        BY DEF QtyOn
      <4> HIDE DEF f, g
      <4>5. \A j \in S : f[j] \in Int /\ g[j] \in Int
        BY <4>1, <4>2, <4>3
      <4>6. Total(g, S) = Total(f, S) + g[i] - f[i]
        BY <2>2, <3>1, <4>2, <4>5, TotalChange
      <4>7. Total(f, S) \in Int
        BY <2>2, <4>1, TotalType
      <4>8. QED
        BY <4>3, <4>4, <4>6, <4>7
    <3>7. QED
      BY <2>1, <2>3, <3>3, <3>5, <3>6 DEF new
  <2>7. QED
    BY <2>5, <2>6
<1>21. Levelled(u, r)
  BY <1>20 DEF Levelled
<1>22. QED
  BY <1>3, <1>5, <1>6, <1>12, <1>16, <1>18, <1>19, <1>21 DEF Threaded, u, r, h, a, t

\* What relinking does at each slot.
LEMMA RelinkedAt ==
  ASSUME NEW nodes \in NodeTables, NEW n, n.prev \in Links, n.next \in Links,
         n.prev = n.next => n.prev = NilHandle, NEW x \in Handles
  PROVE  /\ DOMAIN Relinked(nodes, n) = Handles
         /\ x = n.next => Relinked(nodes, n)[x] = WithPrev(nodes[x], n.prev)
         /\ x = n.prev => Relinked(nodes, n)[x] = WithNext(nodes[x], n.next)
         /\ x # n.prev /\ x # n.next => Relinked(nodes, n)[x] = nodes[x]
<1> DEFINE m == WithNext(nodes[n.prev], n.next)
           ahead == IF n.prev = NilHandle THEN nodes ELSE [nodes EXCEPT ![n.prev] = m]
           o == WithPrev(ahead[n.next], n.prev)
           new == Relinked(nodes, n)
<1>1. new = IF n.next = NilHandle THEN ahead ELSE [ahead EXCEPT ![n.next] = o]
  BY DEF Relinked, WithNext, WithPrev
<1>2. DOMAIN nodes = Handles /\ x # NilHandle
  BY NoHandleIsNil DEF NodeTables
<1>3. /\ n.prev # NilHandle => n.prev \in Handles
      /\ n.next # NilHandle => n.next \in Handles
  BY DEF Links
<1>4. /\ DOMAIN ahead = Handles
      /\ n.prev # NilHandle => ahead[n.prev] = m
      /\ \A y \in Handles : y # n.prev => ahead[y] = nodes[y]
  <2> HIDE DEF m
  <2>1. CASE n.prev = NilHandle
    BY <1>2, <2>1, NoHandleIsNil
  <2>2. CASE n.prev # NilHandle
    BY <1>2, <1>3, <2>2
  <2>3. QED
    BY <2>1, <2>2
<1> HIDE DEF ahead
<1>5. /\ DOMAIN new = Handles
      /\ n.next # NilHandle => new[n.next] = o
      /\ \A y \in Handles : y # n.next => new[y] = ahead[y]
  <2> HIDE DEF o, new
  <2>1. CASE n.next = NilHandle
    BY <1>1, <1>4, <2>1, NoHandleIsNil
  <2>2. CASE n.next # NilHandle
    BY <1>1, <1>3, <1>4, <2>2
  <2>3. QED
    BY <2>1, <2>2
<1>6. x = n.next => n.next # NilHandle /\ x # n.prev /\ o = WithPrev(nodes[x], n.prev)
  BY <1>2, <1>4
<1>7. x = n.prev => n.prev # NilHandle /\ x # n.next /\ m = WithNext(nodes[x], n.next)
  BY <1>2
<1> HIDE DEF m, o, new
<1>8. QED
  BY <1>2, <1>4, <1>5, <1>6, <1>7 DEF new

\* A level replaced twice.
LEMMA LevelSetTwice ==
  ASSUME NEW levels \in LevelTables, NEW a \in Arrays, NEW t \in Ticks,
         NEW x \in LevelRecords, NEW y \in LevelRecords
  PROVE  LevelSet(LevelSet(levels, a, t, x), a, t, y) = LevelSet(levels, a, t, y)
<1> DEFINE f == LevelSet(levels, a, t, x)
           g == LevelSet(levels, a, t, y)
           k == LevelSet(f, a, t, y)
<1>1. OneLevelSet(f, levels, a, t, x) /\ OneLevelSet(g, levels, a, t, y)
  BY LevelSetIs
<1> HIDE DEF f, g
<1>2. f \in LevelTables
  BY <1>1 DEF OneLevelSet
<1>3. OneLevelSet(k, f, a, t, y)
  BY <1>2, LevelSetIs
<1> HIDE DEF k
<1>4. k \in LevelTables /\ g \in LevelTables
  BY <1>1, <1>3 DEF OneLevelSet
<1>5. ASSUME NEW b \in Arrays PROVE k[b] = g[b]
  <2>1. \A u \in Ticks : k[b][u] = g[b][u]
    BY <1>1, <1>3 DEF OneLevelSet
  <2>2. k[b] \in [Ticks -> LevelRecords] /\ g[b] \in [Ticks -> LevelRecords]
    BY <1>4 DEF LevelTables
  <2>3. QED
    BY <2>1, <2>2
<1>6. k = g
  BY <1>4, <1>5 DEF LevelTables
<1>7. QED
  BY <1>6 DEF f, g, k

\* A slot whose quantity is used up leaves as it would have before.
LEMMA ConsumedIsRemoved ==
  ASSUME NEW s, NEW l, Arrived(l), Threaded(s, l), NEW i \in DOMAIN l
  PROVE  LET h == s.index[i]
             a == <<l[i].side, l[i].pending>>
             t == TickOf(l[i].level)
         IN  Removed(Reduced(s, a, t, h, l[i].qty), a, t, h) = Removed(s, a, t, h)
<1> DEFINE h == s.index[i]
           a == <<l[i].side, l[i].pending>>
           t == TickOf(l[i].level)
           q == l[i].qty
           v == Reduced(s, a, t, h, q)
           n == SlotOf(s, i)
           lv == s.levels[a][t]
<1>1. q \in Nat
  BY DEF Arrived, Book, Nodes
<1>2. Shrinks(s, l, i, q, v)
  BY <1>1, SlotShrinks
<1> HIDE DEF v
<1>3. /\ v \in Stores(DOMAIN l)
      /\ v.free = s.free /\ v.used = s.used /\ v.maps = s.maps /\ v.index = s.index
      /\ v.nodes[h] = WithQty(n, n.qty - q)
      /\ \A x \in Handles : x # h => v.nodes[x] = s.nodes[x]
      /\ v.levels[a][t] = WithTotal(lv, lv.total - q)
      /\ v.levels[a][t] \in LevelRecords /\ lv \in LevelRecords
      /\ \A b \in Arrays, k \in Ticks : b # a \/ k # t => v.levels[b][k] = s.levels[b][k]
  BY <1>2 DEF Shrinks
<1>4. /\ s \in Stores(DOMAIN l) /\ Indexed(s, l) /\ Linked(s, l)
  BY DEF Threaded
<1>5. /\ h \in Handles /\ n \in Slots /\ n.qty = q /\ n = s.nodes[h] /\ n.id = i
      /\ n.prev \in Links /\ n.next \in Links
      /\ a = <<n.side, n.pending>>
  BY <1>4, SlotIs
<1>6. a \in Arrays /\ t \in Ticks
  BY PlaceOf DEF Arrived
<1> DEFINE rest == n.qty - q
           m == WithQty(n, rest)
<1> HIDE DEF n, q, lv, a, t, h
<1>7. rest = 0
  BY <1>1, <1>5
<1> HIDE DEF rest
<1>8. /\ m \in Slots /\ m.qty = 0 /\ m.id = n.id /\ m.tick = n.tick /\ m.side = n.side
      /\ m.pending = n.pending /\ m.prev = n.prev /\ m.next = n.next
  <2>1. rest \in Nat
    BY <1>7
  <2>2. m.qty = rest
    BY <1>5, <2>1, QtySet
  <2>3. QED
    BY <1>5, <1>7, <2>1, <2>2, QtySet
<1> HIDE DEF m
<1>9. v.nodes[h] = m
  BY <1>3 DEF m, rest
<1>10. /\ n.prev # h /\ n.next # h /\ (n.prev = n.next => n.prev = NilHandle)
       /\ n.prev # NilHandle => s.nodes[n.prev] \in Slots
       /\ n.next # NilHandle => s.nodes[n.next] \in Slots
  <2>1. ASSUME n.prev # NilHandle
        PROVE  \E p \in DOMAIN l : RightBefore(l, p, i) /\ n.prev = s.index[p]
    BY <1>4, <2>1, PrevIs DEF n
  <2>2. ASSUME n.next # NilHandle
        PROVE  \E p \in DOMAIN l : RightBefore(l, i, p) /\ n.next = s.index[p]
    BY <1>4, <2>2, NextIs DEF n
  <2>3. \A p \in DOMAIN l : RightBefore(l, p, i) => p # i /\ ~RightBefore(l, i, p)
    BY Arrivals DEF RightBefore, Before
  <2>4. \A p \in DOMAIN l : RightBefore(l, i, p) => p # i
    BY Arrivals DEF RightBefore, Before
  <2>5. \A p, r \in DOMAIN l : s.index[p] = s.index[r] => p = r
    BY <1>4 DEF Indexed
  <2>6. h # NilHandle
    BY <1>5, NoHandleIsNil
  <2>7. \A p \in DOMAIN l : s.nodes[s.index[p]] \in Slots
    BY <1>4, SlotIs
  <2>8. QED
    BY <2>1, <2>2, <2>3, <2>4, <2>5, <2>6, <2>7 DEF h
<1>11. s.nodes \in NodeTables /\ v.nodes \in NodeTables /\ s.levels \in LevelTables
       /\ v.levels \in LevelTables
  BY <1>3, <1>4, StoreFields
<1> DEFINE f == [Relinked(v.nodes, m) EXCEPT ![h] = FreeSlot(s.free)]
           g == [Relinked(s.nodes, n) EXCEPT ![h] = FreeSlot(s.free)]
<1>12. ASSUME NEW x \in Handles
       PROVE  /\ DOMAIN Relinked(v.nodes, m) = Handles /\ DOMAIN Relinked(s.nodes, n) = Handles
              /\ x # h => Relinked(v.nodes, m)[x] = Relinked(s.nodes, n)[x]
  <2>1. /\ DOMAIN Relinked(s.nodes, n) = Handles
        /\ x = n.next => Relinked(s.nodes, n)[x] = WithPrev(s.nodes[x], n.prev)
        /\ x = n.prev => Relinked(s.nodes, n)[x] = WithNext(s.nodes[x], n.next)
        /\ x # n.prev /\ x # n.next => Relinked(s.nodes, n)[x] = s.nodes[x]
    BY <1>5, <1>10, <1>11, RelinkedAt
  <2>2. m.prev \in Links /\ m.next \in Links /\ (m.prev = m.next => m.prev = NilHandle)
    BY <1>5, <1>8, <1>10
  <2>3. /\ DOMAIN Relinked(v.nodes, m) = Handles
        /\ x = m.next => Relinked(v.nodes, m)[x] = WithPrev(v.nodes[x], m.prev)
        /\ x = m.prev => Relinked(v.nodes, m)[x] = WithNext(v.nodes[x], m.next)
        /\ x # m.prev /\ x # m.next => Relinked(v.nodes, m)[x] = v.nodes[x]
    BY <1>11, <2>2, RelinkedAt
  <2>4. QED
    BY <1>3, <1>8, <2>1, <2>3
<1>13. f = g
  <2> DEFINE x1 == Relinked(v.nodes, m)
             x2 == Relinked(s.nodes, n)
             y == FreeSlot(s.free)
  <2>1. DOMAIN x1 = Handles /\ DOMAIN x2 = Handles /\ \A x \in Handles : x # h => x1[x] = x2[x]
    BY <1>5, <1>12
  <2>2. x1 = [x \in Handles |-> x1[x]] /\ x2 = [x \in Handles |-> x2[x]]
    <3>1. x2 \in NodeTables
      BY <1>5, <1>10, <1>11, RelinkedIs
    <3>2. /\ m.prev # NilHandle => v.nodes[m.prev] \in Slots
          /\ m.next # NilHandle => v.nodes[m.next] \in Slots
      BY <1>3, <1>5, <1>8, <1>10 DEF Links
    <3>3. m.prev = m.next => m.prev = NilHandle
      BY <1>8, <1>10
    <3>4. x1 \in NodeTables
      BY <1>8, <1>11, <3>2, <3>3, RelinkedIs
    <3> HIDE DEF x1, x2
    <3>5. QED
      BY <3>1, <3>4 DEF NodeTables
  <2> HIDE DEF x1, x2, y
  <2>3. [x1 EXCEPT ![h] = y] = [x \in Handles |-> IF x = h THEN y ELSE x1[x]]
    BY <2>1, <2>2
  <2>4. [x2 EXCEPT ![h] = y] = [x \in Handles |-> IF x = h THEN y ELSE x2[x]]
    BY <2>1, <2>2
  <2>5. [x1 EXCEPT ![h] = y] = [x2 EXCEPT ![h] = y]
    BY <2>1, <2>3, <2>4
  <2>6. QED
    BY <2>5 DEF x1, x2, y
<1> HIDE DEF f, g
<1>14. Removed(s, a, t, h) =
         StoreOf(g, h, s.used - 1, LevelSet(s.levels, a, t, LeftLevel(lv, n)),
                 [s.maps EXCEPT ![a] = LeftMap(s.maps[a], lv, n)],
                 Restrict(s.index, DOMAIN s.index \ {n.id}))
  <2> HIDE DEF f
  <2>1. Removed(s, a, t, h) =
          StoreOf([Relinked(s.nodes, n) EXCEPT ![h] = FreeSlot(s.free)], h, s.used - 1,
                  LevelSet(s.levels, a, t, LeftLevel(s.levels[a][t], n)),
                  [s.maps EXCEPT ![a] = LeftMap(s.maps[a], s.levels[a][t], n)],
                  Restrict(s.index, DOMAIN s.index \ {n.id}))
    <3>1. s \in Stores(DOMAIN l) /\ h \in Handles /\ n = s.nodes[h] /\ a = <<n.side, n.pending>>
      BY <1>4, <1>5
    <3>2. QED
      BY ONLY <3>1, RemovedIs
  <2>2. QED
    BY <2>1 DEF g, lv
<1> DEFINE new == v.levels[a][t]
<1>15. Removed(v, a, t, h) =
         StoreOf(f, h, s.used - 1, LevelSet(v.levels, a, t, LeftLevel(new, m)),
                 [s.maps EXCEPT ![a] = LeftMap(s.maps[a], new, m)],
                 Restrict(s.index, DOMAIN s.index \ {n.id}))
  <2>1. m = v.nodes[h] /\ a = <<m.side, m.pending>>
    BY <1>5, <1>8, <1>9
  <2> HIDE DEF new
  <2>2. Removed(v, a, t, h) =
          StoreOf([Relinked(v.nodes, m) EXCEPT ![h] = FreeSlot(v.free)], h, v.used - 1,
                  LevelSet(v.levels, a, t, LeftLevel(v.levels[a][t], m)),
                  [v.maps EXCEPT ![a] = LeftMap(v.maps[a], v.levels[a][t], m)],
                  Restrict(v.index, DOMAIN v.index \ {m.id}))
    <3>1. v \in Stores(DOMAIN l) /\ h \in Handles /\ m = v.nodes[h] /\ a = <<m.side, m.pending>>
      BY <1>3, <1>5, <2>1
    <3>2. ASSUME NEW y, NEW z, y \in Stores(DOMAIN l), z = y.nodes[h], a = <<z.side, z.pending>>
          PROVE  Removed(y, a, t, h) =
                   StoreOf([Relinked(y.nodes, z) EXCEPT ![h] = FreeSlot(y.free)], h, y.used - 1,
                           LevelSet(y.levels, a, t, LeftLevel(y.levels[a][t], z)),
                           [y.maps EXCEPT ![a] = LeftMap(y.maps[a], y.levels[a][t], z)],
                           Restrict(y.index, DOMAIN y.index \ {z.id}))
      <4>1. h \in Handles
        BY <3>1
      <4>2. y \in Stores(DOMAIN l)
        BY <3>2
      <4>3. z = y.nodes[h]
        BY <3>2
      <4>4. a = <<z.side, z.pending>>
        BY <3>2
      <4>5. QED
        BY ONLY <4>1, <4>2, <4>3, <4>4, RemovedIs, SMTT(20)
    <3>3. QED
      BY ONLY <3>1, <3>2
  <2>3. QED
    BY <1>3, <1>8, <2>2 DEF f, new
<1>16. /\ new.total = lv.total - q /\ new.head = lv.head /\ new.tail = lv.tail
       /\ new.count = lv.count /\ lv.total \in Int
  <2> DEFINE x == lv.total - q
  <2>1. lv.total \in Int
    BY <1>3 DEF LevelRecords
  <2>2. x \in Int
    BY <1>1, <2>1
  <2> HIDE DEF x, new
  <2>3. new = WithTotal(lv, x)
    BY <1>3 DEF x, new
  <2>4. QED
    BY <1>3, <2>1, <2>2, <2>3, TotalSet DEF x
<1> HIDE DEF new
<1>17. LeftLevel(new, m) = LeftLevel(lv, n)
  <2>1. new.total - m.qty = lv.total - n.qty
    BY <1>1, <1>5, <1>8, <1>16
  <2>2. QED
    BY <1>8, <1>16, <2>1 DEF LeftLevel
<1>18. LeftMap(s.maps[a], new, m) = LeftMap(s.maps[a], lv, n)
  BY <1>8, <1>16 DEF LeftMap
<1>19. LeftLevel(lv, n) \in LevelRecords
  BY <1>3, <1>5, LevelType
<1> DEFINE y == LeftLevel(lv, n)
<1> HIDE DEF y
<1>20. v.levels = LevelSet(s.levels, a, t, new)
  <2>1. v = StoreOf([s.nodes EXCEPT ![h] = WithQty(s.nodes[h], s.nodes[h].qty - q)],
                    s.free, s.used,
                    LevelSet(s.levels, a, t, WithTotal(s.levels[a][t], s.levels[a][t].total - q)),
                    s.maps, s.index)
    BY <1>4, <1>5, <1>6, ReducedIs DEF v
  <2>2. v.levels = LevelSet(s.levels, a, t, WithTotal(s.levels[a][t], s.levels[a][t].total - q))
    BY <2>1 DEF StoreOf
  <2>3. QED
    BY <1>3, <2>2 DEF new, lv
<1>21. LevelSet(v.levels, a, t, y) = LevelSet(s.levels, a, t, y)
  BY <1>3, <1>6, <1>11, <1>19, <1>20, LevelSetTwice DEF new, y
<1>22. QED
  BY <1>13, <1>14, <1>15, <1>17, <1>18, <1>21 DEF v, y, q, a, t, h

-------------------------------------------------------------------------------
(* The steps of the invariant                                                  *)

LEMMA BookArrived == TypeOK /\ ListInv => Arrived(live)
  BY DEF TypeOK, LiveOK, ListInv, Numbered, Arrived, Book

LEMMA KeepStep == ListInv /\ UNCHANGED <<live, arrSeq, store>> => ListInv'
  BY DEF ListInv

LEMMA AddStep ==
  ASSUME TypeOK, ListInv, store.free # NilHandle,
         NEW id \in OrderIds, id \notin DOMAIN live, NEW n \in Nodes, n.seq = arrSeq + 1,
         live' = With(id, n), arrSeq' = arrSeq + 1, store' = Enqueue(store, id, n)
  PROVE  ListInv'
<1>1. arrSeq \in Nat /\ Arrived(live)
  BY BookArrived DEF TypeOK, MarketOK
<1>2. \A j \in DOMAIN live : live[j].seq \in Nat /\ live[j].seq <= arrSeq
  BY <1>1, Arrivals DEF ListInv, Numbered
<1>3. Newest(live, n)
  BY <1>1, <1>2 DEF Newest
<1>4. live' = Joined(live, id, n)
  BY DEF With, Joined
<1>5. Threaded(Enqueue(store, id, n), Joined(live, id, n))
  BY <1>1, <1>3, EnqueuedWorks DEF ListInv
<1>6. IsJoined(Joined(live, id, n), live, id, n)
  BY JoinedIs
<1>7. \A j \in DOMAIN live' : live'[j].seq <= arrSeq'
  BY <1>1, <1>2, <1>4, <1>6 DEF IsJoined
<1>8. \A i, j \in DOMAIN live' : live'[i].seq = live'[j].seq => i = j
  <2>1. Arrived(Joined(live, id, n))
    BY <1>1, <1>3, JoinedArrived
  <2>2. QED
    BY <1>4, <2>1 DEF Arrived
<1>9. Threaded(store', live')
  BY <1>4, <1>5
<1>10. QED
  BY <1>7, <1>8, <1>9 DEF ListInv, Numbered

LEMMA RemoveStep ==
  ASSUME TypeOK, ListInv, NEW i \in DOMAIN live, live' = Without(i), UNCHANGED arrSeq,
         store' = Removed(store, <<live[i].side, live[i].pending>>, TickOf(live[i].level),
                          store.index[i])
  PROVE  ListInv'
<1>1. Arrived(live) /\ live' = Left(live, i)
  BY BookArrived DEF Without, Left
<1>2. Threaded(Removed(store, <<live[i].side, live[i].pending>>, TickOf(live[i].level),
                       store.index[i]), Left(live, i))
  BY <1>1, RemovedWorks DEF ListInv
<1>3. Threaded(store', live')
  BY <1>1, <1>2
<1>4. /\ DOMAIN Left(live, i) = DOMAIN live \ {i}
      /\ \A j \in DOMAIN live : j # i => Left(live, i)[j] = live[j]
  BY LeftIs
<1>5. Numbered(live', arrSeq')
  BY <1>1, <1>4 DEF ListInv, Numbered
<1>6. QED
  BY <1>3, <1>5 DEF ListInv

LEMMA ReduceStep ==
  ASSUME TypeOK, ListInv, NEW i \in DOMAIN live, NEW q \in Nat, q < live[i].qty,
         live' = LiveReduced(live, i, q), UNCHANGED arrSeq,
         store' = Reduced(store, <<live[i].side, live[i].pending>>, TickOf(live[i].level),
                          store.index[i], q)
  PROVE  ListInv'
<1>1. Arrived(live)
  BY BookArrived
<1>2. Threaded(Reduced(store, <<live[i].side, live[i].pending>>, TickOf(live[i].level),
                       store.index[i], q), LiveReduced(live, i, q))
  BY <1>1, ReducedWorks DEF ListInv
<1>3. Threaded(store', live')
  BY <1>2
<1>4. IsShrunk(LiveReduced(live, i, q), live, i, q)
  BY <1>1, LiveReducedIs
<1>5. Numbered(live', arrSeq')
  BY <1>4 DEF ListInv, Numbered, IsShrunk
<1>6. QED
  BY <1>3, <1>5 DEF ListInv

\* The level of a slot, which levelFor reads from the slot, is the order's.
LEMMA RemovedByIdIs ==
  ASSUME ListInv, NEW i \in DOMAIN live
  PROVE  /\ SlotOf(store, i).id = i
         /\ RemovedById(store, i) =
              Removed(store, <<live[i].side, live[i].pending>>, TickOf(live[i].level),
                      store.index[i])
<1>1. /\ SlotOf(store, i).id = i /\ SlotOf(store, i).side = live[i].side
      /\ SlotOf(store, i).pending = live[i].pending
      /\ SlotOf(store, i).tick = TickOf(live[i].level)
  BY SlotIs DEF ListInv, Threaded
<1>2. QED
  BY <1>1 DEF RemovedById, SlotOf

\* The head of the best level of an array.
LEMMA HeadIs ==
  ASSUME ListInv, NEW a \in Arrays, NEW t \in NonEmpty(live, a)
  PROVE  \E i \in Level(live, a, t) :
           /\ store.levels[a][t].head = store.index[i]
           /\ \A j \in Level(live, a, t) : live[i].seq <= live[j].seq
<1>1. t \in Ticks /\ Level(live, a, t) # {}
  BY DEF NonEmpty
<1>2. EndsAt(store, live, store.levels[a][t], Level(live, a, t))
  BY <1>1 DEF ListInv, Threaded, Levelled
<1>3. QED
  BY <1>1, <1>2 DEF EndsAt

LEMMA BitsOfArray ==
  ASSUME ListInv, NEW a \in Arrays
  PROVE  /\ LeastOf(MinBit(store.maps[a]), NonEmpty(live, a))
         /\ GreatestOf(MaxBit(store.maps[a]), NonEmpty(live, a))
<1>1. NTicks \in Nat
  BY TickRange
<1>2. Marks(store.maps[a], NTicks, NonEmpty(live, a))
  BY DEF ListInv, Threaded, Mapped
<1>3. QED
  BY <1>1, <1>2, MinBitWorks, MaxBitWorks

\* t is the best of the ticks of the side a taker trades against.
IsBest(takerSide, t, ticks) ==
  t \in ticks /\ \A u \in ticks : IF takerSide = "buy" THEN t <= u ELSE u <= t

\* The slot matched next is the first on the best level, if that is inside the
\* limit.
LEMMA FrontierIs ==
  ASSUME ListInv, NEW side \in Sides, NEW limit \in Prices
  PROVE  LET a == <<Opposite(side), FALSE>>
             t == BestTick(store, side)
         IN  /\ a \in Arrays
             /\ IF NonEmpty(live, a) = {} THEN t = -1 ELSE IsBest(side, t, NonEmpty(live, a))
             /\ Frontier(store, side, limit) = NilHandle
                  => \A u \in NonEmpty(live, a) : ~Inside(side, limit, u)
             /\ Frontier(store, side, limit) # NilHandle
                  => /\ t \in NonEmpty(live, a) /\ Inside(side, limit, t)
                     /\ Frontier(store, side, limit) = store.levels[a][t].head
<1> DEFINE a == <<Opposite(side), FALSE>>
           t == BestTick(store, side)
           S == NonEmpty(live, a)
<1>1. a \in Arrays
  BY DEF Arrays, Opposite, Sides
<1>2. LeastOf(MinBit(store.maps[a]), S) /\ GreatestOf(MaxBit(store.maps[a]), S)
  BY <1>1, BitsOfArray
<1>3. IF S = {} THEN t = -1 ELSE IsBest(side, t, S)
  <2>1. CASE side = "buy"
    <3>1. t = MinBit(store.maps[a])
      BY <2>1 DEF BestTick, Opposite
    <3>2. QED
      BY <1>2, <2>1, <3>1 DEF LeastOf, IsLeast, IsBest
  <2>2. CASE side = "sell"
    <3>1. t = MaxBit(store.maps[a])
      BY <2>2 DEF BestTick, Opposite
    <3>2. QED
      BY <1>2, <2>2, <3>1 DEF GreatestOf, IsGreatest, IsBest
  <2>3. QED
    BY <2>1, <2>2 DEF Sides
<1>4. S \subseteq Ticks
  BY DEF NonEmpty
<1>5. Frontier(store, side, limit) =
        IF Inside(side, limit, t) THEN store.levels[a][t].head ELSE NilHandle
  BY DEF Frontier
<1> HIDE DEF S, t
<1>6. S # {} => store.levels[a][t].head # NilHandle
  <2>1. ASSUME S # {} PROVE store.levels[a][t].head # NilHandle
    <3>1. t \in S
      BY <1>3, <2>1 DEF IsBest
    <3>2. PICK i \in Level(live, a, t) : store.levels[a][t].head = store.index[i]
      BY <1>1, <3>1, HeadIs DEF S
    <3>3. i \in DOMAIN live
      BY DEF Level
    <3>4. QED
      BY <3>2, <3>3, SlotIs, NoHandleIsNil DEF ListInv, Threaded
  <2>2. QED
    BY <2>1
<1>7. ASSUME Frontier(store, side, limit) = NilHandle, NEW u \in S PROVE ~Inside(side, limit, u)
  <2>1. ~Inside(side, limit, t)
    BY <1>5, <1>6, <1>7
  <2>2. t \in Ticks /\ u \in Ticks /\ IsBest(side, t, S)
    BY <1>3, <1>4, <1>7 DEF IsBest
  <2>3. /\ t \in Nat /\ u \in Nat /\ TickOf(limit) \in Nat
        /\ IF side = "buy" THEN t <= u ELSE u <= t
    BY <1>7, <2>2, TickScale DEF Ticks, IsBest
  <2>4. QED
    BY <2>1, <2>3 DEF Inside
<1>8. ASSUME Frontier(store, side, limit) # NilHandle
      PROVE  t \in S /\ Inside(side, limit, t) /\ Frontier(store, side, limit) = store.levels[a][t].head
  <2>1. Inside(side, limit, t) /\ Frontier(store, side, limit) = store.levels[a][t].head
    BY <1>5, <1>8
  <2>2. t # -1
    BY <2>1 DEF Inside
  <2>3. QED
    BY <1>3, <2>1, <2>2 DEF IsBest
<1>9. QED
  BY <1>1, <1>3, <1>7, <1>8 DEF S, t

\* What a trigger on a side is, in ticks.
Fires(side, t) == hasLast /\ IF side = "buy" THEN t <= TickOf(lastPx) ELSE TickOf(lastPx) <= t

\* The stop released next is the first on the first level that was triggered.
LEMMA TriggeredSlotIs ==
  ASSUME TypeOK, ListInv
  PROVE  LET h == TriggeredSlot(store)
         IN  IF h = NilHandle
             THEN \A side \in Sides : \A t \in NonEmpty(live, <<side, TRUE>>) : ~Fires(side, t)
             ELSE \E side \in Sides : \E t \in NonEmpty(live, <<side, TRUE>>) :
                    /\ Fires(side, t) /\ h = store.levels[<<side, TRUE>>][t].head
                    /\ IsBest(side, t, NonEmpty(live, <<side, TRUE>>))
                    /\ side = "sell" => \A u \in NonEmpty(live, <<"buy", TRUE>>) : ~Fires("buy", u)
<1> DEFINE B == NonEmpty(live, <<"buy", TRUE>>)
           S == NonEmpty(live, <<"sell", TRUE>>)
           b == MinBit(store.maps[<<"buy", TRUE>>])
           s == MaxBit(store.maps[<<"sell", TRUE>>])
           h == TriggeredSlot(store)
           last == TickOf(lastPx)
           hb == store.levels[<<"buy", TRUE>>][b].head
           hs == store.levels[<<"sell", TRUE>>][s].head
<1>1. <<"buy", TRUE>> \in Arrays /\ <<"sell", TRUE>> \in Arrays
  BY DEF Arrays, Sides
<1>2. LeastOf(b, B) /\ GreatestOf(s, S)
  BY <1>1, BitsOfArray
<1>3. B \subseteq Ticks /\ S \subseteq Ticks
  BY DEF NonEmpty
<1>4. hasLast => last \in Nat
  BY TickScale DEF TypeOK, MarketOK
<1>5. ASSUME NEW a \in Arrays, NEW t \in NonEmpty(live, a)
      PROVE  store.levels[a][t].head # NilHandle
  <2>1. PICK i \in Level(live, a, t) : store.levels[a][t].head = store.index[i]
    BY HeadIs
  <2>2. i \in DOMAIN live
    BY DEF Level
  <2>3. QED
    BY <2>1, <2>2, SlotIs, NoHandleIsNil DEF ListInv, Threaded
<1>6. h = IF ~hasLast THEN NilHandle
          ELSE IF b >= 0 /\ b <= last THEN hb
          ELSE IF s >= 0 /\ s >= last THEN hs
          ELSE NilHandle
  BY DEF TriggeredSlot
<1>7. /\ b \in B => hb # NilHandle
      /\ s \in S => hs # NilHandle
  BY <1>1, <1>5
<1> HIDE DEF B, S, b, s, h, last, hb, hs
<1>8. /\ b # -1 => IsBest("buy", b, B)
      /\ b = -1 => B = {}
      /\ s # -1 => IsBest("sell", s, S)
      /\ s = -1 => S = {}
  <2>1. -1 \notin Ticks
    BY DEF Ticks
  <2>2. QED
    BY <1>2, <1>3, <2>1 DEF LeastOf, IsLeast, GreatestOf, IsGreatest, IsBest
<1>9. /\ b # -1 => b \in B /\ b \in Nat
      /\ s # -1 => s \in S /\ s \in Nat
  <2>1. \A u \in Ticks : u \in Nat
    BY TickRange DEF Ticks
  <2>2. (b # -1 => b \in B) /\ (s # -1 => s \in S)
    BY <1>8 DEF IsBest
  <2>3. QED
    BY <1>3, <2>1, <2>2
<1>10. \A side, t : Fires(side, t) <=> hasLast /\ IF side = "buy" THEN t <= last ELSE last <= t
  BY DEF Fires, last
<1>11. ~(hasLast /\ b # -1 /\ b <= last) => \A u \in B : ~Fires("buy", u)
  <2>1. ASSUME NEW u \in B, Fires("buy", u) PROVE hasLast /\ b # -1 /\ b <= last
    <3>1. u \in Nat /\ last \in Nat /\ hasLast /\ u <= last
      BY <1>3, <1>4, <1>10, <2>1 DEF Ticks
    <3>2. b # -1 /\ b <= u /\ b \in Nat
      BY <1>8, <1>9 DEF IsBest
    <3>3. QED
      BY <3>1, <3>2
  <2>2. QED
    BY <2>1
<1>12. ~(hasLast /\ s # -1 /\ s >= last) => \A u \in S : ~Fires("sell", u)
  <2>1. ASSUME NEW u \in S, Fires("sell", u) PROVE hasLast /\ s # -1 /\ s >= last
    <3>1. u \in Nat /\ last \in Nat /\ hasLast /\ last <= u
      BY <1>3, <1>4, <1>10, <2>1 DEF Ticks
    <3>2. s # -1 /\ u <= s /\ s \in Nat
      BY <1>8, <1>9 DEF IsBest
    <3>3. QED
      BY <3>1, <3>2
  <2>2. QED
    BY <2>1
<1>13. /\ b >= 0 <=> b # -1
       /\ s >= 0 <=> s # -1
  BY <1>9
<1>14. CASE hasLast /\ b # -1 /\ b <= last
  <2>1. h = hb /\ h # NilHandle /\ Fires("buy", b) /\ b \in B /\ IsBest("buy", b, B)
    BY <1>6, <1>7, <1>8, <1>9, <1>10, <1>13, <1>14
  <2>2. "buy" \in Sides /\ "buy" # "sell"
    BY DEF Sides
  <2>3. QED
    BY <2>1, <2>2 DEF B, h, b, hb
<1>15. CASE ~(hasLast /\ b # -1 /\ b <= last) /\ hasLast /\ s # -1 /\ s >= last
  <2>1. h = hs /\ h # NilHandle /\ Fires("sell", s) /\ s \in S /\ IsBest("sell", s, S)
    BY <1>6, <1>7, <1>8, <1>9, <1>10, <1>13, <1>15
  <2>2. "sell" \in Sides
    BY DEF Sides
  <2>3. \A u \in B : ~Fires("buy", u)
    BY <1>11, <1>15
  <2>4. QED
    BY <2>1, <2>2, <2>3 DEF B, S, h, s, hs
<1>16. CASE ~(hasLast /\ b # -1 /\ b <= last) /\ ~(hasLast /\ s # -1 /\ s >= last)
  <2>1. h = NilHandle
    BY <1>6, <1>13, <1>16
  <2>2. (\A u \in B : ~Fires("buy", u)) /\ (\A u \in S : ~Fires("sell", u))
    BY <1>11, <1>12, <1>16
  <2>3. \A side \in Sides : side = "buy" \/ side = "sell"
    BY DEF Sides
  <2>4. \A side \in Sides : \A t \in NonEmpty(live, <<side, TRUE>>) : ~Fires(side, t)
    BY <2>2, <2>3 DEF B, S
  <2>5. QED
    BY <2>1, <2>4 DEF h
<1>17. QED
  BY <1>14, <1>15, <1>16

\* A step of the storage is a step of the book.
LEMMA ListStepIsStep ==
  TypeOK /\ ListInv /\ [ListNext]_listVars => [Next]_vars
<1> SUFFICES ASSUME TypeOK, ListInv, [ListNext]_listVars PROVE [Next]_vars
  OBVIOUS
<1>1. CASE ListKeep
  BY <1>1 DEF ListKeep, Next, Call, Internal
<1>2. CASE ListFull
  BY <1>2 DEF ListFull, Next, Call, Internal
<1>3. CASE ListPark
  BY <1>3 DEF ListPark, Next, Call
<1>4. CASE ListRest
  BY <1>4 DEF ListRest, Next, Internal
<1>5. CASE ListCancel
  <2>1. PICK id \in DOMAIN store.index : Cancel(id)
    BY <1>5 DEF ListCancel
  <2>2. id \in OrderIds
    BY <2>1 DEF Cancel, TypeOK, LiveOK
  <2>3. QED
    BY <2>1, <2>2 DEF Next, Call
<1>6. CASE ListConsume
  <2>1. \E m : CancelOwn(m) \/ Fill(m)
    BY <1>6 DEF ListConsume
  <2>2. PICK m : CancelOwn(m) \/ Fill(m)
    BY <2>1
  <2>3. m \in DOMAIN live
    BY <2>2 DEF CancelOwn, Fill, IsMaker, Reachable, Resting
  <2>4. QED
    BY <2>2, <2>3 DEF Next, Internal
<1>7. CASE ListRelease
  <2>1. \E m : Release(m) \/ ReleaseRefused(m)
    BY <1>7 DEF ListRelease
  <2>2. PICK m : Release(m) \/ ReleaseRefused(m)
    BY <2>1
  <2>3. m \in DOMAIN live
    BY <2>2 DEF Release, ReleaseRefused, ReleaseNext
  <2>4. QED
    BY <2>2, <2>3 DEF Next, Internal
<1>8. CASE UNCHANGED listVars
  BY <1>8 DEF listVars
<1>9. QED
  BY <1>1, <1>2, <1>3, <1>4, <1>5, <1>6, <1>7, <1>8 DEF ListNext

LEMMA ListStep ==
  TypeOK /\ ListInv /\ [ListNext]_listVars => ListInv'
<1> SUFFICES ASSUME TypeOK, ListInv, [ListNext]_listVars PROVE ListInv'
  OBVIOUS
<1>1. CASE ListKeep
  <2>1. UNCHANGED <<live, arrSeq, store>>
    BY <1>1 DEF ListKeep, RejectSubmit, Take, CancelUnknown, Drop, Return, book
  <2>2. QED
    BY <2>1, KeepStep
<1>2. CASE ListFull
  <2>1. UNCHANGED <<live, arrSeq, store>>
    BY <1>2 DEF ListFull, RestFull, ParkFull, book
  <2>2. QED
    BY <2>1, KeepStep
<1>3. CASE ListPark
  <2>1. PICK id \in OrderIds, o \in Orders :
          /\ store.free # NilHandle /\ Park(id, o)
          /\ store' = Enqueue(store, id, Node(o, o.stop, o.qty, TRUE))
    BY <1>3 DEF ListPark
  <2> DEFINE n == Node(o, o.stop, o.qty, TRUE)
  <2>2. n \in Nodes /\ n.seq = arrSeq + 1
    BY <2>1, BookAssumption
       DEF Park, WellFormed, Parks, Node, Nodes, Prices, ValidPx, TypeOK, MarketOK, Types, Sides, TIFs
  <2>3. id \notin DOMAIN live /\ live' = With(id, n) /\ arrSeq' = arrSeq + 1
    BY <2>1 DEF Park, WellFormed
  <2>4. store.free # NilHandle /\ store' = Enqueue(store, id, n)
    BY <2>1
  <2> HIDE DEF n
  <2>5. QED
    BY <2>2, <2>3, <2>4, AddStep
<1>4. CASE ListRest
  <2> DEFINE n == Node(cur, cur.px, cur.rem, FALSE)
  <2>1. cur \in Tasks /\ cur.id \notin DOMAIN live /\ cur.rem > 0
    BY <1>4 DEF ListRest, Rest, MatchDone, TypeOK, CallOK
  <2>2. n \in Nodes /\ n.seq = arrSeq + 1
    BY <2>1 DEF Node, Nodes, Tasks, TypeOK, MarketOK
  <2>3. cur.id \in OrderIds
    BY <2>1 DEF Tasks
  <2>4. /\ live' = With(cur.id, n) /\ arrSeq' = arrSeq + 1
        /\ store.free # NilHandle /\ store' = Enqueue(store, cur.id, n)
    BY <1>4 DEF ListRest, Rest
  <2> HIDE DEF n
  <2>5. QED
    BY <2>1, <2>2, <2>3, <2>4, AddStep
<1>5. CASE ListCancel
  <2>1. PICK id \in DOMAIN store.index : Cancel(id) /\ store' = RemovedById(store, id)
    BY <1>5 DEF ListCancel
  <2>2. id \in DOMAIN live /\ live' = Without(id) /\ UNCHANGED arrSeq
    BY <2>1 DEF Cancel
  <2>3. QED
    BY <2>1, <2>2, RemovedByIdIs, RemoveStep
<1>6. CASE ListConsume
  <2> DEFINE h == Frontier(store, cur.side, cur.px)
             a == <<Opposite(cur.side), FALSE>>
             t == BestTick(store, cur.side)
             m == store.nodes[h].id
             q == Min({cur.rem, store.nodes[h].qty})
             left == Reduced(store, a, t, h, q)
  <2>1. /\ phase = "match" /\ h # NilHandle
        /\ \/ CancelOwn(m) /\ store' = Removed(store, a, t, h)
           \/ Fill(m) /\ store' = IF q = store.nodes[h].qty THEN Removed(left, a, t, h) ELSE left
    BY <1>6 DEF ListConsume
  <2>2. cur \in Tasks /\ cur.side \in Sides /\ cur.px \in Prices /\ cur.rem \in Nat
    BY <2>1 DEF TypeOK, CallOK, Tasks
  <2>3. a \in Arrays /\ t \in NonEmpty(live, a) /\ h = store.levels[a][t].head
    BY <2>1, <2>2, FrontierIs
  <2>4. PICK i \in Level(live, a, t) : store.levels[a][t].head = store.index[i]
    <3> HIDE DEF a, t
    <3>1. QED
      BY <2>3, HeadIs
  <2>5. /\ i \in DOMAIN live /\ a = <<live[i].side, live[i].pending>>
        /\ t = TickOf(live[i].level) /\ h = store.index[i]
    BY <2>3, <2>4 DEF Level
  <2>6. SlotOf(store, i).id = i /\ SlotOf(store, i).qty = live[i].qty
    BY <2>5, SlotIs DEF ListInv, Threaded
  <2>7. m = i /\ store.nodes[h].qty = live[i].qty
    BY <2>5, <2>6 DEF SlotOf
  <2>8. q = Min({cur.rem, live[i].qty}) /\ live[i].qty \in Nat
    BY <2>5, <2>7 DEF TypeOK, LiveOK, Nodes
  <2>9. q \in Nat /\ q <= live[i].qty
    BY <2>2, <2>8, MinOfPair
  <2> HIDE DEF h, a, t, m, q
  <2>10. CASE CancelOwn(m) /\ store' = Removed(store, a, t, h)
    <3>1. live' = Without(i) /\ UNCHANGED arrSeq
      BY <2>7, <2>10 DEF CancelOwn
    <3>2. QED
      BY <2>5, <2>10, <3>1, RemoveStep
  <2>11. CASE Fill(m) /\ store' = IF q = store.nodes[h].qty THEN Removed(left, a, t, h) ELSE left
    <3>1. /\ UNCHANGED arrSeq
          /\ live' = IF q = live[i].qty THEN Without(i) ELSE [live EXCEPT ![i].qty = live[i].qty - q]
      BY <2>7, <2>8, <2>11 DEF Fill
    <3>2. CASE q = live[i].qty
      <4>1. left = Reduced(store, a, t, h, live[i].qty)
        BY <3>2
      <4>2. Removed(left, a, t, h) = Removed(store, a, t, h)
        <5>1. Arrived(live) /\ Threaded(store, live)
          BY BookArrived DEF ListInv
        <5>2. QED
          BY <2>5, <4>1, <5>1, ConsumedIsRemoved
      <4>3. live' = Without(i) /\ store' = Removed(store, a, t, h)
        BY <2>7, <2>11, <3>1, <3>2, <4>2
      <4>4. QED
        BY <2>5, <3>1, <4>3, RemoveStep
    <3>3. CASE q # live[i].qty
      <4>1. live' = LiveReduced(live, i, q) /\ store' = Reduced(store, a, t, h, q)
        BY <2>7, <2>11, <3>1, <3>3 DEF LiveReduced
      <4>2. q < live[i].qty
        BY <2>8, <2>9, <3>3
      <4>3. QED
        BY <2>5, <2>9, <3>1, <4>1, <4>2, ReduceStep
    <3>4. QED
      BY <3>2, <3>3
  <2>12. QED
    BY <2>1, <2>10, <2>11
<1>7. CASE ListRelease
  <2> DEFINE h == TriggeredSlot(store)
             m == store.nodes[h].id
  <2>1. /\ Release(m) \/ ReleaseRefused(m)
        /\ store' = RemovedById(store, m)
    BY <1>7 DEF ListRelease
  <2>2. m \in DOMAIN live /\ live' = Without(m) /\ UNCHANGED arrSeq
    BY <2>1 DEF Release, ReleaseRefused, ReleaseNext
  <2> HIDE DEF m
  <2>3. QED
    BY <2>1, <2>2, RemovedByIdIs, RemoveStep
<1>8. CASE UNCHANGED listVars
  BY <1>8, KeepStep DEF listVars, vars, book
<1>9. QED
  BY <1>1, <1>2, <1>3, <1>4, <1>5, <1>6, <1>7, <1>8 DEF ListNext

\* An empty book has an empty storage: every slot is free, in order.
LEMMA ListStart == ListInit => ListInv
<1> SUFFICES ASSUME ListInit PROVE ListInv
  OBVIOUS
<1> DEFINE s == NewStore
           l == <<>>
<1>1. store = s /\ live = l /\ arrSeq = 0 /\ DOMAIN l = {}
  BY DEF ListInit, Init
<1>2. Capacity \in Nat \ {0} /\ NTicks \in Nat /\ NTicks > 0
  BY BookAssumption, TickRange
<1>3. \A a, t : Level(l, a, t) = {}
  BY DEF Level
<1>4. IsFiniteSet({}) /\ Cardinality({}) = 0
  BY FS_EmptySet
<1>5. Marks(NewBitmap(NTicks), NTicks, {})
  BY <1>2, NewMarks
<1> DEFINE nodes == [h \in Handles |-> FreeSlot(IF h = Capacity - 1 THEN NilHandle ELSE h + 1)]
           levels == [a \in Arrays |-> [t \in 0 .. NTicks - 1 |-> EmptyLevel]]
           maps == [a \in Arrays |-> NewBitmap(NTicks)]
<1>6. s = StoreOf(nodes, 0, 0, levels, maps, l)
  BY DEF NewStore, StoreOf
<1>7. nodes \in NodeTables
  <2>1. ASSUME NEW h \in Handles PROVE nodes[h] \in FreeSlots
    <3>1. (IF h = Capacity - 1 THEN NilHandle ELSE h + 1) \in Links
      BY <1>2 DEF Links, Handles
    <3>2. QED
      BY <3>1 DEF FreeSlots, FreeSlot
  <2>2. QED
    BY <2>1 DEF NodeTables
<1>8. levels \in LevelTables
  <2>1. EmptyLevel \in LevelRecords
    BY DEF EmptyLevel, LevelRecords, Links
  <2>2. QED
    BY <2>1 DEF LevelTables, Ticks
<1>9. maps \in MapTables
  BY <1>5 DEF MapTables, Marks
<1>10. l \in Indexes({})
  BY DEF Indexes
<1>11. 0 \in Links /\ 0 \in Int
  BY <1>2 DEF Links, Handles
<1> HIDE DEF s, l, nodes, levels, maps
<1>12. /\ s \in Stores({}) /\ s.nodes = nodes /\ s.free = 0 /\ s.used = 0
       /\ s.levels = levels /\ s.maps = maps /\ s.index = l
  BY <1>6, <1>7, <1>8, <1>9, <1>10, <1>11, StoreMade
<1>13. Indexed(s, l) /\ Linked(s, l)
  BY <1>1 DEF Indexed, Linked
<1>14. Levelled(s, l)
  <2>1. ASSUME NEW a \in Arrays, NEW t \in Ticks
        PROVE  /\ EndsAt(s, l, s.levels[a][t], Level(l, a, t))
               /\ s.levels[a][t].count = Cardinality(Level(l, a, t))
               /\ s.levels[a][t].total = QtyOn(l, Level(l, a, t))
    <3>1. s.levels[a][t] = EmptyLevel
      BY <1>12 DEF levels, Ticks
    <3>2. EndsAt(s, l, EmptyLevel, {})
      BY DEF EndsAt, EmptyLevel
    <3>3. QtyOn(l, {}) = 0
      BY TotalEmpty DEF QtyOn
    <3>4. EmptyLevel.count = 0 /\ EmptyLevel.total = 0
      BY DEF EmptyLevel
    <3>5. QED
      BY <1>3, <1>4, <3>1, <3>2, <3>3, <3>4 DEF l
  <2>2. QED
    BY <2>1 DEF Levelled
<1>15. Mapped(s, l)
  <2>1. ASSUME NEW a \in Arrays PROVE Marks(s.maps[a], NTicks, NonEmpty(l, a))
    <3>1. NonEmpty(l, a) = {}
      BY <1>3 DEF NonEmpty, l
    <3>2. s.maps[a] = NewBitmap(NTicks)
      BY <1>12 DEF maps
    <3>3. QED
      BY <1>5, <3>1, <3>2
  <2>2. QED
    BY <2>1 DEF Mapped
<1>16. Freed(s, l)
  <2> DEFINE g == [k \in 1 .. Capacity |-> Capacity - k]
  <2>1. g \in [1 .. Capacity -> Handles] /\ \A k \in 1 .. Capacity : g[k] = Capacity - k
    BY <1>2 DEF Handles
  <2> HIDE DEF g
  <2>2. \A j, k \in 1 .. Capacity : g[j] = g[k] => j = k
    BY <1>2, <2>1
  <2>3. {g[k] : k \in 1 .. Capacity} = Handles
    <3>1. ASSUME NEW h \in Handles PROVE \E k \in 1 .. Capacity : h = g[k]
      <4>1. h \in Nat /\ h <= Capacity - 1
        BY DEF Handles
      <4>2. Capacity - h \in 1 .. Capacity /\ Capacity - (Capacity - h) = h
        BY <1>2, <4>1
      <4>3. g[Capacity - h] = h
        BY <2>1, <4>2
      <4>4. QED
        BY <4>2, <4>3
    <3>2. \A k \in 1 .. Capacity : g[k] \in Handles
      BY <2>1
    <3>3. QED
      BY <3>1, <3>2
  <2>4. {s.index[i] : i \in DOMAIN l} = {}
    BY <1>1
  <2>5. FreeList(s, g, Capacity)
    <3>1. s.free = g[Capacity]
      BY <1>2, <1>12, <2>1
    <3>2. ASSUME NEW k \in 1 .. Capacity
          PROVE  s.nodes[g[k]].next = IF k = 1 THEN NilHandle ELSE g[k - 1]
      <4>1. g[k] = Capacity - k /\ g[k] \in Handles
        BY <2>1
      <4>2. s.nodes[g[k]].next = IF g[k] = Capacity - 1 THEN NilHandle ELSE g[k] + 1
        BY <1>12, <4>1 DEF nodes, FreeSlot
      <4>3. g[k] = Capacity - 1 <=> k = 1
        BY <1>2, <4>1
      <4>4. ASSUME k # 1 PROVE g[k - 1] = g[k] + 1
        <5>1. k - 1 \in 1 .. Capacity
          BY <1>2, <4>4
        <5>2. g[k - 1] = Capacity - (k - 1)
          BY <2>1, <5>1
        <5>3. QED
          BY <1>2, <4>1, <5>1, <5>2
      <4>5. QED
        BY <4>2, <4>3, <4>4
    <3>3. QED
      BY <1>2, <3>1, <3>2 DEF FreeList
  <2>6. QED
    BY <1>2, <2>1, <2>2, <2>3, <2>4, <2>5 DEF Freed
<1>17. Threaded(s, l)
  BY <1>1, <1>4, <1>12, <1>13, <1>14, <1>15, <1>16 DEF Threaded
<1>18. Numbered(l, 0)
  BY <1>1 DEF Numbered
<1>19. QED
  BY <1>1, <1>17, <1>18 DEF ListInv

\* The inductive invariant of the storage.
LEMMA ListAlways == ListSpec => [](TypeOK /\ ListInv)
<1>1. ListInit => TypeOK /\ ListInv
  BY TypeInit, ListStart DEF ListInit
<1>2. TypeOK /\ ListInv /\ [ListNext]_listVars => TypeOK' /\ ListInv'
  BY ListStepIsStep, TypeStep, ListStep
<1>3. QED
  BY <1>1, <1>2, PTL DEF ListSpec

-------------------------------------------------------------------------------
(* Price and time                                                              *)

\* Prices and the ticks the bitmaps find are compared alike.
LEMMA CrossesTicks ==
  ASSUME NEW side \in Sides, NEW p \in Prices, NEW q \in Prices
  PROVE  /\ Crosses(side, p, q) <=> Inside(side, p, TickOf(q))
         /\ Crosses(side, p, q)
              <=> IF side = "buy" THEN TickOf(q) <= TickOf(p) ELSE TickOf(p) <= TickOf(q)
<1>1. /\ q <= p <=> TickOf(q) <= TickOf(p)
      /\ p <= q <=> TickOf(p) <= TickOf(q)
  BY TicksOrdered
<1>2. TickOf(p) \in Nat /\ TickOf(q) \in Nat /\ p \in Int /\ q \in Int
  BY TickScale
<1>3. /\ TickOf(q) >= 0 /\ (q >= p <=> p <= q)
      /\ TickOf(q) >= TickOf(p) <=> TickOf(p) <= TickOf(q)
  BY <1>2
<1>4. QED
  BY <1>1, <1>3 DEF Crosses, Inside

\* An order of an array is on a level of it that is not empty.
LEMMA OnArray ==
  ASSUME TypeOK, NEW a \in Arrays, NEW j \in DOMAIN live,
         live[j].side = a[1], live[j].pending = a[2]
  PROVE  /\ live[j].level \in Prices /\ TickOf(live[j].level) \in NonEmpty(live, a)
         /\ j \in Level(live, a, TickOf(live[j].level))
<1>1. live[j].level \in Prices
  BY DEF TypeOK, LiveOK, Nodes
<1>2. QED
  BY <1>1, TickRange DEF NonEmpty, Level

\* The oldest order on the best level of an array is served before the others.
LEMMA OldestOfBest ==
  ASSUME TypeOK, ListInv, NEW side \in Sides, NEW a \in Arrays, NEW t,
         IsBest(side, t, NonEmpty(live, a)), NEW i \in Level(live, a, t),
         \A j \in Level(live, a, t) : live[i].seq <= live[j].seq,
         NEW j \in DOMAIN live, j # i, live[j].side = a[1], live[j].pending = a[2]
  PROVE  Precedes(side, i, j)
<1>1. i \in DOMAIN live /\ live[i].side = a[1] /\ live[i].pending = a[2] /\ TickOf(live[i].level) = t
  BY DEF Level
<1>2. Arrived(live)
  BY BookArrived
<1>3. /\ live[i].level \in Prices /\ live[j].level \in Prices
      /\ TickOf(live[j].level) \in NonEmpty(live, a)
      /\ j \in Level(live, a, TickOf(live[j].level))
  BY <1>1, OnArray
<1>4. live[i].seq \in Nat /\ live[j].seq \in Nat /\ live[i].seq # live[j].seq
  BY <1>1, <1>2, Arrivals
<1>5. CASE live[i].level = live[j].level
  BY <1>1, <1>3, <1>4, <1>5 DEF Precedes
<1>6. CASE live[i].level # live[j].level
  <2>1. IF side = "buy" THEN t <= TickOf(live[j].level) ELSE TickOf(live[j].level) <= t
    BY <1>3 DEF IsBest
  <2>2. Crosses(side, live[j].level, live[i].level)
    BY <1>1, <1>3, <2>1, CrossesTicks
  <2>3. QED
    BY <1>6, <2>2 DEF Precedes
<1>7. QED
  BY <1>5, <1>6

\* The slot the storage matches next is the maker the book demands.
LEMMA FrontierHasPriority ==
  ASSUME TypeOK, ListInv, phase = "match"
  PROVE  IF Frontier(store, cur.side, cur.px) = NilHandle
         THEN Reachable(cur.side, cur.px) = {}
         ELSE IsMaker(store.nodes[Frontier(store, cur.side, cur.px)].id)
<1> DEFINE side == cur.side
           limit == cur.px
           a == <<Opposite(side), FALSE>>
           t == BestTick(store, side)
           h == Frontier(store, side, limit)
<1>1. side \in Sides /\ limit \in Prices
  BY DEF TypeOK, CallOK, Tasks
<1>2. /\ a \in Arrays /\ a[1] = Opposite(side) /\ a[2] = FALSE
      /\ IF NonEmpty(live, a) = {} THEN t = -1 ELSE IsBest(side, t, NonEmpty(live, a))
      /\ h = NilHandle => \A u \in NonEmpty(live, a) : ~Inside(side, limit, u)
      /\ h # NilHandle => /\ t \in NonEmpty(live, a) /\ Inside(side, limit, t)
                          /\ h = store.levels[a][t].head
  <2>1. a[1] = Opposite(side) /\ a[2] = FALSE
    OBVIOUS
  <2>2. QED
    BY <1>1, <2>1, FrontierIs
<1> HIDE DEF a, t, h
<1>3. ASSUME NEW j PROVE j \in Reachable(side, limit)
        <=> /\ j \in DOMAIN live /\ live[j].side = a[1] /\ live[j].pending = a[2]
            /\ Crosses(side, limit, live[j].level)
  <2>1. j \in DOMAIN live => live[j].pending \in BOOLEAN
    BY DEF TypeOK, LiveOK, Nodes
  <2>2. QED
    BY <1>2, <2>1 DEF Reachable, Resting
<1>4. CASE h = NilHandle
  <2>1. ASSUME NEW j \in Reachable(side, limit) PROVE FALSE
    <3>1. /\ j \in DOMAIN live /\ live[j].side = a[1] /\ live[j].pending = a[2]
          /\ Crosses(side, limit, live[j].level)
      BY <1>3, <2>1
    <3>2. live[j].level \in Prices /\ TickOf(live[j].level) \in NonEmpty(live, a)
      BY <1>2, <3>1, OnArray
    <3>3. Inside(side, limit, TickOf(live[j].level))
      BY <1>1, <3>1, <3>2, CrossesTicks
    <3>4. QED
      BY <1>2, <1>4, <3>2, <3>3
  <2>2. QED
    BY <1>4, <2>1 DEF h
<1>5. CASE h # NilHandle
  <2>1. t \in NonEmpty(live, a) /\ Inside(side, limit, t) /\ h = store.levels[a][t].head
    BY <1>2, <1>5
  <2>2. PICK i \in Level(live, a, t) :
          /\ store.levels[a][t].head = store.index[i]
          /\ \A j \in Level(live, a, t) : live[i].seq <= live[j].seq
    BY <1>2, <2>1, HeadIs
  <2>3. i \in DOMAIN live /\ live[i].side = a[1] /\ live[i].pending = a[2] /\ TickOf(live[i].level) = t
    BY DEF Level
  <2>4. SlotOf(store, i).id = i
    BY <2>3, RemovedByIdIs
  <2>5. store.nodes[h].id = i
    BY <2>1, <2>2, <2>4 DEF SlotOf
  <2>6. live[i].level \in Prices
    BY <1>2, <2>3, OnArray
  <2>7. Crosses(side, limit, live[i].level)
    BY <1>1, <2>1, <2>3, <2>6, CrossesTicks
  <2>8. i \in Reachable(side, limit)
    BY <1>3, <2>3, <2>7
  <2>9. ASSUME NEW j \in Reachable(side, limit) \ {i} PROVE Precedes(side, i, j)
    <3>1. j \in DOMAIN live /\ j # i /\ live[j].side = a[1] /\ live[j].pending = a[2]
      BY <1>3, <2>9
    <3>2. IsBest(side, t, NonEmpty(live, a))
      BY <1>2, <2>1
    <3>3. QED
      BY <1>1, <1>2, <2>2, <3>1, <3>2, OldestOfBest
  <2>10. IsMaker(i)
    BY <2>8, <2>9 DEF IsMaker
  <2>11. QED
    BY <1>5, <2>5, <2>10 DEF h
<1>6. QED
  BY <1>4, <1>5

\* A trigger fires on a tick when it does on the price.
LEMMA FiresIsTriggered ==
  ASSUME TypeOK, NEW side \in Sides, NEW p \in Prices, hasLast
  PROVE  Fires(side, TickOf(p)) <=> Triggered(side, p, lastPx)
<1>1. lastPx \in Prices
  BY DEF TypeOK, MarketOK
<1>2. /\ p <= lastPx <=> TickOf(p) <= TickOf(lastPx)
      /\ lastPx <= p <=> TickOf(lastPx) <= TickOf(p)
  BY <1>1, TicksOrdered
<1>3. p \in Int /\ lastPx \in Int
  BY <1>1, TickScale
<1>4. QED
  BY <1>2, <1>3 DEF Fires, Triggered

LEMMA ActivatedIs ==
  ASSUME TypeOK, NEW side \in Sides, NEW j
  PROVE  j \in Activated(side) <=>
           /\ j \in DOMAIN live /\ live[j].side = side /\ live[j].pending = TRUE
           /\ Fires(side, TickOf(live[j].level))
<1>1. j \in DOMAIN live => live[j].pending \in BOOLEAN /\ live[j].level \in Prices
  BY DEF TypeOK, LiveOK, Nodes
<1>2. ASSUME j \in DOMAIN live, hasLast
      PROVE  Fires(side, TickOf(live[j].level)) <=> Triggered(side, live[j].level, lastPx)
  BY <1>1, <1>2, FiresIsTriggered
<1>3. Fires(side, TickOf(live[j].level)) => hasLast
  BY DEF Fires
<1>4. j \in Activated(side) <=>
        /\ j \in DOMAIN live /\ live[j].side = side /\ live[j].pending
        /\ hasLast /\ Triggered(side, live[j].level, lastPx)
  BY DEF Activated, Parked
<1>5. QED
  BY ONLY <1>1, <1>2, <1>3, <1>4

\* The slot the storage releases next is the stop the book demands.
LEMMA TriggeredHasPriority ==
  ASSUME TypeOK, ListInv
  PROVE  IF TriggeredSlot(store) = NilHandle THEN NoneTriggered
         ELSE IsTriggered(store.nodes[TriggeredSlot(store)].id)
<1> DEFINE h == TriggeredSlot(store)
           a(side) == <<side, TRUE>>
<1>1. \A side \in Sides : a(side) \in Arrays /\ a(side)[1] = side /\ a(side)[2] = TRUE
  BY DEF Arrays
<1>2. IF h = NilHandle
      THEN \A side \in Sides : \A t \in NonEmpty(live, a(side)) : ~Fires(side, t)
      ELSE \E side \in Sides : \E t \in NonEmpty(live, a(side)) :
             /\ Fires(side, t) /\ h = store.levels[a(side)][t].head
             /\ IsBest(side, t, NonEmpty(live, a(side)))
             /\ side = "sell" => \A u \in NonEmpty(live, a("buy")) : ~Fires("buy", u)
  BY TriggeredSlotIs
<1> HIDE DEF h, a
<1>3. ASSUME NEW side \in Sides, NEW j \in Activated(side)
      PROVE  \E u \in NonEmpty(live, a(side)) : Fires(side, u)
  <2>1. /\ j \in DOMAIN live /\ live[j].side = side /\ live[j].pending = TRUE
        /\ Fires(side, TickOf(live[j].level))
    BY <1>3, ActivatedIs
  <2>2. TickOf(live[j].level) \in NonEmpty(live, a(side))
    BY <1>1, <2>1, OnArray
  <2>3. QED
    BY <2>1, <2>2
<1>4. "buy" \in Sides /\ "sell" \in Sides /\ \A side \in Sides : side = "buy" \/ side = "sell"
  BY DEF Sides
<1>5. CASE h = NilHandle
  <2>1. Activated("buy") = {} /\ Activated("sell") = {}
    BY <1>2, <1>3, <1>4, <1>5
  <2>2. QED
    BY <1>5, <2>1 DEF NoneTriggered, h
<1>6. CASE h # NilHandle
  <2>1. PICK side \in Sides : \E t \in NonEmpty(live, a(side)) :
             /\ Fires(side, t) /\ h = store.levels[a(side)][t].head
             /\ IsBest(side, t, NonEmpty(live, a(side)))
             /\ side = "sell" => \A u \in NonEmpty(live, a("buy")) : ~Fires("buy", u)
    BY <1>2, <1>6
  <2>2. PICK t \in NonEmpty(live, a(side)) :
             /\ Fires(side, t) /\ h = store.levels[a(side)][t].head
             /\ IsBest(side, t, NonEmpty(live, a(side)))
             /\ side = "sell" => \A u \in NonEmpty(live, a("buy")) : ~Fires("buy", u)
    BY <2>1
  <2>3. PICK i \in Level(live, a(side), t) :
          /\ store.levels[a(side)][t].head = store.index[i]
          /\ \A j \in Level(live, a(side), t) : live[i].seq <= live[j].seq
    <3>1. a(side) \in Arrays
      BY <1>1
    <3>2. QED
      BY <3>1, HeadIs
  <2>4. i \in DOMAIN live /\ live[i].side = side /\ live[i].pending = TRUE /\ TickOf(live[i].level) = t
    BY <1>1 DEF Level
  <2>5. SlotOf(store, i).id = i
    BY <2>4, RemovedByIdIs
  <2>6. store.nodes[h].id = i
    BY <2>2, <2>3, <2>5 DEF SlotOf
  <2>7. i \in Activated(side)
    BY <2>2, <2>4, ActivatedIs
  <2>8. Activated("buy") # {} => side = "buy"
    <3>1. ASSUME NEW j \in Activated("buy") PROVE side = "buy"
      BY <1>3, <1>4, <2>2, <3>1
    <3>2. QED
      BY <3>1
  <2>9. ASSUME NEW j \in Activated(side) \ {i} PROVE Precedes(side, i, j)
    <3>1. j \in DOMAIN live /\ j # i /\ live[j].side = a(side)[1] /\ live[j].pending = a(side)[2]
      BY <1>1, <2>9, ActivatedIs
    <3>2. a(side) \in Arrays /\ IsBest(side, t, NonEmpty(live, a(side)))
      BY <1>1, <2>2
    <3>3. QED
      BY <2>3, <3>1, <3>2, OldestOfBest
  <2>10. IsTriggered(i)
    BY <1>4, <2>4, <2>7, <2>8, <2>9 DEF IsTriggered
  <2>11. QED
    BY <1>6, <2>6, <2>10 DEF h
<1>7. QED
  BY <1>5, <1>6

\* Whatever order the book holds, the storage hands out the one that price-time
\* priority demands: the first order a taker meets, the first stop released.
THEOREM HeadsAlwaysHavePriority == ListSpec => []HeadsHavePriority
<1>1. TypeOK /\ ListInv => HeadsHavePriority
  BY FrontierHasPriority, TriggeredHasPriority DEF HeadsHavePriority
<1>2. QED
  BY <1>1, ListAlways, PTL

-------------------------------------------------------------------------------
(* The queue of a level                                                        *)

LEMMA HandlesCounted ==
  /\ IsFiniteSet(Handles) /\ Cardinality(Handles) = Capacity /\ Capacity \in Nat \ {0}
  /\ NilHandle \notin Handles
<1>1. Capacity \in Nat \ {0}
  BY BookAssumption
<1>2. 0 \in Int /\ Capacity - 1 \in Int
  BY <1>1
<1>3. /\ IsFiniteSet(0 .. Capacity - 1)
      /\ Cardinality(0 .. Capacity - 1) = IF 0 > Capacity - 1 THEN 0 ELSE Capacity - 1 - 0 + 1
  BY <1>2, FS_Interval
<1>4. Cardinality(0 .. Capacity - 1) = Capacity
  BY <1>1, <1>3
<1>5. QED
  BY <1>1, <1>3, <1>4, NoHandleIsNil DEF Handles

\* The slots of some orders are as many.
SlotsOf(s, S) == {s.index[i] : i \in S}

LEMMA SlotsCounted ==
  ASSUME NEW s, NEW l, Arrived(l), s \in Stores(DOMAIN l), Indexed(s, l), NEW S \in SUBSET DOMAIN l
  PROVE  /\ IsFiniteSet(S) /\ IsFiniteSet(SlotsOf(s, S)) /\ SlotsOf(s, S) \subseteq Handles
         /\ Cardinality(SlotsOf(s, S)) = Cardinality(S)
<1>1. s.index \in [DOMAIN l -> Handles]
  BY StoreFields DEF Indexes
<1>2. IsFiniteSet(S)
  BY FS_Subset DEF Arrived, Book
<1>3. SlotsOf(s, S) \subseteq Handles
  BY <1>1 DEF SlotsOf
<1> DEFINE f == [i \in S |-> s.index[i]]
           T == SlotsOf(s, S)
<1>4. f \in [S -> T] /\ (\A i, j \in S : f[i] = f[j] => i = j) /\ \A h \in T : \E i \in S : f[i] = h
  BY <1>1 DEF Indexed, SlotsOf
<1> HIDE DEF f, T
<1>5. f \in Bijection(S, T)
  BY <1>4 DEF Bijection, Injection, Surjection, IsInjective
<1>6. ExistsBijection(S, T)
  BY <1>5 DEF ExistsBijection
<1>7. IsFiniteSet(T) /\ Cardinality(T) = Cardinality(S)
  BY <1>2, <1>6, FS_Bijection
<1>8. QED
  BY <1>2, <1>3, <1>7 DEF T

Succ(s) == [h \in Handles |-> s.nodes[h].next]

\* Whatever the links thread, Following reads off.
LEMMA FollowingThread ==
  ASSUME NEW s, NEW S \in SUBSET Handles, NEW key, NEW x, Threads(Succ(s), S, key, x)
  PROVE  IsThread(Following(s, x), Succ(s), S, key, x)
<1>1. /\ IsFiniteSet(Handles) /\ Cardinality(Handles) = Capacity /\ Capacity \in Nat
  BY HandlesCounted
<1>2. IsFiniteSet(S) /\ Cardinality(S) <= Capacity
  BY <1>1, FS_Subset
<1>3. Cardinality(S) \in Nat
  BY <1>2, FS_CardinalityType
<1>4. Capacity + 1 \in Nat /\ Cardinality(S) < Capacity + 1
  BY <1>1, <1>2, <1>3
<1>5. IsThread(Iterates(Succ(s), x, Capacity + 1), Succ(s), S, key, x)
  BY <1>2, <1>4, IteratesThread
<1>6. Following(s, x) = Iterates(Succ(s), x, Capacity + 1)
  BY DEF Following, Succ
<1>7. QED
  BY <1>5, <1>6

\* The arrival numbers in the slots.
Stamps(s) == [h \in Handles |-> s.nodes[h].seq]

LEMMA SlotFacts ==
  ASSUME ListInv, TypeOK, NEW i \in DOMAIN live
  PROVE  /\ store.index[i] \in Handles /\ store.nodes[store.index[i]].id = i
         /\ Stamps(store)[store.index[i]] = live[i].seq /\ live[i].seq \in Nat
         /\ Succ(store)[store.index[i]] = SlotOf(store, i).next
         /\ Carries(SlotOf(store, i), i, live[i])
<1>1. Arrived(live) /\ store \in Stores(DOMAIN live) /\ Indexed(store, live)
  BY BookArrived DEF ListInv, Threaded
<1>2. store.index[i] \in Handles /\ SlotOf(store, i) = store.nodes[store.index[i]]
      /\ SlotOf(store, i).id = i
  BY <1>1, SlotIs
<1>3. Carries(SlotOf(store, i), i, live[i])
  BY <1>1 DEF Indexed
<1>4. live[i].seq \in Nat
  BY <1>1, Arrivals
<1>5. QED
  BY <1>2, <1>3, <1>4 DEF Carries, Stamps, Succ

LEMMA LevelThreads ==
  ASSUME ListInv, TypeOK, NEW a \in Arrays, NEW t \in Ticks
  PROVE  Threads(Succ(store), SlotsOf(store, Level(live, a, t)), Stamps(store),
                 store.levels[a][t].head)
<1> DEFINE L == Level(live, a, t)
           S == SlotsOf(store, L)
           key == Stamps(store)
           succ == Succ(store)
           x == store.levels[a][t].head
<1>1. Arrived(live) /\ store \in Stores(DOMAIN live) /\ Indexed(store, live) /\ Linked(store, live)
  BY BookArrived DEF ListInv, Threaded
<1>2. L \in SUBSET DOMAIN live
  BY DEF Level
<1>3. /\ NilHandle \notin Handles /\ DOMAIN succ = Handles /\ S \subseteq Handles
  BY <1>1, <1>2, SlotsCounted, HandlesCounted DEF Succ
<1>4. \A y \in S : \E i \in L : y = store.index[i]
  BY DEF SlotsOf
<1>5. \A i \in L : store.index[i] \in S
  BY DEF SlotsOf
<1>6. \A i \in L : /\ key[store.index[i]] = live[i].seq /\ live[i].seq \in Nat
                   /\ succ[store.index[i]] = SlotOf(store, i).next
  BY <1>2, SlotFacts
<1>7. IF x = NilHandle THEN L = {}
      ELSE \E i \in L : x = store.index[i] /\ \A j \in L : live[i].seq <= live[j].seq
  BY DEF ListInv, Threaded, Levelled, EndsAt
<1> HIDE DEF S, key, succ, x
<1>8. ASSUME NEW y \in S, NEW z \in S, key[y] = key[z] PROVE y = z
  <2>1. PICK i \in L : y = store.index[i]
    BY <1>4
  <2>2. PICK j \in L : z = store.index[j]
    BY <1>4
  <2>3. live[i].seq = live[j].seq
    BY <1>6, <1>8, <2>1, <2>2
  <2>4. i = j
    BY <1>1, <1>2, <2>3 DEF Arrived
  <2>5. QED
    BY <2>1, <2>2, <2>4
<1>9. S = {} => x \notin DOMAIN succ
  BY <1>3, <1>5, <1>7
<1>10. ASSUME S # {} PROVE x \in S /\ \A z \in S : key[x] <= key[z]
  <2>1. L # {}
    BY <1>4, <1>10
  <2>2. PICK i \in L : x = store.index[i] /\ \A j \in L : live[i].seq <= live[j].seq
    BY <1>7, <2>1
  <2>3. QED
    BY <1>4, <1>5, <1>6, <2>2
<1>11. ASSUME NEW y \in S
       PROVE  \/ /\ succ[y] \in S /\ key[y] < key[succ[y]]
                 /\ \A z \in S : key[y] < key[z] => key[succ[y]] <= key[z]
              \/ /\ succ[y] \notin DOMAIN succ
                 /\ \A z \in S : key[z] <= key[y]
  <2>1. PICK i \in L : y = store.index[i]
    BY <1>4
  <2>2. i \in DOMAIN live /\ succ[y] = SlotOf(store, i).next /\ key[y] = live[i].seq
    BY <1>2, <1>6, <2>1
  <2>3. \A j \in L : Before(live, i, j) <=> live[i].seq < live[j].seq
    BY <2>1 DEF Level, Before
  <2>4. CASE succ[y] = NilHandle
    <3>1. ASSUME NEW z \in S PROVE key[z] <= key[y]
      <4>1. PICK j \in L : z = store.index[j]
        BY <1>4
      <4>2. j \in DOMAIN live /\ key[z] = live[j].seq
        BY <1>2, <1>6, <4>1
      <4>3. ~Before(live, i, j)
        BY <1>1, <2>2, <2>4, <4>2, NextIs
      <4>4. live[i].seq \in Nat /\ live[j].seq \in Nat /\ ~(live[i].seq < live[j].seq)
        BY <1>6, <2>1, <2>3, <4>1, <4>3
      <4>5. QED
        BY <2>2, <4>2, <4>4
    <3>2. QED
      BY <1>3, <2>4, <3>1
  <2>5. CASE succ[y] # NilHandle
    <3>1. PICK k \in DOMAIN live : RightBefore(live, i, k) /\ succ[y] = store.index[k]
      BY <1>1, <2>2, <2>5, NextIs
    <3>2. k \in L
      BY <2>1, <3>1 DEF RightBefore, Before, Level
    <3>3. succ[y] \in S /\ key[succ[y]] = live[k].seq
      BY <1>5, <1>6, <3>1, <3>2
    <3>4. live[i].seq < live[k].seq
      BY <3>1 DEF RightBefore, Before
    <3>5. ASSUME NEW z \in S, key[y] < key[z] PROVE key[succ[y]] <= key[z]
      <4>1. PICK j \in L : z = store.index[j]
        BY <1>4
      <4>2. j \in DOMAIN live /\ key[z] = live[j].seq
        BY <1>2, <1>6, <4>1
      <4>3. Before(live, i, j)
        BY <2>2, <2>3, <3>5, <4>1, <4>2
      <4>4. ~Before(live, j, k)
        BY <3>1, <4>2, <4>3 DEF RightBefore
      <4>5. ~(live[j].seq < live[k].seq)
        BY <3>2, <4>1, <4>4 DEF Level, Before
      <4>6. live[j].seq \in Nat /\ live[k].seq \in Nat
        BY <1>6, <3>2, <4>1
      <4>7. QED
        BY <3>3, <4>2, <4>5, <4>6
    <3>6. QED
      BY <2>2, <3>3, <3>4, <3>5
  <2>6. QED
    BY <2>4, <2>5
<1>12. \A y \in S : key[y] \in Int
  BY <1>4, <1>6
<1>13. Threads(succ, S, key, x)
  BY <1>3, <1>8, <1>9, <1>10, <1>11, <1>12 DEF Threads
<1>14. QED
  BY <1>13 DEF S, key, succ, x

\* The slots c are the orders L in turn: who fills place k, and what is around it.
IsQueue(c, L) ==
  /\ c \in Seq(Handles) /\ Len(c) \in Nat /\ DOMAIN c = 1 .. Len(c)
  /\ Len(c) = Cardinality(L) /\ Range(c) = SlotsOf(store, L)
  /\ c = <<>> <=> Len(c) = 0
  /\ \A k \in DOMAIN c : c[k] \in Handles /\ \E i \in L : c[k] = store.index[i]
  /\ \A i \in L : \E k \in DOMAIN c : c[k] = store.index[i]

InTurn(c, L) ==
  \A j, k \in DOMAIN c : \A x, y \in L :
    c[j] = store.index[x] /\ c[k] = store.index[y] /\ j < k => live[x].seq < live[y].seq

InLine(c) ==
  /\ \A k \in DOMAIN c : k + 1 \in DOMAIN c => c[k + 1] = store.nodes[c[k]].next
  /\ c # <<>> => store.nodes[c[Len(c)]].next \notin Handles

LEMMA ChainIs ==
  ASSUME ListInv, TypeOK, NEW a \in Arrays, NEW t \in Ticks
  PROVE  /\ IsQueue(Chain(store, a, t), Level(live, a, t))
         /\ InTurn(Chain(store, a, t), Level(live, a, t))
         /\ InLine(Chain(store, a, t))
<1> DEFINE L == Level(live, a, t)
           S == SlotsOf(store, L)
           key == Stamps(store)
           succ == Succ(store)
           x == store.levels[a][t].head
           c == Chain(store, a, t)
<1>1. Arrived(live) /\ store \in Stores(DOMAIN live) /\ Indexed(store, live)
  BY BookArrived DEF ListInv, Threaded
<1>2. L \in SUBSET DOMAIN live
  BY DEF Level
<1>3. /\ S \subseteq Handles /\ Cardinality(S) = Cardinality(L)
  BY <1>1, <1>2, SlotsCounted
<1>4. Threads(succ, S, key, x)
  BY LevelThreads
<1>5. c = Following(store, x)
  BY DEF Chain
<1>6. DOMAIN succ = Handles /\ \A h \in Handles : succ[h] = store.nodes[h].next
  BY DEF Succ
<1>7. \A i \in L : store.index[i] \in Handles /\ key[store.index[i]] = live[i].seq
  BY <1>2, SlotFacts
<1>8. \A y \in S : \E i \in L : y = store.index[i]
  BY DEF SlotsOf
<1>9. \A i \in L : store.index[i] \in S
  BY DEF SlotsOf
<1> HIDE DEF L, S, key, succ, x, c
<1>10. IsThread(c, succ, S, key, x)
  BY <1>3, <1>4, <1>5, FollowingThread DEF succ
<1>11. /\ c \in Seq(S) /\ Range(c) = S /\ Len(c) = Cardinality(S)
       /\ \A m \in 1 .. Len(c) : m + 1 <= Len(c) => c[m + 1] = succ[c[m]]
       /\ c # <<>> => succ[c[Len(c)]] \notin DOMAIN succ
       /\ \A j, k \in 1 .. Len(c) : j < k => key[c[j]] < key[c[k]]
  BY <1>10 DEF IsThread
<1>12. /\ Len(c) \in Nat /\ DOMAIN c = 1 .. Len(c) /\ (c = <<>> <=> Len(c) = 0)
       /\ c \in Seq(Handles) /\ \A k \in DOMAIN c : c[k] \in S
  BY <1>3, <1>11
<1>13. \A h \in S : \E k \in DOMAIN c : c[k] = h
  BY <1>11 DEF Range
<1>14. IsQueue(c, L)
  BY <1>3, <1>8, <1>9, <1>11, <1>12, <1>13 DEF IsQueue, S
<1>15. InTurn(c, L)
  BY <1>7, <1>11, <1>12 DEF InTurn
<1>16. InLine(c)
  <2>1. ASSUME NEW k \in DOMAIN c, k + 1 \in DOMAIN c PROVE c[k + 1] = store.nodes[c[k]].next
    <3>1. k \in 1 .. Len(c) /\ k + 1 <= Len(c)
      BY <1>12, <2>1
    <3>2. c[k + 1] = succ[c[k]] /\ c[k] \in Handles
      BY <1>3, <1>11, <1>12, <3>1
    <3>3. QED
      BY <1>6, <3>2
  <2>2. ASSUME c # <<>> PROVE store.nodes[c[Len(c)]].next \notin Handles
    <3>1. Len(c) \in DOMAIN c
      BY <1>12, <2>2
    <3>2. c[Len(c)] \in Handles /\ succ[c[Len(c)]] \notin Handles
      BY <1>3, <1>6, <1>11, <1>12, <2>2, <3>1
    <3>3. QED
      BY <1>6, <3>2
  <2>3. QED
    BY <2>1, <2>2 DEF InLine
<1>17. QED
  BY <1>14, <1>15, <1>16 DEF L, c

\* The queue of a level, as QueuesHoldTheBook states it.
LEMMA QueueHolds ==
  ASSUME ListInv, TypeOK, NEW a \in Arrays, NEW t \in Ticks, NEW c, c = Chain(store, a, t)
  PROVE  /\ {store.nodes[c[k]].id : k \in DOMAIN c} = Level(live, a, t)
         /\ \A k \in DOMAIN c : \A j \in 1 .. k - 1 :
              live[store.nodes[c[j]].id].seq < live[store.nodes[c[k]].id].seq
         /\ store.levels[a][t].tail = IF c = <<>> THEN NilHandle ELSE c[Len(c)]
         /\ \A k \in DOMAIN c :
              /\ store.nodes[c[k]].prev = IF k = 1 THEN NilHandle ELSE c[k - 1]
              /\ Carries(store.nodes[c[k]], store.nodes[c[k]].id, live[store.nodes[c[k]].id])
              /\ store.nodes[c[k]].tick = t
<1> DEFINE L == Level(live, a, t)
           id(k) == store.nodes[c[k]].id
<1>1. Arrived(live) /\ store \in Stores(DOMAIN live) /\ Indexed(store, live) /\ Linked(store, live)
  BY BookArrived DEF ListInv, Threaded
<1>2. IsQueue(c, L) /\ InTurn(c, L) /\ InLine(c)
  BY ChainIs
<1>3. \A i \in L : i \in DOMAIN live /\ TickOf(live[i].level) = t
  BY DEF Level
<1>4. \A i, j \in L : Before(live, i, j) <=> live[i].seq < live[j].seq
  BY DEF Level, Before
<1>5. EndsAt(store, live, store.levels[a][t], L)
  BY DEF ListInv, Threaded, Levelled
<1>6. \A i, j \in DOMAIN live : RightBefore(live, i, j) /\ j \in L => i \in L
  BY DEF RightBefore, Before, Level
<1> HIDE DEF L
<1>7. ASSUME NEW k \in DOMAIN c
      PROVE  id(k) \in L /\ c[k] = store.index[id(k)]
  <2>1. PICK i \in L : c[k] = store.index[i]
    BY <1>2 DEF IsQueue
  <2>2. store.nodes[store.index[i]].id = i
    BY <1>3, SlotFacts
  <2>3. QED
    BY <2>1, <2>2
<1>8. \A i \in L : \E k \in DOMAIN c : id(k) = i
  <2>1. ASSUME NEW i \in L PROVE \E k \in DOMAIN c : id(k) = i
    <3>1. PICK k \in DOMAIN c : c[k] = store.index[i]
      BY <1>2 DEF IsQueue
    <3>2. store.nodes[store.index[i]].id = i
      BY <1>3, SlotFacts
    <3>3. QED
      BY <3>1, <3>2
  <2>2. QED
    BY <2>1
<1>9. Len(c) \in Nat /\ DOMAIN c = 1 .. Len(c) /\ (c = <<>> <=> Len(c) = 0)
  BY <1>2 DEF IsQueue
<1> HIDE DEF id
<1>10. ASSUME NEW j \in DOMAIN c, NEW k \in DOMAIN c, j < k
       PROVE  live[id(j)].seq < live[id(k)].seq
  BY <1>2, <1>7, <1>10 DEF InTurn
<1>11. {id(k) : k \in DOMAIN c} = L
  BY <1>7, <1>8
<1>12. \A k \in DOMAIN c : id(k) \in DOMAIN live /\ live[id(k)].seq \in Nat
  BY <1>1, <1>3, <1>7, Arrivals
<1>13. \A k \in DOMAIN c : Carries(store.nodes[c[k]], id(k), live[id(k)]) /\ store.nodes[c[k]].tick = t
  <2>1. ASSUME NEW k \in DOMAIN c
        PROVE  Carries(store.nodes[c[k]], id(k), live[id(k)]) /\ store.nodes[c[k]].tick = t
    <3>1. Carries(SlotOf(store, id(k)), id(k), live[id(k)])
      BY <1>12, SlotFacts
    <3>2. SlotOf(store, id(k)) = store.nodes[c[k]]
      BY <1>7 DEF SlotOf
    <3>3. TickOf(live[id(k)].level) = t
      BY <1>3, <1>7
    <3>4. QED
      BY <3>1, <3>2, <3>3 DEF Carries
  <2>2. QED
    BY <2>1
<1>14. store.levels[a][t].tail = IF c = <<>> THEN NilHandle ELSE c[Len(c)]
  <2>1. CASE c = <<>>
    <3>1. L = {}
      BY <1>8, <1>9, <2>1
    <3>2. QED
      BY <1>5, <2>1, <3>1 DEF EndsAt
  <2>2. CASE c # <<>>
    <3> DEFINE m == Len(c)
    <3>1. m \in DOMAIN c /\ \A k \in DOMAIN c : k = m \/ k < m
      BY <1>9, <2>2
    <3> HIDE DEF m
    <3>2. L # {}
      BY <1>7, <3>1
    <3>3. PICK i \in L : /\ store.levels[a][t].tail = store.index[i]
                         /\ \A j \in L : live[j].seq <= live[i].seq
      BY <1>5, <3>2 DEF EndsAt
    <3>4. PICK k \in DOMAIN c : id(k) = i
      BY <1>8
    <3>5. live[id(m)].seq <= live[id(k)].seq
      BY <1>7, <3>1, <3>3, <3>4
    <3>6. ~(k < m)
      <4>1. k < m => live[id(k)].seq < live[id(m)].seq
        BY <1>10, <3>1
      <4>2. live[id(k)].seq \in Nat /\ live[id(m)].seq \in Nat
        BY <1>12, <3>1
      <4>3. QED
        BY <3>5, <4>1, <4>2
    <3>7. k = m
      BY <3>1, <3>6
    <3>8. store.levels[a][t].tail = c[m]
      BY <1>7, <3>3, <3>4, <3>7
    <3>9. QED
      BY <2>2, <3>8 DEF m
  <2>3. QED
    BY <2>1, <2>2
<1>15. ASSUME NEW k \in DOMAIN c
       PROVE  store.nodes[c[k]].prev = IF k = 1 THEN NilHandle ELSE c[k - 1]
  <2> DEFINE i == id(k)
  <2>1. i \in L /\ i \in DOMAIN live /\ c[k] = store.index[i]
    BY <1>7, <1>12
  <2>2. store.nodes[c[k]].prev = SlotOf(store, i).prev
    BY <2>1 DEF SlotOf
  <2> HIDE DEF i
  <2>3. CASE k = 1
    <3>1. SUFFICES ASSUME SlotOf(store, i).prev # NilHandle PROVE FALSE
      BY <2>2, <2>3
    <3>2. PICK j \in DOMAIN live : RightBefore(live, j, i)
      BY <1>1, <2>1, <3>1, PrevIs
    <3>3. j \in L
      BY <1>6, <2>1, <3>2
    <3>4. PICK m \in DOMAIN c : id(m) = j
      BY <1>8, <3>3
    <3>5. live[j].seq < live[i].seq
      BY <3>2 DEF RightBefore, Before
    <3>6. m # 1
      <4>1. live[i].seq \in Nat /\ id(k) = i
        BY <1>12 DEF i
      <4>2. QED
        BY <2>3, <3>4, <3>5, <4>1
    <3>7. k < m
      BY <1>9, <2>3, <3>6
    <3>8. live[i].seq < live[j].seq
      BY <1>10, <3>4, <3>7 DEF i
    <3>9. live[i].seq \in Nat /\ live[j].seq \in Nat
      BY <1>12, <3>4 DEF i
    <3>10. QED
      BY <3>5, <3>8, <3>9
  <2>4. CASE k # 1
    <3>1. k - 1 \in DOMAIN c /\ k - 1 + 1 = k
      BY <1>9, <2>4
    <3> DEFINE j == id(k - 1)
    <3>2. j \in L /\ j \in DOMAIN live /\ c[k - 1] = store.index[j]
      BY <1>7, <1>12, <3>1
    <3>3. c[k] = store.nodes[c[k - 1]].next
      <4>1. \A m \in DOMAIN c : m + 1 \in DOMAIN c => c[m + 1] = store.nodes[c[m]].next
        BY <1>2 DEF InLine
      <4>2. QED
        BY <3>1, <4>1
    <3> HIDE DEF j
    <3>4. SlotOf(store, j).next = store.index[i]
      BY <2>1, <3>2, <3>3 DEF SlotOf
    <3>5. RightBefore(live, j, i)
      BY <1>1, <2>1, <3>2, <3>4, NextIs
    <3>6. SlotOf(store, i).prev = store.index[j]
      BY <1>1, <2>1, <3>2, <3>5, PrevIs
    <3>7. QED
      BY <2>2, <2>4, <3>2, <3>6
  <2>5. QED
    BY <2>3, <2>4
<1>16. \A k \in DOMAIN c : \A j \in 1 .. k - 1 : live[id(j)].seq < live[id(k)].seq
  <2>1. ASSUME NEW k \in DOMAIN c, NEW j \in 1 .. k - 1 PROVE live[id(j)].seq < live[id(k)].seq
    <3>1. j \in DOMAIN c /\ j < k
      BY <1>9, <2>1
    <3>2. QED
      BY <1>10, <3>1
  <2>2. QED
    BY <2>1
<1>17. QED
  BY <1>11, <1>13, <1>14, <1>15, <1>16 DEF id, L

\* The linked queues hold exactly the live orders, in arrival order, linked both
\* ways and with the orders' data, whatever was submitted, filled and cancelled.
THEOREM QueuesAlwaysHoldTheBook == ListSpec => []QueuesHoldTheBook
<1>1. ASSUME TypeOK, ListInv PROVE QueuesHoldTheBook
  <2>1. ASSUME NEW a \in Arrays, NEW t \in 0 .. NTicks - 1
        PROVE  LET c == Chain(store, a, t)
                   n(k) == store.nodes[c[k]]
               IN  /\ {n(k).id : k \in DOMAIN c} = OnLevel(a, t)
                   /\ \A k \in DOMAIN c : \A j \in 1 .. k - 1 : live[n(j).id].seq < live[n(k).id].seq
                   /\ store.levels[a][t].tail = IF c = <<>> THEN NilHandle ELSE c[Len(c)]
                   /\ \A k \in DOMAIN c :
                        /\ n(k).prev = IF k = 1 THEN NilHandle ELSE c[k - 1]
                        /\ n(k).tick = t
                        /\ \A f \in {"px", "qty", "seq", "owner", "side", "tif", "pending"} :
                             n(k)[f] = live[n(k).id][f]
    <3> DEFINE c == Chain(store, a, t)
    <3>1. t \in Ticks
      BY DEF Ticks
    <3>2. /\ {store.nodes[c[k]].id : k \in DOMAIN c} = Level(live, a, t)
          /\ \A k \in DOMAIN c : \A j \in 1 .. k - 1 :
               live[store.nodes[c[j]].id].seq < live[store.nodes[c[k]].id].seq
          /\ store.levels[a][t].tail = IF c = <<>> THEN NilHandle ELSE c[Len(c)]
          /\ \A k \in DOMAIN c :
               /\ store.nodes[c[k]].prev = IF k = 1 THEN NilHandle ELSE c[k - 1]
               /\ Carries(store.nodes[c[k]], store.nodes[c[k]].id, live[store.nodes[c[k]].id])
               /\ store.nodes[c[k]].tick = t
      <4> DEFINE d == c
      <4>1. d = Chain(store, a, t)
        OBVIOUS
      <4> HIDE DEF d
      <4>2. QED
        BY <1>1, <3>1, <4>1, QueueHolds, SMTT(20)
    <3> HIDE DEF c
    <3>3. OnLevel(a, t) = Level(live, a, t)
      BY DEF OnLevel, Level
    <3>4. ASSUME NEW k \in DOMAIN c,
                 NEW f \in {"px", "qty", "seq", "owner", "side", "tif", "pending"}
          PROVE  store.nodes[c[k]][f] = live[store.nodes[c[k]].id][f]
      BY <3>2, <3>4 DEF Carries
    <3>5. QED
      BY <3>2, <3>3, <3>4 DEF c
  <2>2. QED
    BY <2>1 DEF QueuesHoldTheBook
<1>2. QED
  BY <1>1, ListAlways, PTL

-------------------------------------------------------------------------------
(* The free list                                                               *)

LEMMA FreeThreads ==
  ASSUME NEW s, NEW m \in Nat, NEW g \in [1 .. m -> Handles],
         \A j, k \in 1 .. m : g[j] = g[k] => j = k, FreeList(s, g, m)
  PROVE  \E key : Threads(Succ(s), {g[k] : k \in 1 .. m}, key, s.free)
<1> DEFINE S == {g[k] : k \in 1 .. m}
           succ == Succ(s)
           place(h) == CHOOSE k \in 1 .. m : g[k] = h
           key == [h \in S |-> m - place(h)]
           x == s.free
<1>1. \A k \in 1 .. m : place(g[k]) = k
  <2>1. ASSUME NEW k \in 1 .. m PROVE place(g[k]) = k
    <3>1. g[place(g[k])] = g[k] /\ place(g[k]) \in 1 .. m
      OBVIOUS
    <3>2. QED
      BY <3>1
  <2>2. QED
    BY <2>1
<1>2. \A k \in 1 .. m : g[k] \in S /\ key[g[k]] = m - k
  BY <1>1
<1>3. \A y \in S : \E k \in 1 .. m : y = g[k]
  OBVIOUS
<1>4. S \subseteq Handles
  OBVIOUS
<1>5. DOMAIN succ = Handles /\ NilHandle \notin Handles
  BY HandlesCounted DEF Succ
<1>6. \A k \in 1 .. m : succ[g[k]] = IF k = 1 THEN NilHandle ELSE g[k - 1]
  BY DEF Succ, FreeList
<1>7. x = IF m = 0 THEN NilHandle ELSE g[m]
  BY DEF FreeList
<1> HIDE DEF S, succ, key, x, place
<1>8. \A y \in S : key[y] \in Int
  BY <1>2, <1>3
<1>9. ASSUME NEW y \in S, NEW z \in S, key[y] = key[z] PROVE y = z
  <2>1. PICK j \in 1 .. m : y = g[j]
    BY <1>3
  <2>2. PICK k \in 1 .. m : z = g[k]
    BY <1>3
  <2>3. m - j = m - k
    BY <1>2, <1>9, <2>1, <2>2
  <2>4. j = k
    BY <2>3
  <2>5. QED
    BY <2>1, <2>2, <2>4
<1>10. S = {} => x \notin DOMAIN succ
  <2>1. S = {} => m = 0
    <3>1. m # 0 => m \in 1 .. m
      OBVIOUS
    <3>2. QED
      BY <1>2, <3>1
  <2>2. QED
    BY <1>5, <1>7, <2>1
<1>11. ASSUME S # {} PROVE x \in S /\ \A z \in S : key[x] <= key[z]
  <2>1. m \in 1 .. m
    BY <1>3, <1>11
  <2>2. x = g[m] /\ key[x] = m - m /\ x \in S
    BY <1>2, <1>7, <2>1
  <2>3. ASSUME NEW z \in S PROVE key[x] <= key[z]
    <3>1. PICK k \in 1 .. m : z = g[k]
      BY <1>3
    <3>2. key[z] = m - k
      BY <1>2, <3>1
    <3>3. QED
      BY <2>2, <3>2
  <2>4. QED
    BY <2>2, <2>3
<1>12. ASSUME NEW y \in S
       PROVE  \/ /\ succ[y] \in S /\ key[y] < key[succ[y]]
                 /\ \A z \in S : key[y] < key[z] => key[succ[y]] <= key[z]
              \/ /\ succ[y] \notin DOMAIN succ
                 /\ \A z \in S : key[z] <= key[y]
  <2>1. PICK k \in 1 .. m : y = g[k]
    BY <1>3
  <2>2. key[y] = m - k
    BY <1>2, <2>1
  <2>3. \A z \in S : \E j \in 1 .. m : key[z] = m - j
    <3>1. ASSUME NEW z \in S PROVE \E j \in 1 .. m : key[z] = m - j
      <4>1. PICK j \in 1 .. m : z = g[j]
        BY <1>3
      <4>2. QED
        BY <1>2, <4>1
    <3>2. QED
      BY <3>1
  <2>4. CASE k = 1
    <3>1. succ[y] \notin DOMAIN succ
      BY <1>5, <1>6, <2>1, <2>4
    <3>2. ASSUME NEW z \in S PROVE key[z] <= key[y]
      <4>1. PICK j \in 1 .. m : key[z] = m - j
        BY <2>3
      <4>2. QED
        BY <2>2, <2>4, <4>1
    <3>3. QED
      BY <3>1, <3>2
  <2>5. CASE k # 1
    <3>1. k - 1 \in 1 .. m
      BY <2>5
    <3>2. succ[y] = g[k - 1] /\ succ[y] \in S /\ key[succ[y]] = m - (k - 1)
      BY <1>2, <1>6, <2>1, <2>5, <3>1
    <3>3. ASSUME NEW z \in S, key[y] < key[z] PROVE key[succ[y]] <= key[z]
      <4>1. PICK j \in 1 .. m : key[z] = m - j
        BY <2>3
      <4>2. QED
        BY <2>2, <3>2, <3>3, <4>1
    <3>4. key[y] < key[succ[y]]
      BY <2>2, <3>2
    <3>5. QED
      BY <3>2, <3>3, <3>4
  <2>6. QED
    BY <2>4, <2>5
<1>13. Threads(succ, S, key, x)
  BY <1>4, <1>5, <1>8, <1>9, <1>10, <1>11, <1>12 DEF Threads
<1>14. QED
  BY <1>13 DEF S, succ, x

\* Every slot is either an order's or free, and no slot is free twice.
THEOREM ArenaIsAlwaysExact == ListSpec => []ArenaExact
<1>1. ASSUME TypeOK, ListInv PROVE ArenaExact
  <2> DEFINE free == Following(store, store.free)
  <2>1. /\ Arrived(live) /\ store \in Stores(DOMAIN live) /\ Freed(store, live)
        /\ store.used = Cardinality(DOMAIN live)
    BY <1>1, BookArrived DEF ListInv, Threaded
  <2>2. DOMAIN store.index = DOMAIN live
    BY <2>1, StoreFields DEF Indexes
  <2>3. \A i \in DOMAIN live : store.nodes[store.index[i]].id = i
    BY <1>1, SlotFacts
  <2>4. PICK m \in Nat : \E g \in [1 .. m -> Handles] :
          /\ \A j, k \in 1 .. m : g[j] = g[k] => j = k
          /\ {g[k] : k \in 1 .. m} = Handles \ {store.index[i] : i \in DOMAIN live}
          /\ FreeList(store, g, m)
    BY <2>1 DEF Freed
  <2>5. PICK g \in [1 .. m -> Handles] :
          /\ \A j, k \in 1 .. m : g[j] = g[k] => j = k
          /\ {g[k] : k \in 1 .. m} = Handles \ {store.index[i] : i \in DOMAIN live}
          /\ FreeList(store, g, m)
    BY <2>4
  <2> DEFINE S == {g[k] : k \in 1 .. m}
  <2>6. \E key : Threads(Succ(store), S, key, store.free)
    BY <2>5, FreeThreads
  <2>7. S \in SUBSET Handles
    OBVIOUS
  <2>8. S = Handles \ {store.index[i] : i \in DOMAIN live}
    BY <2>5
  <2> HIDE DEF S
  <2>9. PICK key : Threads(Succ(store), S, key, store.free)
    BY <2>6
  <2>10. IsThread(free, Succ(store), S, key, store.free)
    BY <2>7, <2>9, FollowingThread
  <2> HIDE DEF free
  <2>11. Range(free) = S /\ Len(free) = Cardinality(S)
    BY <2>10 DEF IsThread
  <2>12. Range(store.index) = {store.index[i] : i \in DOMAIN live}
    BY <2>2 DEF Range
  <2>13. QED
    BY <2>1, <2>2, <2>3, <2>8, <2>11, <2>12 DEF ArenaExact, free
<1>2. QED
  BY <1>1, ListAlways, PTL

-------------------------------------------------------------------------------
(* The sums over slots are the sums over orders                                *)

LEMMA QtyOfSlots ==
  ASSUME TypeOK, ListInv, NEW S \in SUBSET DOMAIN live
  PROVE  QtyTotal(store.nodes, SlotsOf(store, S)) = QtyOn(live, S)
<1> DEFINE T == SlotsOf(store, S)
           f == [i \in S |-> live[i].qty]
           g == [h \in T |-> store.nodes[h].qty]
<1>1. Arrived(live) /\ store \in Stores(DOMAIN live) /\ Indexed(store, live)
  BY BookArrived DEF ListInv, Threaded
<1>2. IsFiniteSet(S) /\ IsFiniteSet(T)
  BY <1>1, SlotsCounted
<1>3. T = Renamed(store.index, S)
  BY DEF SlotsOf, Renamed
<1>4. \A i, j \in S : store.index[i] = store.index[j] => i = j
  BY <1>1 DEF Indexed
<1>5. ASSUME NEW i \in S PROVE f[i] \in Int /\ g[store.index[i]] = f[i]
  <2>1. i \in DOMAIN live /\ store.index[i] \in T
    BY DEF SlotsOf
  <2>2. SlotOf(store, i).qty = live[i].qty
    BY <1>1, <2>1, SlotIs
  <2>3. live[i].qty \in Nat
    BY <2>1 DEF TypeOK, LiveOK, Nodes
  <2>4. QED
    BY <2>1, <2>2, <2>3 DEF SlotOf
<1>6. QtyTotal(store.nodes, T) = Total(g, T)
  BY <1>2, QtyTotalIsTotal
<1>7. QtyOn(live, S) = Total(f, S)
  BY DEF QtyOn
<1> HIDE DEF T, f, g
<1>8. Total(g, T) = Total(f, S)
  <2>1. \A i \in S : f[i] \in Int /\ g[store.index[i]] = f[i]
    BY <1>5
  <2>2. QED
    BY <1>2, <1>3, <1>4, <2>1, TotalRenamed
<1>9. QED
  BY <1>6, <1>7, <1>8 DEF T

\* The aggregates that depth readers see are the sums of the queues, and the
\* bitmaps mark the levels that hold something, summaries included.
THEOREM AggregatesAreAlwaysExact == ListSpec => []AggregatesExact
<1>1. ASSUME TypeOK, ListInv, NEW a \in Arrays PROVE WellSummarised(store.maps[a], NTicks)
  <2>1. NTicks \in Nat
    BY TickRange
  <2>2. Marks(store.maps[a], NTicks, NonEmpty(live, a))
    BY <1>1 DEF ListInv, Threaded, Mapped
  <2>3. QED
    BY <2>1, <2>2, MarksSummarised
<1>2. ASSUME TypeOK, ListInv, NEW a \in Arrays, NEW t \in 0 .. NTicks - 1
      PROVE  LET c  == Chain(store, a, t)
                 lv == store.levels[a][t]
             IN  /\ lv.count = Len(c)
                 /\ lv.total = MapThenSumSet(LAMBDA h : store.nodes[h].qty, Range(c))
                 /\ IsSet(store.maps[a], t) <=> lv.count > 0
  <2> DEFINE c  == Chain(store, a, t)
             lv == store.levels[a][t]
             L == Level(live, a, t)
  <2>1. t \in Ticks
    BY DEF Ticks
  <2>2. L \in SUBSET DOMAIN live
    BY DEF Level
  <2>3. IsQueue(c, L)
    BY <1>2, <2>1, ChainIs
  <2>4. lv.count = Cardinality(L) /\ lv.total = QtyOn(live, L)
    BY <1>2, <2>1 DEF ListInv, Threaded, Levelled
  <2>5. IsSet(store.maps[a], t) <=> L # {}
    <3>1. NTicks \in Nat
      BY TickRange
    <3>2. Marks(store.maps[a], NTicks, NonEmpty(live, a))
      BY <1>2 DEF ListInv, Threaded, Mapped
    <3>3. IsSet(store.maps[a], t) <=> t \in NonEmpty(live, a)
      BY <3>1, <3>2, MarksTicks
    <3>4. QED
      BY <2>1, <3>3 DEF NonEmpty
  <2> HIDE DEF c, lv, L
  <2>6. Len(c) = Cardinality(L) /\ Range(c) = SlotsOf(store, L)
    BY <2>3 DEF IsQueue
  <2>7. lv.total = QtyTotal(store.nodes, Range(c))
    BY <1>2, <2>2, <2>4, <2>6, QtyOfSlots
  <2>8. lv.total = MapThenSumSet(LAMBDA h : store.nodes[h].qty, Range(c))
    BY <2>7 DEF QtyTotal
  <2>9. lv.count > 0 <=> L # {}
    <3>1. IsFiniteSet(L)
      BY <1>2, <2>2, BookArrived, FS_Subset DEF Arrived, Book
    <3>2. Cardinality(L) \in Nat /\ (Cardinality(L) = 0 <=> L = {})
      BY <3>1, FS_CardinalityType, FS_EmptySet
    <3>3. QED
      BY <2>4, <3>2
  <2>10. QED
    BY <2>4, <2>5, <2>6, <2>8, <2>9 DEF c, lv
<1>3. TypeOK /\ ListInv => AggregatesExact
  BY <1>1, <1>2 DEF AggregatesExact
<1>4. QED
  BY <1>3, ListAlways, PTL

-------------------------------------------------------------------------------
(* The walk of fill-or-kill                                                    *)

\* The ticks a taker may walk.
Walkable(side, limit) ==
  {u \in NonEmpty(live, <<Opposite(side), FALSE>>) : Inside(side, limit, u)}

LEMMA TicksCounted == IsFiniteSet(Ticks) /\ Cardinality(Ticks) = NTicks /\ NTicks \in Nat
<1>1. NTicks \in Nat
  BY TickRange
<1>2. 0 \in Int /\ NTicks - 1 \in Int
  BY <1>1
<1>3. /\ IsFiniteSet(0 .. NTicks - 1)
      /\ Cardinality(0 .. NTicks - 1) = IF 0 > NTicks - 1 THEN 0 ELSE NTicks - 1 - 0 + 1
  BY <1>2, FS_Interval
<1>4. Cardinality(0 .. NTicks - 1) = NTicks
  BY <1>1, <1>3
<1>5. QED
  BY <1>1, <1>3, <1>4 DEF Ticks

\* The next tick of the walk is the nearest one beyond.
LEMMA WalkOn ==
  ASSUME ListInv, NEW side \in Sides, NEW t \in Ticks
  PROVE  LET m == store.maps[<<Opposite(side), FALSE>>]
             S == NonEmpty(live, <<Opposite(side), FALSE>>)
             v == IF side = "buy" THEN NextAbove(m, t) ELSE NextBelow(m, t)
         IN  IF side = "buy" THEN LeastOf(v, {u \in S : u > t}) ELSE GreatestOf(v, {u \in S : u < t})
<1> DEFINE a == <<Opposite(side), FALSE>>
<1>1. a \in Arrays
  BY DEF Arrays, Opposite, Sides
<1>2. NTicks \in Nat /\ t \in -1 .. NTicks
  BY TickRange DEF Ticks
<1>3. Marks(store.maps[a], NTicks, NonEmpty(live, a))
  BY <1>1 DEF ListInv, Threaded, Mapped
<1> HIDE DEF a
<1>4. LeastOf(NextAbove(store.maps[a], t), {u \in NonEmpty(live, a) : u > t})
  BY <1>2, <1>3, NextAboveWorks
<1>5. GreatestOf(NextBelow(store.maps[a], t), {u \in NonEmpty(live, a) : u < t})
  BY <1>2, <1>3, NextBelowWorks
<1>6. QED
  BY <1>4, <1>5 DEF a

\* How soon a tick is walked.
Turn(side) == [t \in Ticks |-> IF side = "buy" THEN t ELSE -t]

Walk(s, side, limit) ==
  [t \in {u \in 0 .. NTicks - 1 : Inside(side, limit, u)} |->
     IF side = "buy" THEN NextAbove(s.maps[<<Opposite(side), FALSE>>], t)
     ELSE NextBelow(s.maps[<<Opposite(side), FALSE>>], t)]

LEMMA WalkThreads ==
  ASSUME ListInv, NEW side \in Sides, NEW limit \in Prices
  PROVE  Threads(Walk(store, side, limit), Walkable(side, limit), Turn(side), BestTick(store, side))
<1> DEFINE a == <<Opposite(side), FALSE>>
           N == NonEmpty(live, a)
           S == Walkable(side, limit)
           key == Turn(side)
           succ == Walk(store, side, limit)
           x == BestTick(store, side)
<1>1. IF N = {} THEN x = -1 ELSE IsBest(side, x, N)
  BY FrontierIs
<1>2. N \subseteq Ticks
  BY DEF NonEmpty
<1>3. \A t : t \in S <=> t \in N /\ Inside(side, limit, t)
  BY DEF Walkable
<1>4. \A t : t \in DOMAIN succ <=> t \in Ticks /\ Inside(side, limit, t)
  BY DEF Walk, Ticks
<1>5. \A t \in Ticks : t \in Nat /\ key[t] = (IF side = "buy" THEN t ELSE -t) /\ key[t] \in Int
  BY TickRange DEF Turn, Ticks
<1>6. TickOf(limit) \in Nat
  BY TickScale
<1>7. \A t \in Ticks : Inside(side, limit, t)
        <=> IF side = "buy" THEN t <= TickOf(limit) ELSE TickOf(limit) <= t
  BY <1>5, <1>6 DEF Inside
<1>8. ASSUME NEW t \in S
      PROVE  IF side = "buy" THEN LeastOf(succ[t], {u \in N : u > t})
             ELSE GreatestOf(succ[t], {u \in N : u < t})
  <2>1. t \in Ticks /\ t \in DOMAIN succ
    BY <1>2, <1>3, <1>4
  <2>2. succ[t] = IF side = "buy" THEN NextAbove(store.maps[a], t) ELSE NextBelow(store.maps[a], t)
    BY <2>1 DEF Walk
  <2>3. IF side = "buy" THEN LeastOf(succ[t], {u \in N : u > t})
        ELSE GreatestOf(succ[t], {u \in N : u < t})
    BY <2>1, <2>2, WalkOn
  <2>4. QED
    BY <2>3
<1>9. ~Inside(side, limit, -1) /\ -1 \notin Ticks
  BY DEF Inside, Ticks
<1> HIDE DEF N, S, key, succ, x
<1>10. \A t \in S : t \in Ticks /\ t \in N /\ Inside(side, limit, t) /\ t \in Nat
  BY <1>2, <1>3, <1>5
<1>11. ASSUME NEW t \in S, NEW u \in S PROVE key[t] = key[u] => t = u
  BY <1>5, <1>10
<1>12. S = {} => x \notin DOMAIN succ
  <2>1. ASSUME S = {}, x \in DOMAIN succ PROVE FALSE
    <3>1. x \in Ticks /\ Inside(side, limit, x)
      BY <1>4, <2>1
    <3>2. x \in N
      BY <1>1, <1>9, <3>1 DEF IsBest
    <3>3. QED
      BY <1>3, <2>1, <3>1, <3>2
  <2>2. QED
    BY <2>1
<1>13. ASSUME S # {} PROVE x \in S /\ \A z \in S : key[x] <= key[z]
  <2>1. PICK u \in S : u \in N /\ u \in Ticks /\ Inside(side, limit, u)
    BY <1>10, <1>13
  <2>2. IsBest(side, x, N)
    BY <1>1, <2>1
  <2>3. x \in N /\ x \in Ticks /\ IF side = "buy" THEN x <= u ELSE u <= x
    BY <1>2, <2>1, <2>2 DEF IsBest
  <2>4. x \in Nat /\ u \in Nat
    BY <1>5, <2>1, <2>3
  <2>5. Inside(side, limit, x)
    BY <1>6, <1>7, <2>1, <2>3, <2>4
  <2>6. ASSUME NEW z \in S PROVE key[x] <= key[z]
    <3>1. IF side = "buy" THEN x <= z ELSE z <= x
      BY <1>10, <2>2 DEF IsBest
    <3>2. z \in Nat /\ z \in Ticks
      BY <1>10
    <3>3. QED
      BY <1>5, <2>3, <2>4, <3>1, <3>2
  <2>7. QED
    BY <1>3, <2>3, <2>5, <2>6
<1>14. ASSUME NEW y \in S
       PROVE  \/ /\ succ[y] \in S /\ key[y] < key[succ[y]]
                 /\ \A z \in S : key[y] < key[z] => key[succ[y]] <= key[z]
              \/ /\ succ[y] \notin DOMAIN succ
                 /\ \A z \in S : key[z] <= key[y]
  <2> DEFINE v == succ[y]
             M == IF side = "buy" THEN {u \in N : u > y} ELSE {u \in N : u < y}
  <2>1. y \in Nat /\ y \in Ticks /\ y \in N /\ Inside(side, limit, y)
    BY <1>10
  <2>2. IF side = "buy" THEN LeastOf(v, M) ELSE GreatestOf(v, M)
    BY <1>8
  <2>3. /\ M = {} => v = -1
        /\ M # {} => IsBest(side, v, M)
    BY <2>2 DEF LeastOf, GreatestOf, IsLeast, IsGreatest, IsBest
  <2>4. \A u : u \in M <=> u \in N /\ IF side = "buy" THEN u > y ELSE u < y
    OBVIOUS
  <2> HIDE DEF v, M
  <2>5. ASSUME NEW z \in S PROVE z \in M <=> key[y] < key[z]
    <3>1. z \in N /\ z \in Ticks /\ z \in Nat
      BY <1>10
    <3>2. QED
      BY <1>5, <2>1, <2>4, <3>1
  <2>6. CASE v \in M /\ Inside(side, limit, v)
    <3>1. v \in N /\ v \in Ticks /\ v \in Nat /\ v \in S
      BY <1>2, <1>3, <1>5, <2>4, <2>6
    <3>2. key[y] < key[v]
      BY <2>5, <2>6, <3>1
    <3>3. ASSUME NEW z \in S, key[y] < key[z] PROVE key[v] <= key[z]
      <4>1. z \in M /\ z \in Ticks /\ z \in Nat
        BY <1>10, <2>5, <3>3
      <4>2. IF side = "buy" THEN v <= z ELSE z <= v
        BY <2>3, <4>1 DEF IsBest
      <4>3. QED
        BY <1>5, <3>1, <4>1, <4>2
    <3>4. QED
      BY <3>1, <3>2, <3>3 DEF v
  <2>7. CASE ~(v \in M /\ Inside(side, limit, v))
    <3>1. v \notin DOMAIN succ
      <4>1. ASSUME v \in DOMAIN succ PROVE FALSE
        <5>1. v \in Ticks /\ Inside(side, limit, v)
          BY <1>4, <4>1
        <5>2. M = {} \/ v \in M
          BY <2>3 DEF IsBest
        <5>3. QED
          BY <1>9, <2>3, <2>7, <5>1, <5>2
      <4>2. QED
        BY <4>1
    <3>2. ASSUME NEW z \in S, z \in M PROVE FALSE
      <4>1. z \in Ticks /\ z \in Nat /\ Inside(side, limit, z)
        BY <1>10
      <4>2. IsBest(side, v, M)
        BY <2>3, <3>2
      <4>3. v \in M /\ IF side = "buy" THEN v <= z ELSE z <= v
        BY <3>2, <4>2 DEF IsBest
      <4>4. v \in Ticks /\ v \in Nat
        BY <1>2, <1>5, <2>4, <4>3
      <4>5. Inside(side, limit, v)
        BY <1>6, <1>7, <4>1, <4>3, <4>4
      <4>6. QED
        BY <2>7, <4>3, <4>5
    <3>3. ASSUME NEW z \in S PROVE key[z] <= key[y]
      <4>1. ~(key[y] < key[z])
        BY <2>5, <3>2
      <4>2. key[y] \in Int /\ key[z] \in Int
        BY <1>5, <1>10
      <4>3. QED
        BY <4>1, <4>2
    <3>4. QED
      BY <3>1, <3>3 DEF v
  <2>8. QED
    BY <2>6, <2>7
<1>15. S \subseteq DOMAIN succ
  BY <1>4, <1>10
<1>16. \A y \in S : key[y] \in Int
  BY <1>5, <1>10
<1>17. Threads(succ, S, key, x)
  BY <1>11, <1>12, <1>13, <1>14, <1>15, <1>16 DEF Threads
<1>18. QED
  BY <1>17 DEF S, key, succ, x

LEMMA WalkedIs ==
  ASSUME ListInv, NEW side \in Sides, NEW limit \in Prices
  PROVE  WalkedTicks(store, side, limit) = Walkable(side, limit)
<1>1. Threads(Walk(store, side, limit), Walkable(side, limit), Turn(side), BestTick(store, side))
  BY WalkThreads
<1>2. IsFiniteSet(Ticks) /\ Cardinality(Ticks) = NTicks /\ NTicks \in Nat
  BY TicksCounted
<1>3. Walkable(side, limit) \in SUBSET Ticks
  BY DEF Walkable, NonEmpty
<1>4. IsFiniteSet(Walkable(side, limit)) /\ Cardinality(Walkable(side, limit)) <= NTicks
  BY <1>2, <1>3, FS_Subset
<1>5. Cardinality(Walkable(side, limit)) \in Nat
  BY <1>4, FS_CardinalityType
<1>6. NTicks + 1 \in Nat /\ Cardinality(Walkable(side, limit)) < NTicks + 1
  BY <1>2, <1>4, <1>5
<1>7. IsThread(Iterates(Walk(store, side, limit), BestTick(store, side), NTicks + 1),
               Walk(store, side, limit), Walkable(side, limit), Turn(side), BestTick(store, side))
  BY <1>1, <1>4, <1>6, IteratesThread
<1>8. Range(Iterates(Walk(store, side, limit), BestTick(store, side), NTicks + 1))
        = Walkable(side, limit)
  BY <1>7 DEF IsThread
<1>9. WalkedTicks(store, side, limit)
        = Range(Iterates(Walk(store, side, limit), BestTick(store, side), NTicks + 1))
  BY DEF WalkedTicks, Walk
<1>10. QED
  BY <1>8, <1>9

\* The orders of others on a level, and the slots that hold them.
OthersOn(side, owner, t) ==
  {i \in Level(live, <<Opposite(side), FALSE>>, t) : live[i].owner # owner}

OtherSlots(s, side, owner, t) ==
  {h \in Range(Chain(s, <<Opposite(side), FALSE>>, t)) : s.nodes[h].owner # owner}

\* What the walk adds up, tick by tick.
LEMMA WalkedSum ==
  ASSUME NEW s, NEW side, NEW owner, NEW limit, IsFiniteSet(WalkedTicks(s, side, limit))
  PROVE  WalkedQty(s, side, owner, limit) =
           Total([t \in WalkedTicks(s, side, limit) |->
                    QtyTotal(s.nodes, OtherSlots(s, side, owner, t))],
                 WalkedTicks(s, side, limit))
<1> DEFINE W == WalkedTicks(s, side, limit)
           on(t) == QtyTotal(s.nodes, OtherSlots(s, side, owner, t))
           f == [t \in W |-> on(t)]
           Adds(g) == g = [r \in SUBSET W |->
                             IF r = {} THEN 0 ELSE on(First(r)) + g[r \ {First(r)}]]
           it == CHOOSE g : Adds(g)
<1>1. WalkedQty(s, side, owner, limit) = it[W]
  BY DEF WalkedQty, OtherSlots, QtyTotal, MapThenSumSet, MapThenFoldSet, First
<1>2. \A r \in SUBSET W : r # {} => f[First(r)] = on(First(r))
  BY FirstIn
<1>3. PICK g : Sums(g, f, W)
  BY SumsExist
<1>4. Adds(g)
  BY <1>2, <1>3 DEF Sums
<1>5. Adds(it)
  BY <1>4
<1>6. Sums(it, f, W)
  <2> HIDE DEF it
  <2>1. QED
    BY <1>2, <1>5 DEF Sums
<1>7. QED
  BY <1>1, <1>6, TotalOfSubset

LEMMA OtherSlotsAre ==
  ASSUME TypeOK, ListInv, NEW side \in Sides, NEW owner, NEW t \in Ticks
  PROVE  /\ OthersOn(side, owner, t) \in SUBSET DOMAIN live
         /\ OtherSlots(store, side, owner, t) = SlotsOf(store, OthersOn(side, owner, t))
<1> DEFINE a == <<Opposite(side), FALSE>>
           c == Chain(store, a, t)
           L == Level(live, a, t)
<1>1. a \in Arrays
  BY DEF Arrays, Opposite, Sides
<1>2. L \in SUBSET DOMAIN live
  BY DEF Level
<1>3. OthersOn(side, owner, t) = {i \in L : live[i].owner # owner}
  BY DEF OthersOn
<1>4. OtherSlots(store, side, owner, t) = {h \in Range(c) : store.nodes[h].owner # owner}
  BY DEF OtherSlots
<1> HIDE DEF a
<1>5. Range(c) = SlotsOf(store, L)
  BY <1>1, ChainIs DEF IsQueue
<1> HIDE DEF c, L
<1>6. \A i \in L : store.nodes[store.index[i]].owner = live[i].owner
  <2>1. ASSUME NEW i \in L PROVE store.nodes[store.index[i]].owner = live[i].owner
    <3>1. Carries(SlotOf(store, i), i, live[i])
      BY <1>2, SlotFacts
    <3>2. QED
      BY <3>1 DEF Carries, SlotOf
  <2>2. QED
    BY <2>1
<1>7. QED
  BY <1>2, <1>3, <1>4, <1>5, <1>6 DEF SlotsOf

LEMMA WalkIsExact ==
  ASSUME TypeOK, ListInv, NEW side \in Sides, NEW owner, NEW limit \in Prices
  PROVE  WalkedQty(store, side, owner, limit) = Available(side, owner, limit)
<1> DEFINE a == <<Opposite(side), FALSE>>
           W == Walkable(side, limit)
           part == [t \in W |-> OthersOn(side, owner, t)]
           f == [i \in DOMAIN live |-> live[i].qty]
           O == Offers(live, side, owner, limit)
<1>1. WalkedTicks(store, side, limit) = W
  BY WalkedIs
<1>2. W \in SUBSET Ticks
  BY DEF Walkable, NonEmpty
<1>3. IsFiniteSet(W)
  BY <1>2, TicksCounted, FS_Subset
<1>4. WalkedQty(store, side, owner, limit)
        = Total([t \in W |-> QtyTotal(store.nodes, OtherSlots(store, side, owner, t))], W)
  BY <1>1, <1>3, WalkedSum
<1>5. IsFiniteSet(DOMAIN live) /\ \A i \in DOMAIN live : live[i] \in Nodes
  BY BookArrived DEF Arrived, Book
<1>6. \A i \in DOMAIN live : f[i] = live[i].qty /\ f[i] \in Int
  BY <1>5 DEF Nodes
<1>7. ASSUME NEW t \in W
      PROVE  QtyTotal(store.nodes, OtherSlots(store, side, owner, t)) = Total(f, part[t])
  <2> DEFINE S == OthersOn(side, owner, t)
  <2>1. S \in SUBSET DOMAIN live /\ OtherSlots(store, side, owner, t) = SlotsOf(store, S)
    BY <1>2, OtherSlotsAre
  <2>2. part[t] = S
    OBVIOUS
  <2> HIDE DEF S, f, part
  <2>3. QtyTotal(store.nodes, SlotsOf(store, S)) = QtyOn(live, S)
    BY <2>1, QtyOfSlots
  <2>4. IsFiniteSet(S)
    BY <1>5, <2>1, FS_Subset
  <2>5. Total([i \in S |-> live[i].qty], S) = Total(f, S)
    <3> DEFINE q == [i \in S |-> live[i].qty]
    <3>1. \A i \in S : q[i] = f[i]
      BY <1>6, <2>1
    <3> HIDE DEF q
    <3>2. Total(q, S) = Total(f, S)
      BY <2>4, <3>1, TotalSame
    <3>3. QED
      BY <3>2 DEF q
  <2>6. QED
    BY <2>1, <2>2, <2>3, <2>5 DEF QtyOn
<1>8. [t \in W |-> QtyTotal(store.nodes, OtherSlots(store, side, owner, t))]
        = [t \in W |-> Total(f, part[t])]
  BY <1>7
<1>9. Parts(part, W) = O
  <2>1. ASSUME NEW i \in Parts(part, W) PROVE i \in O
    <3>1. PICK t \in W : i \in OthersOn(side, owner, t)
      BY <2>1 DEF Parts
    <3>2. /\ i \in DOMAIN live /\ live[i].side = Opposite(side) /\ live[i].pending = FALSE
          /\ TickOf(live[i].level) = t /\ live[i].owner # owner
      BY <3>1 DEF OthersOn, Level
    <3>3. Inside(side, limit, t) /\ live[i].level \in Prices
      BY <1>5, <3>2 DEF Walkable, Nodes
    <3>4. Crosses(side, limit, live[i].level)
      BY <3>2, <3>3, CrossesTicks
    <3>5. QED
      BY <3>2, <3>4 DEF Offers
  <2>2. ASSUME NEW i \in O PROVE i \in Parts(part, W)
    <3>1. /\ i \in DOMAIN live /\ live[i].side = Opposite(side) /\ ~live[i].pending
          /\ Crosses(side, limit, live[i].level) /\ live[i].owner # owner
      BY DEF Offers
    <3>2. live[i].pending = FALSE /\ live[i].level \in Prices
      BY <1>5, <3>1 DEF Nodes
    <3> DEFINE t == TickOf(live[i].level)
    <3>3. a \in Arrays /\ a[1] = Opposite(side) /\ a[2] = FALSE
      BY DEF Arrays, Opposite, Sides
    <3>4. t \in NonEmpty(live, a) /\ i \in Level(live, a, t)
      <4> HIDE DEF a, t
      <4>1. QED
        BY <3>1, <3>2, <3>3, OnArray DEF t
    <3>5. Inside(side, limit, t)
      BY <3>1, <3>2, CrossesTicks
    <3>6. t \in W /\ i \in OthersOn(side, owner, t)
      BY <3>1, <3>4, <3>5 DEF Walkable, OthersOn
    <3> HIDE DEF t, W
    <3>7. i \in part[t]
      BY <3>6
    <3>8. QED
      BY <3>6, <3>7 DEF Parts
  <2>3. QED
    BY <2>1, <2>2
<1>10. ASSUME NEW v \in W, NEW w \in W, v # w PROVE part[v] \cap part[w] = {}
  <2>1. \A i : i \in OthersOn(side, owner, v) => TickOf(live[i].level) = v
    BY DEF OthersOn, Level
  <2>2. \A i : i \in OthersOn(side, owner, w) => TickOf(live[i].level) = w
    BY DEF OthersOn, Level
  <2>3. QED
    BY <1>10, <2>1, <2>2
<1>11. O \in SUBSET DOMAIN live
  BY DEF Offers
<1>12. Available(side, owner, limit) = Offered(live, side, owner, limit)
  BY AvailableHere DEF TypeOK
<1>13. Offered(live, side, owner, limit) = Total(f, O)
  <2> DEFINE q == [i \in O |-> live[i].qty]
  <2>1. \A i \in O : q[i] = f[i]
    BY <1>6, <1>11
  <2>2. IsFiniteSet(O)
    BY <1>5, <1>11, FS_Subset
  <2>3. Offered(live, side, owner, limit) = Total(q, O)
    BY DEF Offered
  <2> HIDE DEF q, f, O
  <2>4. Total(q, O) = Total(f, O)
    BY <2>1, <2>2, TotalSame
  <2>5. QED
    BY <2>3, <2>4
<1> HIDE DEF W, part, f, O
<1>14. Total([t \in W |-> Total(f, part[t])], W) = Total(f, Parts(part, W))
  <2>1. IsFiniteSet(Parts(part, W))
    BY <1>5, <1>9, <1>11, FS_Subset
  <2>2. \A i \in Parts(part, W) : f[i] \in Int
    BY <1>6, <1>9, <1>11
  <2>3. QED
    BY <1>3, <1>10, <2>1, <2>2, TotalParted
<1>15. QED
  BY <1>4, <1>8, <1>9, <1>12, <1>13, <1>14

\* Every lookup in the bitmaps finds the nearest level that holds something, and
\* the walk of fill-or-kill counts what a taker could fill, no more and no less.
THEOREM WalksAreAlwaysExact == ListSpec => []WalksExact
<1>1. ASSUME TypeOK, ListInv, NEW a \in Arrays PROVE LookupsExact(store.maps[a], NTicks)
  <2>1. NTicks \in Nat
    BY TickRange
  <2>2. Marks(store.maps[a], NTicks, NonEmpty(live, a))
    BY <1>1 DEF ListInv, Threaded, Mapped
  <2>3. QED
    BY <2>1, <2>2, MarksLookups
<1>2. ASSUME TypeOK, ListInv, NEW side \in Sides, NEW owner \in Owners, NEW limit \in Prices
      PROVE  WalkedQty(store, side, owner, limit) = Available(side, owner, limit)
  BY <1>2, WalkIsExact
<1>3. TypeOK /\ ListInv => WalksExact
  BY <1>1, <1>2 DEF WalksExact
<1>4. QED
  BY <1>3, ListAlways, PTL
================================================================================
