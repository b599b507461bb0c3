------------------------------- MODULE Bitmap -------------------------------
(***************************************************************************)
(* The three-level bitmap of internal/book/bitmap.go: one bit per price    *)
(* tick, one summary bit per word below it.  A word is the set of its set  *)
(* bits, so a trailing-zeros count is its minimum and a leading-zeros      *)
(* count its maximum.  The code's words are 64 bits wide; here the width   *)
(* is a parameter, so that few ticks exercise all three levels.            *)
(***************************************************************************)
EXTENDS Integers, FiniteSetsExt

CONSTANT WordBits

ASSUME WordAssumption == WordBits \in Nat \ {0}

WordsFor(n) == (n + WordBits - 1) \div WordBits

\* Index of the word a bit is in, and of the bit in its word.
Word(i) == i \div WordBits
Bit(i)  == i % WordBits

Zeros(words) == [w \in 0 .. words - 1 |-> {}]

NewBitmap(nTicks) ==
  [l0 |-> Zeros(WordsFor(nTicks)),
   l1 |-> Zeros(WordsFor(WordsFor(nTicks))),
   l2 |-> Zeros(WordsFor(WordsFor(WordsFor(nTicks))))]

SetBit(b, i) ==
  [b EXCEPT !.l0[Word(i)]             = @ \cup {Bit(i)},
            !.l1[Word(Word(i))]       = @ \cup {Bit(Word(i))},
            !.l2[Word(Word(Word(i)))] = @ \cup {Bit(Word(Word(i)))}]

\* A summary bit is cleared only when the word below it has emptied out.
ClearBit(b, i) ==
  LET w   == Word(i)
      j   == Word(w)
      w0  == b.l0[w] \ {Bit(i)}
      w1  == IF w0 = {} THEN b.l1[j] \ {Bit(w)} ELSE b.l1[j]
      w2  == IF w0 = {} /\ w1 = {} THEN b.l2[Word(j)] \ {Bit(j)} ELSE b.l2[Word(j)]
  IN  [b EXCEPT !.l0[w] = w0, !.l1[j] = w1, !.l2[Word(j)] = w2]

IsSet(b, i) == Bit(i) \in b.l0[Word(i)]

\* The indices of the words that are not zero.
Nonzero(words) == {w \in DOMAIN words : words[w] # {}}

\* The lowest set tick, -1 if there is none: down the levels from the first
\* nonzero word of the highest.
MinBit(b) ==
  IF Nonzero(b.l2) = {} THEN -1
  ELSE LET k == Min(Nonzero(b.l2))
           j == k * WordBits + Min(b.l2[k])
           i == j * WordBits + Min(b.l1[j])
       IN  i * WordBits + Min(b.l0[i])

MaxBit(b) ==
  IF Nonzero(b.l2) = {} THEN -1
  ELSE LET k == Max(Nonzero(b.l2))
           j == k * WordBits + Max(b.l2[k])
           i == j * WordBits + Max(b.l1[j])
       IN  i * WordBits + Max(b.l0[i])

\* The lowest set tick above i: the rest of its word, then the words after it.
NextAbove(b, i) ==
  LET w    == Word(i + 1)
      rest == {m \in b.l0[w] : m >= Bit(i + 1)}
      more == {v \in Nonzero(b.l0) : v > w}
  IN  IF w \notin DOMAIN b.l0 THEN -1
      ELSE IF rest # {} THEN w * WordBits + Min(rest)
      ELSE IF more # {} THEN Min(more) * WordBits + Min(b.l0[Min(more)])
      ELSE -1

\* Mutant of NextBelow: the words before the first one are not looked at.
NextBelowInWord(b, i) ==
  LET rest == {m \in b.l0[Word(i - 1)] : m <= Bit(i - 1)}
  IN  IF i <= 0 \/ Word(i - 1) \notin DOMAIN b.l0 \/ rest = {} THEN -1
      ELSE Word(i - 1) * WordBits + Max(rest)

\* The highest set tick below i, from the last word when i lies beyond it.
NextBelow(b, i) ==
  LET top  == Cardinality(DOMAIN b.l0) * WordBits - 1
      p    == IF i - 1 > top THEN top ELSE i - 1
      w    == Word(p)
      rest == {m \in b.l0[w] : m <= Bit(p)}
      less == {v \in Nonzero(b.l0) : v < w}
  IN  IF p < 0 THEN -1
      ELSE IF rest # {} THEN w * WordBits + Max(rest)
      ELSE IF less # {} THEN Max(less) * WordBits + Max(b.l0[Max(less)])
      ELSE -1

-----------------------------------------------------------------------------
(* What a bitmap stands for *)

\* The ticks set in a bitmap over nTicks ticks.
TicksIn(b, nTicks) == {i \in 0 .. nTicks - 1 : IsSet(b, i)}

\* A summary bit is set exactly when the word it stands for is not zero, and
\* no bit lies beyond the last tick.
WellSummarised(b, nTicks) ==
  /\ \A w \in DOMAIN b.l0 : \A m \in b.l0[w] : w * WordBits + m < nTicks
  /\ \A w \in DOMAIN b.l0 : Bit(w) \in b.l1[Word(w)] <=> b.l0[w] # {}
  /\ \A j \in DOMAIN b.l1 : Bit(j) \in b.l2[Word(j)] <=> b.l1[j] # {}
  /\ \A j \in DOMAIN b.l1 : \A m \in b.l1[j] : j * WordBits + m \in DOMAIN b.l0
  /\ \A k \in DOMAIN b.l2 : \A m \in b.l2[k] : k * WordBits + m \in DOMAIN b.l1

\* The lookups of a bitmap give what they promise of the ticks it stands for.
LookupsExact(b, nTicks) ==
  LET ticks == TicksIn(b, nTicks)
      Least(S)    == IF S = {} THEN -1 ELSE Min(S)
      Greatest(S) == IF S = {} THEN -1 ELSE Max(S)
  IN  /\ MinBit(b) = Least(ticks) /\ MaxBit(b) = Greatest(ticks)
      /\ \A i \in -1 .. nTicks :
           /\ NextAbove(b, i) = Least({t \in ticks : t > i})
           /\ NextBelow(b, i) = Greatest({t \in ticks : t < i})
=============================================================================
