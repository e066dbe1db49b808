---------------------------- MODULE CursorProofs ----------------------------
(***************************************************************************)
(* Proofs about the cursor, for every run and every set of counts: no      *)
(* sequence of operations takes a position out of its window or past a     *)
(* byte that no read cites, and windows opened on windows stay stretches   *)
(* of the run at the stream's offsets.                                     *)
(***************************************************************************)
EXTENDS Cursor, SequenceTheorems, WellFoundedInduction, TLAPS

(***************************************************************************)
(* Induction over the natural numbers, stated for a set of them, and the   *)
(* recursion that sums and place values have: each term is a multiple of   *)
(* the one before it and a given amount.                                   *)
(***************************************************************************)
(* A set of natural numbers that is not empty has a least member.          *)
LEMMA LeastNat ==
  ASSUME NEW S \in SUBSET Nat, S # {}
  PROVE  \E x \in S : \A y \in S : x <= y
<1> DEFINE R == {ss \in Nat \X Nat : ss[1] < ss[2]}
<1>1. IsWellFoundedOn(R, Nat)
  BY NatLessThanWellFounded DEF OpToRel
<1>2. PICK x \in S : \A y \in S : <<y, x>> \notin R
  <2> HIDE DEF R
  <2> QED
    BY <1>1, WFMin
<1>3. \A y \in S : ~(y < x)
  BY <1>2
<1> QED
  BY <1>3

(* The least number outside such a set would have no predecessor.          *)
LEMMA SetInduction ==
  ASSUME NEW S, 0 \in S, \A n \in Nat : n \in S => n + 1 \in S
  PROVE  Nat \subseteq S
<1> SUFFICES ASSUME Nat \ S # {} PROVE FALSE
  OBVIOUS
<1>1. PICK x \in Nat \ S : \A y \in Nat \ S : x <= y
  BY LeastNat
<1>2. x - 1 \in Nat /\ x - 1 \notin Nat \ S
  BY <1>1
<1> QED
  BY <1>1, <1>2

(* f starts at c and goes on with a times itself and what g gives.         *)
Follows(f, c, a, g, m) ==
  /\ f \in [0 .. m -> Int]
  /\ f[0] = c
  /\ \A k \in 1 .. m : f[k] = a * f[k - 1] + g[k]

(* There is a function that follows a recurrence, on every interval.       *)
LEMMA SomeFollows ==
  ASSUME NEW c \in Int, NEW a \in Int, NEW m \in Nat, NEW g \in [1 .. m -> Int]
  PROVE  \E f : Follows(f, c, a, g, m)
<1> DEFINE S == {i \in Nat : i <= m => \E f : Follows(f, c, a, g, i)}
<1>1. 0 \in S
  <2> DEFINE f == [j \in 0 .. 0 |-> c]
  <2>1. Follows(f, c, a, g, 0)
    BY DEF Follows
  <2> QED
    BY <2>1
<1>2. ASSUME NEW i \in Nat, i \in S PROVE i + 1 \in S
  <2> SUFFICES ASSUME i + 1 <= m PROVE \E f : Follows(f, c, a, g, i + 1)
    OBVIOUS
  <2>1. PICK f : Follows(f, c, a, g, i)
    BY <1>2
  <2>2. PICK last \in Int : last = a * f[i] + g[i + 1]
    BY <2>1 DEF Follows
  <2> DEFINE h == [j \in 0 .. i + 1 |-> IF j <= i THEN f[j] ELSE last]
  <2>3. h \in [0 .. i + 1 -> Int] /\ h[0] = c
    BY <2>1, <2>2 DEF Follows
  <2>4. ASSUME NEW j \in 1 .. i + 1 PROVE h[j] = a * h[j - 1] + g[j]
    <3>1. CASE j <= i
      <4>1. /\ j \in 1 .. i /\ j - 1 \in 0 .. i + 1
            /\ j \in 0 .. i + 1 /\ j - 1 <= i
        BY <3>1
      <4>2. f[j] = a * f[j - 1] + g[j]
        BY <2>1, <4>1 DEF Follows
      <4> QED
        BY <3>1, <4>1, <4>2
    <3>2. CASE j = i + 1
      <4>1. h[j] = last /\ h[j - 1] = f[i]
        BY <3>2
      <4> QED
        BY <2>2, <3>2, <4>1
    <3> QED
      BY <3>1, <3>2
  <2>5. Follows(h, c, a, g, i + 1)
    <3> HIDE DEF h
    <3> QED
      BY <2>3, <2>4 DEF Follows
  <2> QED
    BY <2>5
<1>3. Nat \subseteq S
  <2> HIDE DEF S
  <2> QED
    BY <1>1, <1>2, SetInduction
<1> QED
  BY <1>3

(* There is one such sequence: whatever is c at first and obeys the        *)
(* equation after that agrees with it.                                     *)
LEMMA OneFollows ==
  ASSUME NEW c \in Int, NEW a \in Int, NEW m \in Nat, NEW g, NEW f, Follows(f, c, a, g, m),
         NEW h, h[0] = c,
         \A k \in 1 .. m : h[k - 1] \in Int => h[k] = a * h[k - 1] + g[k]
  PROVE  \A k \in 0 .. m : h[k] = f[k]
<1> DEFINE S == {i \in Nat : i <= m => h[i] = f[i]}
<1>1. 0 \in S
  BY DEF Follows
<1>2. ASSUME NEW i \in Nat, i \in S PROVE i + 1 \in S
  <2> SUFFICES ASSUME i + 1 <= m PROVE h[i + 1] = f[i + 1]
    OBVIOUS
  <2>1. i + 1 \in 1 .. m /\ (i + 1) - 1 = i /\ h[i] = f[i] /\ h[i] \in Int
    BY <1>2 DEF Follows
  <2>2. h[i + 1] = a * h[(i + 1) - 1] + g[i + 1]
    BY <2>1
  <2>3. f[i + 1] = a * f[(i + 1) - 1] + g[i + 1]
    BY <2>1 DEF Follows
  <2> QED
    BY <2>1, <2>2, <2>3
<1>3. Nat \subseteq S
  <2> HIDE DEF S
  <2> QED
    BY <1>1, <1>2, SetInduction
<1> QED
  BY <1>3

(* What the weights of places are: powers of the base.                     *)
Weights(W, b) ==
  /\ W \in [Nat -> Nat \ {0}]
  /\ W[0] = 1
  /\ \A k \in Nat : W[k + 1] = b * W[k]

(* What the digits stand for, from the last digit on.                      *)
Stand(v, g, W, m) == \A k \in 1 .. m : v[k] = g[m + 1 - k] * W[k - 1]

(* A numeral read from its first digit on is the sum of its digits, the    *)
(* last first, each times the weight of its place.                         *)
LEMMA PlaceValues ==
  ASSUME NEW b \in Int, NEW m \in Nat, NEW g \in [1 .. m -> Int],
         NEW W, Weights(W, b),
         NEW f, Follows(f, 0, b, g, m),
         NEW v, Stand(v, g, W, m),
         NEW w, Follows(w, 0, 1, v, m)
  PROVE  f[m] = w[m]
<1> DEFINE S == {j \in Nat : j <= m => f[m] = f[m - j] * W[j] + w[j]}
<1>1. 0 \in S
  <2>1. f[m] \in Int /\ W[0] = 1 /\ w[0] = 0 /\ m - 0 = m
    BY DEF Follows, Weights
  <2> QED
    BY <2>1
<1>2. ASSUME NEW j \in Nat, j \in S PROVE j + 1 \in S
  <2> SUFFICES ASSUME j + 1 <= m
               PROVE  f[m] = f[m - (j + 1)] * W[j + 1] + w[j + 1]
    OBVIOUS
  <2>1. f[m] = f[m - j] * W[j] + w[j]
    BY <1>2
  <2>2. /\ m - j \in 1 .. m /\ m - (j + 1) \in 0 .. m /\ j + 1 \in 1 .. m
        /\ j \in 0 .. m /\ m - j - 1 = m - (j + 1) /\ m + 1 - (j + 1) = m - j
        /\ j + 1 - 1 = j
    OBVIOUS
  <2>3. f[m - j] = b * f[m - (j + 1)] + g[m - j]
    BY <2>2 DEF Follows
  <2>4. w[j + 1] = w[j] + g[m - j] * W[j]
    <3>1. w[j + 1] = 1 * w[j + 1 - 1] + v[j + 1]
      BY <2>2 DEF Follows
    <3>2. v[j + 1] = g[m + 1 - (j + 1)] * W[j + 1 - 1]
      BY <2>2 DEF Stand
    <3>3. w[j] \in Int
      BY <2>2 DEF Follows
    <3> QED
      BY <2>2, <3>1, <3>2, <3>3
  <2>5. PICK x \in Int, y \in Int, p \in Int, u \in Int :
          x = f[m - (j + 1)] /\ y = g[m - j] /\ p = W[j] /\ u = w[j]
    <3>1. f[m - (j + 1)] \in Int
      BY <2>2 DEF Follows
    <3>2. g[m - j] \in Int
      BY <2>2
    <3>3. W[j] \in Int
      BY DEF Weights
    <3>4. w[j] \in Int
      BY <2>2 DEF Follows
    <3> QED
      BY <3>1, <3>2, <3>3, <3>4
  <2>6. W[j + 1] = b * p
    BY <2>5 DEF Weights
  <2>7. (b * x + y) * p + u = x * (b * p) + (u + y * p)
    OBVIOUS
  <2> QED
    BY <2>1, <2>3, <2>4, <2>5, <2>6, <2>7
<1>3. Nat \subseteq S
  <2> HIDE DEF S
  <2> QED
    BY <1>1, <1>2, SetInduction
<1>4. f[m] = f[m - m] * W[m] + w[m]
  BY <1>3
<1>5. f[m - m] = 0 /\ W[m] \in Int /\ w[m] \in Int
  BY DEF Follows, Weights
<1> QED
  BY <1>4, <1>5

(* So many digits say less than the weight of the place before the first.  *)
LEMMA DigitsBound ==
  ASSUME NEW b \in Nat, NEW m \in Nat, NEW g, \A k \in 1 .. m : g[k] \in 0 .. b - 1,
         NEW W, Weights(W, b),
         NEW f, Follows(f, 0, b, g, m)
  PROVE  f[m] \in Nat /\ f[m] < W[m]
<1> DEFINE S == {j \in Nat : j <= m => f[j] \in Nat /\ f[j] < W[j]}
<1>1. 0 \in S
  <2>1. f[0] = 0 /\ W[0] = 1
    BY DEF Follows, Weights
  <2> QED
    BY <2>1
<1>2. ASSUME NEW j \in Nat, j \in S PROVE j + 1 \in S
  <2> SUFFICES ASSUME j + 1 <= m PROVE f[j + 1] \in Nat /\ f[j + 1] < W[j + 1]
    OBVIOUS
  <2>1. j + 1 \in 1 .. m /\ j + 1 - 1 = j /\ f[j] \in Nat /\ f[j] < W[j]
    BY <1>2
  <2>2. PICK x \in Nat, y \in 0 .. b - 1, p \in Nat :
          x = f[j] /\ y = g[j + 1] /\ p = W[j]
    BY <2>1 DEF Weights
  <2>3. f[j + 1] = b * x + y /\ W[j + 1] = b * p
    BY <2>1, <2>2 DEF Follows, Weights
  <2>4. x + 1 <= p
    BY <2>1, <2>2
  <2>5. b * (x + 1) <= b * p
    BY <2>4
  <2>6. b * (x + 1) = b * x + b
    OBVIOUS
  <2>7. b * x \in Nat /\ b * p \in Nat
    OBVIOUS
  <2> QED
    BY <2>2, <2>3, <2>5, <2>6, <2>7
<1>3. Nat \subseteq S
  <2> HIDE DEF S
  <2> QED
    BY <1>1, <1>2, SetInduction
<1> QED
  BY <1>3

LEMMA CountsAreInts == Counts \subseteq Int
BY CountsAssumption

(* Where an operation on a cursor leaves the position.                     *)
Inside(cur) == cur \in CursorType /\ cur.bit <= size(cur) * BITS_PER_BYTE

Keeps(cur, reading) == reading.bit \in 0 .. size(cur) * BITS_PER_BYTE

(* A read goes on from the position, or is refused and stays.              *)
Advances(cur, reading) ==
  /\ Keeps(cur, reading)
  /\ cur.bit <= reading.bit
  /\ reading.outcome # "ok" => reading.bit = cur.bit

LEMMA SizeIsNat ==
  ASSUME NEW cur \in CursorType
  PROVE  size(cur) \in Nat /\ cur.bit \in Nat /\ cur.base \in Nat
BY DEF CursorType, size

(* Whatever a read is asked for, it leaves the position in the window.     *)
LEMMA RefusedKeeps ==
  ASSUME NEW cur, Inside(cur), NEW error
  PROVE  Advances(cur, Refused(cur, error)) /\ Keeps(cur, Refused(cur, error))
BY SizeIsNat DEF Inside, Advances, Keeps, Refused, Reading, BITS_PER_BYTE

LEMMA ReadBitsKeeps ==
  ASSUME NEW cur, Inside(cur), NEW n \in Int
  PROVE  Advances(cur, read_bits(cur, n))
<1>1. size(cur) \in Nat /\ cur.bit \in Nat /\ cur.bit <= size(cur) * 8
  BY SizeIsNat DEF Inside, BITS_PER_BYTE
<1>2. CASE n < 0 \/ Runs_past(cur, n)
  BY <1>2, RefusedKeeps DEF read_bits
<1>3. CASE n >= 0 /\ ~Runs_past(cur, n)
  <2>1. n <= size(cur) * 8 - cur.bit
    BY <1>1, <1>3 DEF Runs_past, remaining_bits, BITS_PER_BYTE
  <2>2. read_bits(cur, n).bit = cur.bit + n /\ read_bits(cur, n).outcome = "ok"
    BY <1>1, <1>3 DEF read_bits, Reading
  <2>3. QED
    BY <1>1, <1>3, <2>1, <2>2 DEF Advances, Keeps, BITS_PER_BYTE
<1>4. QED
  BY <1>2, <1>3

LEMMA ReadBytesKeeps ==
  ASSUME NEW cur, Inside(cur), NEW n \in Int
  PROVE  Advances(cur, read_bytes(cur, n))
<1>1. size(cur) \in Nat /\ cur.bit \in Nat /\ cur.bit <= size(cur) * 8
  BY SizeIsNat DEF Inside, BITS_PER_BYTE
<1>2. CASE n < 0 \/ ~is_aligned(cur) \/ Runs_past(cur, n * BITS_PER_BYTE)
  BY <1>2, RefusedKeeps DEF read_bytes
<1>3. CASE n >= 0 /\ is_aligned(cur) /\ ~Runs_past(cur, n * BITS_PER_BYTE)
  <2>1. n * 8 <= size(cur) * 8 - cur.bit
    BY <1>1, <1>3 DEF Runs_past, remaining_bits, BITS_PER_BYTE
  <2>2. read_bytes(cur, n).bit = cur.bit + n * 8 /\ read_bytes(cur, n).outcome = "ok"
    BY <1>1, <1>3 DEF read_bytes, Reading, BITS_PER_BYTE
  <2>3. QED
    BY <1>1, <1>3, <2>1, <2>2 DEF Advances, Keeps, BITS_PER_BYTE
<1>4. QED
  BY <1>2, <1>3

LEMMA ReadIntKeeps ==
  ASSUME NEW cur, Inside(cur), NEW n \in Nat, NEW signed, NEW endian
  PROVE  Advances(cur, read_int(cur, n, signed, endian))
<1> DEFINE whole == n % BITS_PER_BYTE = 0 /\ is_aligned(cur)
           read  == IF whole THEN read_bytes(cur, n \div BITS_PER_BYTE)
                             ELSE read_bits(cur, n)
<1>1. n \div BITS_PER_BYTE \in Int /\ n \in Int
  BY DEF BITS_PER_BYTE
<1>2. Advances(cur, read)
  BY <1>1, ReadBitsKeeps, ReadBytesKeeps
<1>3. read = [bit |-> read.bit, outcome |-> read.outcome, value |-> read.value]
  BY DEF read_bytes, read_bits, Refused, Reading
<1>4. /\ read_int(cur, n, signed, endian).bit = read.bit
      /\ read_int(cur, n, signed, endian).outcome = read.outcome
  <2> DEFINE value == IF whole THEN BytesValue(read.value, endian) ELSE read.value
  <2>1. read_int(cur, n, signed, endian)
          = IF read.outcome # "ok" THEN read
            ELSE [read EXCEPT !.value = IF signed THEN TwosComplement(value, n)
                                                  ELSE value]
    BY DEF read_int
  <2> HIDE DEF read, value
  <2>2. QED
    BY <2>1, <1>3
<1>5. QED
  BY <1>2, <1>4 DEF Advances, Keeps

(* So do seeking and aligning.                                             *)
LEMMA SeekKeeps ==
  ASSUME NEW cur, Inside(cur), NEW offset \in Int
  PROVE  Keeps(cur, seek_to(cur, offset))
<1>1. CASE (offset - cur.base) * BITS_PER_BYTE \in 0 .. size(cur) * BITS_PER_BYTE
  BY <1>1 DEF seek_to, seek, Reading, Keeps
<1>2. CASE (offset - cur.base) * BITS_PER_BYTE \notin 0 .. size(cur) * BITS_PER_BYTE
  BY <1>2, RefusedKeeps DEF seek_to, seek
<1>3. QED
  BY <1>1, <1>2

LEMMA AlignKeeps ==
  ASSUME NEW cur, Inside(cur)
  PROVE  Keeps(cur, align(cur))
<1>1. size(cur) \in Nat /\ cur.bit \in Nat /\ cur.bit <= size(cur) * 8
  BY SizeIsNat DEF Inside, BITS_PER_BYTE
<1>2. PICK s \in Nat : s = size(cur)
  BY <1>1
<1>3. PICK b \in Nat : b = cur.bit
  BY <1>1
<1>4. align(cur).bit = IF b % 8 = 0 THEN b + 0 ELSE b + (8 - (b % 8))
  BY <1>3 DEF align, Reading, BITS_PER_BYTE
<1>5. (IF b % 8 = 0 THEN b + 0 ELSE b + (8 - (b % 8))) \in 0 .. s * 8
  BY <1>1, <1>2, <1>3
<1>6. QED
  BY <1>2, <1>4, <1>5 DEF Keeps, BITS_PER_BYTE

(***************************************************************************)
(* What has been cited of what a cursor went over.                         *)
(***************************************************************************)
Claimed(cur, claim) ==
  /\ cur.base <= claim.since /\ (claim.since - cur.base) * 8 <= cur.bit
  /\ claim.cited = claim.since .. cur.base + (cur.bit + 7) \div 8 - 1

At(cur, bit) == [cur EXCEPT !.bit = bit]

LEMMA AtIs ==
  ASSUME NEW cur \in CursorType, NEW bit \in Nat
  PROVE  /\ At(cur, bit) \in CursorType /\ At(cur, bit).bit = bit
         /\ At(cur, bit).data = cur.data /\ At(cur, bit).base = cur.base
BY DEF At, CursorType

(* A span begins no later than the byte after the last one cited, however  *)
(* the two share a byte, and ends with the byte of the last bit read.      *)
LEMMA CitesOn ==
  ASSUME NEW cur \in CursorType, NEW claim \in ClaimType, NEW bit \in Nat,
         cur.bit <= bit, Claimed(cur, claim)
  PROVE  Claimed(At(cur, bit),
                 [claim EXCEPT !.cited =
                    @ \cup Bytes(span(At(cur, bit), cur.bit))])
<1>1. PICK base \in Nat, mark \in Nat, since \in Nat :
        base = cur.base /\ mark = cur.bit /\ since = claim.since
  BY SizeIsNat DEF ClaimType
<1>2. /\ base <= since /\ (since - base) * 8 <= mark /\ mark <= bit
      /\ claim.cited = since .. base + (mark + 7) \div 8 - 1
  BY <1>1 DEF Claimed
<1>3. Bytes(span(At(cur, bit), cur.bit))
        = base + mark \div 8 .. base + (bit + 7) \div 8 - 1
  <2>1. /\ At(cur, bit).bit = bit /\ At(cur, bit).base = base
    BY <1>1, AtIs
  <2>2. span(At(cur, bit), cur.bit)
          = [lo |-> base + mark \div 8, hi |-> base + (bit + 7) \div 8]
    <3>1. bit + 8 - 1 = bit + 7
      OBVIOUS
    <3>2. QED
      BY <1>1, <1>2, <2>1, <3>1 DEF span, BITS_PER_BYTE
  <2>3. QED
    BY <2>2 DEF Bytes
<1>4. (since .. base + (mark + 7) \div 8 - 1)
        \cup (base + mark \div 8 .. base + (bit + 7) \div 8 - 1)
        = since .. base + (bit + 7) \div 8 - 1
  <2>1. PICK low \in Nat, high \in Nat, end \in Nat :
          /\ low = mark \div 8 /\ high = (mark + 7) \div 8
          /\ end = (bit + 7) \div 8
    OBVIOUS
  <2>2. PICK ahead \in Nat : since = base + ahead
    <3>1. since - base \in Nat /\ since = base + (since - base)
      BY <1>2
    <3>2. QED
      BY <3>1
  <2>3. ahead * 8 <= mark /\ mark <= bit
    BY <1>2, <2>2
  <2>4. ahead <= low
    BY <2>1, <2>3
  <2>5. low <= high /\ high <= end
    BY <2>1, <2>3
  <2>6. (base + ahead .. base + high - 1) \cup (base + low .. base + end - 1)
          = base + ahead .. base + end - 1
    <3>1. ASSUME NEW o \in Int
          PROVE  /\ base + ahead <= o /\ o <= base + high - 1
                   => base + ahead <= o /\ o <= base + end - 1
                 /\ base + low <= o /\ o <= base + end - 1
                   => base + ahead <= o /\ o <= base + end - 1
                 /\ base + ahead <= o /\ o <= base + end - 1
                   => \/ base + ahead <= o /\ o <= base + high - 1
                      \/ base + low <= o /\ o <= base + end - 1
      BY <2>4, <2>5
    <3>2. QED
      BY <3>1
  <2>7. QED
    BY <2>1, <2>2, <2>6
<1>5. (since - base) * 8 <= bit
  BY <1>2
<1> DEFINE cited == claim.cited \cup Bytes(span(At(cur, bit), cur.bit))
           next  == [claim EXCEPT !.cited = cited]
<1>6. cited = since .. base + (bit + 7) \div 8 - 1
  BY <1>2, <1>3, <1>4
<1>7. next.since = since /\ next.cited = cited
  BY <1>1 DEF ClaimType
<1> HIDE DEF cited, next
<1>8. Claimed(At(cur, bit), next)
  BY <1>1, <1>2, <1>5, <1>6, <1>7, AtIs DEF Claimed
<1>9. QED
  BY <1>8 DEF next, cited

(* The bytes of a span are offsets of the stream.                          *)
LEMMA SpanIsNat ==
  ASSUME NEW cur \in CursorType, NEW mark \in Nat
  PROVE  Bytes(span(cur, mark)) \subseteq Nat
<1>1. PICK base \in Nat, bit \in Nat : base = cur.base /\ bit = cur.bit
  BY SizeIsNat
<1> DEFINE low == IF mark <= bit THEN mark ELSE bit
<1>2. span(cur, mark).lo = base + low \div 8
  BY <1>1 DEF span, BITS_PER_BYTE
<1>3. low \div 8 \in Nat
  OBVIOUS
<1> HIDE DEF low
<1>4. span(cur, mark).lo \in Nat
  BY <1>2, <1>3
<1>5. \A o \in Bytes(span(cur, mark)) : o \in Int /\ span(cur, mark).lo <= o
  BY DEF Bytes
<1>6. QED
  BY <1>4, <1>5

(* One cursor goes to a place inside its window, and what is cited of what *)
(* it went over is brought up to there.                                    *)
Goes(c, reading, claim) ==
  /\ Keeps(cursors[c], reading) /\ Move(c, reading)
  /\ claim \in ClaimType
  /\ claims' = [claims EXCEPT ![c] = claim]
  /\ Claimed(cursors[c], claims[c])
       => Claimed(At(cursors[c], reading.bit), claim)

(* Moving one cursor to a place inside its window keeps everything.        *)
LEMMA MoveKeeps ==
  ASSUME TypeOK, NEW c \in DOMAIN cursors, NEW reading, NEW claim,
         Goes(c, reading, claim)
  PROVE  /\ TypeOK'
         /\ DOMAIN cursors' = DOMAIN cursors
         /\ cursors'[c] = At(cursors[c], reading.bit) /\ claims'[c] = claim
         /\ \A d \in DOMAIN cursors :
              /\ cursors'[d].data = cursors[d].data
              /\ cursors'[d].base = cursors[d].base
              /\ d # c => cursors'[d] = cursors[d] /\ claims'[d] = claims[d]
<1> DEFINE moved == At(cursors[c], reading.bit)
<1>1. cursors \in Seq(CursorType) /\ cursors[c] \in CursorType
  BY DEF TypeOK
<1>2. reading.bit \in Nat /\ reading.bit <= size(cursors[c]) * BITS_PER_BYTE
  BY <1>1, SizeIsNat DEF Keeps, BITS_PER_BYTE, Goes
<1>3. /\ moved \in CursorType /\ moved.bit = reading.bit
      /\ moved.data = cursors[c].data /\ moved.base = cursors[c].base
  BY <1>1, <1>2, AtIs
<1>4. cursors' = [cursors EXCEPT ![c] = moved]
  BY DEF Move, Goes, At
<1>5. /\ cursors' \in Seq(CursorType)
      /\ DOMAIN cursors' = DOMAIN cursors /\ Len(cursors') = Len(cursors)
      /\ cursors'[c] = moved
      /\ \A d \in DOMAIN cursors \ {c} : cursors'[d] = cursors[d]
  <2> HIDE DEF moved
  <2>1. QED
    BY <1>1, <1>3, <1>4, ExceptSeq
<1>6. \A d \in DOMAIN cursors :
        /\ cursors'[d].data = cursors[d].data
        /\ cursors'[d].base = cursors[d].base
        /\ d # c => cursors'[d] = cursors[d]
  BY <1>3, <1>5
<1>7. \A d \in DOMAIN cursors : cursors'[d].bit <= size(cursors'[d]) * BITS_PER_BYTE
  <2>1. cursors'[c].bit <= size(cursors'[c]) * BITS_PER_BYTE
    BY <1>2, <1>3, <1>5 DEF size
  <2>2. QED
    BY <1>5, <2>1 DEF TypeOK
<1>8. /\ claims' \in Seq(ClaimType) /\ Len(claims') = Len(claims)
      /\ claims'[c] = claim
      /\ \A d \in DOMAIN cursors \ {c} : claims'[d] = claims[d]
  <2>1. /\ claims \in Seq(ClaimType) /\ Len(claims) = Len(cursors)
        /\ DOMAIN claims = DOMAIN cursors
    BY <1>1 DEF TypeOK
  <2>2. claim \in ClaimType /\ claims' = [claims EXCEPT ![c] = claim]
    BY DEF Goes
  <2>3. QED
    BY <2>1, <2>2, ExceptSeq
<1>9. TypeOK'
  BY <1>5, <1>7, <1>8 DEF TypeOK, Move, Goes
<1>10. QED
  BY <1>5, <1>6, <1>8, <1>9

(* A view's window is the stretch of its cursor's window it was asked for. *)
LEMMA ViewWindow ==
  ASSUME NEW cur \in CursorType, NEW start \in Nat, NEW end \in Nat,
         InWindow(cur, start, end)
  PROVE  /\ view(cur, start, end) \in CursorType
         /\ view(cur, start, end).bit = 0
         /\ view(cur, start, end).base = start
         /\ size(view(cur, start, end)) = end - start
         /\ \A i \in 1 .. end - start :
              view(cur, start, end).data[i] = cur.data[start - cur.base + i]
<1> DEFINE from == start - cur.base
           to   == end - cur.base
<1>1. cur.data \in Seq(0 .. 255) /\ cur.base \in Nat /\ size(cur) \in Nat
  BY SizeIsNat DEF CursorType
<1>2. from \in Nat /\ to \in Nat /\ from <= to /\ to <= Len(cur.data)
  BY <1>1 DEF InWindow, size
<1>3. Clipped(cur.data, from, to) = SubSeq(cur.data, from + 1, to)
  <2>1. (IF to < Len(cur.data) THEN to ELSE Len(cur.data)) = to
    BY <1>1, <1>2 DEF size
  <2>2. QED
    BY <2>1 DEF Clipped
<1>4. \A i \in from + 1 .. to : cur.data[i] \in 0 .. 255
  <2> HIDE DEF from, to
  <2>1. \A i \in from + 1 .. to : i \in 1 .. Len(cur.data)
    BY <1>1, <1>2 DEF size
  <2>2. QED
    BY <1>1, <2>1, ElementOfSeq
<1>5. /\ SubSeq(cur.data, from + 1, to) \in Seq(0 .. 255)
      /\ Len(SubSeq(cur.data, from + 1, to)) = to - from
      /\ \A i \in 1 .. to - from :
           SubSeq(cur.data, from + 1, to)[i] = cur.data[from + i]
  <2>1. /\ SubSeq(cur.data, from + 1, to) \in Seq(0 .. 255)
        /\ Len(SubSeq(cur.data, from + 1, to))
             = IF from + 1 <= to THEN to - (from + 1) + 1 ELSE 0
        /\ \A i \in 1 .. to - (from + 1) + 1 :
             SubSeq(cur.data, from + 1, to)[i] = cur.data[from + 1 + i - 1]
    <3>1. from + 1 \in Int /\ to \in Int
      BY <1>2
    <3> HIDE DEF from, to
    <3>2. QED
      BY <1>4, <3>1, SubSeqProperties
  <2>2. to - (from + 1) + 1 = to - from
    BY <1>2
  <2> HIDE DEF from, to
  <2>3. \A i \in 1 .. to - from : from + 1 + i - 1 = from + i
    BY <1>2
  <2>4. (IF from + 1 <= to THEN to - (from + 1) + 1 ELSE 0) = to - from
    BY <1>2
  <2>5. QED
    BY <2>1, <2>2, <2>3, <2>4
<1>6. to - from = end - start
  BY <1>1
<1>7. view(cur, start, end)
        = [data |-> SubSeq(cur.data, from + 1, to), base |-> start, bit |-> 0]
  BY <1>3 DEF view, New
<1> HIDE DEF from, to
<1>8. QED
  <2>1. view(cur, start, end) \in CursorType
    BY <1>5, <1>7 DEF CursorType
  <2>2. QED
    BY <1>5, <1>6, <1>7, <2>1 DEF size, from

LEMMA OffsetsAreNats == ASSUME TypeOK PROVE Offsets \subseteq Nat
<1>1. Base \in Nat /\ Len(run) \in Nat
  BY BaseAssumption, RunsAssumption DEF TypeOK
<1>2. QED
  BY <1>1 DEF Offsets

(* A read that is made or refused takes its cursor on, with its claims.    *)
LEMMA ReadGoes ==
  ASSUME TypeOK, NEW c \in DOMAIN cursors, NEW reading,
         Advances(cursors[c], reading), Read(c, reading)
  PROVE  \E claim : Goes(c, reading, claim)
<1>1. /\ cursors[c] \in CursorType /\ claims[c] \in ClaimType
      /\ claims \in Seq(ClaimType) /\ c \in DOMAIN claims
  BY DEF TypeOK
<1>2. /\ cursors[c].bit \in Nat /\ reading.bit \in Nat
      /\ cursors[c].bit <= reading.bit
      /\ Keeps(cursors[c], reading)
  BY <1>1, SizeIsNat DEF Advances, Keeps, BITS_PER_BYTE
<1>3. CASE reading.outcome # "ok"
  <2>1. reading.bit = cursors[c].bit
    BY <1>3 DEF Advances
  <2>2. At(cursors[c], reading.bit) = cursors[c]
    BY <1>1, <2>1 DEF At, CursorType
  <2>3. claims' = [claims EXCEPT ![c] = claims[c]]
    BY <1>1, <1>3 DEF Read
  <2>4. Goes(c, reading, claims[c])
    BY <1>1, <1>2, <2>2, <2>3 DEF Goes, Read
  <2>5. QED
    BY <2>4
<1>4. CASE reading.outcome = "ok"
  <2> DEFINE cited == Bytes(span(At(cursors[c], reading.bit), cursors[c].bit))
             claim == [claims[c] EXCEPT !.cited = @ \cup cited]
  <2>1. At(cursors[c], reading.bit) \in CursorType
    BY <1>1, <1>2, AtIs
  <2>2. cited \subseteq Nat
    BY <1>2, <2>1, SpanIsNat
  <2>3. claim \in ClaimType
    <3> HIDE DEF cited
    <3>1. QED
      BY <1>1, <2>2 DEF ClaimType
  <2>4. Claimed(cursors[c], claims[c])
          => Claimed(At(cursors[c], reading.bit), claim)
    BY <1>1, <1>2, CitesOn
  <2>5. claims' = [claims EXCEPT ![c].cited = @ \cup cited]
    BY <1>4 DEF Read, At
  <2>6. claims' = [claims EXCEPT ![c] = claim]
    BY <2>5
  <2> HIDE DEF claim
  <2>7. Goes(c, reading, claim)
    BY <1>2, <2>3, <2>4, <2>6 DEF Goes, Read
  <2>8. QED
    BY <2>7
<1>5. QED
  BY <1>3, <1>4

(* A cursor sent by an offset starts anew, where the offset's byte begins. *)
LEMMA SeekGoes ==
  ASSUME TypeOK, NEW c \in DOMAIN cursors, SeekTo(c)
  PROVE  \E reading, claim : Goes(c, reading, claim)
<1>1. PICK offset \in Offsets :
        LET sought == seek_to(cursors[c], offset)
        IN  /\ Move(c, sought)
            /\ claims' = IF sought.outcome # "ok" THEN claims
                         ELSE [claims EXCEPT ![c] = [since |-> offset, cited |-> {}]]
  BY DEF SeekTo
<1> DEFINE sought == seek_to(cursors[c], offset)
           opened == [since |-> offset, cited |-> {}]
<1>2. /\ cursors[c] \in CursorType /\ claims[c] \in ClaimType
      /\ claims \in Seq(ClaimType) /\ c \in DOMAIN claims
      /\ Inside(cursors[c])
  BY DEF TypeOK, Inside
<1>3. offset \in Nat
  BY OffsetsAreNats
<1>4. Keeps(cursors[c], sought)
  BY <1>2, <1>3, SeekKeeps
<1>5. CASE sought.outcome # "ok"
  <2>1. sought.bit = cursors[c].bit
    BY <1>5 DEF seek_to, seek, Reading, Refused
  <2>2. At(cursors[c], sought.bit) = cursors[c]
    BY <1>2, <2>1 DEF At, CursorType
  <2>3. claims' = [claims EXCEPT ![c] = claims[c]]
    BY <1>1, <1>2, <1>5
  <2> HIDE DEF sought
  <2>4. Goes(c, sought, claims[c])
    BY <1>1, <1>2, <1>4, <2>2, <2>3 DEF Goes, sought
  <2>5. QED
    BY <2>4
<1>6. CASE sought.outcome = "ok"
  <2>1. /\ sought.bit = (offset - cursors[c].base) * 8
        /\ (offset - cursors[c].base) * 8 \in 0 .. size(cursors[c]) * 8
    BY <1>6 DEF seek_to, seek, Reading, Refused, BITS_PER_BYTE
  <2>2. opened \in ClaimType
    BY <1>3 DEF ClaimType
  <2>3. Claimed(At(cursors[c], sought.bit), opened)
    <3>1. PICK base \in Nat : base = cursors[c].base
      BY <1>2, SizeIsNat
    <3>2. (offset - base) * 8 \in Nat /\ base <= offset
      BY <1>2, <1>3, <2>1, <3>1, SizeIsNat
    <3>3. PICK n \in Nat : n = offset - base
      BY <1>3, <3>1, <3>2
    <3>4. /\ At(cursors[c], sought.bit).bit = n * 8
          /\ At(cursors[c], sought.bit).base = base
      BY <1>2, <2>1, <3>1, <3>2, <3>3, AtIs
    <3>5. (n * 8 + 7) \div 8 = n /\ offset = base + n
      BY <1>3, <3>1, <3>3
    <3>6. offset .. base + (n * 8 + 7) \div 8 - 1 = {}
      BY <1>3, <3>1, <3>5
    <3>7. (offset - base) * 8 <= n * 8
      BY <3>3
    <3> HIDE DEF sought
    <3>8. QED
      BY <3>2, <3>4, <3>6, <3>7 DEF Claimed
  <2>4. claims' = [claims EXCEPT ![c] = opened]
    BY <1>1, <1>6
  <2> HIDE DEF sought, opened
  <2>5. Goes(c, sought, opened)
    BY <1>1, <1>4, <2>2, <2>3, <2>4 DEF Goes, sought
  <2>6. QED
    BY <2>5
<1>7. QED
  BY <1>5, <1>6

(* What aligning skips lies in a byte already cited.                       *)
LEMMA AlignGoes ==
  ASSUME TypeOK, NEW c \in DOMAIN cursors, Align(c)
  PROVE  \E reading, claim : Goes(c, reading, claim)
<1> DEFINE aligned == align(cursors[c])
<1>1. /\ cursors[c] \in CursorType /\ claims[c] \in ClaimType
      /\ claims \in Seq(ClaimType) /\ c \in DOMAIN claims
      /\ Inside(cursors[c])
  BY DEF TypeOK, Inside
<1>2. Keeps(cursors[c], aligned)
  BY <1>1, AlignKeeps
<1>3. PICK bit \in Nat, base \in Nat, since \in Nat :
        bit = cursors[c].bit /\ base = cursors[c].base /\ since = claims[c].since
  BY <1>1, SizeIsNat DEF ClaimType
<1>4. PICK to \in Nat : to = IF bit % 8 = 0 THEN bit + 0 ELSE bit + (8 - (bit % 8))
  OBVIOUS
<1>5. aligned.bit = to
  BY <1>3, <1>4 DEF align, Reading, BITS_PER_BYTE
<1>6. bit <= to /\ (to + 7) \div 8 = (bit + 7) \div 8
  BY <1>4
<1>7. /\ At(cursors[c], aligned.bit).bit = to
      /\ At(cursors[c], aligned.bit).base = base
  BY <1>1, <1>3, <1>5, AtIs
<1> HIDE DEF aligned
<1>8. Claimed(cursors[c], claims[c])
        => Claimed(At(cursors[c], aligned.bit), claims[c])
  <2> HAVE Claimed(cursors[c], claims[c])
  <2>1. /\ base <= since /\ (since - base) * 8 <= bit
        /\ claims[c].cited = since .. base + (bit + 7) \div 8 - 1
    BY <1>3 DEF Claimed
  <2>2. (since - base) * 8 <= to
    BY <1>6, <2>1
  <2>3. QED
    BY <1>3, <1>6, <1>7, <2>1, <2>2 DEF Claimed
<1>9. claims' = [claims EXCEPT ![c] = claims[c]]
  BY <1>1 DEF Align
<1>10. Goes(c, aligned, claims[c])
  BY <1>1, <1>2, <1>8, <1>9 DEF Goes, Align, aligned
<1>11. QED
  BY <1>10

(* Every action but View leaves one cursor inside its window.              *)
LEMMA MovesAre ==
  ASSUME TypeOK, NEW c \in DOMAIN cursors,
         \/ ReadBits(c) \/ ReadInt(c) \/ ReadBytes(c) \/ ReadRemaining(c)
         \/ SeekTo(c) \/ Align(c)
  PROVE  \E reading, claim : Goes(c, reading, claim)
<1>1. Inside(cursors[c])
  BY DEF TypeOK, Inside
<1> DEFINE Reads == \E reading : Advances(cursors[c], reading) /\ Read(c, reading)
<1>2. CASE ReadBits(c)
  <2>1. Reads
    BY <1>1, <1>2, ReadBitsKeeps, CountsAreInts DEF ReadBits
  <2>2. QED
    BY <2>1, ReadGoes
<1>3. CASE ReadInt(c)
  <2>1. Reads
    BY <1>1, <1>3, ReadIntKeeps DEF ReadInt
  <2>2. QED
    BY <2>1, ReadGoes
<1>4. CASE ReadBytes(c)
  <2>1. Reads
    BY <1>1, <1>4, ReadBytesKeeps, CountsAreInts DEF ReadBytes
  <2>2. QED
    BY <2>1, ReadGoes
<1>5. CASE ReadRemaining(c)
  <2>1. remaining_bytes(cursors[c]) \in Int
    BY <1>1, SizeIsNat DEF Inside, remaining_bytes, remaining_bits, BITS_PER_BYTE
  <2>2. Reads
    BY <1>1, <1>5, <2>1, ReadBytesKeeps DEF ReadRemaining
  <2>3. QED
    BY <2>2, ReadGoes
<1>6. CASE SeekTo(c)
  BY <1>6, SeekGoes
<1>7. CASE Align(c)
  BY <1>7, AlignGoes
<1>8. QED
  BY <1>2, <1>3, <1>4, <1>5, <1>6, <1>7

(* Opening a view adds one cursor and leaves the rest alone.               *)
LEMMA ViewAdds ==
  ASSUME TypeOK, WindowsOfTheRun, NEW c \in DOMAIN cursors, View(c)
  PROVE  /\ TypeOK' /\ WindowsOfTheRun'
         /\ ConsumedIsClaimed => ConsumedIsClaimed'
<1>1. PICK start, end \in Offsets :
        /\ InWindow(cursors[c], start, end)
        /\ cursors' = Append(cursors, view(cursors[c], start, end))
        /\ claims' = Append(claims, [since |-> start, cited |-> {}])
        /\ UNCHANGED run
  BY DEF View
<1> DEFINE opened == view(cursors[c], start, end)
<1>2. start \in Nat /\ end \in Nat
  BY OffsetsAreNats
<1>3. cursors \in Seq(CursorType) /\ cursors[c] \in CursorType
  BY DEF TypeOK
<1>4. /\ opened \in CursorType /\ opened.bit = 0 /\ opened.base = start
      /\ size(opened) = end - start
      /\ \A i \in 1 .. end - start :
           opened.data[i] = cursors[c].data[start - cursors[c].base + i]
  BY <1>1, <1>2, <1>3, ViewWindow
<1> HIDE DEF opened
<1>5. cursors' = Append(cursors, opened)
  BY <1>1 DEF opened
<1>6. /\ cursors' \in Seq(CursorType)
      /\ Len(cursors') = Len(cursors) + 1
      /\ \A d \in 1 .. Len(cursors) : cursors'[d] = cursors[d]
      /\ cursors'[Len(cursors) + 1] = opened
  BY <1>3, <1>4, <1>5, AppendProperties
<1>7. Len(cursors) \in Nat /\ DOMAIN cursors = 1 .. Len(cursors)
      /\ DOMAIN cursors' = 1 .. Len(cursors) + 1
  BY <1>3, <1>6
<1>8. /\ start <= end /\ cursors[c].base <= start
      /\ end <= cursors[c].base + size(cursors[c])
  BY <1>1 DEF InWindow
<1>9. opened.bit <= size(opened) * BITS_PER_BYTE
  BY <1>2, <1>4, <1>8 DEF BITS_PER_BYTE
<1> DEFINE claim == [since |-> start, cited |-> {}]
<1>10. /\ claims' \in Seq(ClaimType) /\ Len(claims') = Len(claims) + 1
       /\ \A d \in 1 .. Len(claims) : claims'[d] = claims[d]
       /\ claims'[Len(claims) + 1] = claim
  <2>1. claims \in Seq(ClaimType) /\ claim \in ClaimType
    BY <1>2 DEF TypeOK, ClaimType
  <2>2. claims' = Append(claims, claim)
    BY <1>1
  <2> HIDE DEF claim
  <2>3. QED
    BY <2>1, <2>2, AppendProperties
<1>11. Len(claims) = Len(cursors)
  BY DEF TypeOK
<1>12. TypeOK'
  BY <1>1, <1>6, <1>7, <1>9, <1>10, <1>11 DEF TypeOK
<1>13. Claimed(opened, claim)
  <2>1. start .. start + (0 + 7) \div 8 - 1 = {}
    BY <1>2
  <2>2. start <= start /\ (start - start) * 8 <= 0
    BY <1>2
  <2>3. QED
    BY <1>4, <2>1, <2>2 DEF Claimed
<1>14. ASSUME ConsumedIsClaimed PROVE ConsumedIsClaimed'
  <2> HIDE DEF claim
  <2>1. \A d \in 1 .. Len(cursors) : Claimed(cursors[d], claims[d])
    BY <1>7, <1>14 DEF ConsumedIsClaimed, Claimed
  <2>2. \A d \in 1 .. Len(cursors) + 1 : Claimed(cursors'[d], claims'[d])
    BY <1>6, <1>7, <1>10, <1>11, <1>13, <2>1
  <2>3. QED
    BY <1>7, <2>2 DEF ConsumedIsClaimed, Claimed
<1> DEFINE Stretch(cur) ==
             /\ Base <= cur.base
             /\ cur.base + size(cur) <= Base + Len(run)
             /\ \A i \in 1 .. size(cur) : cur.data[i] = run[cur.base - Base + i]
<1>15. \A d \in DOMAIN cursors : Stretch(cursors[d])
  BY DEF WindowsOfTheRun
<1>16. Stretch(opened)
  <2>1. /\ Base \in Nat /\ Len(run) \in Nat
        /\ cursors[c].base \in Nat /\ size(cursors[c]) \in Nat
    BY <1>3, SizeIsNat, BaseAssumption, RunsAssumption DEF TypeOK
  <2>2. /\ Base <= cursors[c].base
        /\ cursors[c].base + size(cursors[c]) <= Base + Len(run)
        /\ \A i \in 1 .. size(cursors[c]) :
             cursors[c].data[i] = run[cursors[c].base - Base + i]
    BY <1>15
  <2>3. ASSUME NEW i \in 1 .. size(opened)
        PROVE  opened.data[i] = run[opened.base - Base + i]
    <3>1. i \in 1 .. end - start
      BY <1>4
    <3>2. start - cursors[c].base + i \in 1 .. size(cursors[c])
      BY <1>2, <1>8, <2>1, <3>1
    <3>3. opened.data[i]
            = run[cursors[c].base - Base + (start - cursors[c].base + i)]
      BY <1>4, <2>2, <3>1, <3>2
    <3>4. cursors[c].base - Base + (start - cursors[c].base + i) = start - Base + i
      BY <1>2, <2>1, <3>1
    <3>5. QED
      BY <1>4, <3>3, <3>4
  <2>4. Base <= opened.base /\ opened.base + size(opened) <= Base + Len(run)
    BY <1>2, <1>4, <1>8, <2>1, <2>2
  <2>5. QED
    BY <2>3, <2>4
<1>17. \A d \in DOMAIN cursors' : Stretch(cursors'[d])
  BY <1>6, <1>7, <1>15, <1>16
<1>18. WindowsOfTheRun'
  BY <1>1, <1>17 DEF WindowsOfTheRun, size
<1>19. QED
  BY <1>12, <1>18, <1>14

(* Positions inside their windows, windows of the run and bytes claimed as *)
(* they are consumed: from the start, and after every step.                *)
LEMMA InitHolds == Init => TypeOK /\ WindowsOfTheRun /\ ConsumedIsClaimed
<1> SUFFICES ASSUME Init PROVE TypeOK /\ WindowsOfTheRun /\ ConsumedIsClaimed
  OBVIOUS
<1>1. run \in Seq(0 .. 255) /\ Base \in Nat /\ Len(run) \in Nat
  BY RunsAssumption, BaseAssumption DEF Init
<1>2. /\ New(run, Base) \in CursorType
      /\ [since |-> Base, cited |-> {}] \in ClaimType
  BY <1>1 DEF New, CursorType, ClaimType
<1>3. /\ cursors \in Seq(CursorType) /\ DOMAIN cursors = {1} /\ Len(cursors) = 1
      /\ cursors[1] = New(run, Base)
      /\ claims \in Seq(ClaimType) /\ Len(claims) = 1
      /\ claims[1] = [since |-> Base, cited |-> {}]
  BY <1>2 DEF Init
<1>4. /\ cursors[1].data = run /\ cursors[1].base = Base /\ cursors[1].bit = 0
  BY <1>3 DEF New
<1>5. TypeOK
  BY <1>1, <1>3, <1>4 DEF TypeOK, Init, size, BITS_PER_BYTE
<1>6. WindowsOfTheRun
  BY <1>1, <1>3, <1>4 DEF WindowsOfTheRun, size
<1>7. ConsumedIsClaimed
  <2>1. Base .. Base + (0 + 7) \div 8 - 1 = {}
    BY <1>1
  <2>2. Base <= Base /\ (Base - Base) * 8 <= 0
    BY <1>1
  <2>3. /\ cursors[1].base = Base /\ cursors[1].bit = 0
        /\ claims[1].since = Base /\ claims[1].cited = {}
    BY <1>3, <1>4
  <2>4. Claimed(cursors[1], claims[1])
    BY <2>1, <2>2, <2>3 DEF Claimed
  <2>5. QED
    BY <1>3, <2>4 DEF ConsumedIsClaimed, Claimed
<1>8. QED
  BY <1>5, <1>6, <1>7

LEMMA StepHolds ==
  ASSUME TypeOK, WindowsOfTheRun, [Next]_vars
  PROVE  /\ TypeOK' /\ WindowsOfTheRun'
         /\ ConsumedIsClaimed => ConsumedIsClaimed'
<1>1. CASE UNCHANGED vars
  BY <1>1 DEF vars, TypeOK, WindowsOfTheRun, ConsumedIsClaimed
<1>2. ASSUME NEW c \in DOMAIN cursors, View(c)
      PROVE  /\ TypeOK' /\ WindowsOfTheRun'
             /\ ConsumedIsClaimed => ConsumedIsClaimed'
  BY <1>2, ViewAdds
<1>3. ASSUME NEW c \in DOMAIN cursors, NEW reading, NEW claim,
             Goes(c, reading, claim)
      PROVE  /\ TypeOK' /\ WindowsOfTheRun'
             /\ ConsumedIsClaimed => ConsumedIsClaimed'
  <2>1. /\ TypeOK' /\ DOMAIN cursors' = DOMAIN cursors
        /\ cursors'[c] = At(cursors[c], reading.bit) /\ claims'[c] = claim
        /\ \A d \in DOMAIN cursors :
             /\ cursors'[d].data = cursors[d].data
             /\ cursors'[d].base = cursors[d].base
             /\ d # c => cursors'[d] = cursors[d] /\ claims'[d] = claims[d]
    BY <1>3, MoveKeeps
  <2>2. WindowsOfTheRun'
    BY <1>3, <2>1 DEF WindowsOfTheRun, size, Move, Goes
  <2>3. ASSUME ConsumedIsClaimed PROVE ConsumedIsClaimed'
    <3>1. \A d \in DOMAIN cursors : Claimed(cursors[d], claims[d])
      BY <2>3 DEF ConsumedIsClaimed, Claimed
    <3>2. Claimed(At(cursors[c], reading.bit), claim)
      BY <1>3, <3>1 DEF Goes
    <3>3. \A d \in DOMAIN cursors' : Claimed(cursors'[d], claims'[d])
      BY <2>1, <3>1, <3>2
    <3>4. QED
      BY <3>3 DEF ConsumedIsClaimed, Claimed
  <2>4. QED
    BY <2>1, <2>2, <2>3
<1>4. CASE Next
  <2>1. PICK c \in DOMAIN cursors :
          \/ ReadBits(c) \/ ReadInt(c) \/ ReadBytes(c) \/ ReadRemaining(c)
          \/ SeekTo(c) \/ Align(c) \/ View(c)
    BY <1>4 DEF Next
  <2>2. CASE View(c)
    BY <1>2, <2>2
  <2>3. CASE ~View(c)
    <3>1. PICK reading, claim : Goes(c, reading, claim)
      BY <2>1, <2>3, MovesAre
    <3>2. QED
      BY <1>3, <3>1
  <2>4. QED
    BY <2>2, <2>3
<1>5. QED
  BY <1>1, <1>4

(* Whatever is read, sought, aligned or opened, in whatever order, every   *)
(* position stays inside its cursor's window: no operation of              *)
(* kober.cursor.Cursor leaves one past the bytes it was given.             *)
THEOREM PositionsStayInside == Spec => []TypeOK
<1>1. Init => TypeOK /\ WindowsOfTheRun
  BY InitHolds
<1>2. TypeOK /\ WindowsOfTheRun /\ [Next]_vars => TypeOK' /\ WindowsOfTheRun'
  BY StepHolds
<1>3. QED
  BY <1>1, <1>2, PTL DEF Spec

(* A window opened on a window opened on the run, however deep, holds what *)
(* the run holds at the same stream offsets (Cursor.view).                 *)
THEOREM OffsetsStayAbsolute == Spec => []WindowsOfTheRun
<1>1. Init => TypeOK /\ WindowsOfTheRun
  BY InitHolds
<1>2. TypeOK /\ WindowsOfTheRun /\ [Next]_vars => TypeOK' /\ WindowsOfTheRun'
  BY StepHolds
<1>3. QED
  BY <1>1, <1>2, PTL DEF Spec

(* However reads of bits and of bytes, refused reads, alignments, seeks    *)
(* and views follow each other, every byte between where a cursor was last *)
(* put by an offset and where it stands has been cited by a read, and none *)
(* beyond: what kober.cursor promises of itself, that bytes can only be    *)
(* consumed by being claimed.                                              *)
THEOREM NothingConsumedUnclaimed == Spec => []ConsumedIsClaimed
<1>1. Init => TypeOK /\ WindowsOfTheRun /\ ConsumedIsClaimed
  BY InitHolds
<1>2. TypeOK /\ WindowsOfTheRun /\ ConsumedIsClaimed /\ [Next]_vars
        => TypeOK' /\ WindowsOfTheRun' /\ ConsumedIsClaimed'
  BY StepHolds
<1>3. QED
  BY <1>1, <1>2, PTL DEF Spec

-----------------------------------------------------------------------------
(***************************************************************************)
(* Values.  A number is read digit by digit, the most significant first:   *)
(* bits, or bytes in the order asked for.  That it is the sum its places   *)
(* stand for is by induction on its width.                                 *)
(***************************************************************************)
LEMMA PowersOfTwo == Weights(PowerOf2, 2)
<1> DEFINE Rec(f) == f = [n \in Nat |-> IF n = 0 THEN 1 ELSE 2 * f[n - 1]]
           None2(n) == [k \in 1 .. n |-> 0]
           Upto(n) == CHOOSE f : Follows(f, 1, 2, None2(n), n)
           F == [n \in Nat |-> Upto(n)[n]]
<1>1. \A n \in Nat : Follows(Upto(n), 1, 2, None2(n), n)
  <2> SUFFICES ASSUME NEW n \in Nat PROVE Follows(Upto(n), 1, 2, None2(n), n)
    OBVIOUS
  <2>1. None2(n) \in [1 .. n -> Int]
    OBVIOUS
  <2> HIDE DEF None2
  <2>2. \E f : Follows(f, 1, 2, None2(n), n)
    BY <2>1, SomeFollows
  <2> QED
    BY <2>2
<1> HIDE DEF Upto
<1>2. F \in [Nat -> Int] /\ F[0] = 1
  BY <1>1 DEF Follows
<1>3. ASSUME NEW n \in Nat PROVE F[n + 1] = 2 * F[n]
  <2> DEFINE f == Upto(n)
             h == Upto(n + 1)
  <2>1. Follows(f, 1, 2, None2(n), n) /\ Follows(h, 1, 2, None2(n + 1), n + 1)
    BY <1>1
  <2>2. h[0] = 1 /\ \A k \in 1 .. n + 1 : h[k] = 2 * h[k - 1]
    <3> HIDE DEF h
    <3>1. \A k \in 1 .. n + 1 : h[k] = 2 * h[k - 1] + 0 /\ h[k - 1] \in Int
      BY <2>1 DEF Follows
    <3> QED
      BY <2>1, <3>1 DEF Follows
  <2>3. \A k \in 1 .. n : h[k - 1] \in Int => h[k] = 2 * h[k - 1] + None2(n)[k]
    BY <2>2
  <2> HIDE DEF f, h, None2
  <2>4. \A k \in 0 .. n : h[k] = f[k]
    BY <2>1, <2>2, <2>3, OneFollows
  <2>5. h[n + 1] = 2 * h[n]
    <3>1. n + 1 \in 1 .. n + 1 /\ n + 1 - 1 = n
      OBVIOUS
    <3> QED
      BY <2>2, <3>1
  <2> QED
    BY <2>4, <2>5 DEF f, h
<1>4. Rec(F)
  <2> HIDE DEF F
  <2>1. \A n \in Nat : F[n] = IF n = 0 THEN 1 ELSE 2 * F[n - 1]
    <3> SUFFICES ASSUME NEW n \in Nat, n # 0 PROVE F[n] = 2 * F[n - 1]
      BY <1>2
    <3>1. n - 1 \in Nat /\ (n - 1) + 1 = n
      OBVIOUS
    <3> QED
      BY <1>3, <3>1
  <2>2. F = [n \in Nat |-> F[n]]
    BY <1>2
  <2> QED
    BY <2>1, <2>2
<1>5. Rec(PowerOf2)
  <2>1. PowerOf2 = CHOOSE f : Rec(f)
    BY DEF PowerOf2
  <2> HIDE DEF Rec, F
  <2> QED
    BY <1>4, <2>1
<1>6. PowerOf2[0] = 1 /\ \A n \in Nat : PowerOf2[n + 1] = 2 * PowerOf2[n]
  BY <1>5
<1> DEFINE S == {n \in Nat : PowerOf2[n] \in Nat \ {0}}
<1>7. Nat \subseteq S
  <2>1. 0 \in S
    BY <1>6
  <2>2. ASSUME NEW n \in Nat, n \in S PROVE n + 1 \in S
    BY <1>6, <2>2
  <2> HIDE DEF S
  <2> QED
    BY <2>1, <2>2, SetInduction
<1>8. PowerOf2 \in [Nat -> Nat \ {0}]
  <2>1. PowerOf2 = [n \in Nat |-> PowerOf2[n]]
    BY <1>5
  <2> QED
    BY <1>7, <2>1
<1> QED
  BY <1>6, <1>8 DEF Weights

(* The bytes of a number weigh the powers of 256.                          *)
LEMMA ByteWeights == Weights([k \in Nat |-> PowerOf2[8 * k]], 256)
<1> DEFINE W == [k \in Nat |-> PowerOf2[8 * k]]
<1>1. \A n \in Nat : PowerOf2[n] \in Nat \ {0} /\ PowerOf2[n + 1] = 2 * PowerOf2[n]
  BY PowersOfTwo DEF Weights
<1>2. W \in [Nat -> Nat \ {0}]
  BY <1>1
<1>3. W[0] = 1
  BY PowersOfTwo DEF Weights
<1>4. ASSUME NEW k \in Nat PROVE W[k + 1] = 256 * W[k]
  <2>1. \A n \in Nat : PowerOf2[n + 2] = 4 * PowerOf2[n]
    <3> TAKE n \in Nat
    <3>1. n + 1 \in Nat /\ n + 1 + 1 = n + 2
      OBVIOUS
    <3> QED
      BY <1>1, <3>1
  <2>2. \A n \in Nat : PowerOf2[n + 4] = 16 * PowerOf2[n]
    <3> TAKE n \in Nat
    <3>1. n + 2 \in Nat /\ n + 2 + 2 = n + 4
      OBVIOUS
    <3> QED
      BY <1>1, <2>1, <3>1
  <2>3. \A n \in Nat : PowerOf2[n + 8] = 256 * PowerOf2[n]
    <3> TAKE n \in Nat
    <3>1. n + 4 \in Nat /\ n + 4 + 4 = n + 8
      OBVIOUS
    <3> QED
      BY <1>1, <2>2, <3>1
  <2>4. 8 * (k + 1) = 8 * k + 8 /\ 8 * k \in Nat
    OBVIOUS
  <2> QED
    BY <2>3, <2>4
<1> QED
  BY <1>2, <1>3, <1>4 DEF Weights

LEMMA SmallPowers ==
  /\ PowerOf2[0] = 1 /\ PowerOf2[1] = 2 /\ PowerOf2[2] = 4 /\ PowerOf2[3] = 8
  /\ PowerOf2[4] = 16 /\ PowerOf2[5] = 32 /\ PowerOf2[6] = 64 /\ PowerOf2[7] = 128
<1>1. /\ PowerOf2[0] = 1 /\ PowerOf2[0 + 1] = 2 * PowerOf2[0]
      /\ PowerOf2[1 + 1] = 2 * PowerOf2[1] /\ PowerOf2[2 + 1] = 2 * PowerOf2[2]
      /\ PowerOf2[3 + 1] = 2 * PowerOf2[3] /\ PowerOf2[4 + 1] = 2 * PowerOf2[4]
      /\ PowerOf2[5 + 1] = 2 * PowerOf2[5] /\ PowerOf2[6 + 1] = 2 * PowerOf2[6]
  BY PowersOfTwo DEF Weights
<1> QED
  BY <1>1

(* A bit inside the data is 0 or 1, and a byte is what its bits say.       *)
LEMMA BitIsBit ==
  ASSUME NEW data \in Seq(0 .. 255), NEW k \in Nat, k < Len(data) * 8
  PROVE  BitAt(data, k) \in 0 .. 1
<1>1. k \div 8 + 1 \in 1 .. Len(data) /\ k % 8 \in 0 .. 7
  OBVIOUS
<1>2. data[k \div 8 + 1] \in 0 .. 255
  BY <1>1, ElementOfSeq
<1>3. PICK p \in Nat \ {0} : p = PowerOf2[8 - 1 - (k % 8)]
  <2>1. 8 - 1 - (k % 8) \in Nat
    BY <1>1
  <2> QED
    BY <2>1, PowersOfTwo DEF Weights
<1>4. PICK x \in 0 .. 255 : x = data[k \div 8 + 1]
  BY <1>2
<1>5. (x \div p) % 2 \in 0 .. 1
  <2>1. x \div p \in Int
    OBVIOUS
  <2> QED
    BY <2>1
<1> QED
  BY <1>3, <1>4, <1>5 DEF BitAt, BITS_PER_BYTE

(* A byte is the number its eight bits spell, each taken out by a shift.   *)
LEMMA ByteIsItsBits ==
  \A x \in 0 .. 255 :
    x = 128 * ((x \div 128) % 2) + 64 * ((x \div 64) % 2)
        + 32 * ((x \div 32) % 2) + 16 * ((x \div 16) % 2)
        + 8 * ((x \div 8) % 2) + 4 * ((x \div 4) % 2)
        + 2 * ((x \div 2) % 2) + ((x \div 1) % 2)
<1>1. \A x \in 0 .. 255 : x \div 1 = x
  OBVIOUS
<1>2. \A x \in 0 .. 255 :
        x = 128 * ((x \div 128) % 2) + 64 * ((x \div 64) % 2)
            + 32 * ((x \div 32) % 2) + 16 * ((x \div 16) % 2)
            + 8 * ((x \div 8) % 2) + 4 * ((x \div 4) % 2)
            + 2 * ((x \div 2) % 2) + (x % 2)
  OBVIOUS
<1> QED
  BY <1>1, <1>2

LEMMA ByteOfItsBits ==
  ASSUME NEW data \in Seq(0 .. 255), NEW q \in Nat, q < Len(data)
  PROVE  data[q + 1] = 128 * BitAt(data, 8 * q) + 64 * BitAt(data, 8 * q + 1)
                       + 32 * BitAt(data, 8 * q + 2) + 16 * BitAt(data, 8 * q + 3)
                       + 8 * BitAt(data, 8 * q + 4) + 4 * BitAt(data, 8 * q + 5)
                       + 2 * BitAt(data, 8 * q + 6) + BitAt(data, 8 * q + 7)
<1>1. q + 1 \in 1 .. Len(data)
  OBVIOUS
<1>2. PICK x \in 0 .. 255 : x = data[q + 1]
  BY <1>1, ElementOfSeq
<1>3. \A r \in 0 .. 7 : (8 * q + r) \div 8 = q /\ (8 * q + r) % 8 = r
  OBVIOUS
<1>4. \A r \in 0 .. 7 : BitAt(data, 8 * q + r) = (x \div PowerOf2[7 - r]) % 2
  <2> TAKE r \in 0 .. 7
  <2>1. 8 - 1 - r = 7 - r
    OBVIOUS
  <2> QED
    BY <1>2, <1>3, <2>1 DEF BitAt, BITS_PER_BYTE
<1>5. BitAt(data, 8 * q) = (x \div 128) % 2
  <2>1. BitAt(data, 8 * q + 0) = (x \div PowerOf2[7 - 0]) % 2
    BY <1>4
  <2>2. 8 * q + 0 = 8 * q /\ 7 - 0 = 7
    OBVIOUS
  <2> QED
    BY <2>1, <2>2, SmallPowers
<1>6. BitAt(data, 8 * q + 1) = (x \div 64) % 2
  <2>1. BitAt(data, 8 * q + 1) = (x \div PowerOf2[7 - 1]) % 2
    BY <1>4
  <2>2. 7 - 1 = 6
    OBVIOUS
  <2> QED
    BY <2>1, <2>2, SmallPowers
<1>7. BitAt(data, 8 * q + 2) = (x \div 32) % 2
  <2>1. BitAt(data, 8 * q + 2) = (x \div PowerOf2[7 - 2]) % 2
    BY <1>4
  <2>2. 7 - 2 = 5
    OBVIOUS
  <2> QED
    BY <2>1, <2>2, SmallPowers
<1>8. BitAt(data, 8 * q + 3) = (x \div 16) % 2
  <2>1. BitAt(data, 8 * q + 3) = (x \div PowerOf2[7 - 3]) % 2
    BY <1>4
  <2>2. 7 - 3 = 4
    OBVIOUS
  <2> QED
    BY <2>1, <2>2, SmallPowers
<1>9. BitAt(data, 8 * q + 4) = (x \div 8) % 2
  <2>1. BitAt(data, 8 * q + 4) = (x \div PowerOf2[7 - 4]) % 2
    BY <1>4
  <2>2. 7 - 4 = 3
    OBVIOUS
  <2> QED
    BY <2>1, <2>2, SmallPowers
<1>10. BitAt(data, 8 * q + 5) = (x \div 4) % 2
  <2>1. BitAt(data, 8 * q + 5) = (x \div PowerOf2[7 - 5]) % 2
    BY <1>4
  <2>2. 7 - 5 = 2
    OBVIOUS
  <2> QED
    BY <2>1, <2>2, SmallPowers
<1>11. BitAt(data, 8 * q + 6) = (x \div 2) % 2
  <2>1. BitAt(data, 8 * q + 6) = (x \div PowerOf2[7 - 6]) % 2
    BY <1>4
  <2>2. 7 - 6 = 1
    OBVIOUS
  <2> QED
    BY <2>1, <2>2, SmallPowers
<1>12. BitAt(data, 8 * q + 7) = (x \div 1) % 2
  <2>1. BitAt(data, 8 * q + 7) = (x \div PowerOf2[7 - 7]) % 2
    BY <1>4
  <2>2. 7 - 7 = 0
    OBVIOUS
  <2> QED
    BY <2>1, <2>2, SmallPowers
<1> QED
  BY <1>2, <1>5, <1>6, <1>7, <1>8, <1>9, <1>10, <1>11, <1>12, ByteIsItsBits

(* Each of the recursive definitions computes what it says.                *)
LEMMA BitsFollow ==
  ASSUME NEW data, NEW bit \in Nat, NEW count \in Nat,
         NEW g \in [1 .. count -> Int],
         \A k \in 1 .. count : g[k] = BitAt(data, bit + k - 1)
  PROVE  \E f : Follows(f, 0, 2, g, count) /\ BitsValue(data, bit, count) = f[count]
<1> DEFINE Rec(f) == f = [k \in 0 .. count |-> IF k = 0 THEN 0 ELSE 2 * f[k - 1] + BitAt(data, bit + k - 1)]
           value == CHOOSE f : Rec(f)
<1>1. PICK f : Follows(f, 0, 2, g, count)
  BY SomeFollows
<1>2. Rec(f)
  <2>1. \A k \in 0 .. count : f[k] = IF k = 0 THEN 0 ELSE 2 * f[k - 1] + BitAt(data, bit + k - 1)
    BY <1>1 DEF Follows
  <2>2. f = [k \in 0 .. count |-> f[k]]
    BY <1>1 DEF Follows
  <2> QED
    BY <2>1, <2>2
<1>3. Rec(value)
  <2> HIDE DEF Rec
  <2> QED
    BY <1>2
<1>4. BitsValue(data, bit, count) = value[count]
  BY DEF BitsValue
<1> HIDE DEF value
<1>5. /\ value[0] = 0
      /\ \A k \in 1 .. count : value[k - 1] \in Int => value[k] = 2 * value[k - 1] + g[k]
  BY <1>3
<1>6. \A k \in 0 .. count : value[k] = f[k]
  BY <1>1, <1>5, OneFollows
<1> QED
  BY <1>1, <1>4, <1>6

(* The value of bytes, read in either order, follows the recurrence of its *)
(* digits.                                                                 *)
LEMMA BytesFollow ==
  ASSUME NEW bytes, NEW endian, Len(bytes) \in Nat,
         NEW g \in [1 .. Len(bytes) -> Int],
         \A k \in 1 .. Len(bytes) :
            g[k] = bytes[IF endian = "big" THEN k ELSE Len(bytes) + 1 - k]
  PROVE  \E f : Follows(f, 0, 256, g, Len(bytes)) /\ BytesValue(bytes, endian) = f[Len(bytes)]
<1> DEFINE Rec(f) == f = [k \in 0 .. Len(bytes) |-> IF k = 0 THEN 0 ELSE 256 * f[k - 1] + bytes[IF endian = "big" THEN k ELSE Len(bytes) + 1 - k]]
           value == CHOOSE f : Rec(f)
<1>1. PICK f : Follows(f, 0, 256, g, Len(bytes))
  BY SomeFollows
<1>2. Rec(f)
  <2>1. \A k \in 0 .. Len(bytes) : f[k] = IF k = 0 THEN 0 ELSE 256 * f[k - 1] + bytes[IF endian = "big" THEN k ELSE Len(bytes) + 1 - k]
    BY <1>1 DEF Follows
  <2>2. f = [k \in 0 .. Len(bytes) |-> f[k]]
    BY <1>1 DEF Follows
  <2> QED
    BY <2>1, <2>2
<1>3. Rec(value)
  <2> HIDE DEF Rec
  <2> QED
    BY <1>2
<1>4. BytesValue(bytes, endian) = value[Len(bytes)]
  BY DEF BytesValue
<1> HIDE DEF value
<1>5. /\ value[0] = 0
      /\ \A k \in 1 .. Len(bytes) : value[k - 1] \in Int => value[k] = 256 * value[k - 1] + g[k]
  BY <1>3
<1>6. \A k \in 0 .. Len(bytes) : value[k] = f[k]
  <2>1. PICK m \in Nat : m = Len(bytes)
    OBVIOUS
  <2>2. Follows(f, 0, 256, g, m)
    BY <1>1, <2>1
  <2>3. \A k \in 1 .. m : value[k - 1] \in Int => value[k] = 256 * value[k - 1] + g[k]
    BY <1>5, <2>1
  <2>4. \A k \in 0 .. m : value[k] = f[k]
    BY <1>5, <2>2, <2>3, OneFollows
  <2> QED
    BY <2>1, <2>4
<1> QED
  BY <1>1, <1>4, <1>6

(* So do the reference values, which count from the other end.             *)
LEMMA BigEndianFollows ==
  ASSUME NEW at \in Nat, NEW bits \in Nat, NEW g \in [1 .. bits -> Int],
         \A k \in 1 .. bits : g[k] = BitAt(run, at + bits - k) * PowerOf2[k - 1]
  PROVE  \E f : Follows(f, 0, 1, g, bits) /\ BigEndian(at, bits) = f[bits]
<1> DEFINE Rec(f) == f = [k \in 0 .. bits |-> IF k = 0 THEN 0 ELSE f[k - 1] + BitAt(run, at + bits - k) * PowerOf2[k - 1]]
           value == CHOOSE f : Rec(f)
<1>1. PICK f : Follows(f, 0, 1, g, bits)
  BY SomeFollows
<1>2. Rec(f)
  <2>1. \A k \in 0 .. bits : f[k] = IF k = 0 THEN 0 ELSE f[k - 1] + BitAt(run, at + bits - k) * PowerOf2[k - 1]
    BY <1>1 DEF Follows
  <2>2. f = [k \in 0 .. bits |-> f[k]]
    BY <1>1 DEF Follows
  <2> QED
    BY <2>1, <2>2
<1>3. Rec(value)
  <2> HIDE DEF Rec
  <2> QED
    BY <1>2
<1>4. BigEndian(at, bits) = value[bits]
  BY DEF BigEndian
<1> HIDE DEF value
<1>5. /\ value[0] = 0
      /\ \A k \in 1 .. bits : value[k - 1] \in Int => value[k] = 1 * value[k - 1] + g[k]
  <2>1. value[0] = 0
    BY <1>3
  <2>2. ASSUME NEW k \in 1 .. bits, value[k - 1] \in Int
        PROVE  value[k] = 1 * value[k - 1] + g[k]
    <3>1. value[k] = value[k - 1] + BitAt(run, at + bits - k) * PowerOf2[k - 1]
      BY <1>3
    <3>2. g[k] = BitAt(run, at + bits - k) * PowerOf2[k - 1]
      OBVIOUS
    <3>3. value[k] = value[k - 1] + g[k]
      BY <3>1, <3>2
    <3> QED
      BY <2>2, <3>3
  <2> QED
    BY <2>1, <2>2
<1>6. \A k \in 0 .. bits : value[k] = f[k]
  <2> HIDE DEF Rec
  <2>1. PICK a \in Int : a = 1
    OBVIOUS
  <2>2. /\ Follows(f, 0, a, g, bits)
        /\ \A k \in 1 .. bits : value[k - 1] \in Int => value[k] = a * value[k - 1] + g[k]
    BY <1>1, <1>5, <2>1
  <2> QED
    BY <1>5, <2>2, OneFollows
<1> QED
  BY <1>1, <1>4, <1>6

LEMMA SwappedFollows ==
  ASSUME NEW at \in Nat, NEW bits \in Nat, NEW g \in [1 .. bits \div 8 -> Int],
         \A k \in 1 .. bits \div 8 : g[k] = run[at \div 8 + k] * PowerOf2[8 * (k - 1)]
  PROVE  \E f : Follows(f, 0, 1, g, (bits \div 8)) /\ Swapped(at, bits) = f[(bits \div 8)]
<1> DEFINE Rec(f) == f = [k \in 0 .. (bits \div 8) |-> IF k = 0 THEN 0 ELSE f[k - 1] + run[at \div 8 + k] * PowerOf2[8 * (k - 1)]]
           value == CHOOSE f : Rec(f)
<1>1. PICK f : Follows(f, 0, 1, g, (bits \div 8))
  BY SomeFollows
<1>2. Rec(f)
  <2>1. \A k \in 0 .. (bits \div 8) : f[k] = IF k = 0 THEN 0 ELSE f[k - 1] + run[at \div 8 + k] * PowerOf2[8 * (k - 1)]
    BY <1>1 DEF Follows
  <2>2. f = [k \in 0 .. (bits \div 8) |-> f[k]]
    BY <1>1 DEF Follows
  <2> QED
    BY <2>1, <2>2
<1>3. Rec(value)
  <2> HIDE DEF Rec
  <2> QED
    BY <1>2
<1>4. Swapped(at, bits) = value[(bits \div 8)]
  BY DEF Swapped
<1> HIDE DEF value
<1>5. /\ value[0] = 0
      /\ \A k \in 1 .. (bits \div 8) : value[k - 1] \in Int => value[k] = 1 * value[k - 1] + g[k]
  BY <1>3
<1>6. \A k \in 0 .. (bits \div 8) : value[k] = f[k]
  <2> HIDE DEF Rec
  <2>1. PICK m \in Nat : m = bits \div 8
    OBVIOUS
  <2>2. PICK a \in Int : a = 1
    OBVIOUS
  <2>3. /\ Follows(f, 0, a, g, m)
        /\ \A k \in 1 .. m : value[k - 1] \in Int => value[k] = a * value[k - 1] + g[k]
    BY <1>1, <1>5, <2>1, <2>2
  <2>4. \A k \in 0 .. m : value[k] = f[k]
    BY <1>5, <2>3, OneFollows
  <2> QED
    BY <2>1, <2>4
<1> QED
  BY <1>1, <1>4, <1>6

(* A numeral of bytes is the numeral of their bits.                        *)
LEMMA BytesAreBits ==
  ASSUME NEW m \in Nat, NEW g \in [1 .. 8 * m -> Int], NEW bytes \in [1 .. m -> Int],
         \A k \in 0 .. m - 1 :
            bytes[k + 1] = 128 * g[8 * k + 1] + 64 * g[8 * k + 2] + 32 * g[8 * k + 3]
                           + 16 * g[8 * k + 4] + 8 * g[8 * k + 5] + 4 * g[8 * k + 6]
                           + 2 * g[8 * k + 7] + g[8 * k + 8],
         NEW f, Follows(f, 0, 2, g, 8 * m),
         NEW h, Follows(h, 0, 256, bytes, m)
  PROVE  h[m] = f[8 * m]
<1> DEFINE S == {i \in Nat : i <= m => h[i] = f[8 * i]}
<1>1. 0 \in S
  BY DEF Follows
<1>2. ASSUME NEW i \in Nat, i \in S PROVE i + 1 \in S
  <2> SUFFICES ASSUME i + 1 <= m PROVE h[i + 1] = f[8 * (i + 1)]
    OBVIOUS
  <2>1. h[i] = f[8 * i]
    BY <1>2
  <2>2. h[i + 1] = 256 * h[i] + bytes[i + 1]
    <3>1. i + 1 \in 1 .. m /\ i + 1 - 1 = i
      OBVIOUS
    <3> QED
      BY <3>1 DEF Follows
  <2>3. ASSUME NEW r \in 1 .. 8
        PROVE  /\ f[8 * i + r] = 2 * f[8 * i + (r - 1)] + g[8 * i + r]
               /\ f[8 * i + (r - 1)] \in Int /\ g[8 * i + r] \in Int
    <3>1. /\ 8 * i + r \in 1 .. 8 * m /\ 8 * i + r - 1 = 8 * i + (r - 1)
          /\ 8 * i + (r - 1) \in 0 .. 8 * m
      OBVIOUS
    <3>2. f[8 * i + r] = 2 * f[8 * i + r - 1] + g[8 * i + r]
      BY <3>1 DEF Follows
    <3>3. f[8 * i + (r - 1)] \in Int
      BY <3>1 DEF Follows
    <3>4. g[8 * i + r] \in Int
      BY <3>1
    <3> QED
      BY <3>1, <3>2, <3>3, <3>4
  <2>4. f[8 * i] \in Int
    <3>1. 8 * i \in 0 .. 8 * m
      OBVIOUS
    <3> QED
      BY <3>1 DEF Follows
  <2>5. PICK a \in Int : /\ a = g[8 * i + 1]
                       /\ f[8 * i + 1] = 2 * f[8 * i] + a
    <3>1. 1 \in 1 .. 8
      OBVIOUS
    <3>2. /\ f[8 * i + 1] = 2 * f[8 * i + (1 - 1)] + g[8 * i + 1]
          /\ g[8 * i + 1] \in Int
      BY <2>3, <3>1
    <3>3. 8 * i + (1 - 1) = 8 * i
      OBVIOUS
    <3> QED
      BY <3>2, <3>3
  <2>6. PICK b \in Int : /\ b = g[8 * i + 2]
                       /\ f[8 * i + 2] = 2 * f[8 * i + 1] + b
    <3>1. 2 \in 1 .. 8
      OBVIOUS
    <3>2. /\ f[8 * i + 2] = 2 * f[8 * i + (2 - 1)] + g[8 * i + 2]
          /\ g[8 * i + 2] \in Int
      BY <2>3, <3>1
    <3>3. 8 * i + (2 - 1) = 8 * i + 1
      OBVIOUS
    <3> QED
      BY <3>2, <3>3
  <2>7. PICK c \in Int : /\ c = g[8 * i + 3]
                       /\ f[8 * i + 3] = 2 * f[8 * i + 2] + c
    <3>1. 3 \in 1 .. 8
      OBVIOUS
    <3>2. /\ f[8 * i + 3] = 2 * f[8 * i + (3 - 1)] + g[8 * i + 3]
          /\ g[8 * i + 3] \in Int
      BY <2>3, <3>1
    <3>3. 8 * i + (3 - 1) = 8 * i + 2
      OBVIOUS
    <3> QED
      BY <3>2, <3>3
  <2>8. PICK d \in Int : /\ d = g[8 * i + 4]
                       /\ f[8 * i + 4] = 2 * f[8 * i + 3] + d
    <3>1. 4 \in 1 .. 8
      OBVIOUS
    <3>2. /\ f[8 * i + 4] = 2 * f[8 * i + (4 - 1)] + g[8 * i + 4]
          /\ g[8 * i + 4] \in Int
      BY <2>3, <3>1
    <3>3. 8 * i + (4 - 1) = 8 * i + 3
      OBVIOUS
    <3> QED
      BY <3>2, <3>3
  <2>9. PICK p \in Int : /\ p = g[8 * i + 5]
                       /\ f[8 * i + 5] = 2 * f[8 * i + 4] + p
    <3>1. 5 \in 1 .. 8
      OBVIOUS
    <3>2. /\ f[8 * i + 5] = 2 * f[8 * i + (5 - 1)] + g[8 * i + 5]
          /\ g[8 * i + 5] \in Int
      BY <2>3, <3>1
    <3>3. 8 * i + (5 - 1) = 8 * i + 4
      OBVIOUS
    <3> QED
      BY <3>2, <3>3
  <2>10. PICK q \in Int : /\ q = g[8 * i + 6]
                       /\ f[8 * i + 6] = 2 * f[8 * i + 5] + q
    <3>1. 6 \in 1 .. 8
      OBVIOUS
    <3>2. /\ f[8 * i + 6] = 2 * f[8 * i + (6 - 1)] + g[8 * i + 6]
          /\ g[8 * i + 6] \in Int
      BY <2>3, <3>1
    <3>3. 8 * i + (6 - 1) = 8 * i + 5
      OBVIOUS
    <3> QED
      BY <3>2, <3>3
  <2>11. PICK r \in Int : /\ r = g[8 * i + 7]
                       /\ f[8 * i + 7] = 2 * f[8 * i + 6] + r
    <3>1. 7 \in 1 .. 8
      OBVIOUS
    <3>2. /\ f[8 * i + 7] = 2 * f[8 * i + (7 - 1)] + g[8 * i + 7]
          /\ g[8 * i + 7] \in Int
      BY <2>3, <3>1
    <3>3. 8 * i + (7 - 1) = 8 * i + 6
      OBVIOUS
    <3> QED
      BY <3>2, <3>3
  <2>12. PICK s \in Int : /\ s = g[8 * i + 8]
                       /\ f[8 * i + 8] = 2 * f[8 * i + 7] + s
    <3>1. 8 \in 1 .. 8
      OBVIOUS
    <3>2. /\ f[8 * i + 8] = 2 * f[8 * i + (8 - 1)] + g[8 * i + 8]
          /\ g[8 * i + 8] \in Int
      BY <2>3, <3>1
    <3>3. 8 * i + (8 - 1) = 8 * i + 7
      OBVIOUS
    <3> QED
      BY <3>2, <3>3
  <2>13. f[8 * i + 8] = 256 * f[8 * i] + bytes[i + 1]
    <3>1. bytes[i + 1] = 128 * a + 64 * b + 32 * c + 16 * d + 8 * p + 4 * q + 2 * r + s
      BY <2>5, <2>6, <2>7, <2>8, <2>9, <2>10, <2>11, <2>12
    <3>2. PICK x \in Int : x = f[8 * i]
      BY <2>4
    <3>3. PICK y \in Int : y = 16 * x + 8 * a + 4 * b + 2 * c + d
      OBVIOUS
    <3>4. f[8 * i + 4] = y
      <4>1. f[8 * i + 2] = 4 * x + 2 * a + b
        <5>1. f[8 * i + 1] = 2 * x + a
          BY <2>5, <3>2
        <5> QED
          BY <2>6, <5>1
      <4>2. f[8 * i + 3] = 8 * x + 4 * a + 2 * b + c
        BY <2>7, <4>1
      <4> QED
        BY <2>8, <3>3, <4>2
    <3>5. f[8 * i + 8] = 16 * y + 8 * p + 4 * q + 2 * r + s
      <4>1. f[8 * i + 6] = 4 * y + 2 * p + q
        BY <2>9, <2>10, <3>4
      <4>2. f[8 * i + 7] = 8 * y + 4 * p + 2 * q + r
        BY <2>11, <4>1
      <4> QED
        BY <2>12, <4>2
    <3>6. PICK z \in Int : /\ z = 128 * a + 64 * b + 32 * c + 16 * d
                               + 8 * p + 4 * q + 2 * r + s
                           /\ z = bytes[i + 1]
      BY <3>1
    <3>7. f[8 * i + 8] = 256 * x + z
      BY <3>3, <3>5, <3>6
    <3> QED
      BY <3>2, <3>6, <3>7
  <2>14. 8 * i + 8 = 8 * (i + 1)
    OBVIOUS
  <2> QED
    BY <2>1, <2>2, <2>13, <2>14
<1>3. Nat \subseteq S
  <2> HIDE DEF S
  <2> QED
    BY <1>1, <1>2, SetInduction
<1> QED
  BY <1>3

(* A cursor whose window is a stretch of the run, and a read that fits it. *)
Stretch(cur) ==
  /\ Inside(cur)
  /\ Base <= cur.base
  /\ cur.base + size(cur) <= Base + Len(run)
  /\ \A i \in 1 .. size(cur) : cur.data[i] = run[cur.base - Base + i]

Fits(cur, n) == cur.bit + n <= size(cur) * 8

LEMMA StretchOf ==
  ASSUME TypeOK, WindowsOfTheRun, NEW c \in DOMAIN cursors
  PROVE  Stretch(cursors[c])
<1>1. cursors[c] \in CursorType
  BY DEF TypeOK
<1> QED
  BY <1>1 DEF TypeOK, WindowsOfTheRun, Stretch, Inside

LEMMA StretchNats ==
  ASSUME NEW cur, Stretch(cur), run \in Seq(0 .. 255)
  PROVE  /\ cur.bit \in Nat /\ size(cur) \in Nat /\ cur.base - Base \in Nat
         /\ cur.base \in Nat /\ Base \in Nat /\ Len(run) \in Nat
         /\ cur.data \in Seq(0 .. 255) /\ Len(cur.data) = size(cur)
         /\ cur.base - Base + size(cur) <= Len(run)
         /\ Place(cur) = (cur.base - Base) * 8 + cur.bit /\ Place(cur) \in Nat
<1>1. /\ cur.bit \in Nat /\ size(cur) \in Nat /\ cur.base \in Nat /\ Base \in Nat
      /\ Len(run) \in Nat /\ cur.data \in Seq(0 .. 255)
  BY SizeIsNat, BaseAssumption DEF Stretch, Inside, CursorType
<1>2. cur.base - Base \in Nat /\ cur.base - Base + size(cur) <= Len(run)
  BY <1>1 DEF Stretch
<1>3. Place(cur) = (cur.base - Base) * 8 + cur.bit
  BY DEF Place, BITS_PER_BYTE
<1> QED
  BY <1>1, <1>2, <1>3 DEF size

(* The run has at the stream's offset the bit the window has at its own.   *)
LEMMA SameBit ==
  ASSUME NEW cur, Stretch(cur), run \in Seq(0 .. 255),
         NEW k \in Nat, k < size(cur) * 8
  PROVE  BitAt(run, (cur.base - Base) * 8 + k) = BitAt(cur.data, k)
<1>1. PICK b \in Nat : b = cur.base - Base
  BY StretchNats
<1>2. PICK z \in Nat : z = size(cur)
  BY StretchNats
<1>3. /\ (b * 8 + k) \div 8 = b + k \div 8 /\ (b * 8 + k) % 8 = k % 8
      /\ k \div 8 + 1 \in 1 .. z /\ b + k \div 8 + 1 = b + (k \div 8 + 1)
  BY <1>2
<1>4. cur.data[k \div 8 + 1] = run[b + (k \div 8 + 1)]
  BY <1>1, <1>2, <1>3 DEF Stretch
<1> QED
  BY <1>1, <1>3, <1>4 DEF BitAt, BITS_PER_BYTE

(* A read taken bit by bit.                                                *)
LEMMA BitsRead ==
  ASSUME NEW cur, Stretch(cur), run \in Seq(0 .. 255),
         NEW n \in Nat, Fits(cur, n)
  PROVE  /\ BitsValue(cur.data, cur.bit, n) = BigEndian(Place(cur), n)
         /\ BitsValue(cur.data, cur.bit, n) \in Nat
         /\ BitsValue(cur.data, cur.bit, n) < PowerOf2[n]
<1> DEFINE g == [k \in 1 .. n |-> BitAt(cur.data, cur.bit + k - 1)]
           w == [k \in 1 .. n |-> g[n + 1 - k] * PowerOf2[k - 1]]
<1>1. PICK bit \in Nat : bit = cur.bit
  BY StretchNats
<1>2. \A k \in 1 .. n : bit + k - 1 \in Nat /\ bit + k - 1 < size(cur) * 8
  BY <1>1, StretchNats DEF Fits
<1>3. \A k \in 1 .. n : g[k] \in 0 .. 1
  <2> TAKE k \in 1 .. n
  <2>1. BitAt(cur.data, bit + k - 1) \in 0 .. 1
    BY <1>2, StretchNats, BitIsBit
  <2> QED
    BY <1>1, <2>1
<1>4. g \in [1 .. n -> Int]
  BY <1>3
<1>5. PICK f : Follows(f, 0, 2, g, n) /\ BitsValue(cur.data, bit, n) = f[n]
  <2>1. \A k \in 1 .. n : g[k] = BitAt(cur.data, bit + k - 1)
    BY <1>1
  <2> HIDE DEF g
  <2> QED
    BY <1>4, <2>1, BitsFollow
<1>6. \A k \in 1 .. n : PowerOf2[k - 1] \in Nat
  <2>1. \A k \in 1 .. n : k - 1 \in Nat
    OBVIOUS
  <2> QED
    BY <2>1, PowersOfTwo DEF Weights
<1>7. w \in [1 .. n -> Int]
  <2> SUFFICES ASSUME NEW k \in 1 .. n PROVE g[n + 1 - k] * PowerOf2[k - 1] \in Int
    OBVIOUS
  <2>1. n + 1 - k \in 1 .. n
    OBVIOUS
  <2> HIDE DEF g
  <2> QED
    BY <1>4, <1>6, <2>1
<1>8. ASSUME NEW k \in 1 .. n
      PROVE  w[k] = BitAt(run, Place(cur) + n - k) * PowerOf2[k - 1]
  <2>1. PICK b \in Nat : b = cur.base - Base
    BY StretchNats
  <2>2. n + 1 - k \in 1 .. n /\ bit + (n + 1 - k) - 1 = bit + n - k
    OBVIOUS
  <2>3. bit + n - k \in Nat /\ bit + n - k < size(cur) * 8
    BY <1>2, <2>2
  <2>4. BitAt(run, b * 8 + (bit + n - k)) = BitAt(cur.data, bit + n - k)
    BY <2>1, <2>3, SameBit
  <2>5. Place(cur) + n - k = b * 8 + (bit + n - k)
    <3>1. Place(cur) = b * 8 + bit
      BY <1>1, <2>1, StretchNats
    <3> QED
      BY <3>1
  <2>6. g[n + 1 - k] = BitAt(cur.data, bit + n - k)
    BY <1>1, <2>2
  <2> QED
    BY <2>4, <2>5, <2>6
<1>9. PICK h : Follows(h, 0, 1, w, n) /\ BigEndian(Place(cur), n) = h[n]
  <2>1. Place(cur) \in Nat
    BY StretchNats
  <2> HIDE DEF g, w
  <2> QED
    BY <1>7, <1>8, <2>1, BigEndianFollows
<1>10. f[n] = h[n]
  <2>1. Stand(w, g, PowerOf2, n)
    BY DEF Stand
  <2> HIDE DEF g, w
  <2>2. 2 \in Int
    OBVIOUS
  <2> QED
    BY <1>4, <1>5, <1>9, <2>1, <2>2, PowersOfTwo, PlaceValues
<1>11. f[n] \in Nat /\ f[n] < PowerOf2[n]
  <2>1. \A k \in 1 .. n : g[k] \in 0 .. 2 - 1
    BY <1>3
  <2> HIDE DEF g
  <2> QED
    BY <1>5, <2>1, PowersOfTwo, DigitsBound
<1> QED
  BY <1>1, <1>5, <1>9, <1>10, <1>11

(* What is cut out of data from one place to another, as far as it goes.   *)
LEMMA ClippedIs ==
  ASSUME NEW data \in Seq(0 .. 255), NEW start \in Nat, NEW end \in Nat,
         NEW last \in Nat, last = IF end < Len(data) THEN end ELSE Len(data)
  PROVE  /\ Clipped(data, start, end) \in Seq(0 .. 255)
         /\ Len(Clipped(data, start, end)) = IF start < last THEN last - start ELSE 0
         /\ \A i \in 1 .. Len(Clipped(data, start, end)) :
              Clipped(data, start, end)[i] = data[start + i]
<1>1. Clipped(data, start, end) = SubSeq(data, start + 1, last)
  BY DEF Clipped
<1>2. \A i \in start + 1 .. last : data[i] \in 0 .. 255
  <2> SUFFICES ASSUME NEW i \in start + 1 .. last PROVE i \in 1 .. Len(data)
    BY ElementOfSeq
  <2> QED
    OBVIOUS
<1>3. /\ SubSeq(data, start + 1, last) \in Seq(0 .. 255)
      /\ Len(SubSeq(data, start + 1, last))
           = IF start + 1 <= last THEN last - (start + 1) + 1 ELSE 0
      /\ \A i \in 1 .. last - (start + 1) + 1 :
           SubSeq(data, start + 1, last)[i] = data[start + 1 + i - 1]
  <2>1. start + 1 \in Int /\ last \in Int
    OBVIOUS
  <2> QED
    BY <1>2, <2>1, SubSeqProperties
<1>4. (IF start + 1 <= last THEN last - (start + 1) + 1 ELSE 0)
        = IF start < last THEN last - start ELSE 0
  OBVIOUS
<1>5. \A i \in 1 .. Len(SubSeq(data, start + 1, last)) :
         i \in 1 .. last - (start + 1) + 1 /\ start + 1 + i - 1 = start + i
  <2>1. PICK l \in Int : l = Len(SubSeq(data, start + 1, last))
    BY <1>3
  <2>2. l = IF start < last THEN last - start ELSE 0
    BY <1>3, <1>4, <2>1
  <2> QED
    BY <2>1, <2>2
<1> QED
  BY <1>1, <1>3, <1>4, <1>5

(* A part of the data, all there since it ends inside.                     *)
IsPart(part, data, start, n) ==
  /\ Len(part) = n
  /\ \A i \in 1 .. n : part[i] = data[start + i]

LEMMA ClippedInside ==
  ASSUME NEW data \in Seq(0 .. 255), NEW start \in Nat, NEW n \in Nat,
         start + n <= Len(data)
  PROVE  IsPart(Clipped(data, start, start + n), data, start, n)
<1>1. PICK end \in Nat : end = start + n
  OBVIOUS
<1> DEFINE part == Clipped(data, start, end)
<1>2. PICK last \in Nat : /\ last = end
                        /\ last = IF end < Len(data) THEN end ELSE Len(data)
  BY <1>1
<1>3. /\ Len(part) = IF start < last THEN last - start ELSE 0
      /\ \A i \in 1 .. Len(part) : part[i] = data[start + i]
  BY <1>2, ClippedIs
<1> HIDE DEF part
<1>4. (IF start < last THEN last - start ELSE 0) = n
  BY <1>1, <1>2
<1>5. IsPart(part, data, start, n)
  BY <1>3, <1>4 DEF IsPart
<1> QED
  BY <1>1, <1>5 DEF part

(* A whole-byte read that is not refused returns the bytes ahead.          *)
LEMMA WholeBytes ==
  ASSUME NEW cur, Stretch(cur), run \in Seq(0 .. 255), is_aligned(cur),
         NEW m \in Nat, Fits(cur, 8 * m)
  PROVE  \E q \in Nat :
           /\ cur.bit = 8 * q /\ q + m <= size(cur)
           /\ Len(BytesFrom(cur, m)) = m
           /\ \A i \in 1 .. m : /\ q + i \in 1 .. size(cur)
                                /\ BytesFrom(cur, m)[i] = cur.data[q + i]
                                /\ cur.data[q + i] \in 0 .. 255
<1>1. PICK bit \in Nat : bit = cur.bit
  BY StretchNats
<1>2. PICK z \in Nat : z = size(cur) /\ z = Len(cur.data)
  BY StretchNats
<1>3. PICK q \in Nat : bit = 8 * q /\ bit \div 8 = q
  <2>1. bit % 8 = 0
    BY <1>1 DEF is_aligned, BITS_PER_BYTE
  <2>2. bit \div 8 \in Nat /\ bit = 8 * (bit \div 8)
    BY <2>1
  <2> QED
    BY <2>2
<1>4. q + m <= z
  BY <1>1, <1>2, <1>3 DEF Fits
<1>5. BytesFrom(cur, m) = Clipped(cur.data, q, q + m)
  BY <1>1, <1>3 DEF BytesFrom, BITS_PER_BYTE
<1>6. cur.data \in Seq(0 .. 255) /\ q + m <= Len(cur.data)
  BY <1>2, <1>4, StretchNats
<1>7. IsPart(BytesFrom(cur, m), cur.data, q, m)
  BY <1>5, <1>6, ClippedInside
<1>8. /\ Len(BytesFrom(cur, m)) = m
      /\ \A i \in 1 .. m : BytesFrom(cur, m)[i] = cur.data[q + i]
  BY <1>7 DEF IsPart
<1>9. \A i \in 1 .. m : q + i \in 1 .. z
  BY <1>4
<1>10. \A i \in 1 .. m : cur.data[q + i] \in 0 .. 255
  BY <1>2, <1>9, StretchNats, ElementOfSeq
<1>11. /\ cur.bit = 8 * q /\ q + m <= size(cur)
       /\ Len(BytesFrom(cur, m)) = m
  BY <1>1, <1>2, <1>3, <1>4, <1>8
<1>12. \A i \in 1 .. m : /\ q + i \in 1 .. size(cur)
                         /\ BytesFrom(cur, m)[i] = cur.data[q + i]
                         /\ cur.data[q + i] \in 0 .. 255
  BY <1>2, <1>8, <1>9, <1>10
<1> QED
  BY <1>11, <1>12

(* Whole bytes, the first most significant, say what their bits do.        *)
LEMMA BigBytesRead ==
  ASSUME NEW cur, Stretch(cur), run \in Seq(0 .. 255), is_aligned(cur),
         NEW m \in Nat, Fits(cur, 8 * m)
  PROVE  BytesValue(BytesFrom(cur, m), "big") = BitsValue(cur.data, cur.bit, 8 * m)
<1>1. PICK q \in Nat :
        /\ cur.bit = 8 * q /\ q + m <= size(cur)
        /\ Len(BytesFrom(cur, m)) = m
        /\ \A i \in 1 .. m : /\ q + i \in 1 .. size(cur)
                             /\ BytesFrom(cur, m)[i] = cur.data[q + i]
                             /\ cur.data[q + i] \in 0 .. 255
  BY WholeBytes
<1>2. PICK z \in Nat : z = size(cur) /\ z = Len(cur.data)
  BY StretchNats
<1>3. cur.data \in Seq(0 .. 255)
  BY StretchNats
<1> DEFINE g == [k \in 1 .. 8 * m |-> BitAt(cur.data, 8 * q + k - 1)]
           bytes == [k \in 1 .. m |-> cur.data[q + k]]
<1>4. \A k \in 1 .. 8 * m : BitAt(cur.data, 8 * q + k - 1) \in 0 .. 1
  <2> TAKE k \in 1 .. 8 * m
  <2>1. 8 * q + k - 1 \in Nat /\ 8 * q + k - 1 < z * 8
    BY <1>1, <1>2
  <2> QED
    BY <1>2, <1>3, <2>1, BitIsBit
<1>5. g \in [1 .. 8 * m -> Int] /\ bytes \in [1 .. m -> Int]
  <2>1. ASSUME NEW k \in 1 .. 8 * m PROVE BitAt(cur.data, 8 * q + k - 1) \in Int
    <3>1. BitAt(cur.data, 8 * q + k - 1) \in 0 .. 1
      BY <1>4
    <3> QED
      BY <3>1
  <2>2. ASSUME NEW k \in 1 .. m PROVE cur.data[q + k] \in Int
    <3>1. cur.data[q + k] \in 0 .. 255
      BY <1>1
    <3>2. 0 .. 255 \subseteq Int
      OBVIOUS
    <3> QED
      BY <3>1, <3>2, Zenon
  <2> QED
    BY <2>1, <2>2
<1>6. PICK f : /\ Follows(f, 0, 2, g, 8 * m)
               /\ BitsValue(cur.data, 8 * q, 8 * m) = f[8 * m]
  <2>1. \A k \in 1 .. 8 * m : g[k] = BitAt(cur.data, 8 * q + k - 1)
    OBVIOUS
  <2>2. 8 * q \in Nat /\ 8 * m \in Nat
    OBVIOUS
  <2> HIDE DEF g
  <2> QED
    BY <1>5, <2>1, <2>2, BitsFollow
<1>7. PICK h : /\ Follows(h, 0, 256, bytes, m)
               /\ BytesValue(BytesFrom(cur, m), "big") = h[m]
  <2> DEFINE read == BytesFrom(cur, m)
  <2>1. \A k \in 1 .. Len(read) :
           bytes[k] = read[IF "big" = "big" THEN k ELSE Len(read) + 1 - k]
    BY <1>1
  <2>2. Len(read) = m /\ Len(read) \in Nat /\ bytes \in [1 .. Len(read) -> Int]
    BY <1>1, <1>5
  <2> HIDE DEF read, bytes
  <2>3. \E h : /\ Follows(h, 0, 256, bytes, Len(read))
               /\ BytesValue(read, "big") = h[Len(read)]
    BY <2>1, <2>2, BytesFollow
  <2> QED
    BY <2>2, <2>3 DEF read
<1>8. ASSUME NEW k \in 0 .. m - 1
      PROVE  bytes[k + 1] = 128 * g[8 * k + 1] + 64 * g[8 * k + 2] + 32 * g[8 * k + 3]
                            + 16 * g[8 * k + 4] + 8 * g[8 * k + 5] + 4 * g[8 * k + 6]
                            + 2 * g[8 * k + 7] + g[8 * k + 8]
  <2>1. k + 1 \in 1 .. m /\ q + k \in Nat /\ q + (k + 1) = q + k + 1
    OBVIOUS
  <2>2. q + k < z
    BY <1>1, <1>2, <2>1
  <2>3. bytes[k + 1] = cur.data[q + k + 1]
    BY <2>1
  <2>4. /\ g[8 * k + 1] = BitAt(cur.data, 8 * (q + k))
        /\ \A r \in 2 .. 8 : g[8 * k + r] = BitAt(cur.data, 8 * (q + k) + (r - 1))
    <3>1. /\ 8 * k + 1 \in 1 .. 8 * m /\ 8 * q + (8 * k + 1) - 1 = 8 * (q + k)
          /\ \A r \in 2 .. 8 : /\ 8 * k + r \in 1 .. 8 * m
                               /\ 8 * q + (8 * k + r) - 1 = 8 * (q + k) + (r - 1)
      OBVIOUS
    <3> QED
      BY <3>1
  <2> HIDE DEF g, bytes
  <2>5. /\ 2 \in 2 .. 8 /\ 3 \in 2 .. 8 /\ 4 \in 2 .. 8 /\ 5 \in 2 .. 8
        /\ 6 \in 2 .. 8 /\ 7 \in 2 .. 8 /\ 8 \in 2 .. 8
        /\ 2 - 1 = 1 /\ 3 - 1 = 2 /\ 4 - 1 = 3 /\ 5 - 1 = 4
        /\ 6 - 1 = 5 /\ 7 - 1 = 6 /\ 8 - 1 = 7
    OBVIOUS
  <2>6. /\ g[8 * k + 2] = BitAt(cur.data, 8 * (q + k) + 1)
        /\ g[8 * k + 3] = BitAt(cur.data, 8 * (q + k) + 2)
        /\ g[8 * k + 4] = BitAt(cur.data, 8 * (q + k) + 3)
        /\ g[8 * k + 5] = BitAt(cur.data, 8 * (q + k) + 4)
        /\ g[8 * k + 6] = BitAt(cur.data, 8 * (q + k) + 5)
        /\ g[8 * k + 7] = BitAt(cur.data, 8 * (q + k) + 6)
        /\ g[8 * k + 8] = BitAt(cur.data, 8 * (q + k) + 7)
    BY <2>4, <2>5, SMTT(30)
  <2> QED
    BY <1>2, <1>3, <2>1, <2>2, <2>3, <2>4, <2>6, ByteOfItsBits, SMTT(30)
<1>9. h[m] = f[8 * m]
  <2> HIDE DEF g, bytes
  <2> QED
    BY <1>5, <1>6, <1>7, <1>8, BytesAreBits, ZenonT(60)
<1> QED
  BY <1>1, <1>6, <1>7, <1>9

(* Whole bytes, the last most significant.                                 *)
LEMMA LittleBytesRead ==
  ASSUME NEW cur, Stretch(cur), run \in Seq(0 .. 255), is_aligned(cur),
         NEW m \in Nat, Fits(cur, 8 * m)
  PROVE  /\ BytesValue(BytesFrom(cur, m), "little") = Swapped(Place(cur), 8 * m)
         /\ BytesValue(BytesFrom(cur, m), "little") \in Nat
         /\ BytesValue(BytesFrom(cur, m), "little") < PowerOf2[8 * m]
<1>1. PICK q \in Nat :
        /\ cur.bit = 8 * q /\ q + m <= size(cur)
        /\ Len(BytesFrom(cur, m)) = m
        /\ \A i \in 1 .. m : /\ q + i \in 1 .. size(cur)
                             /\ BytesFrom(cur, m)[i] = cur.data[q + i]
                             /\ cur.data[q + i] \in 0 .. 255
  BY WholeBytes
<1>2. PICK b \in Nat : b = cur.base - Base
  BY StretchNats
<1> DEFINE W == [k \in Nat |-> PowerOf2[8 * k]]
           g == [k \in 1 .. m |-> cur.data[q + (m + 1 - k)]]
           v == [k \in 1 .. m |-> cur.data[q + k] * PowerOf2[8 * (k - 1)]]
<1>3. \A k \in 1 .. m : g[k] \in 0 .. 255
  <2> TAKE k \in 1 .. m
  <2>1. m + 1 - k \in 1 .. m
    OBVIOUS
  <2>2. cur.data[q + (m + 1 - k)] \in 0 .. 255
    BY <1>1, <2>1
  <2> QED
    BY <2>2
<1>4. g \in [1 .. m -> Int]
  <2>1. 0 .. 255 \subseteq Int
    OBVIOUS
  <2>2. \A k \in 1 .. m : g[k] \in Int
    <3> HIDE DEF g
    <3> QED
      BY <1>3, <2>1, Zenon
  <2> QED
    BY <2>2
<1>5. PICK h : /\ Follows(h, 0, 256, g, m)
               /\ BytesValue(BytesFrom(cur, m), "little") = h[m]
  <2> DEFINE read == BytesFrom(cur, m)
  <2>1. \A k \in 1 .. m : m + 1 - k \in 1 .. m
    OBVIOUS
  <2>2. Len(read) = m /\ Len(read) \in Nat
    BY <1>1
  <2>3. \A k \in 1 .. m : read[m + 1 - k] = cur.data[q + (m + 1 - k)]
    BY <1>1, <2>1
  <2>4. \A k \in 1 .. Len(read) :
           g[k] = read[IF "little" = "big" THEN k ELSE Len(read) + 1 - k]
    <3> HIDE DEF read
    <3> QED
      BY <2>2, <2>3
  <2> HIDE DEF read, g
  <2>5. g \in [1 .. Len(read) -> Int]
    BY <1>4, <2>2
  <2>6. \E h : /\ Follows(h, 0, 256, g, Len(read))
               /\ BytesValue(read, "little") = h[Len(read)]
    BY <2>2, <2>4, <2>5, BytesFollow
  <2> QED
    BY <2>2, <2>6 DEF read
<1>6. Weights(W, 256)
  BY ByteWeights
<1>7. h[m] \in Nat /\ h[m] < W[m]
  <2>1. \A k \in 1 .. m : g[k] \in 0 .. 256 - 1
    BY <1>3
  <2> HIDE DEF g, W
  <2> QED
    BY <1>5, <1>6, <2>1, DigitsBound, ZenonT(60)
<1>8. Stand(v, g, W, m)
  <2> SUFFICES ASSUME NEW k \in 1 .. m PROVE v[k] = g[m + 1 - k] * W[k - 1]
    BY DEF Stand
  <2>1. m + 1 - k \in 1 .. m /\ m + 1 - (m + 1 - k) = k /\ k - 1 \in Nat
    OBVIOUS
  <2>2. g[m + 1 - k] = cur.data[q + k]
    BY <2>1
  <2>3. W[k - 1] = PowerOf2[8 * (k - 1)]
    BY <2>1
  <2> QED
    BY <2>2, <2>3
<1>9. v \in [1 .. m -> Int]
  <2> SUFFICES ASSUME NEW k \in 1 .. m
               PROVE  cur.data[q + k] * PowerOf2[8 * (k - 1)] \in Int
    OBVIOUS
  <2>1. PICK x \in 0 .. 255 : x = cur.data[q + k]
    BY <1>1
  <2>2. PICK p \in Nat : p = PowerOf2[8 * (k - 1)]
    <3>1. 8 * (k - 1) \in Nat
      OBVIOUS
    <3> QED
      BY <3>1, PowersOfTwo DEF Weights
  <2>3. x * p \in Int
    OBVIOUS
  <2> QED
    BY <2>1, <2>2, <2>3
<1>10. PICK w : Follows(w, 0, 1, v, m) /\ Swapped(Place(cur), 8 * m) = w[m]
  <2>1. PICK at \in Nat : at = Place(cur)
    BY StretchNats
  <2>2. PICK bits \in Nat : bits = 8 * m
    OBVIOUS
  <2>3. at \div 8 = b + q /\ bits \div 8 = m
    <3>1. at = b * 8 + 8 * q
      BY <1>1, <1>2, <2>1, StretchNats
    <3> QED
      BY <2>2, <3>1
  <2>4. \A k \in 1 .. m : v[k] = run[at \div 8 + k] * PowerOf2[8 * (k - 1)]
    <3> TAKE k \in 1 .. m
    <3>1. cur.data[q + k] = run[b + (q + k)]
      BY <1>1, <1>2 DEF Stretch
    <3>2. at \div 8 + k = b + (q + k)
      BY <2>3
    <3> QED
      BY <3>1, <3>2
  <2> HIDE DEF v
  <2>5. v \in [1 .. bits \div 8 -> Int]
    BY <1>9, <2>3
  <2>6. \A k \in 1 .. bits \div 8 : v[k] = run[at \div 8 + k] * PowerOf2[8 * (k - 1)]
    BY <2>3, <2>4
  <2>7. \E w : /\ Follows(w, 0, 1, v, (bits \div 8))
               /\ Swapped(at, bits) = w[(bits \div 8)]
    BY <2>5, <2>6, SwappedFollows
  <2> QED
    BY <2>1, <2>2, <2>3, <2>7
<1>11. h[m] = w[m]
  <2>1. 256 \in Int
    OBVIOUS
  <2> HIDE DEF g, v, W
  <2> QED
    BY <1>4, <1>5, <1>6, <1>8, <1>10, <2>1, PlaceValues
<1> QED
  BY <1>5, <1>7, <1>10, <1>11

(* What a read that is not refused comes back with.                        *)
PlainValue(cur, n, endian) ==
  IF endian = "little" /\ n % 8 = 0 /\ cur.bit % 8 = 0
  THEN Swapped(Place(cur), n) ELSE BigEndian(Place(cur), n)

(* An integer read returns the plain value of the bits ahead, taken as     *)
(* two's complement when it is signed.                                     *)
LEMMA IntRead ==
  ASSUME NEW cur, Stretch(cur), run \in Seq(0 .. 255),
         NEW n \in Nat, NEW signed \in BOOLEAN, NEW endian \in Endians,
         read_int(cur, n, signed, endian).outcome = "ok"
  PROVE  /\ PlainValue(cur, n, endian) \in Nat
         /\ PlainValue(cur, n, endian) < PowerOf2[n]
         /\ read_int(cur, n, signed, endian).bit = cur.bit + n
         /\ read_int(cur, n, signed, endian).value
              = IF signed THEN TwosComplement(PlainValue(cur, n, endian), n)
                          ELSE PlainValue(cur, n, endian)
<1> DEFINE whole == n % BITS_PER_BYTE = 0 /\ is_aligned(cur)
           read  == IF whole THEN read_bytes(cur, n \div BITS_PER_BYTE)
                             ELSE read_bits(cur, n)
           raw   == IF whole THEN BytesValue(read.value, endian) ELSE read.value
           plain == PlainValue(cur, n, endian)
<1>1. PICK bit \in Nat : bit = cur.bit
  BY StretchNats
<1>2. PICK z \in Nat : z = size(cur)
  BY StretchNats
<1>3. read_int(cur, n, signed, endian)
        = IF read.outcome # "ok" THEN read
          ELSE [read EXCEPT !.value = IF signed THEN TwosComplement(raw, n) ELSE raw]
  BY DEF read_int
<1>4. read = [bit |-> read.bit, outcome |-> read.outcome, value |-> read.value]
  BY DEF read_bytes, read_bits, Refused, Reading
<1>5. /\ read.outcome = "ok"
      /\ read_int(cur, n, signed, endian).bit = read.bit
      /\ read_int(cur, n, signed, endian).value
           = IF signed THEN TwosComplement(raw, n) ELSE raw
  <2> HIDE DEF read, raw
  <2>1. read.outcome = "ok"
    BY <1>3
  <2> QED
    BY <1>3, <1>4, <2>1
<1>6. raw = plain /\ plain \in Nat /\ plain < PowerOf2[n] /\ read.bit = bit + n
  <2>1. CASE whole
    <3>1. PICK m \in Nat : n = 8 * m /\ n \div 8 = m
      <4>1. n % 8 = 0
        BY <2>1 DEF BITS_PER_BYTE
      <4>2. n \div 8 \in Nat /\ n = 8 * (n \div 8)
        BY <4>1
      <4> QED
        BY <4>2
    <3>2. read = read_bytes(cur, m)
      BY <2>1, <3>1 DEF BITS_PER_BYTE
    <3>3. ~Runs_past(cur, m * BITS_PER_BYTE)
      BY <1>5, <3>2 DEF read_bytes, Refused, Reading
    <3>4. m * 8 <= z * 8 - bit
      BY <1>1, <1>2, <3>3 DEF Runs_past, remaining_bits, BITS_PER_BYTE
    <3>5. Fits(cur, 8 * m)
      BY <1>1, <1>2, <3>4 DEF Fits
    <3>6. read.value = BytesFrom(cur, m) /\ read.bit = bit + n
      <4>1. read = Reading(cur.bit + m * 8, "ok", BytesFrom(cur, m))
        BY <2>1, <3>2, <3>3 DEF read_bytes, BITS_PER_BYTE
      <4>2. m * 8 = n
        BY <3>1
      <4> HIDE DEF read
      <4> QED
        BY <1>1, <4>1, <4>2 DEF Reading
    <3>7. is_aligned(cur) /\ cur.bit % 8 = 0 /\ n % 8 = 0
      BY <2>1 DEF is_aligned, BITS_PER_BYTE
    <3>8. CASE endian = "big"
      <4>1. raw = BitsValue(cur.data, cur.bit, n)
        <5>1. BytesValue(BytesFrom(cur, m), "big") = BitsValue(cur.data, cur.bit, 8 * m)
          BY <3>5, <3>7, BigBytesRead
        <5>2. raw = BytesValue(BytesFrom(cur, m), "big")
          BY <2>1, <3>6, <3>8
        <5> HIDE DEF raw
        <5> QED
          BY <3>1, <5>1, <5>2
      <4>2. Fits(cur, n)
        BY <3>1, <3>5
      <4>3. plain = BigEndian(Place(cur), n)
        BY <3>8 DEF PlainValue
      <4> HIDE DEF raw, plain
      <4> QED
        BY <3>6, <4>1, <4>2, <4>3, BitsRead
    <3>9. CASE endian = "little"
      <4>1. plain = Swapped(Place(cur), 8 * m)
        BY <3>1, <3>7, <3>9 DEF PlainValue
      <4>2. raw = BytesValue(BytesFrom(cur, m), "little")
        BY <2>1, <3>6, <3>9
      <4> HIDE DEF raw, plain
      <4> QED
        BY <3>1, <3>5, <3>6, <3>7, <4>1, <4>2, LittleBytesRead
    <3> QED
      BY <3>8, <3>9 DEF Endians
  <2>2. CASE ~whole
    <3>1. read = read_bits(cur, n)
      BY <2>2
    <3>2. ~Runs_past(cur, n)
      BY <1>5, <3>1 DEF read_bits, Refused, Reading
    <3>3. n <= z * 8 - bit
      BY <1>1, <1>2, <3>2 DEF Runs_past, remaining_bits, BITS_PER_BYTE
    <3>4. Fits(cur, n)
      BY <1>1, <1>2, <3>3 DEF Fits
    <3>5. read.value = BitsValue(cur.data, cur.bit, n) /\ read.bit = bit + n
      <4>1. read = Reading(cur.bit + n, "ok", BitsValue(cur.data, cur.bit, n))
        BY <3>1, <3>2 DEF read_bits
      <4> HIDE DEF read
      <4> QED
        BY <1>1, <4>1 DEF Reading
    <3>6. plain = BigEndian(Place(cur), n)
      BY <2>2 DEF PlainValue, is_aligned, BITS_PER_BYTE
    <3>7. raw = BitsValue(cur.data, cur.bit, n)
      BY <2>2, <3>5
    <3> HIDE DEF raw, plain
    <3> QED
      BY <3>4, <3>5, <3>6, <3>7, BitsRead
  <2> QED
    BY <2>1, <2>2
<1> HIDE DEF read, raw
<1> QED
  BY <1>1, <1>5, <1>6

LEMMA ReadsSay ==
  ASSUME TypeOK, WindowsOfTheRun
  PROVE  ReadsWhatTheRunHolds
<1> SUFFICES ASSUME NEW c \in DOMAIN cursors, NEW n \in Counts \cap Nat,
                    NEW signed \in BOOLEAN, NEW endian \in Endians,
                    read_int(cursors[c], n, signed, endian).outcome = "ok"
             PROVE  LET cur   == cursors[c]
                        read  == read_int(cur, n, signed, endian)
                        plain == PlainValue(cur, n, endian)
                    IN  /\ read.bit = cur.bit + n
                        /\ n > 0 /\ signed =>
                             /\ - PowerOf2[n - 1] <= read.value
                             /\ read.value < PowerOf2[n - 1]
                             /\ (read.value - plain) % PowerOf2[n] = 0
                        /\ ~signed => read.value = plain
  BY DEF ReadsWhatTheRunHolds, PlainValue
<1> DEFINE read == read_int(cursors[c], n, signed, endian)
<1>1. Stretch(cursors[c]) /\ run \in Seq(0 .. 255) /\ n \in Nat
  BY StretchOf, RunsAssumption DEF TypeOK
<1>2. PICK plain \in Nat :
        /\ plain = PlainValue(cursors[c], n, endian)
        /\ plain < PowerOf2[n]
        /\ read.bit = cursors[c].bit + n
        /\ read.value = IF signed THEN TwosComplement(plain, n) ELSE plain
  BY <1>1, IntRead
<1> HIDE DEF read
<1>3. ASSUME n > 0, signed
      PROVE  /\ - PowerOf2[n - 1] <= read.value
             /\ read.value < PowerOf2[n - 1]
             /\ (read.value - plain) % PowerOf2[n] = 0
  <2>1. n - 1 \in Nat /\ (n - 1) + 1 = n
    BY <1>1, <1>3
  <2>2. PICK p \in Nat \ {0} : p = PowerOf2[n - 1] /\ PowerOf2[n] = 2 * p
    BY <2>1, PowersOfTwo DEF Weights
  <2>3. read.value = IF plain >= p THEN plain - 2 * p ELSE plain
    BY <1>1, <1>2, <1>3, <2>2 DEF TwosComplement
  <2>4. plain < 2 * p
    BY <1>2, <2>2
  <2>5. CASE plain >= p
    <3>1. read.value = plain - 2 * p
      BY <2>3, <2>5
    <3>2. /\ -p <= plain - 2 * p /\ plain - 2 * p < p
          /\ plain - 2 * p - plain = 0 - 2 * p
      BY <2>4, <2>5
    <3>3. PICK w \in Nat \ {0} : w = 2 * p
      OBVIOUS
    <3>4. (0 - w) % w = 0
      OBVIOUS
    <3> QED
      BY <2>2, <3>1, <3>2, <3>3, <3>4
  <2>6. CASE ~(plain >= p)
    <3>1. read.value = plain
      BY <2>3, <2>6
    <3>2. -p <= plain /\ plain < p /\ plain - plain = 0
      BY <2>6
    <3>3. PICK w \in Nat \ {0} : w = 2 * p
      OBVIOUS
    <3>4. 0 % w = 0
      OBVIOUS
    <3> QED
      BY <2>2, <3>1, <3>2, <3>3, <3>4
  <2> QED
    BY <2>5, <2>6
<1> QED
  BY <1>2, <1>3 DEF read

-----------------------------------------------------------------------------
(***************************************************************************)
(* Refusals, citations, slices and searches.                               *)
(***************************************************************************)
LEMMA TruncatedAtTheEnd ==
  ASSUME TypeOK
  PROVE  TruncatedOnlyAtTheEnd
<1> SUFFICES ASSUME NEW c \in DOMAIN cursors, NEW n \in Counts
             PROVE  LET cur  == cursors[c]
                        left == size(cur) * 8 - cur.bit
                    IN  /\ n >= 0 =>
                             /\ read_bits(cur, n).outcome = "TruncatedRead" <=> n > left
                             /\ cur.bit % 8 = 0 =>
                                  (read_bytes(cur, n).outcome = "TruncatedRead"
                                     <=> 8 * n > left)
                        /\ LET reads == <<read_bits(cur, n), read_bytes(cur, n),
                                          read_int(cur, AtLeast0(n), FALSE, "big")>>
                           IN  \A i \in 1 .. 3 :
                                 reads[i].outcome # "ok" => reads[i].bit = cur.bit
  BY DEF TruncatedOnlyAtTheEnd
<1> DEFINE cur == cursors[c]
<1>1. n \in Int /\ cur \in CursorType
  BY CountsAssumption DEF TypeOK
<1>2. PICK bit \in Nat : bit = cur.bit
  BY <1>1, SizeIsNat
<1>3. PICK z \in Nat : z = size(cur)
  BY <1>1, SizeIsNat
<1> HIDE DEF cur
<1>4. \A count : Runs_past(cur, count) <=> count > z * 8 - bit
  BY <1>2, <1>3 DEF Runs_past, remaining_bits, BITS_PER_BYTE
<1>5. ASSUME n >= 0
      PROVE  /\ read_bits(cur, n).outcome = "TruncatedRead" <=> n > z * 8 - bit
             /\ bit % 8 = 0 =>
                  (read_bytes(cur, n).outcome = "TruncatedRead" <=> 8 * n > z * 8 - bit)
  <2>1. ~(n < 0)
    BY <1>1, <1>5
  <2>2. read_bits(cur, n).outcome = "TruncatedRead" <=> n > z * 8 - bit
    BY <1>4, <2>1 DEF read_bits, Refused, Reading
  <2>3. ASSUME bit % 8 = 0
        PROVE  read_bytes(cur, n).outcome = "TruncatedRead" <=> 8 * n > z * 8 - bit
    <3>1. is_aligned(cur)
      BY <1>2, <2>3 DEF is_aligned, BITS_PER_BYTE
    <3>2. Runs_past(cur, n * BITS_PER_BYTE) <=> 8 * n > z * 8 - bit
      <4>1. n * 8 = 8 * n
        BY <1>1
      <4> QED
        BY <1>4, <4>1 DEF BITS_PER_BYTE
    <3> QED
      BY <2>1, <3>1, <3>2 DEF read_bytes, Refused, Reading
  <2> QED
    BY <2>2, <2>3
<1>6. \A m : /\ read_bits(cur, m).outcome # "ok" => read_bits(cur, m).bit = cur.bit
             /\ read_bytes(cur, m).outcome # "ok" => read_bytes(cur, m).bit = cur.bit
  BY DEF read_bits, read_bytes, Refused, Reading
<1>7. \A m : read_int(cur, m, FALSE, "big").outcome # "ok" =>
               read_int(cur, m, FALSE, "big").bit = cur.bit
  <2> TAKE m
  <2> DEFINE read == IF m % BITS_PER_BYTE = 0 /\ is_aligned(cur)
                     THEN read_bytes(cur, m \div BITS_PER_BYTE) ELSE read_bits(cur, m)
             value == IF m % BITS_PER_BYTE = 0 /\ is_aligned(cur)
                      THEN BytesValue(read.value, "big") ELSE read.value
  <2>1. read.outcome # "ok" => read.bit = cur.bit
    BY <1>6
  <2>2. read = [bit |-> read.bit, outcome |-> read.outcome, value |-> read.value]
    BY DEF read_bytes, read_bits, Refused, Reading
  <2>3. read_int(cur, m, FALSE, "big")
          = IF read.outcome # "ok" THEN read
            ELSE [read EXCEPT !.value = IF FALSE THEN TwosComplement(value, m) ELSE value]
    BY DEF read_int
  <2> HIDE DEF read, value
  <2> QED
    BY <2>1, <2>2, <2>3
<1> DEFINE reads == <<read_bits(cur, n), read_bytes(cur, n),
                      read_int(cur, AtLeast0(n), FALSE, "big")>>
<1>8. \A i \in 1 .. 3 : reads[i].outcome # "ok" => reads[i].bit = cur.bit
  <2>1. /\ reads[1] = read_bits(cur, n) /\ reads[2] = read_bytes(cur, n)
        /\ reads[3] = read_int(cur, AtLeast0(n), FALSE, "big")
    OBVIOUS
  <2> HIDE DEF reads
  <2>2. \A i \in 1 .. 3 : i = 1 \/ i = 2 \/ i = 3
    OBVIOUS
  <2> QED
    BY <1>6, <1>7, <2>1, <2>2
<1> QED
  BY <1>2, <1>3, <1>5, <1>8 DEF cur

(* A citation covers what was read and nothing else.                       *)
LEMMA CitedOutward ==
  ASSUME TypeOK
  PROVE  SpansAreOutward
<1> SUFFICES ASSUME NEW c \in DOMAIN cursors,
                    NEW mark \in 0 .. cursors[c].bit, NEW between \in 0 .. cursors[c].bit
             PROVE  LET cur   == cursors[c]
                        bytes == span(cur, mark)
                        bits  == mark .. cur.bit - 1
                    IN  /\ \A k \in bits :
                             cur.base + k \div 8 \in bytes.lo .. bytes.hi - 1
                        /\ mark < cur.bit =>
                             \A b \in bytes.lo .. bytes.hi - 1 :
                                \E k \in bits : cur.base + k \div 8 = b
                        /\ mark <= between =>
                             span(cur, between).lo
                               <= span([cur EXCEPT !.bit = between], mark).hi
  BY DEF SpansAreOutward
<1> DEFINE cur == cursors[c]
<1>1. cur \in CursorType
  BY DEF TypeOK
<1>2. PICK bit \in Nat : bit = cur.bit
  BY <1>1, SizeIsNat
<1>3. PICK base \in Nat : base = cur.base
  BY <1>1, SizeIsNat
<1>4. mark \in 0 .. bit /\ between \in 0 .. bit
  BY <1>2
<1>5. [cur EXCEPT !.bit = between].bit = between /\ [cur EXCEPT !.bit = between].base = base
  BY <1>1, <1>3 DEF CursorType
<1> HIDE DEF cur
<1>6. span(cur, mark) = [lo |-> base + mark \div 8, hi |-> base + (bit + 7) \div 8]
  <2>1. mark <= bit /\ bit + 8 - 1 = bit + 7
    BY <1>4
  <2> QED
    BY <1>2, <1>3, <2>1 DEF span, BITS_PER_BYTE
<1>7. span(cur, between).lo = base + between \div 8
  BY <1>2, <1>3, <1>4 DEF span, BITS_PER_BYTE
<1>8. ASSUME mark <= between
      PROVE  span([cur EXCEPT !.bit = between], mark).hi = base + (between + 7) \div 8
  <2>1. between + 8 - 1 = between + 7
    BY <1>4
  <2> QED
    BY <1>5, <1>8, <2>1 DEF span, BITS_PER_BYTE
<1>9. \A k \in mark .. bit - 1 :
         base + k \div 8 \in base + mark \div 8 .. base + (bit + 7) \div 8 - 1
  BY <1>4
<1>10. ASSUME mark < bit, NEW b \in base + mark \div 8 .. base + (bit + 7) \div 8 - 1
       PROVE  \E k \in mark .. bit - 1 : base + k \div 8 = b
  <2>1. CASE b = base + mark \div 8
    <3>1. mark \in mark .. bit - 1
      BY <1>4, <1>10
    <3> QED
      BY <2>1, <3>1
  <2>2. CASE b > base + mark \div 8
    <3> DEFINE k == 8 * (b - base)
    <3>1. k \in mark .. bit - 1 /\ k \div 8 = b - base
      BY <1>4, <1>10, <2>2
    <3> HIDE DEF k
    <3> QED
      BY <1>10, <3>1
  <2> QED
    BY <1>4, <1>10, <2>1, <2>2
<1>11. base + between \div 8 <= base + (between + 7) \div 8
  BY <1>4
<1> QED
  BY <1>2, <1>3, <1>6, <1>7, <1>8, <1>9, <1>10, <1>11 DEF cur

(* A range asked back by its offsets is what the run has there.            *)
LEMMA SlicedByOffset ==
  ASSUME TypeOK, WindowsOfTheRun
  PROVE  SlicesByOffset
<1> SUFFICES ASSUME NEW c \in DOMAIN cursors,
                    NEW start \in Base .. Base + Len(run) + 1,
                    NEW end \in start .. Base + Len(run) + 1
             PROVE  LET cur  == cursors[c]
                        held == {o \in start .. end - 1 :
                                   cur.base <= o /\ o < cur.base + size(cur)}
                        got  == slice(cur, start, end)
                        low  == IF start > cur.base THEN start ELSE cur.base
                    IN  /\ held = low .. low + Len(got) - 1
                        /\ \A i \in 1 .. Len(got) : got[i] = run[low - Base + i]
  BY DEF SlicesByOffset
<1> DEFINE cur == cursors[c]
           got == slice(cur, start, end)
<1>1. Stretch(cur) /\ run \in Seq(0 .. 255)
  BY StretchOf, RunsAssumption DEF TypeOK
<1> HIDE DEF cur
<1>2. PICK base \in Nat : base = cur.base
  BY <1>1, StretchNats
<1>3. PICK z \in Nat : z = size(cur) /\ z = Len(cur.data)
  BY <1>1, StretchNats
<1>4. cur.data \in Seq(0 .. 255) /\ Base \in Nat /\ Base <= base
  BY <1>1, <1>2, StretchNats DEF Stretch
<1>5. start \in Nat /\ end \in Nat /\ start <= end
  <2>1. Len(run) \in Nat
    BY <1>1
  <2> QED
    BY <1>4, <2>1
<1>6. PICK low \in Nat : low = IF start > cur.base THEN start ELSE cur.base
  BY <1>2, <1>5
<1>7. PICK from \in Nat : from = AtLeast0(start - cur.base) /\ from = low - base
  BY <1>2, <1>5, <1>6 DEF AtLeast0
<1>8. PICK to \in Nat : /\ to = AtLeast0(end - cur.base)
                        /\ to = IF end > base THEN end - base ELSE 0
  BY <1>2, <1>5 DEF AtLeast0
<1>9. PICK last \in Nat : last = IF to < Len(cur.data) THEN to ELSE Len(cur.data)
  BY <1>3
<1>10. got = Clipped(cur.data, from, to)
  BY <1>7, <1>8 DEF slice
<1>11. PICK l \in Nat : l = Len(got) /\ l = IF from < last THEN last - from ELSE 0
  BY <1>4, <1>9, <1>10, ClippedIs
<1> HIDE DEF got
<1>12. \A i \in 1 .. l : got[i] = cur.data[from + i]
  <2>1. \A i \in 1 .. Len(got) : got[i] = cur.data[from + i]
    <3> DEFINE data == cur.data
    <3>1. data \in Seq(0 .. 255)
      BY <1>4
    <3>2. last = IF to < Len(data) THEN to ELSE Len(data)
      BY <1>9
    <3>3. got = Clipped(data, from, to)
      BY <1>10
    <3> HIDE DEF data
    <3>4. \A i \in 1 .. Len(got) : got[i] = data[from + i]
      BY <3>1, <3>3, ClippedIs
    <3> QED
      BY <3>4 DEF data
  <2> QED
    BY <1>11, <2>1
<1>13. {o \in start .. end - 1 : base <= o /\ o < base + z} = low .. low + l - 1
  <2>1. \A o \in Int :
          (o \in start .. end - 1 /\ base <= o /\ o < base + z)
            <=> (low <= o /\ o <= low + l - 1)
    <3> TAKE o \in Int
    <3>1. low = IF start > base THEN start ELSE base
      BY <1>2, <1>6
    <3>2. last = IF to < z THEN to ELSE z
      BY <1>3, <1>9
    <3> QED
      BY <1>5, <1>7, <1>8, <1>11, <3>1, <3>2, SMTT(30)
  <2>2. start .. end - 1 \subseteq Int /\ low .. low + l - 1 \subseteq Int
    BY <1>5
  <2>3. \A o \in Int : o \in low .. low + l - 1 <=> low <= o /\ o <= low + l - 1
    OBVIOUS
  <2> DEFINE upTo == low .. low + l - 1
             asked == start .. end - 1
             In(o) == base <= o /\ o < base + z
             Held(o) == low <= o /\ o <= low + l - 1
  <2>4. asked \subseteq Int /\ upTo \subseteq Int
    BY <2>2
  <2>5. \A o \in Int : o \in upTo <=> Held(o)
    BY <2>3
  <2>6. \A o \in Int : (o \in asked /\ In(o)) <=> Held(o)
    BY <2>1
  <2> HIDE DEF upTo, asked, In, Held
  <2>7. {o \in asked : In(o)} = upTo
    BY <2>4, <2>5, <2>6, Zenon
  <2> QED
    BY <2>7 DEF upTo, asked, In
<1>14. ASSUME NEW i \in 1 .. l PROVE got[i] = run[low - Base + i]
  <2>1. last <= z
    BY <1>3, <1>9
  <2>2. from + i \in 1 .. z
    BY <1>11, <2>1
  <2>3. cur.data[from + i] = run[base - Base + (from + i)]
    BY <1>1, <1>2, <1>3, <2>2 DEF Stretch
  <2>4. base - Base + (from + i) = low - Base + i
    <3>1. PICK first \in Nat : first = Base
      BY <1>4
    <3>2. i \in Int
      OBVIOUS
    <3>3. base - first + (from + i) = low - first + i
      BY <1>7, <3>2
    <3> QED
      BY <3>1, <3>3
  <2> QED
    BY <1>12, <2>3, <2>4
<1> QED
  BY <1>2, <1>3, <1>6, <1>11, <1>13, <1>14 DEF cur, got

(* Where a sequence begins in what is ahead of a place in the data.        *)
Begins(ahead, what, k) ==
  /\ k + Len(what) <= Len(ahead)
  /\ \A i \in 1 .. Len(what) : ahead[k + i] = what[i]

(* A sequence occurs in the window where it begins in what is ahead.       *)
LEMMA OccursAhead ==
  ASSUME NEW data \in Seq(0 .. 255), NEW what \in Seq(0 .. 255),
         NEW q \in Nat, q <= Len(data), NEW k \in Nat
  PROVE  Occurs(data, what, q + k)
           <=> Begins(SubSeq(data, q + 1, Len(data)), what, k)
<1> DEFINE ahead == SubSeq(data, q + 1, Len(data))
<1>1. PICK z \in Nat : z = Len(data)
  OBVIOUS
<1>2. PICK l \in Nat : l = Len(what)
  OBVIOUS
<1>3. \A i \in 1 .. z : data[i] \in 0 .. 255
  BY <1>1, ElementOfSeq
<1>4. /\ Len(ahead) = z - q
      /\ \A i \in 1 .. z - q : ahead[i] = data[q + i]
  <2>1. q + 1 \in Int /\ z \in Int /\ \A i \in q + 1 .. z : data[i] \in 0 .. 255
    BY <1>3
  <2>2. /\ Len(ahead) = IF q + 1 <= z THEN z - (q + 1) + 1 ELSE 0
        /\ \A i \in 1 .. z - (q + 1) + 1 : ahead[i] = data[q + 1 + i - 1]
    BY <1>1, <2>1, SubSeqProperties
  <2>3. (IF q + 1 <= z THEN z - (q + 1) + 1 ELSE 0) = z - q
    BY <1>1
  <2>4. \A i \in 1 .. z - q : i \in 1 .. z - (q + 1) + 1 /\ q + 1 + i - 1 = q + i
    BY <1>1
  <2> HIDE DEF ahead
  <2> QED
    BY <2>2, <2>3, <2>4
<1> HIDE DEF ahead
<1>5. CASE ~(k + l <= z - q)
  <2>1. ~(q + k + l <= z)
    BY <1>1, <1>5
  <2> QED
    BY <1>1, <1>2, <1>4, <1>5, <2>1 DEF Occurs, Begins, ahead
<1>6. CASE k + l <= z - q
  <2> DEFINE part == SubSeq(data, q + k + 1, q + k + l)
  <2>1. q + k + l <= z
    BY <1>1, <1>6
  <2>2. /\ part \in Seq(0 .. 255) /\ Len(part) = l
        /\ \A i \in 1 .. l : part[i] = data[q + k + i]
    <3>1. /\ q + k + 1 \in Int /\ q + k + l \in Int
          /\ \A i \in q + k + 1 .. q + k + l : data[i] \in 0 .. 255
      BY <1>3, <2>1
    <3>2. /\ part \in Seq(0 .. 255)
          /\ Len(part) = IF q + k + 1 <= q + k + l
                         THEN q + k + l - (q + k + 1) + 1 ELSE 0
          /\ \A i \in 1 .. q + k + l - (q + k + 1) + 1 :
               part[i] = data[q + k + 1 + i - 1]
      BY <3>1, SubSeqProperties
    <3>3. /\ (IF q + k + 1 <= q + k + l
              THEN q + k + l - (q + k + 1) + 1 ELSE 0) = l
          /\ q + k + l - (q + k + 1) + 1 = l
      OBVIOUS
    <3>4. \A i \in 1 .. l : q + k + 1 + i - 1 = q + k + i
      OBVIOUS
    <3> HIDE DEF part
    <3> QED
      BY <3>2, <3>3, <3>4
  <2>3. part = what <=> \A i \in 1 .. l : part[i] = what[i]
    <3> HIDE DEF part
    <3>1. ASSUME \A i \in 1 .. l : part[i] = what[i] PROVE part = what
      BY <1>2, <2>2, <3>1, SeqEqual
    <3> QED
      BY <3>1
  <2>4. \A i \in 1 .. l : ahead[k + i] = part[i]
    <3> TAKE i \in 1 .. l
    <3>1. k + i \in 1 .. z - q /\ q + (k + i) = q + k + i
      BY <1>6
    <3> QED
      BY <1>4, <2>2, <3>1
  <2>5. Occurs(data, what, q + k) <=> part = what
    BY <1>1, <1>2, <2>1 DEF Occurs
  <2>6. Begins(ahead, what, k) <=> \A i \in 1 .. l : ahead[k + i] = what[i]
    BY <1>2, <1>4, <1>6 DEF Begins
  <2> HIDE DEF part
  <2> QED
    BY <2>3, <2>4, <2>5, <2>6 DEF ahead
<1> QED
  BY <1>5, <1>6

(* The first place a search finds, counted from where it starts.           *)
FirstAhead(ahead, what, q, found) ==
  \/ found = -1 /\ \A k \in Nat : ~Begins(ahead, what, k)
  \/ \E x \in Nat : /\ found = q + x
                   /\ Begins(ahead, what, x)
                   /\ \A k \in Nat : Begins(ahead, what, k) => x <= k

LEMMA AheadLen ==
  ASSUME NEW data \in Seq(0 .. 255), NEW q \in Nat, q <= Len(data)
  PROVE  Len(SubSeq(data, q + 1, Len(data))) = Len(data) - q
<1> DEFINE ahead == SubSeq(data, q + 1, Len(data))
<1>1. PICK z \in Nat : z = Len(data)
  OBVIOUS
<1>2. q + 1 \in Int /\ z \in Int /\ \A i \in q + 1 .. z : data[i] \in 0 .. 255
  BY <1>1, ElementOfSeq
<1>3. Len(ahead) = IF q + 1 <= z THEN z - (q + 1) + 1 ELSE 0
  BY <1>1, <1>2, SubSeqProperties
<1>4. (IF q + 1 <= z THEN z - (q + 1) + 1 ELSE 0) = z - q
  BY <1>1
<1> HIDE DEF ahead
<1>5. Len(ahead) = z - q
  BY <1>3, <1>4
<1> QED
  BY <1>1, <1>5 DEF ahead

(* bytes.find, as the code uses it, returns the first such place.          *)
LEMMA FindsTheFirst ==
  ASSUME NEW data \in Seq(0 .. 255), NEW what \in Seq(0 .. 255),
         NEW q \in Nat, q <= Len(data)
  PROVE  FirstAhead(SubSeq(data, q + 1, Len(data)), what, q,
                    FoundFrom(data, what, q))
<1> DEFINE ahead == SubSeq(data, q + 1, Len(data))
           places == {k \in q .. Len(data) : Occurs(data, what, k)}
           found == FoundFrom(data, what, q)
<1>1. PICK z \in Nat : z = Len(data)
  OBVIOUS
<1>2. \A k \in Nat : Occurs(data, what, q + k) <=> Begins(ahead, what, k)
  BY OccursAhead
<1>3. \A k \in Nat : Begins(ahead, what, k) => q + k <= z
  <2>1. Len(ahead) = z - q /\ Len(what) \in Nat
    BY <1>1, AheadLen
  <2> HIDE DEF ahead
  <2> QED
    BY <2>1 DEF Begins
<1>4. found = IF places = {} THEN -1
              ELSE CHOOSE k \in places : \A j \in places : k <= j
  BY DEF FoundFrom
<1>5. \A k \in Nat : Begins(ahead, what, k) => q + k \in places
  <2> TAKE k \in Nat
  <2> HAVE Begins(ahead, what, k)
  <2>1. q + k \in q .. Len(data)
    BY <1>1, <1>3
  <2> QED
    BY <1>2, <2>1
<1>6. places \in SUBSET Nat /\ \A k \in places : q <= k /\ Occurs(data, what, k)
  BY <1>1
<1> HIDE DEF places, found
<1>7. CASE places = {}
  BY <1>4, <1>5, <1>7 DEF FirstAhead, found
<1>8. CASE places # {}
  <2>1. \E k \in places : \A j \in places : k <= j
    BY <1>6, <1>8, LeastNat
  <2>2. found \in places /\ \A j \in places : found <= j
    BY <1>4, <1>8, <2>1
  <2>3. PICK x \in Nat : found = q + x
    <3>1. found \in Nat /\ q <= found
      BY <1>6, <2>2
    <3>2. found - q \in Nat /\ found = q + (found - q)
      BY <3>1
    <3> QED
      BY <3>2
  <2>4. Begins(ahead, what, x)
    BY <1>2, <1>6, <2>2, <2>3
  <2>5. \A k \in Nat : Begins(ahead, what, k) => x <= k
    <3> TAKE k \in Nat
    <3> HAVE Begins(ahead, what, k)
    <3>1. q + x <= q + k
      BY <1>5, <2>2, <2>3
    <3> QED
      BY <3>1
  <2> HIDE DEF ahead
  <2> QED
    BY <2>3, <2>4, <2>5 DEF FirstAhead, found, ahead
<1> QED
  BY <1>7, <1>8

(* A search takes the delimiter unless its bound comes first.              *)
LEMMA FoundFirst ==
  ASSUME TypeOK, WindowsOfTheRun
  PROVE  FindsWhicheverComesFirst
<1> SUFFICES ASSUME NEW c \in DOMAIN cursors,
                    NEW delimiter \in Searches,
                    NEW within \in Searches \cup {None}
             PROVE  LET cur == cursors[c]
                        ahead == SubSeq(cur.data, cur.bit \div 8 + 1, size(cur))
                        Here(what, k) == Begins(ahead, what, k)
                        stops == {k \in 0 .. Len(ahead) - 1 :
                                    \/ Here(delimiter, k)
                                    \/ within # None /\ Here(within, k)}
                        nearest == {k \in stops :
                                      \A j \in stops : k <= j /\ Here(delimiter, k)}
                        search == find(cur, delimiter, within)
                    IN  IF delimiter = <<>> \/ within = <<>> \/ cur.bit % 8 # 0
                        THEN search.outcome = "ValueError" /\ search.bit = cur.bit
                        ELSE /\ search.outcome = "ok" /\ search.bit = cur.bit
                             /\ search.value = IF nearest = {} THEN NoValue
                                               ELSE CHOOSE k \in nearest : TRUE
  BY DEF FindsWhicheverComesFirst, Begins
<1> DEFINE search == find(cursors[c], delimiter, within)
           Good == delimiter # <<>> /\ within # <<>> /\ cursors[c].bit % 8 = 0
<1>refused. CASE ~Good
  <2>1. search.outcome = "ValueError" /\ search.bit = cursors[c].bit
    BY <1>refused DEF find, Searchable, is_aligned, BITS_PER_BYTE, Refused, Reading
  <2>2. QED
    BY <1>refused, <2>1
<1>made. ASSUME Good
      PROVE  search.outcome = "ok" /\ search.bit = cursors[c].bit
  BY <1>made DEF find, Searchable, is_aligned, BITS_PER_BYTE, Refused, Reading
<1> SUFFICES ASSUME delimiter # <<>>, within # <<>>, is_aligned(cursors[c])
             PROVE  LET cur == cursors[c]
                        ahead == SubSeq(cur.data, cur.bit \div 8 + 1, size(cur))
                        Here(what, k) == Begins(ahead, what, k)
                        stops == {k \in 0 .. Len(ahead) - 1 :
                                    \/ Here(delimiter, k)
                                    \/ within # None /\ Here(within, k)}
                        nearest == {k \in stops :
                                      \A j \in stops : k <= j /\ Here(delimiter, k)}
                    IN  find(cur, delimiter, within).value
                          = IF nearest = {} THEN NoValue
                            ELSE CHOOSE k \in nearest : TRUE
  BY <1>refused, <1>made DEF is_aligned, BITS_PER_BYTE
<1> HIDE DEF search, Good
<1> DEFINE cur == cursors[c]
           data == cur.data
           q == cur.bit \div 8
           ahead == SubSeq(data, q + 1, size(cur))
           D(k) == Begins(ahead, delimiter, k)
           W(k) == Begins(ahead, within, k)
           stops == {k \in 0 .. Len(ahead) - 1 : D(k) \/ (within # None /\ W(k))}
           nearest == {k \in stops : \A j \in stops : k <= j /\ D(k)}
           found == FoundFrom(data, delimiter, q)
           bound == FoundFrom(data, within, q)
<1> SUFFICES find(cur, delimiter, within).value
               = IF nearest = {} THEN NoValue ELSE CHOOSE k \in nearest : TRUE
  OBVIOUS
<1>1. Stretch(cur) /\ run \in Seq(0 .. 255)
  BY StretchOf, RunsAssumption DEF TypeOK
<1>2. data \in Seq(0 .. 255) /\ q \in Nat /\ q <= Len(data)
  <2> HIDE DEF cur
  <2>1. cur.bit \in Nat /\ size(cur) \in Nat /\ Len(data) = size(cur) /\ data \in Seq(0 .. 255)
    BY <1>1, StretchNats
  <2>2. cur.bit <= size(cur) * 8
    BY <1>1 DEF Stretch, Inside, BITS_PER_BYTE
  <2>3. q \in Nat /\ q <= size(cur)
    BY <2>1, <2>2
  <2> QED
    BY <2>1, <2>3
<1>3. /\ delimiter \in Seq(0 .. 255)
      /\ within # None => within \in Seq(0 .. 255)
  BY SearchesAssumption
<1>4. find(cur, delimiter, within).value
        = IF found < 0 \/ (within # None /\ 0 <= bound /\ bound < found)
          THEN NoValue ELSE found - q
  BY DEF find, Searchable, Reading, BITS_PER_BYTE
<1>5. ahead = SubSeq(data, q + 1, Len(data))
  BY DEF size
<1> HIDE DEF cur, data, q, ahead
<1>6. /\ FirstAhead(ahead, delimiter, q, found)
      /\ within # None => FirstAhead(ahead, within, q, bound)
  <2>1. \A what \in Seq(0 .. 255) :
          FirstAhead(ahead, what, q, FoundFrom(data, what, q))
    BY <1>2, <1>5, FindsTheFirst
  <2> QED
    BY <1>3, <2>1
<1>7. PICK n \in Nat : n = Len(ahead)
  <2>1. Len(ahead) = Len(data) - q /\ Len(data) \in Nat
    BY <1>2, <1>5, AheadLen
  <2>2. Len(data) - q \in Nat
    BY <1>2, <2>1
  <2> QED
    BY <2>1, <2>2
<1> HIDE DEF found, bound
<1>8. \A k \in Nat : D(k) \/ (within # None /\ W(k)) => k \in 0 .. n - 1
  <2>1. Len(delimiter) \in Nat \ {0} /\ (within # None => Len(within) \in Nat \ {0})
    BY <1>3, EmptySeq
  <2> QED
    BY <1>7, <2>1 DEF Begins
<1>9. stops = {k \in 0 .. n - 1 : D(k) \/ (within # None /\ W(k))}
  BY <1>7
<1> HIDE DEF D, W, stops
<1>10. /\ stops \subseteq Nat
       /\ \A k \in Nat : k \in stops <=> D(k) \/ (within # None /\ W(k))
  <2>1. \A k \in stops : k \in 0 .. n - 1 /\ (D(k) \/ (within # None /\ W(k)))
    BY <1>9
  <2>2. \A k \in 0 .. n - 1 : k \in Nat
    OBVIOUS
  <2>3. \A k \in 0 .. n - 1 : D(k) \/ (within # None /\ W(k)) => k \in stops
    BY <1>9
  <2> QED
    BY <1>8, <2>1, <2>2, <2>3
<1>11. \A k \in nearest : k \in stops /\ D(k) /\ \A j \in stops : k <= j
  OBVIOUS
<1>12. \A k \in stops : D(k) /\ (\A j \in stops : k <= j) => k \in nearest
  OBVIOUS
<1>13. nearest \subseteq stops
  OBVIOUS
<1> HIDE DEF nearest
<1>14. CASE found = -1 /\ \A k \in Nat : ~D(k)
  <2>1. nearest = {}
    BY <1>10, <1>11, <1>14
  <2>2. find(cur, delimiter, within).value = NoValue
    BY <1>4, <1>14
  <2> QED
    BY <2>1, <2>2
<1>15. ASSUME NEW x \in Nat, found = q + x, D(x), \A k \in Nat : D(k) => x <= k
       PROVE  find(cur, delimiter, within).value
                = IF nearest = {} THEN NoValue ELSE CHOOSE k \in nearest : TRUE
  <2>1. ASSUME within # None, NEW y \in Nat, bound = q + y, W(y), y < x
        PROVE  /\ nearest = {}
               /\ find(cur, delimiter, within).value = NoValue
    <3>1. y \in stops
      BY <1>10, <2>1
    <3>2. ASSUME NEW k \in nearest PROVE FALSE
      <4>1. k \in Nat /\ D(k) /\ k <= y
        BY <1>10, <1>11, <3>1, <3>2
      <4>2. x <= k
        BY <1>15, <4>1
      <4> QED
        BY <2>1, <4>1, <4>2
    <3>3. 0 <= bound /\ bound < found
      BY <1>2, <1>15, <2>1
    <3> QED
      BY <1>4, <2>1, <3>2, <3>3
  <2>2. ASSUME \A k \in Nat : within # None /\ W(k) => x <= k,
               ~(within # None /\ 0 <= bound /\ bound < found)
        PROVE  nearest = {x} /\ find(cur, delimiter, within).value = x
    <3>1. x \in stops
      BY <1>10, <1>15
    <3>2. \A j \in stops : x <= j
      BY <1>10, <1>15, <2>2
    <3>3. x \in nearest
      BY <1>12, <1>15, <3>1, <3>2
    <3>4. ASSUME NEW k \in nearest PROVE k = x
      <4>1. k \in Nat /\ k <= x /\ x <= k
        BY <1>10, <1>11, <1>13, <3>1, <3>2
      <4> QED
        BY <4>1
    <3>5. ~(found < 0) /\ found - q = x
      BY <1>2, <1>15
    <3> QED
      BY <1>4, <2>2, <3>3, <3>4, <3>5
  <2>3. \/ \E y \in Nat : within # None /\ bound = q + y /\ W(y) /\ y < x
        \/ /\ \A k \in Nat : within # None /\ W(k) => x <= k
           /\ ~(within # None /\ 0 <= bound /\ bound < found)
    <3>1. CASE bound = -1 /\ \A k \in Nat : ~W(k)
      BY <3>1
    <3>2. ASSUME NEW y \in Nat, bound = q + y, W(y), \A k \in Nat : W(k) => y <= k
          PROVE  \/ within # None => y < x
                 \/ /\ \A k \in Nat : W(k) => x <= k
                    /\ ~(bound < found)
      BY <1>2, <1>15, <3>2
    <3>3. ASSUME within # None PROVE FirstAhead(ahead, within, q, bound)
      BY <1>6, <3>3
    <3>4. \/ within = None
          \/ bound = -1 /\ \A k \in Nat : ~W(k)
          \/ \E y \in Nat : bound = q + y /\ W(y) /\ \A k \in Nat : W(k) => y <= k
      BY <3>3 DEF FirstAhead, W
    <3>5. CASE within = None
      BY <3>5
    <3>6. CASE within # None
      BY <3>1, <3>2, <3>4, <3>6
    <3> QED
      BY <3>5, <3>6
  <2>4. CASE nearest = {} /\ find(cur, delimiter, within).value = NoValue
    BY <2>4
  <2>5. CASE nearest = {x} /\ find(cur, delimiter, within).value = x
    BY <2>5
  <2> QED
    BY <2>1, <2>2, <2>3, <2>4, <2>5
<1>16. FirstAhead(ahead, delimiter, q, found)
  BY <1>6
<1>17. \/ found = -1 /\ \A k \in Nat : ~D(k)
       \/ \E x \in Nat : found = q + x /\ D(x) /\ \A k \in Nat : D(k) => x <= k
  BY <1>16 DEF FirstAhead, D
<1> QED
  BY <1>14, <1>15, <1>17

LEMMA EveryReadIsExact ==
  ASSUME TypeOK, WindowsOfTheRun
  PROVE  ReadsAreExact
BY ReadsSay, TruncatedAtTheEnd, CitedOutward, FoundFirst, SlicedByOffset
   DEF ReadsAreExact

(* Every operation of a cursor, asked for anything wherever the decode has *)
(* left it, answers with what the run holds: a read at any bit, of any     *)
(* width, sign and byte order is the number those bits spell, and is       *)
(* refused as truncated only when the window ends first; a citation covers *)
(* the bytes read and no others; a search takes the delimiter only when it *)
(* comes no later than its bound; and a range asked back by its offsets is *)
(* what was there (Cursor.read_bits, read_int, read_bytes, span, find,     *)
(* slice).                                                                 *)
THEOREM ReadsAreTrue == Spec => []ReadsAreExact
<1>1. Init => TypeOK /\ WindowsOfTheRun
  BY InitHolds
<1>2. TypeOK /\ WindowsOfTheRun /\ [Next]_vars => TypeOK' /\ WindowsOfTheRun'
  BY StepHolds
<1>3. TypeOK /\ WindowsOfTheRun => ReadsAreExact
  BY EveryReadIsExact
<1>4. QED
  BY <1>1, <1>2, <1>3, PTL DEF Spec

=============================================================================
