------------------------------- MODULE Cursor -------------------------------
(***************************************************************************)
(* kober.cursor: read positions over one contiguous run of bytes.  A       *)
(* cursor holds a window of the run, the stream offset of its first byte   *)
(* and a position in bits.  A decode starts with one over the whole run;   *)
(* a redirect opens others over parts of it (view) and reads there while   *)
(* the first stays where it is.  An operation is an operator on a cursor   *)
(* that says where the position is left, whether it was refused, and what  *)
(* it returned; an action lets one of the open cursors do one.             *)
(***************************************************************************)
EXTENDS Integers, Sequences

CONSTANTS
  Runs,         (* the runs a decode may be given, as sequences of bytes   *)
  Base,         (* the stream offset of a run's first byte                 *)
  MaxCursors,   (* how many cursors are open at once                       *)
  Counts,       (* the counts reads are asked for                          *)
  Searches,     (* the byte sequences searched for                         *)
  None          (* the bound of a search that is given none                *)

BITS_PER_BYTE == 8

ASSUME RunsAssumption == Runs \subseteq Seq(0 .. 255)
ASSUME BaseAssumption == Base \in Nat
ASSUME MaxCursorsAssumption == MaxCursors \in Nat \ {0}
ASSUME CountsAssumption == Counts \subseteq Int
ASSUME SearchesAssumption == Searches \subseteq Seq(0 .. 255)
ASSUME NoneAssumption == None \notin Seq(0 .. 255)

VARIABLES
  run,          (* the run being decoded                                   *)
  cursors,      (* the open cursors, the first over the whole run          *)
  claims        (* a history: for each cursor the offset it was last put   *)
                (* at without a read, and what reads cited since           *)

vars == <<run, cursors, claims>>

NoValue == -1

(***************************************************************************)
(* Position.                                                               *)
(***************************************************************************)
New(data, base) == [data |-> data, base |-> base, bit |-> 0]

size(cur) == Len(cur.data)

remaining_bits(cur) == size(cur) * BITS_PER_BYTE - cur.bit

remaining_bytes(cur) == remaining_bits(cur) \div BITS_PER_BYTE

is_aligned(cur) == cur.bit % BITS_PER_BYTE = 0

byte_offset(cur) == cur.base + cur.bit \div BITS_PER_BYTE

(* A mutant: a citation that stops at the last whole byte.                 *)
spanRoundedDown(cur, mark) ==
  [lo |-> cur.base + mark \div BITS_PER_BYTE,
   hi |-> cur.base + cur.bit \div BITS_PER_BYTE]

(* The bytes read since a mark, rounded outward.                           *)
span(cur, mark) ==
  LET low  == IF mark <= cur.bit THEN mark ELSE cur.bit
      high == IF mark <= cur.bit THEN cur.bit ELSE mark
  IN  [lo |-> cur.base + low \div BITS_PER_BYTE,
       hi |-> cur.base + (high + BITS_PER_BYTE - 1) \div BITS_PER_BYTE]

(* Python's data[start:end], which comes back short past the end.          *)
Clipped(data, start, end) ==
  SubSeq(data, start + 1, IF end < Len(data) THEN end ELSE Len(data))

AtLeast0(n) == IF n < 0 THEN 0 ELSE n

(* A mutant: an offset before the window counts back from its end.         *)
sliceUnclipped(cur, start, end) ==
  LET FromEnd(n) == IF n < 0 THEN AtLeast0(n + size(cur)) ELSE n
  IN  Clipped(cur.data, FromEnd(start - cur.base), FromEnd(end - cur.base))

slice(cur, start, end) ==
  Clipped(cur.data, AtLeast0(start - cur.base), AtLeast0(end - cur.base))

(***************************************************************************)
(* Values.                                                                 *)
(***************************************************************************)
(* 1 << n.                                                                 *)
PowerOf2[n \in Nat] == IF n = 0 THEN 1 ELSE 2 * PowerOf2[n - 1]

(* The bit at a position, the most significant of a byte first.            *)
BitAt(data, k) ==
  (data[k \div BITS_PER_BYTE + 1]
     \div PowerOf2[BITS_PER_BYTE - 1 - (k % BITS_PER_BYTE)]) % 2

BitsValue(data, bit, count) ==
  LET value[k \in 0 .. count] ==
        IF k = 0 THEN 0 ELSE 2 * value[k - 1] + BitAt(data, bit + k - 1)
  IN  value[count]

BytesValue(bytes, endian) ==
  LET value[k \in 0 .. Len(bytes)] ==
        IF k = 0 THEN 0
        ELSE 256 * value[k - 1]
               + bytes[IF endian = "big" THEN k ELSE Len(bytes) + 1 - k]
  IN  value[Len(bytes)]

(* A mutant: the lowest value of a width is read as a positive one.        *)
TwosComplementLate(value, bits) ==
  IF bits > 0 /\ value > PowerOf2[bits - 1] THEN value - PowerOf2[bits] ELSE value

TwosComplement(value, bits) ==
  IF bits > 0 /\ value >= PowerOf2[bits - 1] THEN value - PowerOf2[bits] ELSE value

(***************************************************************************)
(* What an operation leaves: the position, the outcome and the value.      *)
(***************************************************************************)
Reading(bit, outcome, value) == [bit |-> bit, outcome |-> outcome, value |-> value]

Refused(cur, error) == Reading(cur.bit, error, NoValue)

(* A mutant: a read that ends where the window does is refused.            *)
Runs_pastEarly(cur, bits) == bits >= remaining_bits(cur)

Runs_past(cur, bits) == bits > remaining_bits(cur)

(* A mutant: a read that comes short has taken what was left.              *)
read_bitsTakesTheRest(cur, count) ==
  IF count < 0 THEN Refused(cur, "ValueError")
  ELSE IF Runs_past(cur, count)
       THEN Reading(size(cur) * BITS_PER_BYTE, "TruncatedRead", NoValue)
  ELSE Reading(cur.bit + count, "ok", BitsValue(cur.data, cur.bit, count))

read_bits(cur, count) ==
  IF count < 0 THEN Refused(cur, "ValueError")
  ELSE IF Runs_past(cur, count) THEN Refused(cur, "TruncatedRead")
  ELSE Reading(cur.bit + count, "ok", BitsValue(cur.data, cur.bit, count))

(* The bytes a whole-byte read would take.                                 *)
BytesFrom(cur, count) ==
  LET start == cur.bit \div BITS_PER_BYTE
  IN  Clipped(cur.data, start, start + count)

read_bytes(cur, count) ==
  IF count < 0 \/ ~is_aligned(cur) THEN Refused(cur, "ValueError")
  ELSE IF Runs_past(cur, count * BITS_PER_BYTE)
       THEN Refused(cur, "TruncatedRead")
  ELSE Reading(cur.bit + count * BITS_PER_BYTE, "ok", BytesFrom(cur, count))

(* A whole number of bytes at a byte boundary is read in the byte order    *)
(* asked for; anything else is read bit by bit, where it means nothing.    *)
read_int(cur, bits, signed, endian) ==
  LET whole == bits % BITS_PER_BYTE = 0 /\ is_aligned(cur)
      read  == IF whole THEN read_bytes(cur, bits \div BITS_PER_BYTE)
                        ELSE read_bits(cur, bits)
      value == IF whole THEN BytesValue(read.value, endian) ELSE read.value
  IN  IF read.outcome # "ok" THEN read
      ELSE [read EXCEPT !.value = IF signed THEN TwosComplement(value, bits)
                                            ELSE value]

(***************************************************************************)
(* Searching.                                                              *)
(***************************************************************************)
Occurs(data, what, k) ==
  /\ k + Len(what) <= Len(data)
  /\ SubSeq(data, k + 1, k + Len(what)) = what

(* Python's data.find(what, here), which has -1 for absent.                *)
FoundFrom(data, what, here) ==
  LET places == {k \in here .. Len(data) : Occurs(data, what, k)}
  IN  IF places = {} THEN -1
      ELSE CHOOSE k \in places : \A j \in places : k <= j

(* A search for nothing, one bounded by nothing, or one from inside a byte *)
(* is refused; a search without a bound is not bounded by nothing.         *)
Searchable(cur, delimiter, within) ==
  delimiter # <<>> /\ within # <<>> /\ is_aligned(cur)

(* A mutant: a delimiter that begins where the bound does is past it.      *)
findBeforeTheBound(cur, delimiter, within) ==
  LET here  == cur.bit \div BITS_PER_BYTE
      found == FoundFrom(cur.data, delimiter, here)
      bound == FoundFrom(cur.data, within, here)
  IN  IF ~Searchable(cur, delimiter, within) THEN Refused(cur, "ValueError")
      ELSE IF found < 0 \/ (within # None /\ 0 <= bound /\ bound <= found)
           THEN Reading(cur.bit, "ok", NoValue)
      ELSE Reading(cur.bit, "ok", found - here)

find(cur, delimiter, within) ==
  LET here  == cur.bit \div BITS_PER_BYTE
      found == FoundFrom(cur.data, delimiter, here)
      bound == FoundFrom(cur.data, within, here)
  IN  IF ~Searchable(cur, delimiter, within) THEN Refused(cur, "ValueError")
      ELSE IF \/ found < 0
              \/ within # None /\ 0 <= bound /\ bound < found
           THEN Reading(cur.bit, "ok", NoValue)
      ELSE Reading(cur.bit, "ok", found - here)

(***************************************************************************)
(* Moving.                                                                 *)
(***************************************************************************)
seek(cur, bit) ==
  IF bit \in 0 .. size(cur) * BITS_PER_BYTE THEN Reading(bit, "ok", NoValue)
                                            ELSE Refused(cur, "ValueError")

seek_to(cur, offset) == seek(cur, (offset - cur.base) * BITS_PER_BYTE)

(* A mutant: a position already at a boundary is taken to the next.        *)
alignAlways(cur) ==
  LET skipped == BITS_PER_BYTE - (cur.bit % BITS_PER_BYTE)
  IN  Reading(cur.bit + skipped, "ok", skipped)

align(cur) ==
  LET over    == cur.bit % BITS_PER_BYTE
      skipped == IF over = 0 THEN 0 ELSE BITS_PER_BYTE - over
  IN  Reading(cur.bit + skipped, "ok", skipped)

(* A second cursor over part of the window, keeping the stream's offsets.  *)
InWindow(cur, start, end) ==
  /\ cur.base <= start /\ start <= end
  /\ end <= cur.base + size(cur)

(* A mutant: the window is cut by the stream's offsets.                    *)
viewByOffset(cur, start, end) == New(Clipped(cur.data, start, end), start)

view(cur, start, end) ==
  New(Clipped(cur.data, start - cur.base, end - cur.base), start)

(***************************************************************************)
(* Actions.                                                                *)
(***************************************************************************)
Endians == {"big", "little"}

Offsets == Base .. Base + Len(run)

Bytes(range) == range.lo .. range.hi - 1

Move(c, reading) ==
  /\ cursors' = [cursors EXCEPT ![c].bit = reading.bit]
  /\ UNCHANGED run

(* What is read is cited by the span from where the read began.            *)
Read(c, reading) ==
  LET moved == [cursors[c] EXCEPT !.bit = reading.bit]
  IN  /\ Move(c, reading)
      /\ claims' = IF reading.outcome # "ok" THEN claims
                   ELSE [claims EXCEPT ![c].cited =
                           @ \cup Bytes(span(moved, cursors[c].bit))]

ReadBits(c) == \E n \in Counts : Read(c, read_bits(cursors[c], n))

ReadInt(c) ==
  \E n \in Counts \cap Nat, signed \in BOOLEAN, endian \in Endians :
     Read(c, read_int(cursors[c], n, signed, endian))

ReadBytes(c) == \E n \in Counts : Read(c, read_bytes(cursors[c], n))

ReadRemaining(c) ==
  Read(c, read_bytes(cursors[c], remaining_bytes(cursors[c])))

SeekTo(c) ==
  \E offset \in Offsets :
     LET sought == seek_to(cursors[c], offset)
     IN  /\ Move(c, sought)
         /\ claims' = IF sought.outcome # "ok" THEN claims
                      ELSE [claims EXCEPT ![c] = [since |-> offset, cited |-> {}]]

Align(c) == Move(c, align(cursors[c])) /\ UNCHANGED claims

View(c) ==
  \E start, end \in Offsets :
     /\ Len(cursors) < MaxCursors
     /\ InWindow(cursors[c], start, end)
     /\ cursors' = Append(cursors, view(cursors[c], start, end))
     /\ claims' = Append(claims, [since |-> start, cited |-> {}])
     /\ UNCHANGED run

Init ==
  /\ run \in Runs
  /\ cursors = <<New(run, Base)>>
  /\ claims = <<[since |-> Base, cited |-> {}]>>

Next ==
  \E c \in DOMAIN cursors :
     \/ ReadBits(c) \/ ReadInt(c) \/ ReadBytes(c) \/ ReadRemaining(c)
     \/ SeekTo(c) \/ Align(c) \/ View(c)

Spec == Init /\ [][Next]_vars

-----------------------------------------------------------------------------
(***************************************************************************)
(* Properties.                                                             *)
(***************************************************************************)
(* A position never leaves its cursor's window, whatever was asked for.    *)
CursorType ==
  [data : Seq(0 .. 255), base : Nat, bit : Nat]

ClaimType ==
  [since : Nat, cited : SUBSET Nat]

TypeOK ==
  /\ run \in Runs
  /\ cursors \in Seq(CursorType)
  /\ claims \in Seq(ClaimType)
  /\ Len(claims) = Len(cursors)
  /\ \A c \in DOMAIN cursors :
        cursors[c].bit <= size(cursors[c]) * BITS_PER_BYTE

(* However many redirects deep, a cursor's window is a stretch of the run, *)
(* holding at each stream offset the byte the run has there.               *)
WindowsOfTheRun ==
  \A c \in DOMAIN cursors :
     LET cur == cursors[c]
     IN  /\ Base <= cur.base
         /\ cur.base + size(cur) <= Base + Len(run)
         /\ \A i \in 1 .. size(cur) : cur.data[i] = run[cur.base - Base + i]

(* What any read would return now, stated of the run and the stream's      *)
(* offsets rather than of the window it is made through.  Bits are taken   *)
(* most significant first; little-endian reverses whole bytes; a signed    *)
(* value is the one congruent to it that the width holds.                  *)
Place(cur) == (cur.base - Base) * BITS_PER_BYTE + cur.bit

BigEndian(at, bits) ==
  LET value[k \in 0 .. bits] ==
        IF k = 0 THEN 0
        ELSE value[k - 1] + BitAt(run, at + bits - k) * PowerOf2[k - 1]
  IN  value[bits]

Swapped(at, bits) ==
  LET value[k \in 0 .. bits \div 8] ==
        IF k = 0 THEN 0
        ELSE value[k - 1] + run[at \div 8 + k] * PowerOf2[8 * (k - 1)]
  IN  value[bits \div 8]

ReadsWhatTheRunHolds ==
  \A c \in DOMAIN cursors, n \in Counts \cap Nat :
  \A signed \in BOOLEAN, endian \in Endians :
     LET cur   == cursors[c]
         read  == read_int(cur, n, signed, endian)
         plain == IF endian = "little" /\ n % 8 = 0 /\ cur.bit % 8 = 0
                  THEN Swapped(Place(cur), n) ELSE BigEndian(Place(cur), n)
     IN  read.outcome = "ok" =>
           /\ read.bit = cur.bit + n
           /\ n > 0 /\ signed =>
                 /\ - PowerOf2[n - 1] <= read.value
                 /\ read.value < PowerOf2[n - 1]
                 /\ (read.value - plain) % PowerOf2[n] = 0
           /\ ~signed => read.value = plain

(* A read is refused as truncated exactly when the window ends before it,  *)
(* and one that is refused, for whatever reason, has moved nothing.        *)
TruncatedOnlyAtTheEnd ==
  \A c \in DOMAIN cursors, n \in Counts :
     LET cur == cursors[c]
         left == size(cur) * 8 - cur.bit
     IN  /\ n >= 0 =>
              /\ read_bits(cur, n).outcome = "TruncatedRead" <=> n > left
              /\ cur.bit % 8 = 0 =>
                   (read_bytes(cur, n).outcome = "TruncatedRead" <=> 8 * n > left)
         /\ LET reads == <<read_bits(cur, n), read_bytes(cur, n),
                           read_int(cur, AtLeast0(n), FALSE, "big")>>
            IN  \A i \in 1 .. 3 :
                  reads[i].outcome # "ok" => reads[i].bit = cur.bit

(* A citation covers every bit read since the mark and no byte of which    *)
(* nothing was read; two in a row leave no byte between them uncited.      *)
SpansAreOutward ==
  \A c \in DOMAIN cursors :
  \A mark \in 0 .. cursors[c].bit, between \in 0 .. cursors[c].bit :
     LET cur   == cursors[c]
         bytes == span(cur, mark)
         bits  == mark .. cur.bit - 1
     IN  /\ \A k \in bits :
              cur.base + k \div 8 \in bytes.lo .. bytes.hi - 1
         /\ mark < cur.bit =>
              \A b \in bytes.lo .. bytes.hi - 1 :
                 \E k \in bits : cur.base + k \div 8 = b
         /\ mark <= between =>
              span(cur, between).lo
                <= span([cur EXCEPT !.bit = between], mark).hi

(* Whichever comes first: of the places ahead where the delimiter or the   *)
(* bound begins, the nearest decides, and only if the delimiter is there.  *)
(* With no bound there the search goes on to the end of the window.        *)
(* Nothing is searched for, or bounded by, an empty sequence.              *)
FindsWhicheverComesFirst ==
  \A c \in DOMAIN cursors, delimiter \in Searches,
     within \in Searches \cup {None} :
     LET cur    == cursors[c]
         ahead  == SubSeq(cur.data, cur.bit \div 8 + 1, size(cur))
         Here(what, k) == /\ k + Len(what) <= Len(ahead)
                          /\ \A i \in 1 .. Len(what) : ahead[k + i] = what[i]
         stops  == {k \in 0 .. Len(ahead) - 1 :
                      \/ Here(delimiter, k)
                      \/ within # None /\ Here(within, k)}
         nearest == {k \in stops : \A j \in stops : k <= j /\ Here(delimiter, k)}
         search  == find(cur, delimiter, within)
     IN  IF delimiter = <<>> \/ within = <<>> \/ cur.bit % 8 # 0
         THEN search.outcome = "ValueError" /\ search.bit = cur.bit
         ELSE /\ search.outcome = "ok" /\ search.bit = cur.bit
              /\ search.value = IF nearest = {} THEN NoValue
                                ELSE CHOOSE k \in nearest : TRUE

(* A range asked back by its offsets is what the run has there, as much as *)
(* the cursor's window covers of it.                                       *)
SlicesByOffset ==
  \A c \in DOMAIN cursors :
  \A start \in Base .. Base + Len(run) + 1 :
  \A end \in start .. Base + Len(run) + 1 :
     LET cur == cursors[c]
         held == {o \in start .. end - 1 :
                    cur.base <= o /\ o < cur.base + size(cur)}
         got  == slice(cur, start, end)
         low  == IF start > cur.base THEN start ELSE cur.base
     IN  /\ held = low .. low + Len(got) - 1
         /\ \A i \in 1 .. Len(got) : got[i] = run[low - Base + i]

(* Bytes are consumed by being claimed and no other way: between where a   *)
(* cursor was opened or last sent by an offset and where it stands, every  *)
(* byte is cited by some read, and no byte beyond.  A read that is refused *)
(* leaves none behind it uncited, and what align skips lies in a byte that *)
(* the read before it cited.                                               *)
ConsumedIsClaimed ==
  \A c \in DOMAIN cursors :
     LET cur   == cursors[c]
         since == claims[c].since
     IN  /\ cur.base <= since /\ (since - cur.base) * 8 <= cur.bit
         /\ claims[c].cited = since .. cur.base + (cur.bit + 7) \div 8 - 1

(* What every operation says of a window is what the run has there, at its *)
(* edges and between bytes too.                                            *)
ReadsAreExact ==
  /\ ReadsWhatTheRunHolds /\ TruncatedOnlyAtTheEnd
  /\ SpansAreOutward /\ FindsWhicheverComesFirst /\ SlicesByOffset
=============================================================================
