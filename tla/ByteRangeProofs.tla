--------------------------- MODULE ByteRangeProofs --------------------------
(***************************************************************************)
(* parseByteRange is exact for every size of an artifact and every header, *)
(* however the digits of the header are rounded.                           *)
(***************************************************************************)
EXTENDS ByteRange, TLAPS

AnyHeader == [first : Nat \cup {None}, last : Nat \cup {None}]
Sizes == 0..MaxSafe

(* A number read is the one written, or both are greater than any size     *)
(* allows; Infinity is read from the numbers beyond Largest and no others. *)
Reads(digits, number) ==
  /\ number \in Nat \cup {None, Infinite}
  /\ number = None <=> digits = None
  /\ number = Infinite <=> digits > Largest
  /\ number \in Nat => number = digits \/ (number > MaxSafe /\ digits > MaxSafe)

(* That is what parseInt makes of any digits.                              *)
LEMMA ParseIntReads ==
  ASSUME NEW digits \in Nat \cup {None}, NEW number \in Readings(digits)
  PROVE  Reads(digits, number)
<1>1. MaxSafe \in Nat /\ Largest \in Nat /\ MaxSafe < Largest
  BY NumberAssumption
<1>2. CASE digits <= MaxSafe
  BY <1>1, <1>2 DEF Readings, Reads, None, Infinite
<1>3. CASE digits > MaxSafe /\ digits <= Largest
  <2>1. number \in (MaxSafe + 1)..Largest
    BY <1>1, <1>3 DEF Readings, None
  <2>. QED  BY <1>1, <1>3, <2>1 DEF Reads, None, Infinite
<1>4. CASE digits > Largest
  <2>1. number = Infinite
    BY <1>1, <1>4 DEF Readings, None
  <2>. QED  BY <1>1, <1>4, <2>1 DEF Reads, None, Infinite
<1>. QED  BY <1>1, <1>2, <1>3, <1>4 DEF None

(* What RangeIsExact says of one answer.                                   *)
IsExact(part, range, size) ==
  /\ part.kind = "whole" <=> range.first = None /\ range.last = None
  /\ part.kind = "part" =>
       /\ 0 <= part.start /\ part.start <= part.end /\ part.end < size
       /\ \A i \in 0..(size - 1) : (part.start <= i /\ i <= part.end) <=> Asked(range, size, i)
  /\ part.kind = "unsatisfiable" =>
       BeyondNumbers(range) \/ \A i \in 0..(size - 1) : ~Asked(range, size, i)
  /\ BeyondNumbers(range) => part.kind = "unsatisfiable"

(* The last so many bytes, of a file that has some, are those asked for.   *)
LEMMA SuffixIsExact ==
  ASSUME NEW size \in Sizes, size # 0, NEW range \in AnyHeader,
         range.first = None, range.last # None,
         NEW length, Reads(range.last, length)
  PROVE  IsExact(Suffix(length, size), range, size)
<1>1. /\ MaxSafe \in Nat /\ Largest \in Nat /\ MaxSafe < Largest
      /\ size \in Nat /\ size > 0 /\ size <= MaxSafe
      /\ range.last \in Nat
  BY NumberAssumption DEF AnyHeader, None, Sizes
<1>2. length \in Nat \cup {Infinite}
  BY DEF Reads
<1>3. CASE length = Infinite
  <2>1. Suffix(length, size) = Unsatisfiable
    BY <1>3 DEF Suffix
  <2>2. BeyondNumbers(range)
    BY <1>3 DEF Reads, BeyondNumbers
  <2>. QED  BY <2>1, <2>2 DEF IsExact, Unsatisfiable
<1>4. CASE length = 0
  <2>1. Suffix(length, size) = Unsatisfiable
    BY <1>4 DEF Suffix
  <2>2. range.last = 0
    BY <1>1, <1>4 DEF Reads
  <2>3. \A i \in 0..(size - 1) : ~Asked(range, size, i)
    BY <1>1, <2>2 DEF Asked, None
  <2>. QED  BY <2>1, <2>3 DEF IsExact, Unsatisfiable
<1>5. CASE length \in Nat /\ length > 0
  <2>. DEFINE start == Greatest(0, size - length)
  <2>1. Suffix(length, size) = Part(start, size - 1)
    BY <1>5 DEF Suffix, Infinite
  <2>2. start \in 0..(size - 1)
    BY <1>1, <1>5 DEF Greatest
  <2>3. length = range.last \/ (length > size /\ range.last > size)
    BY <1>1, <1>5 DEF Reads
  <2>4. \A i \in 0..(size - 1) : (start <= i /\ i <= size - 1) <=> Asked(range, size, i)
    BY <1>1, <1>5, <2>3 DEF Greatest, Asked, None
  <2>5. ~BeyondNumbers(range)
    BY <1>1, <1>5 DEF Reads, BeyondNumbers, None, Infinite
  <2>. HIDE DEF start
  <2>. QED  BY <1>1, <2>1, <2>2, <2>4, <2>5 DEF IsExact, Part
<1>. QED  BY <1>2, <1>3, <1>4, <1>5

(* So are those from one byte to another, or to the end.                   *)
LEMMA FromIsExact ==
  ASSUME NEW size \in Sizes, size # 0, NEW range \in AnyHeader, range.first # None,
         NEW first, Reads(range.first, first), NEW last, Reads(range.last, last)
  PROVE  IsExact(From(first, last, size), range, size)
<1>1. /\ MaxSafe \in Nat /\ Largest \in Nat /\ MaxSafe < Largest
      /\ size \in Nat /\ size > 0 /\ size <= MaxSafe
      /\ range.first \in Nat /\ range.last \in Nat \cup {None}
  BY NumberAssumption DEF AnyHeader, None, Sizes
<1>2. first \in Nat \cup {Infinite} /\ last \in Nat \cup {None, Infinite}
  BY DEF Reads
<1>3. CASE first = Infinite \/ last = Infinite
  <2>1. From(first, last, size) = Unsatisfiable
    BY <1>3 DEF From
  <2>2. BeyondNumbers(range)
    BY <1>3 DEF Reads, BeyondNumbers
  <2>. QED  BY <2>1, <2>2 DEF IsExact, Unsatisfiable
<1>4. CASE first \in Nat /\ last \in Nat \cup {None}
  <2>. DEFINE end == Least(IF last = None THEN size - 1 ELSE last, size - 1)
  <2>1. end \in Int /\ end < size /\ end >= 0
    BY <1>1, <1>4 DEF Least, None
  <2>2. first = range.first \/ (first >= size /\ range.first >= size)
    BY <1>1, <1>4 DEF Reads
  <2>3. last = range.last \/ (last # None /\ range.last # None /\ last >= size /\ range.last >= size)
    BY <1>1, <1>4 DEF Reads, None
  <2>4. \A i \in 0..(size - 1) : Asked(range, size, i) <=> (first <= i /\ i <= end)
    BY <1>1, <1>4, <2>2, <2>3 DEF Asked, Least, None
  <2>5. ~BeyondNumbers(range)
    BY <1>1, <1>4 DEF Reads, BeyondNumbers, None, Infinite
  <2>6. From(first, last, size) =
          IF first >= size \/ end < first THEN Unsatisfiable ELSE Part(first, end)
    BY <1>4 DEF From, None, Infinite
  <2>. HIDE DEF end
  <2>7. CASE first >= size \/ end < first
    <3>1. \A i \in 0..(size - 1) : ~Asked(range, size, i)
      BY <1>1, <1>4, <2>1, <2>4, <2>7
    <3>. QED  BY <2>5, <2>6, <2>7, <3>1 DEF IsExact, Unsatisfiable
  <2>8. CASE ~(first >= size \/ end < first)
    <3>1. 0 <= first /\ first <= end /\ end < size
      BY <1>1, <1>4, <2>1, <2>8
    <3>. QED  BY <2>4, <2>5, <2>6, <2>8, <3>1 DEF IsExact, Part
  <2>. QED  BY <2>7, <2>8
<1>. QED  BY <1>2, <1>3, <1>4

(* Whatever bytes a header asks for and however many an artifact has, a    *)
(* part that parseByteRange answers with is exactly those asked for that   *)
(* exist, rounded or not, and a header is refused only when there are none *)
(* or when one of its numbers is beyond every finite number; then always.  *)
THEOREM ParsingIsExact ==
  \A size \in Sizes : \A range \in AnyHeader : RangeIsExact(range, size)
<1>. SUFFICES ASSUME NEW size \in Sizes, NEW range \in AnyHeader,
                     NEW first \in Readings(range.first), NEW last \in Readings(range.last)
              PROVE  IsExact(Parsed(first, last, size), range, size)
  BY DEF RangeIsExact, ParseByteRange, IsExact
<1>1. Reads(range.first, first) /\ Reads(range.last, last)
  BY ParseIntReads DEF AnyHeader
<1>2. CASE first = None /\ last = None
  <2>1. range.first = None /\ range.last = None
    BY <1>1, <1>2 DEF Reads
  <2>2. ~BeyondNumbers(range)
    BY <2>1, NumberAssumption DEF BeyondNumbers, None
  <2>. QED  BY <1>2, <2>1, <2>2 DEF IsExact, Parsed, Whole
<1>3. CASE ~(first = None /\ last = None) /\ size = 0
  <2>1. ~(range.first = None /\ range.last = None)
    BY <1>1, <1>3 DEF Reads
  <2>2. \A i \in 0..(size - 1) : ~Asked(range, size, i)
    BY <1>3
  <2>. QED  BY <1>3, <2>1, <2>2 DEF IsExact, Parsed, Unsatisfiable
<1>4. CASE first = None /\ last # None /\ size # 0
  <2>1. range.first = None /\ range.last # None
    BY <1>1, <1>4 DEF Reads
  <2>. QED  BY <1>1, <1>4, <2>1, SuffixIsExact DEF Parsed
<1>5. CASE first # None /\ size # 0
  <2>1. range.first # None
    BY <1>1, <1>5 DEF Reads
  <2>. QED  BY <1>1, <1>5, <2>1, FromIsExact DEF Parsed
<1>. QED  BY <1>2, <1>3, <1>4, <1>5
=============================================================================
