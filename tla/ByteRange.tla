------------------------------ MODULE ByteRange -----------------------------
(***************************************************************************)
(* parseByteRange: which bytes of an artifact a Range header asks for.     *)
(***************************************************************************)
EXTENDS Integers

CONSTANTS
  MaxSafe,  \* the largest integer up to which every integer is a number
  Largest   \* the largest integer that is read as a finite number

ASSUME NumberAssumption == MaxSafe \in Nat /\ Largest \in Nat /\ MaxSafe < Largest

(* bytes=first-last, either of which may be left out: None.                *)
None == -1
RangeHeaders(n) == [first : None..n, last : None..n]

(* What parseInt may make of digits: the integer they are, rounded when it *)
(* is beyond MaxSafe, and Infinity when it is beyond every finite number.  *)
Infinite == -2
Readings(digits) ==
  IF digits <= MaxSafe THEN {digits}
  ELSE IF digits <= Largest THEN (MaxSafe + 1)..Largest ELSE {Infinite}

Unsatisfiable == [kind |-> "unsatisfiable", start |-> 0, end |-> 0]
Whole == [kind |-> "whole", start |-> 0, end |-> 0]
Part(start, end) == [kind |-> "part", start |-> start, end |-> end]

Least(a, b) == IF a <= b THEN a ELSE b
Greatest(a, b) == IF a >= b THEN a ELSE b

(* The last so many bytes: all of them, if there are fewer. *)
Suffix(length, size) ==
  IF length = Infinite \/ length <= 0 THEN Unsatisfiable
  ELSE Part(Greatest(0, size - length), size - 1)

From(first, last, size) ==
  LET end == Least(IF last = None THEN size - 1 ELSE last, size - 1)
  IN  IF first = Infinite \/ last = Infinite \/ first >= size \/ end < first
      THEN Unsatisfiable ELSE Part(first, end)

Parsed(first, last, size) ==
  IF first = None /\ last = None THEN Whole
  ELSE IF size = 0 THEN Unsatisfiable
  ELSE IF first = None THEN Suffix(last, size)
  ELSE From(first, last, size)

(* What a header may be answered with, however its digits are rounded.     *)
ParseByteRange(range, size) ==
  {Parsed(first, last, size) : first \in Readings(range.first), last \in Readings(range.last)}

-----------------------------------------------------------------------------
(* The reference: byte i is asked for, in integers that are never rounded. *)
Asked(range, size, i) ==
  /\ i \in 0..(size - 1)
  /\ IF range.first = None
     THEN range.last # None /\ i >= size - range.last
     ELSE i >= range.first /\ (range.last # None => i <= range.last)

BeyondNumbers(range) == range.first > Largest \/ range.last > Largest

(* The part that is served is exactly what was asked for of the bytes that *)
(* there are; a header is refused when there are none of them and when one *)
(* of its numbers is beyond every finite number, and at no other time.     *)
RangeIsExact(range, size) ==
  \A part \in ParseByteRange(range, size) :
    /\ part.kind = "whole" <=> range.first = None /\ range.last = None
    /\ part.kind = "part" =>
         /\ 0 <= part.start /\ part.start <= part.end /\ part.end < size
         /\ \A i \in 0..(size - 1) : (part.start <= i /\ i <= part.end) <=> Asked(range, size, i)
    /\ part.kind = "unsatisfiable" =>
         BeyondNumbers(range) \/ \A i \in 0..(size - 1) : ~Asked(range, size, i)
    /\ BeyondNumbers(range) => part.kind = "unsatisfiable"
=============================================================================
