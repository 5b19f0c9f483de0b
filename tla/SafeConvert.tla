---------------------------- MODULE SafeConvert ----------------------------
(***************************************************************************)
(* safeconvert: conversions between the signed and unsigned integers of    *)
(* two widths, int (platform dependent) and int64.  A width is given by    *)
(* its largest signed value.  A Go conversion keeps the low bits.          *)
(***************************************************************************)
EXTENDS Integers

CONSTANTS MaxInt, MaxInt64

ASSUME WidthAssumption ==
  /\ MaxInt \in Nat /\ MaxInt64 \in Nat /\ MaxInt <= MaxInt64
  /\ (MaxInt64 + 1) % (MaxInt + 1) = 0

Signed(max)   == (-max - 1)..max
Unsigned(max) == 0..(2 * max + 1)

Truncated(i, max)    == i % (2 * max + 2)
AsSigned(u, max)     == IF u <= max THEN u ELSE u - (2 * max + 2)

VARIABLES given,       \* the argument of the last conversion
          to,          \* the values of its result type
          converted,   \* its result
          convertErr   \* whether it returned an error

convertVars == <<given, to, converted, convertErr>>

ConvertInit == given = 0 /\ to = Unsigned(MaxInt) /\ converted = 0 /\ convertErr = FALSE

\* IntToUint and Int64ToUint64
ToUnsigned(i, max) ==
  /\ given' = i /\ to' = Unsigned(max) /\ convertErr' = (i < 0)
  /\ converted' = IF i < 0 THEN 0 ELSE Truncated(i, max)

\* Mutation: the bound is the wider type's.
ToSigned_WideBound(u, max) ==
  /\ given' = u /\ to' = Signed(max) /\ convertErr' = (u > MaxInt64)
  /\ converted' = IF u > MaxInt64 THEN 0 ELSE AsSigned(Truncated(u, max), max)

\* UintToInt, Uint64ToInt64, and Uint64ToInt, which may narrow.
ToSigned(u, max) ==
  /\ given' = u /\ to' = Signed(max) /\ convertErr' = (u > max)
  /\ converted' = IF u > max THEN 0 ELSE AsSigned(Truncated(u, max), max)

IntToUint     == \E i \in Signed(MaxInt) : ToUnsigned(i, MaxInt)
Int64ToUint64 == \E i \in Signed(MaxInt64) : ToUnsigned(i, MaxInt64)
UintToInt     == \E u \in Unsigned(MaxInt) : ToSigned(u, MaxInt)
Uint64ToInt64 == \E u \in Unsigned(MaxInt64) : ToSigned(u, MaxInt64)
Uint64ToInt   == \E u \in Unsigned(MaxInt64) : ToSigned(u, MaxInt)

ConvertNext == IntToUint \/ Int64ToUint64 \/ UintToInt \/ Uint64ToInt64 \/ Uint64ToInt
ConvertSpec == ConvertInit /\ [][ConvertNext]_convertVars

-----------------------------------------------------------------------------
(* A conversion gives back the number it was given, and refuses exactly    *)
(* the numbers that its result type does not have, also when it narrows.   *)
ValueKept ==
  /\ convertErr <=> given \notin to
  /\ converted = IF convertErr THEN 0 ELSE given
=============================================================================
