---------------------------- MODULE DecimalArith ----------------------------
(***************************************************************************)
(* The fixed-point decimals of the watchdog (decimal.go): a Dec is an      *)
(* integer count of units of 1/P. The operators are the arithmetic; the    *)
(* actions are a caller that feeds each result into the next call, as      *)
(* monitorNetwork does with Quo, Add, Sub and Abs.                         *)
(***************************************************************************)
EXTENDS Integers

CONSTANTS P,          \* precisionReuse, 10^18 in the code
          MaxDec,     \* a result beyond this panics (2^315 - 1 in the code)
          Operands,   \* bound: the arguments of a call
          Factors     \* bound: the plain integers of MulInt and QuoInt

ASSUME DecAssumption ==
  /\ P \in Nat /\ P > 0 /\ P % 2 = 0
  /\ MaxDec \in Nat
  /\ Operands \subseteq Int /\ Factors \subseteq Int

VARIABLES x, y,       \* receiver and argument of the last call
          op,         \* the last call, "none" before the first
          r,          \* its result
          panicked    \* did it panic?

decVars == <<x, y, op, r, panicked>>

Mag(n) == IF n < 0 THEN -n ELSE n

\* big.Int's Quo and Rem truncate towards zero.
QuoInt(a, b) == LET q == Mag(a) \div Mag(b)
                IN IF (a < 0) = (b < 0) THEN q ELSE -q
RemInt(a, b) == a - b * QuoInt(a, b)

\* Mutant: halves rounded up.
ChopNatHalfUp(n) ==
  LET quo == n \div P
      rem == n % P
  IN IF 2 * rem < P THEN quo ELSE quo + 1

\* Bankers rounding of n / P for n >= 0.
ChopNat(n) ==
  LET quo == n \div P
      rem == n % P
  IN IF 2 * rem < P \/ (2 * rem = P /\ quo % 2 = 0) THEN quo ELSE quo + 1

chopPrecisionAndRound(d) == IF d < 0 THEN -ChopNat(-d) ELSE ChopNat(d)

\* Towards zero. ("Always rounds down", says decimal.go:492.)
chopPrecisionAndTruncate(d) == QuoInt(d, P)

chopPrecisionAndRoundUp(d) ==
  IF d < 0 THEN -chopPrecisionAndTruncate(-d)
  ELSE IF d % P = 0 THEN d \div P ELSE d \div P + 1

\* Mutant: Quo with the other chop.
QuoChopped(a, b) == chopPrecisionAndTruncate(QuoInt(a * P * P, b))

Mul(a, b)         == chopPrecisionAndRound(a * b)
MulTruncate(a, b) == chopPrecisionAndTruncate(a * b)
Quo(a, b)         == chopPrecisionAndRound(QuoInt(a * P * P, b))
QuoTruncate(a, b) == chopPrecisionAndTruncate(QuoInt(a * P * P, b))
QuoRoundUp(a, b)  == chopPrecisionAndRoundUp(QuoInt(a * P * P, b))
TruncateDec(a)    == chopPrecisionAndTruncate(a) * P
IsInteger(a)      == RemInt(a, P) = 0
\* Mutant: the sign of the remainder not looked at.
CeilAnySign(a) == (QuoInt(a, P) + IF RemInt(a, P) # 0 THEN 1 ELSE 0) * P
Ceil(a) == (QuoInt(a, P) + IF RemInt(a, P) > 0 THEN 1 ELSE 0) * P
MinDec(a, b) == IF a < b THEN a ELSE b
MaxDecOf(a, b) == IF a < b THEN b ELSE a

Divides == {"Quo", "QuoTruncate", "QuoRoundUp", "QuoInt"}
Plain   == {"MulInt", "QuoInt"}                 \* argument is a plain integer
Unary   == {"TruncateDec", "Ceil"}
Unchecked == Unary \cup {"QuoInt", "MinDec", "MaxDec"}     \* never panic
Ops == Divides \cup Plain \cup Unary \cup
       {"Add", "Sub", "Mul", "MulTruncate", "MinDec", "MaxDec"}

Result(o, a, b) ==
  CASE o = "Add" -> a + b
    [] o = "Sub" -> a - b
    [] o = "Mul" -> Mul(a, b)
    [] o = "MulTruncate" -> MulTruncate(a, b)
    [] o = "MulInt" -> a * b
    [] o = "Quo" -> Quo(a, b)
    [] o = "QuoTruncate" -> QuoTruncate(a, b)
    [] o = "QuoRoundUp" -> QuoRoundUp(a, b)
    [] o = "QuoInt" -> QuoInt(a, b)
    [] o = "TruncateDec" -> TruncateDec(a)
    [] o = "Ceil" -> Ceil(a)
    [] o = "MinDec" -> MinDec(a, b)
    [] o = "MaxDec" -> MaxDecOf(a, b)

Arguments(o) == IF o \in Unary THEN {0} ELSE IF o \in Plain THEN Factors ELSE Operands

DecInit == x \in Operands /\ y = 0 /\ op = "none" /\ r = x /\ panicked = FALSE

\* A call that returns; big.Int panics by itself on a zero divisor, and every
\* checked operation panics on a result of too many bits.
Call(o, b) ==
  /\ ~panicked
  /\ ~(o \in Divides /\ b = 0)
  /\ o \in Unchecked \/ Mag(Result(o, r, b)) <= MaxDec
  /\ x' = r /\ y' = b /\ op' = o
  /\ r' = Result(o, r, b)
  /\ UNCHANGED panicked

Panic(o, b) ==
  /\ ~panicked
  /\ \/ o \in Divides /\ b = 0
     \/ /\ ~(o \in Divides /\ b = 0)
        /\ o \notin Unchecked /\ Mag(Result(o, r, b)) > MaxDec
  /\ x' = r /\ y' = b /\ op' = o
  /\ panicked' = TRUE
  /\ UNCHANGED r

DecNext == \E o \in Ops : \E b \in Arguments(o) : Call(o, b) \/ Panic(o, b)
-----------------------------------------------------------------------------
(* Properties. *)

\* The registers hold integers, whatever was called.
DecTypeOK ==
  /\ x \in Int /\ y \in Int /\ r \in Int
  /\ op \in Ops \cup {"none"}
  /\ panicked \in BOOLEAN

(* Results against the rational numbers they stand for. *)

Returned(o) == op = o /\ ~panicked

\* Mul is the half-even rounding of the exact product: never further than half
\* a unit, and even when exactly between two units.
MulIsBankersRounded ==
  Returned("Mul") =>
    /\ 2 * Mag(P * r - x * y) <= P
    /\ 2 * Mag(P * r - x * y) = P => r % 2 = 0

\* Quo rounds twice (the integer quotient, then the chop): the error against
\* the exact quotient stays under half a unit plus one P-th of a unit.
QuoErrorBounded ==
  Returned("Quo") => 2 * Mag(P * r * y - P * P * x) < (P + 2) * Mag(y)

\* Ceil is the least whole decimal that is not below its argument.
CeilIsLeast == Returned("Ceil") => r >= x /\ r - x < P /\ IsInteger(r)
=============================================================================
