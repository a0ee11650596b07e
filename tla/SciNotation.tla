---------------------------- MODULE SciNotation ----------------------------
(***************************************************************************)
(* sci_notation_to_float of HaarXmlParser.py, and how its result is        *)
(* printed.  A number is its sign, its mantissa and, with an 'e', the sign *)
(* and the digits of the exponent.  The mantissa is one like 1.5, so that  *)
(* all that matters of it is the power of ten it ends up scaled by.        *)
(* Rounding within a float's digits, or of the last printed decimal, is    *)
(* not modelled: a power that is kept is the value up to rounding.         *)
(***************************************************************************)
EXTENDS Integers, Sequences

CONSTANTS Digits, MaxDigits    \* digits and length of an exponent

(* The powers of ten a double holds; an exponent of more digits than the   *)
(* greatest might itself be read as infinite.                              *)
MaxPower == 308
MinPower == -323

ASSUME DigitsAssumption == Digits \subseteq 0 .. 9 /\ MaxDigits \in 0 .. MaxPower

Exponents == UNION {[1 .. n -> Digits] : n \in 1 .. MaxDigits}

Numbers ==
  [negative : BOOLEAN, sci : {FALSE}]
    \cup [negative : BOOLEAN, sci : {TRUE}, sign : {"", "-", "+"}, digits : Exponents]

Number(k) == [is |-> "number", power |-> k]
Zero      == [is |-> "zero", power |-> 0]
Infinite  == [is |-> "infinite", power |-> 0]
Exception == [is |-> "exception", power |-> 0]

(* The double nearest to a mantissa times ten to the k.                    *)
Float(k) == IF k > MaxPower THEN Infinite ELSE IF k < MinPower THEN Zero ELSE Number(k)

Natural(ds) ==
  LET value[n \in 0 .. Len(ds)] == IF n = 0 THEN 0 ELSE 10 * value[n - 1] + ds[n]
  IN  value[Len(ds)]
Power(sign, ds) == IF sign = "-" THEN -Natural(ds) ELSE Natural(ds)

(* The power of ten a number means.                                        *)
Meaning(x) == Number(IF x.sci THEN Power(x.sign, x.digits) ELSE 0)

(* float() of the text cut off after the first k digits of the exponent.   *)
CutAt(x, k) == IF k < 1 THEN Exception ELSE Float(Power(x.sign, SubSeq(x.digits, 1, k)))

(* n[:n.find('-') - 1].  In a negative number the first '-' is the         *)
(* number's own, at 0, and the slice drops the last character; without any *)
(* '-' it is not found, at -1, and the slice drops the last two; only the  *)
(* '-' of a positive number's exponent is the one that was meant.          *)
MantissaSliceToSign(x) ==
  IF x.negative THEN CutAt(x, Len(x.digits) - 1)
  ELSE IF x.sign = "-" THEN Float(0) ELSE CutAt(x, Len(x.digits) - 1)

Mantissa(x) ==
  IF x.negative THEN CutAt(x, Len(x.digits) - 1)
  ELSE IF x.sign = "-" THEN Float(0)
  ELSE IF x.sign = "" /\ Len(x.digits) = 1 THEN Float(0)
  ELSE CutAt(x, Len(x.digits) - 2)

(* 10**exponent: Python raises OverflowError, but underflows quietly.      *)
TenTo(e) == IF e > MaxPower THEN Exception ELSE Float(e)

(* Zero times Infinite does not arise: mantissa and power are cut from the *)
(* same exponent.                                                          *)
Product(f, g) ==
  IF Exception \in {f, g} THEN Exception
  ELSE IF Zero \in {f, g} THEN Zero
  ELSE IF Infinite \in {f, g} THEN Infinite
  ELSE Float(f.power + g.power)

Converted(x) ==
  IF ~x.sci THEN Float(0) ELSE Product(Mantissa(x), TenTo(Power(x.sign, x.digits)))

(* f'{...:.20f}'.                                                          *)
Decimals == 20
Printed(f) == IF f.is = "number" /\ f.power < -Decimals THEN Zero ELSE f

(***************************************************************************)
(* The numbers that are printed as they are meant: plain decimals,         *)
(* positive numbers with a negative exponent, and numbers whose exponent   *)
(* is padded with zeros in all the digits that the slice leaves behind; of *)
(* those, the ones neither beyond a double nor below the last decimal.     *)
(***************************************************************************)
Zeros(ds, k) == \A d \in 1 .. k : ds[d] = 0

SlicedRightly(x) ==
  \/ ~x.negative /\ x.sign = "-"
  \/ ~x.negative /\ x.sign = "" /\ Len(x.digits) = 1
  \/ x.negative /\ Len(x.digits) >= 2 /\ Zeros(x.digits, Len(x.digits) - 1)
  \/ ~x.negative /\ x.sign # "-" /\ Len(x.digits) >= 3 /\ Zeros(x.digits, Len(x.digits) - 2)

Convertible(x) ==
  x.sci => SlicedRightly(x) /\ Power(x.sign, x.digits) \in -Decimals .. MaxPower
=============================================================================
