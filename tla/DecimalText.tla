---------------------------- MODULE DecimalText ----------------------------
(***************************************************************************)
(* Decimals as text (decimal.go): NewDecFromStr, which also decodes JSON,  *)
(* and String, which also encodes JSON and YAML, of a caller that computes *)
(* with what it reads as in DecimalArith. A text is what the parser sees   *)
(* of it: a leading minus, the groups of digits between its periods, and   *)
(* the sign that may be left before the first group for big.Int.           *)
(***************************************************************************)
EXTENDS DecimalArith, Sequences, SequencesExt

CONSTANTS Base,        \* 10 in the code
          Precision,   \* 18 in the code
          Texts        \* bound: the texts a caller may pass

Digits == 0..(Base - 1)

\* big.Int.Exp of the base.
Power[n \in Nat] == IF n = 0 THEN 1 ELSE Base * Power[n - 1]

ASSUME TextAssumption ==
  /\ Base \in Nat \ {0, 1} /\ Precision \in Nat \ {0}
  /\ P = Power[Precision]
  /\ \A t \in Texts :
       /\ t \in [minus : BOOLEAN, inner : {"none", "plus", "minus"},
                 groups : Seq(Seq(Digits)) \ {<<>>}]   \* a split has a first part
       /\ t.inner = "minus" => t.minus                  \* the first minus is taken

VARIABLES text,        \* the text the last call parsed or printed
          err          \* did it fail to parse?

textVars == <<decVars, text, err>>

\* big.Int.SetString of a string of digits, leading zeros included.
ValueOf(digits) == FoldLeft(LAMBDA v, d : v * Base + d, 0, digits)

Zeros(n) == [i \in 1..n |-> 0]

\* NewDecFromStr's error returns, in the order they are tested.
Empty(t)      == t.groups = << <<>> >> /\ t.inner = "none"
BadLength(t)  == /\ Len(t.groups) = 2
                 /\ t.groups[2] = <<>> \/ (t.groups[1] = <<>> /\ t.inner = "none")
TooManyDots(t) == Len(t.groups) > 2
Decimals(t)   == IF Len(t.groups) = 2 THEN Len(t.groups[2]) ELSE 0
TooPrecise(t) == Decimals(t) > Precision

Parses(t) == ~(Empty(t) \/ BadLength(t) \/ TooManyDots(t) \/ TooPrecise(t))

\* Mutant: the zeros of an integer appended to any text.
ParsedUnpadded(t) ==
  LET combined == FlattenSeq(t.groups) \o Zeros(Precision)
      value == IF t.inner = "minus" THEN -ValueOf(combined) ELSE ValueOf(combined)
  IN IF t.minus THEN -value ELSE value

\* The groups run together and padded to Precision decimals, then both signs.
Parsed(t) ==
  LET combined == FlattenSeq(t.groups) \o Zeros(Precision - Decimals(t))
      value == IF t.inner = "minus" THEN -ValueOf(combined) ELSE ValueOf(combined)
  IN IF t.minus THEN -value ELSE value

\* MarshalText of a natural number: no leading zeros, "0" for zero.
NumDigits(v) == CHOOSE n \in 1..(v + 1) : v < Power[n] /\ (n = 1 \/ v >= Power[n - 1])
DigitsOf(v)  == [i \in 1..NumDigits(v) |-> (v \div Power[NumDigits(v) - i]) % Base]

\* Mutant: no padding behind "0.".
StringUnpadded(d) ==
  LET bz == DigitsOf(IF d < 0 THEN -d ELSE d)
      cut == Len(bz) - Precision
  IN [minus |-> d < 0, inner |-> "none",
      groups |-> IF cut <= 0
                 THEN << <<0>>, bz >>
                 ELSE << SubSeq(bz, 1, cut), SubSeq(bz, cut + 1, Len(bz)) >>]

\* String: pad with zeros behind "0." or cut before the last Precision digits.
String(d) ==
  LET bz == DigitsOf(IF d < 0 THEN -d ELSE d)
      cut == Len(bz) - Precision
  IN [minus |-> d < 0, inner |-> "none",
      groups |-> IF cut <= 0
                 THEN << <<0>>, Zeros(-cut) \o bz >>
                 ELSE << SubSeq(bz, 1, cut), SubSeq(bz, cut + 1, Len(bz)) >>]
-----------------------------------------------------------------------------
NoText == [minus |-> FALSE, inner |-> "none", groups |-> <<>>]

TextInit == DecInit /\ text = NoText /\ err = FALSE

\* A caller decodes a text; on an error it gets no decimal, which err tells.
NewDecFromStr(t) ==
  /\ ~panicked
  /\ text' = t
  /\ err' = ~Parses(t)
  /\ r' = IF Parses(t) THEN Parsed(t) ELSE 0
  /\ x' = 0 /\ y' = 0 /\ op' = "none"
  /\ UNCHANGED panicked

Format ==
  /\ ~panicked
  /\ text' = String(r)
  /\ err' = FALSE
  /\ UNCHANGED decVars

Compute == DecNext /\ text' = NoText /\ err' = FALSE

TextNext == Compute \/ Format \/ \E t \in Texts : NewDecFromStr(t)
TextSpec == TextInit /\ [][TextNext]_textVars
-----------------------------------------------------------------------------
(* Properties. *)

\* decimal.go:120-126: the form the comment documents, and its exact meaning
\* digit by digit: the reference the parser is compared with.
Documented(t) ==
  /\ t.inner = "none"
  /\ Len(t.groups) \in 1..2
  /\ \A i \in DOMAIN t.groups : t.groups[i] # <<>>

Place(d, k) == ((IF d < 0 THEN -d ELSE d) \div Power[k]) % Base

Means(d, t) ==
  LET whole == t.groups[1]
      frac  == IF Len(t.groups) = 2 THEN t.groups[2] ELSE <<>>
  IN /\ \A i \in 1..Len(whole) : Place(d, Precision + Len(whole) - i) = whole[i]
     /\ \A i \in 1..Precision :
          Place(d, Precision - i) = IF i <= Len(frac) THEN frac[i] ELSE 0
     /\ (d < 0) = (t.minus /\ d # 0)
     /\ (IF d < 0 THEN -d ELSE d) < Power[Precision + Len(whole)]

\* Every text of the documented form with few enough decimals is accepted and
\* means the number it shows.
DocumentedFormIsRead ==
  Documented(text) /\ ~TooPrecise(text) => ~err /\ Means(r, text)

\* What String (JSON, YAML) prints of any decimal, NewDecFromStr reads back.
PrintedIsReadBack ==
  LET t == String(r) IN Parses(t) /\ Parsed(t) = r /\ Documented(t)
=============================================================================
