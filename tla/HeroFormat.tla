----------------------------- MODULE HeroFormat -----------------------------
(***************************************************************************)
(* The numbers of herohelper.js: fmoney with its two decimals, and         *)
(* decimalAdjust behind round10, floor10 and ceil10.  Numbers have two     *)
(* decimals and are kept as hundredths: decimalAdjust shifts the exponent  *)
(* of a decimal text, so it is exact on them.                              *)
(***************************************************************************)
EXTENDS Integers, Sequences

S == INSTANCE SequencesExt

CONSTANT Numbers  \* hundredths

VARIABLE number

formatVars == <<number>>

Init == number \in Numbers

Size(h) == IF h < 0 THEN -h ELSE h
-----------------------------------------------------------------------------
(* What toFixed(2) makes of it: characters before and after the point. *)
digits[n \in Nat] == IF n < 10 THEN <<n>> ELSE digits[n \div 10] \o <<n % 10>>
sign(h) == IF h < 0 THEN <<"-">> ELSE << >>
toFixed(h) == [whole |-> sign(h) \o digits[Size(h) \div 100],
               part |-> <<(Size(h) % 100) \div 10, Size(h) % 10>>]

(* Mutant: a comma after every three characters, the last ones too. *)
separated_lastToo(l) ==
  LET t[i \in 0 .. Len(l)] ==
        IF i < 1 THEN << >>
        ELSE t[i - 1] \o (IF i % 3 = 0 THEN <<l[i], ",">> ELSE <<l[i]>>)
  IN  t[Len(l)]

(* The loop over the characters before the point, the last one first. *)
separated(l) ==
  LET t[i \in 0 .. Len(l)] ==
        IF i < 1 THEN << >>
        ELSE t[i - 1] \o (IF i % 3 = 0 /\ i # Len(l) THEN <<l[i], ",">> ELSE <<l[i]>>)
  IN  t[Len(l)]

(* fmoney: commas are put in from the right, with the sign as a character. *)
fmoney(h) ==
  S!Reverse(separated(S!Reverse(toFixed(h).whole))) \o <<".">> \o toFixed(h).part

(* Math.floor, ceil and round, which goes up from the middle. *)
Whole(type, h, unit) ==
  CASE type = "floor" -> (h \div unit) * unit
    [] type = "ceil" -> -((-h) \div unit) * unit
    [] type = "round" -> ((h + (unit \div 2)) \div unit) * unit

(* 10 to the exp, in hundredths. *)
Unit(exp) ==
  CASE exp = -2 -> 1 [] exp = -1 -> 10 [] exp = 0 -> 100 [] exp = 1 -> 1000
    [] exp = 2 -> 10000

(* decimalAdjust: the sign is put aside, except for an exponent of 0. *)
decimalAdjust(type, h, exp) ==
  IF exp = 0 \/ h >= 0 THEN Whole(type, h, Unit(exp)) ELSE -Whole(type, -h, Unit(exp))
-----------------------------------------------------------------------------
(* The amount in groups of three. *)
grouped[n \in Nat] ==
  IF n < 1000 THEN digits[n]
  ELSE grouped[n \div 1000] \o <<",", (n % 1000) \div 100, (n % 100) \div 10, n % 10>>

MoneyGrouped ==
  LET whole == Size(number) \div 100
  IN  \/ fmoney(number) = sign(number) \o grouped[whole] \o <<".">> \o toFixed(number).part
      \/ number < 0 /\ Len(digits[whole]) % 3 = 0

(* What is adjusted is a multiple of the unit, at most one unit away, half *)
(* of one when rounded, below when floored and above when raised; but of a *)
(* negative number towards 0 and away from it, if the exponent is not 0.   *)
Adjusted ==
  \A exp \in -2 .. 2 :
    LET at(type) == decimalAdjust(type, number, exp)
        mirrored == exp # 0 /\ number < 0
        below == IF mirrored THEN at("ceil") ELSE at("floor")
        above == IF mirrored THEN at("floor") ELSE at("ceil")
    IN  /\ \A type \in {"floor", "ceil", "round"} : at(type) % Unit(exp) = 0
        /\ below <= number /\ number <= above /\ above - below <= Unit(exp)
        /\ 2 * Size(at("round") - number) <= Unit(exp)

(* Numbers are written and adjusted as the reference definitions say, with *)
(* two exceptions for negative numbers: a comma after the sign when the    *)
(* digits before the point come in threes ("-,123.00"), and floor10 and    *)
(* ceil10 change places.                                                   *)
NumbersFormatted == MoneyGrouped /\ Adjusted
=============================================================================
