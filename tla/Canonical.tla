----------------------------- MODULE Canonical -----------------------------
(***************************************************************************)
(* The canonical form of sx-crypto, of which logical_hash is the digest,   *)
(* node by node; the digest is taken to be one to one.                     *)
(*                                                                         *)
(* Timestamps in ASCII that differ by a multiple of ten are ways to write  *)
(* the same instant, and e-mail addresses that do so differ in case.       *)
(***************************************************************************)
EXTENDS Conversions

CONSTANT Rounded \* float with a fraction -> what it is to 15 decimals

ASSUME CanonicalConstants == DOMAIN Rounded = Fractions

\* 15 decimals, without the zeros at the end: floats that are closer share them,
\* one may have those of a whole number, and one just below zero those of -0,
\* which is not the form of 0.
normalize_float(v) == IF v \in Fractions THEN Rounded[v] ELSE v

\* Mutant: widths are part of the form.
NumberAsWritten(node) == node

NumberForm(node) ==
  CASE Variant(node) \in Unsigned -> <<"u", Held(node)>>
    [] Variant(node) \in Signed -> <<"i", Held(node)>>
    [] Variant(node) \in Floats -> <<"f", normalize_float(Held(node))>>

\* Mutant: at most one zero is cut.
CutOneZero(scaled, scale) ==
  IF scale > 0 /\ scaled % 10 = 0 THEN <<scaled \div 10, scale - 1>> ELSE <<scaled, scale>>

\* The zeros at the end of the digits are cut, as far as there is scale.
normalize_decimal(scaled, scale) ==
  LET zeros == CHOOSE z \in 0..scale :
                 /\ scaled % PowerOfTen[z] = 0
                 /\ \A more \in (z + 1)..scale : scaled % PowerOfTen[more] # 0
  IN  <<scaled \div PowerOfTen[zeros], scale - zeros>>

Folded(s) == IF IsAscii(s) THEN s % 10 ELSE s

CanonicalNode(node) ==
  CASE Variant(node) \in Unsigned \cup Signed \cup Floats -> NumberForm(node)
    [] Variant(node) = "Decimal" ->
         <<"Decimal", normalize_decimal(Held(node)[1], Held(node)[2])>>
    [] Variant(node) = "Money" ->
         <<"Money", <<Held(node)[1], normalize_decimal(Held(node)[2], Held(node)[3])>>>>
    [] Variant(node) \in {"Timestamp", "Email"} -> <<Variant(node), Folded(Held(node))>>
    [] OTHER -> node

NoForm == <<"ValidationError", 0>>

\* A timestamp that is none has no form, and nothing it is in.
canonicalize(d) ==
  IF \E p \in DOMAIN d :
       Variant(d[p]) = "Timestamp" /\ (Held(d[p]) = Blank \/ ~ IsAscii(Held(d[p])))
  THEN Leaf(NoForm)
  ELSE NodeWise(CanonicalNode, d)

logically_equal(a, b) == canonicalize(a) = canonicalize(b) /\ canonicalize(a) # Leaf(NoForm)
=============================================================================
