--------------------------- MODULE MCDecimal ---------------------------
(* Binary digits and two decimal places: every call on every small decimal,  *)
(* and every text of up to three groups of up to two or three digits, with   *)
(* every combination of signs.                                               *)
EXTENDS DecimalText

MCOperands == (-7)..7 \cup {-300, 300}
MCFactors == {-3, 0, 2}

Groups(n) == UNION {[1..k -> Digits] : k \in 0..n}
Signs == {[minus |-> FALSE, inner |-> "none"], [minus |-> FALSE, inner |-> "plus"],
          [minus |-> TRUE, inner |-> "none"], [minus |-> TRUE, inner |-> "plus"],
          [minus |-> TRUE, inner |-> "minus"]}
MCGroups == {<<w>> : w \in Groups(3)}
            \cup {<<w, f>> : w \in Groups(1) \cup {<<1, 0>>}, f \in Groups(3)}
            \cup {<< <<1>>, f, <<0>> >> : f \in Groups(1)}
MCTexts == {[minus |-> s.minus, inner |-> s.inner, groups |-> g] :
              s \in Signs, g \in MCGroups}
=============================================================================
