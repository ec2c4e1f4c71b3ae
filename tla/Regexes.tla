------------------------------ MODULE Regexes ------------------------------
(***************************************************************************)
(* The text of a regular expression as the library hands it to std::regex: *)
(* every \xhh becomes the octal \ddd of the same length.  A text is a      *)
(* sequence of characters; a compiled expression stands for itself by the  *)
(* text it was compiled from.                                              *)
(***************************************************************************)
EXTENDS Integers, Sequences

Hex == {"0", "1", "2", "3", "4", "5", "6", "7", "8", "9",
        "a", "b", "c", "d", "e", "f", "A", "B", "C", "D", "E", "F"}

Oct == <<"0", "1", "2", "3", "4", "5", "6", "7">>

hexdigit == [c \in Hex |->
  CASE c = "0" -> 0  [] c = "1" -> 1  [] c = "2" -> 2  [] c = "3" -> 3
    [] c = "4" -> 4  [] c = "5" -> 5  [] c = "6" -> 6  [] c = "7" -> 7
    [] c = "8" -> 8  [] c = "9" -> 9
    [] c \in {"a", "A"} -> 10  [] c \in {"b", "B"} -> 11  [] c \in {"c", "C"} -> 12
    [] c \in {"d", "D"} -> 13  [] c \in {"e", "E"} -> 14  [] OTHER -> 15]

\* A \xhh starts at k.
HexAt(s, k) == /\ k \in 1..(Len(s) - 3)
               /\ s[k] = "\\" /\ s[k + 1] = "x"
               /\ s[k + 2] \in Hex /\ s[k + 3] \in Hex

HexValue(s, k) == 16 * hexdigit[s[k + 2]] + hexdigit[s[k + 3]]

requote(s) ==
  [k \in 1..Len(s) |->
    IF HexAt(s, k - 1) THEN Oct[1 + (HexValue(s, k - 1) \div 64)]
    ELSE IF HexAt(s, k - 2) THEN Oct[1 + ((HexValue(s, k - 2) \div 8) % 8)]
    ELSE IF HexAt(s, k - 3) THEN Oct[1 + (HexValue(s, k - 3) % 8)]
    ELSE s[k]]
=============================================================================
