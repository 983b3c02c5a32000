--------------------------- MODULE MCControlForms ---------------------------
(* Instances of ControlForms for TLC. *)
EXTENDS ControlForms

\* Inside and outside of every range, around each power of two, and what begins like a
\* number of one digit.
Fields == (-1..17) \cup {20, 31, 32, 39, 63, 64, 100, 127, 128, 129, 240, 255, 256, 257, 999}

Lead(n) == IF n < 0 THEN NoDigit
           ELSE IF n < 10 THEN n ELSE IF n < 100 THEN n \div 10 ELSE n \div 100

\* These numbers as a page writes them; an empty field or a word; a leading zero or sign.
FieldTexts ==
    {[first |-> Lead(n), value |-> n] : n \in Fields}
        \cup {[first |-> NoDigit, value |-> 0], [first |-> 0, value |-> 7], [first |-> NoDigit, value |-> 3]}
=============================================================================
