----------------------------- MODULE MCPackets -----------------------------
(***************************************************************************)
(* Packets for TLC: digits of five bits, hence an int of 27, and for each  *)
(* length of a number the least and the greatest with that length.         *)
(***************************************************************************)
EXTENDS Packets

MCValues ==
    LET edges == {4 * Digit ^ n : n \in 0 .. 5} \union {Span \div 2}
        all   == {2} \union edges \union {e - 1 : e \in edges}
    IN  all \union {-v : v \in all}

MCHeaders == {3, Digit ^ 2 - 1, Digit ^ 2}

MCNumbers == {0, 1, Digit, Digit ^ 2 - 1, Digit ^ 2}

MCTexts == {<<>>, <<65>>, <<32, 126>>}
=============================================================================
