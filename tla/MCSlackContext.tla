--------------------------- MODULE MCSlackContext ---------------------------
(***************************************************************************)
(* All threads of up to MaxLen messages, with or without a parent, whose   *)
(* headers and texts are short or long for the bounds.                     *)
(***************************************************************************)
EXTENDS SlackContext

CONSTANTS MaxLen, Headers, Texts, MostMessages, MostChars

AllThreads ==
    LET Replied(n) == [1..n -> [parent : {FALSE}, header : Headers, text : Texts]]
        Parented(n) == {[t EXCEPT ![1].parent = TRUE] : t \in Replied(n)}
    IN  UNION {Replied(n) : n \in 0..MaxLen} \union UNION {Parented(n) : n \in 1..MaxLen}

AllBounds == MostMessages \X MostChars
=============================================================================
