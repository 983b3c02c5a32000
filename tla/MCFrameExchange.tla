--------------------------- MODULE MCFrameExchange ---------------------------
(* The instance of FrameExchange for TLC: without a minimum size, as start.sh *)
(* has it, and with one that drops small frames.                              *)
EXTENDS FrameExchange

\* Each configuration has the frames that it tells apart: without a minimum size a
\* small one is as good as a picture, with one a broken one is as good as one.
\* SIGINT comes in the second.
Within ==
    /\ captured \in
          Seq(IF minimum_size = 0 THEN {"picture", "broken", "empty"}
                                  ELSE {"picture", "small", "empty"})
    /\ minimum_size = 0 => ~stop
==============================================================================
