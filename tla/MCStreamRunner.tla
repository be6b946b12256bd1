--------------------------- MODULE MCStreamRunner ---------------------------
(***************************************************************************)
(* Model checking of StreamRunner: all kinds of runner, with no headers,   *)
(* with all of them, and with a token count alone.                         *)
(***************************************************************************)
EXTENDS StreamRunner

MCHeaders ==
    {NoHeader,
     [NoHeader EXCEPT !.tokens = 5],
     [ttft |-> 0, gen |-> 3, tokens |-> 0, rate |-> 0, aborted |-> TRUE,
      aiTTFT |-> 2, aiTokens |-> 7],
     [ttft |-> 1, gen |-> 0, tokens |-> 5, rate |-> 4, aborted |-> FALSE,
      aiTTFT |-> 2, aiTokens |-> 7]}
=============================================================================
