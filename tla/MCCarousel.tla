---------------------------- MODULE MCCarousel ----------------------------
(* Small instances of Carousel: one unit of time stands for some minutes.  *)
EXTENDS Carousel

R(kind, delay, stated, account) ==
    [kind |-> kind, delay |-> delay, stated |-> stated, calendar |-> FALSE,
     account |-> account, bare |-> FALSE]

\* Two models of one account: what speaks for the account, long and short, what
\* retires, an outage with its end.
AccountRefusals ==
    { R("insufficient_quota", 4, FALSE, TRUE), R("rate_limit", 1, TRUE, TRUE),
      R("auth", 1, FALSE, FALSE), R("server", 2, TRUE, FALSE) }

Listed == [k \in Keys |-> IF k = CHOOSE j \in Keys : TRUE THEN 1 ELSE 2]
=============================================================================
