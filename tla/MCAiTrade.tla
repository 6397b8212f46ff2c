---------------------------- MODULE MCAiTrade ----------------------------
(* Small instances of AiTrade for TLC. *)
EXTENDS AiTrade, TLC

CONSTANTS a, b, w1, c1, c2

\* one user joins the AI Bot's run and the manual one
MCBoth == {<<"AI_BOT", a>>, <<"MANUAL", a>>}
\* two subscribers
MCSubscribers == {<<"AI_BOT", a>>, <<"AI_BOT", b>>}
\* two manual placements
MCManual == {<<"MANUAL", a>>, <<"MANUAL", b>>}

\* Fifty cents are enough for one trade at a time: the second finds nothing
\* to lock until the first one is settled.  One per cent, more than the code's
\* rates, lets so small a balance earn a cent.
MCOpening == [u \in Users |-> 50]
MCRate == [u \in Users |-> 100]

\* enough for two trades, at the lowest rate of the code
MCLargeOpening == [u \in Users |-> 150]
MCLowRate == [u \in Users |-> 40]
=============================================================================
