----------------------------- MODULE MCSessionGroup -----------------------------
(* One worker with two tool calls, or two workers with none.                   *)
EXTENDS SessionGroup

CONSTANTS w1, w2, t1, t2

OneWorker == {w1}
TwoWorkers == {w1, w2}
TwoTools == {t1, t2}
=============================================================================
