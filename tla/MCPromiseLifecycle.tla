------------------------ MODULE MCPromiseLifecycle ------------------------
(***************************************************************************)
(* TLC instances of PromiseLifecycle.                                      *)
(***************************************************************************)
EXTENDS PromiseProperties, TLC

CONSTANTS p1, p2, pay1, k1, x1, q1

OnePromise == {p1}
TwoPromises == {p1, p2}
OnePayment == {pay1}
OneChecker == {k1}
OneCanceller == {x1}
OneObserver == {q1}
Nobody == {}
=============================================================================
