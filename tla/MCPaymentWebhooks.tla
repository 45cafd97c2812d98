------------------------- MODULE MCPaymentWebhooks -------------------------
(***************************************************************************)
(* TLC instances of PaymentWebhooks and, with it, of PromiseLifecycle.     *)
(***************************************************************************)
EXTENDS PaymentWebhooks, TLC

CONSTANTS p1, pay1, pay2, e1, k1, pr1, h1, h2, q1

OnePromise == {p1}
TwoPayments == {pay1, pay2}
OnePayment == {pay1}
OneEvent == {e1}
OneChecker == {k1}
OnePresenter == {pr1}
OneHandler == {h1}
TwoHandlers == {h1, h2}
HandlersAndAPI == {h1, h2, q1}
Nobody == {}

FirstLink(e) == pay1
=============================================================================
