------------------------------ MODULE MCBilling ------------------------------
EXTENDS Billing, TLC

CONSTANTS u1, u2, c1, c2, x1, x2, k1, k2, p1, p2

FirstByAnn == k1 :> u1 @@ k2 :> u2

Subscription(k, ref, customer, sub, status, at) ==
  [kind |-> "subscription", checkout |-> k, ref |-> ref, customer |-> customer,
   sub |-> sub, status |-> status, cancel |-> FALSE, priced |-> TRUE,
   start |-> 0, end |-> 2, at |-> at]

Completed(k, ref, customer) ==
  [Subscription(k, ref, customer, x1, "active", 0) EXCEPT !.kind = "checkout"]

Paid     == Subscription(k1, None, c1, x1, "active", 0)
Begun    == [Paid EXCEPT !.ref = u1]
Canceled == Subscription(k1, None, c1, x1, "canceled", 1)
Second   == [Subscription(k2, u2, c2, x2, "past_due", 1) EXCEPT !.start = 1]
Moved    == [Subscription(k2, u2, c2, x1, "trialing", 1) EXCEPT !.cancel = TRUE, !.end = 3]
AtOnce   == Subscription(k1, None, c1, x1, "canceled", 0)
Unpriced == [Canceled EXCEPT !.priced = FALSE]
Ignored  == [Completed(None, None, c1) EXCEPT !.kind = "ignored"]

Everything == {Begun, Canceled, AtOnce, Completed(k2, None, c1), Second, Moved}
OneAccount == {Completed(k1, u1, c1), Paid, Canceled, Unpriced, Ignored}

Request(kind, from, until) == [kind |-> kind, from |-> from, until |-> until]

\* Change a trial, convert it or begin later, and say nothing of the kind.
FourRequests == {Request("TRIAL", None, Never), Request("STANDARD", None, 2),
                 Request("BETA", 1, Never), Request(None, None, Never)}

ProcessSymmetry == Permutations(Procs)
=============================================================================
