-------------------------- MODULE MCQuoteLifecycle --------------------------
(* Instances of QuoteLifecycle for TLC: the requests are interchangeable.  *)
EXTENDS QuoteLifecycle, TLC

RequestSymmetry == Permutations(Req)
=============================================================================
