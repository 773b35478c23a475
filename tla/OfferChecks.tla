----------------------------- MODULE OfferChecks -----------------------------
(***************************************************************************)
(* What the client requires of an offer that waits for the seller: that    *)
(* its terms match the listing.  Amounts arrive as decimal strings, and    *)
(* JavaScript compares two strings digit by digit from the left.  Amounts  *)
(* are below 10^21, from where on BigNumber writes an exponent, and in a   *)
(* currency the client knows.                                              *)
(***************************************************************************)
EXTENDS Naturals, Sequences

\* The decimal digits of n, without leading zeros.
Digits(n) ==
  LET width == CHOOSE k \in 1 .. n + 1 : n < 10^k /\ (k = 1 \/ n >= 10^(k - 1))
  IN [i \in 1 .. width |-> (n \div 10^(width - i)) % 10]

\* s > t for strings of digits: at the first place where they differ s has the
\* greater digit, or t is a proper beginning of s.
StringGreater(s, t) ==
  \/ \E i \in DOMAIN s \cap DOMAIN t :
       /\ s[i] > t[i]
       /\ \A j \in 1 .. i - 1 : s[j] = t[j]
  \/ Len(s) > Len(t) /\ \A j \in DOMAIN t : s[j] = t[j]

AmountGreater(m, n) == StringGreater(Digits(m), Digits(n))

\* asked: the listing's price, currency and commission, with the arbitrator and
\* the affiliate the client is configured with.
Suits(asked, o) ==
  /\ o.currency = asked.currency
  /\ ~AmountGreater(asked.value, o.value)
  /\ ~AmountGreater(asked.commission, o.commission)
  /\ o.arbitrator = asked.arbitrator
  /\ o.affiliate = asked.affiliate
=============================================================================
