-------------------------- MODULE MarketplaceEscrow --------------------------
(***************************************************************************)
(* The escrow that the marketplace implements, seen in one currency.       *)
(***************************************************************************)
EXTENDS Marketplace

CONSTANT Watched \* a currency that never serves as Origin Token

ASSUME WatchedAssumption == Watched \in Currency \ OriginToken

PhaseOf(x) ==
  CASE offers[x].status = Created  -> "open"
    [] offers[x].status = Accepted -> "agreed"
    [] offers[x].status = Disputed -> "contested"
    [] offers[x].status = Undefined ->
         IF x[2] < totalOffers[x[1]] THEN "closed" ELSE "new"

Agreed(x) == offers[x].status \in {Accepted, Disputed}

InWatched(x) == offers[x].currency = Watched

\* The state of the escrow that the contract's state stands for.
phaseBar  == [x \in Slot |-> PhaseOf(x)]
buyerBar  == [x \in Slot |-> offers[x].buyer]
sellerBar == [x \in Slot |-> IF Agreed(x) THEN Seller(x) ELSE NullAddr]
potBar    == [x \in Slot |-> IF InWatched(x) THEN offers[x].value ELSE 0]
purseBar  == [a \in Account |-> balance[Watched][a]]

E == INSTANCE Escrow WITH
  Deal   <- Slot,
  Nobody <- NullAddr,
  phase  <- phaseBar,
  buyer  <- buyerBar,
  seller <- sellerBar,
  pot    <- potBar,
  purse  <- purseBar

\* The contract implements the escrow: each offer is a pot of its own that is
\* paid out once, in full, to that offer's buyer and seller alone, and an offer
\* that was withdrawn, finalized or ruled on never comes back.
ImplementsEscrow == E!Spec
=============================================================================
