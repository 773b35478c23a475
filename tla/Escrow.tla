------------------------------- MODULE Escrow -------------------------------
(***************************************************************************)
(* What the marketplace promises about money, for one currency: every deal *)
(* has a pot of its own.  The buyer pays into it, and it is emptied once,  *)
(* into the purses of that deal's buyer and seller and nobody else's.  A   *)
(* closed deal stays closed and its place is never used again.             *)
(***************************************************************************)
EXTENDS Naturals

CONSTANTS Deal, Account, Nobody

VARIABLES phase, buyer, seller, pot, purse

vars == <<phase, buyer, seller, pot, purse>>

Phase == {"new", "open", "agreed", "contested", "closed"}

EscrowTypeOK ==
  /\ phase \in [Deal -> Phase]
  /\ buyer \in [Deal -> Account \cup {Nobody}]
  /\ seller \in [Deal -> Account \cup {Nobody}]
  /\ pot \in [Deal -> Nat]
  /\ purse \in [Account -> Nat]

Init ==
  /\ phase = [d \in Deal |-> "new"]
  /\ buyer = [d \in Deal |-> Nobody]
  /\ seller = [d \in Deal |-> Nobody]
  /\ pot = [d \in Deal |-> 0]
  /\ purse \in [Account -> Nat]

Paid(p, a, v) == [p EXCEPT ![a] = @ + v]

Fund(d, a, v) ==
  /\ phase[d] = "new"
  /\ v <= purse[a]
  /\ phase' = [phase EXCEPT ![d] = "open"]
  /\ buyer' = [buyer EXCEPT ![d] = a]
  /\ pot' = [pot EXCEPT ![d] = v]
  /\ purse' = [purse EXCEPT ![a] = @ - v]
  /\ UNCHANGED seller

\* Nobody accepted: the buyer gets everything back.
Cancel(d) ==
  /\ phase[d] = "open"
  /\ phase' = [phase EXCEPT ![d] = "closed"]
  /\ buyer' = [buyer EXCEPT ![d] = Nobody]
  /\ pot' = [pot EXCEPT ![d] = 0]
  /\ purse' = Paid(purse, buyer[d], pot[d])
  /\ UNCHANGED seller

\* Cancel d and fund e in one step.
Replace(d, e, a, v) ==
  /\ phase[d] = "open"
  /\ phase[e] = "new"
  /\ v <= Paid(purse, buyer[d], pot[d])[a]
  /\ phase' = [phase EXCEPT ![d] = "closed", ![e] = "open"]
  /\ buyer' = [buyer EXCEPT ![d] = Nobody, ![e] = a]
  /\ pot' = [pot EXCEPT ![d] = 0, ![e] = v]
  /\ purse' = [Paid(purse, buyer[d], pot[d]) EXCEPT ![a] = @ - v]
  /\ UNCHANGED seller

Agree(d, a) ==
  /\ phase[d] = "open"
  /\ phase' = [phase EXCEPT ![d] = "agreed"]
  /\ seller' = [seller EXCEPT ![d] = a]
  /\ UNCHANGED <<buyer, pot, purse>>

TopUp(d, v) ==
  /\ phase[d] = "agreed"
  /\ v <= purse[buyer[d]]
  /\ pot' = [pot EXCEPT ![d] = @ + v]
  /\ purse' = [purse EXCEPT ![buyer[d]] = @ - v]
  /\ UNCHANGED <<phase, buyer, seller>>

Contest(d) ==
  /\ phase[d] = "agreed"
  /\ phase' = [phase EXCEPT ![d] = "contested"]
  /\ UNCHANGED <<buyer, seller, pot, purse>>

\* The whole pot goes to the two parties.
Settle(d, back) ==
  /\ phase[d] \in {"agreed", "contested"}
  /\ back <= pot[d]
  /\ phase' = [phase EXCEPT ![d] = "closed"]
  /\ buyer' = [buyer EXCEPT ![d] = Nobody]
  /\ seller' = [seller EXCEPT ![d] = Nobody]
  /\ pot' = [pot EXCEPT ![d] = 0]
  /\ purse' = Paid(Paid(purse, buyer[d], back), seller[d], pot[d] - back)

Next ==
  \E d \in Deal :
    \/ \E a \in Account : \E v \in 0 .. purse[a] : Fund(d, a, v)
    \/ Cancel(d)
    \/ \E e \in Deal, a \in Account :
         \E v \in 0 .. (purse[a] + pot[d]) : Replace(d, e, a, v)
    \/ \E a \in Account : Agree(d, a)
    \/ phase[d] = "agreed" /\ \E v \in 0 .. purse[buyer[d]] : TopUp(d, v)
    \/ Contest(d)
    \/ \E back \in 0 .. pot[d] : Settle(d, back)

Spec == Init /\ [][Next]_vars
=============================================================================
