------------------------------ MODULE MCIdentity ------------------------------
(***************************************************************************)
(* A small instance of an identity contract for TLC.                       *)
(***************************************************************************)
EXTENDS Identity

CONSTANTS ann, bob, self, origin

phone == <<origin, 10>>
profile == <<NullAddr, 13>>

SmallBatches == {<<[id |-> phone, content |-> "signed"]>>,
                 <<[id |-> phone, content |-> "signed"], [id |-> profile, content |-> "signed"]>>}

SmallCalls == {[op |-> "addKey", key |-> bob, purpose |-> 2],
               [op |-> "removeKey", key |-> ann, purpose |-> 1],
               [op |-> "addClaims", batch |-> <<[id |-> phone, content |-> "signed"]>>],
               [op |-> "addKey", key |-> self, purpose |-> 2],
               [op |-> "execute", call |-> Outside],
               [op |-> "approve", request |-> 0, yes |-> TRUE],
               Outside}
=============================================================================
