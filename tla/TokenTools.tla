----------------------------- MODULE TokenTools -----------------------------
(***************************************************************************)
(* The command line and the faucet that operate the deployed token: one    *)
(* command is followed from its checks over the transaction it sends to    *)
(* its answer, while everybody else keeps calling the token.  A command    *)
(* reads the chain several times before it sends, polls for the receipt    *)
(* and then for the effect, and gives up after a number of tries; with a   *)
(* multi-signature wallet it only submits the call for the other owners    *)
(* of the wallet to confirm.                                               *)
(***************************************************************************)
EXTENDS OriginToken, Sequences

CONSTANTS
  Operator,     \* the first account of the provider, which sends everything
  Wallet,       \* the multi-signature wallet
  Signers,      \* the owners of the wallet
  Required,     \* confirmations the wallet asks for
  CreditAmount, \* what a credit gives
  NewOwners,    \* owners a command may be given
  ValidOwners,  \* owner_whitelist.js
  MaxTries      \* bound on the polls of one retry loop (10 and 7 in the code)

ASSUME ToolsAssumption ==
  /\ {Operator, Wallet} \subseteq Account \ {This}
  /\ Signers \subseteq Account \ {Wallet, This}
  /\ Required \in 1 .. Cardinality(Signers)
  /\ CreditAmount \in Nat \ {0}
  /\ NewOwners \subseteq Account
  /\ MaxTries \in Nat \ {0}

VARIABLES
  cmd,     \* the command that is followed
  wallet,  \* what the wallet knows of its submission
  effects  \* how often the token did what the command asked for

toolVars == <<token, now, cmd, wallet, effects>>

Kinds == {"credit", "pause", "unpause", "setOwner"}

Idle == [kind |-> "none", arg |-> NullAddr, multisig |-> FALSE, stage |-> "idle", at |-> 1,
         inflight |-> 0, receipt |-> "none", tries |-> 0, answer |-> "none"]

ToolsInit ==
  /\ Init
  /\ cmd = Idle
  /\ wallet = [submitted |-> FALSE, confirmed |-> {}, executed |-> FALSE]
  /\ effects = 0

-----------------------------------------------------------------------------
(* What a command checks before it sends, each by a call of its own.         *)

Sender == IF cmd.multisig THEN Wallet ELSE Operator

Checks ==
  CASE cmd.kind = "credit"   -> <<"funds", "unpaused">>
    [] cmd.kind = "pause"    -> <<"unpaused", "owner">>
    [] cmd.kind = "unpause"  -> <<"paused", "owner">>
    [] cmd.kind = "setOwner" -> <<"valid", "owner", "changes">>

\* A credit without a wallet address cannot be encoded.
Encodable == cmd.kind = "credit" => cmd.arg # NullAddr

\* Whether the token would do it for this sender now.
Accepts(sender) ==
  CASE cmd.kind = "credit"   -> Encodable /\ CanMove(sender, cmd.arg, CreditAmount)
    [] cmd.kind = "pause"    -> sender = token.owner /\ ~token.paused
    [] cmd.kind = "unpause"  -> sender = token.owner /\ token.paused
    [] cmd.kind = "setOwner" -> sender = token.owner

EstimateGas == IF cmd.multisig THEN Operator \in Signers ELSE Accepts(Operator)

Holds(check) ==
  CASE check = "funds"    -> CreditAmount <= token.balances[Operator]
    [] check = "paused"   -> token.paused
    [] check = "unpaused" -> ~token.paused
    [] check = "owner"    -> token.owner = Sender
    [] check = "valid"    -> cmd.arg \in ValidOwners
    [] check = "changes"  -> token.owner # cmd.arg
    [] check = "signer"   -> Encodable /\ Operator \in Signers
    [] check = "gas"      -> EstimateGas

AllChecks == Checks \o (IF cmd.multisig THEN <<"signer", "gas">> ELSE <<"gas">>)

Start(kind, arg, multisig) ==
  /\ cmd.stage = "idle"
  /\ cmd' = [Idle EXCEPT !.kind = kind, !.arg = arg, !.multisig = multisig, !.stage = "checking"]
  /\ UNCHANGED <<token, now, wallet, effects>>

StartAny ==
  \E kind \in Kinds, multisig \in BOOLEAN :
    \E arg \in CASE kind = "credit" -> Recipients \cup {NullAddr}
                 [] kind = "setOwner" -> NewOwners
                 [] OTHER -> {NullAddr} :
      Start(kind, arg, multisig)

\* The process ends; what it asked for lives on in an open transaction only.
Answered(answer) ==
  LET open == cmd.inflight > 0 \/ (wallet.submitted /\ ~wallet.executed) IN
  [(IF open THEN cmd ELSE [Idle EXCEPT !.multisig = cmd.multisig])
     EXCEPT !.stage = "answered", !.answer = answer, !.at = 1, !.tries = 0]

\* The funds are compared as strings: too small a balance may pass.
Check ==
  /\ cmd.stage = "checking"
  /\ LET check == AllChecks[cmd.at] IN
     \/ /\ Holds(check) \/ check = "funds"
        /\ cmd' = IF cmd.at = Len(AllChecks)
                  THEN [cmd EXCEPT !.stage = "sending"]
                  ELSE [cmd EXCEPT !.at = @ + 1]
     \/ /\ ~Holds(check)
        /\ cmd' = Answered("refused")
  /\ UNCHANGED <<token, now, wallet, effects>>

-----------------------------------------------------------------------------
(* The transaction.                                                          *)

\* The provider takes the transaction, or refuses it and no hash ever comes.
Send ==
  /\ cmd.stage = "sending"
  /\ \E taken \in {0, 1} :
       cmd' = [cmd EXCEPT !.stage = "sent", !.inflight = @ + taken]
  /\ UNCHANGED <<token, now, wallet, effects>>

Perform(sender) ==
  \/ cmd.kind = "credit" /\ cmd.arg # NullAddr /\ transfer(sender, cmd.arg, CreditAmount)
  \/ cmd.kind = "pause" /\ pause(sender)
  \/ cmd.kind = "unpause" /\ unpause(sender)
  \/ cmd.kind = "setOwner" /\ transferOwnership(sender, cmd.arg)

\* A call that the token refuses leaves the wallet's transaction unexecuted.
Execute(confirmed) ==
  LET agreed == Cardinality(confirmed) >= Required IN
  \/ /\ agreed
     /\ Perform(Wallet)
     /\ wallet' = [submitted |-> TRUE, confirmed |-> confirmed, executed |-> TRUE]
     /\ effects' = effects + 1
  \/ /\ ~(agreed /\ Accepts(Wallet))
     /\ wallet' = [submitted |-> TRUE, confirmed |-> confirmed, executed |-> FALSE]
     /\ UNCHANGED <<token, now, effects>>

\* The transaction takes its place in a block.
Mine ==
  /\ cmd.inflight > 0
  /\ \/ /\ cmd.multisig
        /\ Execute({Operator})
        /\ cmd' = [cmd EXCEPT !.inflight = @ - 1, !.receipt = "ok"]
     \/ /\ ~cmd.multisig
        /\ Perform(Operator)
        /\ effects' = effects + 1
        /\ cmd' = [cmd EXCEPT !.inflight = @ - 1, !.receipt = "ok"]
        /\ UNCHANGED wallet
     \/ /\ ~cmd.multisig
        /\ ~Accepts(Operator)
        /\ cmd' = [cmd EXCEPT !.inflight = @ - 1, !.receipt = "failed"]
        /\ UNCHANGED <<token, now, wallet, effects>>

confirmTransaction(signer) ==
  /\ wallet.submitted
  /\ signer \notin wallet.confirmed
  /\ ~wallet.executed
  /\ Execute(wallet.confirmed \cup {signer})
  /\ UNCHANGED cmd

revokeConfirmation(signer) ==
  /\ signer \in wallet.confirmed
  /\ ~wallet.executed
  /\ wallet' = [wallet EXCEPT !.confirmed = @ \ {signer}]
  /\ UNCHANGED <<token, now, cmd, effects>>

executeTransaction(signer) ==
  /\ signer \in wallet.confirmed
  /\ ~wallet.executed
  /\ Execute(wallet.confirmed)
  /\ UNCHANGED cmd

-----------------------------------------------------------------------------
(* Waiting for the receipt and for the effect.                               *)

Retry ==
  cmd' = IF cmd.tries + 1 = MaxTries
         THEN Answered("gave up")
         ELSE [cmd EXCEPT !.tries = @ + 1]

\* Fault: any receipt counts as success.
PollReceipt_unchecked ==
  /\ cmd.stage = "sent"
  /\ \/ /\ cmd.receipt # "none"
        /\ cmd' = IF cmd.kind = "credit"
                  THEN Answered("done")
                  ELSE [cmd EXCEPT !.stage = "effect", !.tries = 0]
     \/ Retry
  /\ UNCHANGED <<token, now, wallet, effects>>

\* Fault: what is retried is the sending.
PollReceipt_resent ==
  /\ cmd.stage = "sent"
  /\ \/ /\ cmd.receipt = "ok"
        /\ cmd' = IF cmd.kind = "credit"
                  THEN Answered("done")
                  ELSE [cmd EXCEPT !.stage = "effect", !.tries = 0]
     \/ /\ cmd.tries + 1 < MaxTries
        /\ cmd' = [cmd EXCEPT !.tries = @ + 1, !.stage = "sending"]
  /\ UNCHANGED <<token, now, wallet, effects>>

\* A poll fails while there is no hash or no receipt, for a receipt of a
\* transaction that failed, and when the node does not answer.
PollReceipt ==
  /\ cmd.stage = "sent"
  /\ \/ /\ cmd.receipt = "ok"
        /\ cmd' = IF cmd.kind = "credit"
                  THEN Answered("done")
                  ELSE [cmd EXCEPT !.stage = "effect", !.tries = 0]
     \/ Retry
  /\ UNCHANGED <<token, now, wallet, effects>>

Visible ==
  CASE cmd.kind = "pause"    -> token.paused
    [] cmd.kind = "unpause"  -> ~token.paused
    [] cmd.kind = "setOwner" -> token.owner = cmd.arg

PollEffect ==
  /\ cmd.stage = "effect"
  /\ \/ /\ cmd.multisig \/ Visible
        /\ cmd' = Answered("done")
     \/ Retry
  /\ UNCHANGED <<token, now, wallet, effects>>

-----------------------------------------------------------------------------

ToolStep ==
  \/ StartAny \/ Check \/ Send \/ Mine \/ PollReceipt \/ PollEffect
  \/ \E signer \in Signers :
       \/ confirmTransaction(signer)
       \/ revokeConfirmation(signer)
       \/ executeTransaction(signer)

\* Everybody else; the wallet calls the token for its submission only.
Others ==
  /\ (\E sender \in Account \ {This, Wallet} : HolderStep(sender) \/ OwnerStep(sender)) \/ Tick
  /\ UNCHANGED <<cmd, wallet, effects>>

ToolsNext == Others \/ ToolStep

ToolsSpec == ToolsInit /\ [][ToolsNext]_toolVars

-----------------------------------------------------------------------------
(* Properties.                                                               *)

\* What the operator is told: a command that was refused has changed nothing
\* and will not, and one that is reported done without a wallet was done by its
\* own transaction, whatever others did to the token between the checks, the
\* transaction and the polls.
AnswersTrue ==
  /\ cmd.answer = "refused" => effects = 0 /\ cmd.inflight = 0 /\ ~wallet.submitted
  /\ cmd.answer = "done" /\ ~cmd.multisig => effects = 1
  /\ cmd.answer = "done" /\ cmd.multisig => wallet.submitted

\* A credit gives its tokens once and any other command takes effect once,
\* however often its answer is polled and whoever confirms and executes the
\* wallet's transaction; one that gave up may still take effect later.
EffectOnce == effects + cmd.inflight <= 1
=============================================================================
