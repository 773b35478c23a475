--------------------------- MODULE TokenTools_proofs ---------------------------
(***************************************************************************)
(* What the operator of the token is told is true and what he asked for    *)
(* happens at most once, for any accounts, signers, number of required     *)
(* confirmations and number of tries, and whatever others call meanwhile.  *)
(***************************************************************************)
EXTENDS TokenTools, TLAPS

Stages == {"idle", "checking", "sending", "sent", "effect", "answered"}

Command ==
  [kind : Kinds \cup {"none"}, arg : Account \cup {NullAddr}, multisig : BOOLEAN, stage : Stages,
   at : Nat, inflight : Nat, receipt : {"none", "ok", "failed"}, tries : Nat,
   answer : {"none", "refused", "done", "gave up"}]

ToolsTyped ==
  /\ cmd \in Command
  /\ wallet \in [submitted : BOOLEAN, confirmed : SUBSET Account, executed : BOOLEAN]
  /\ effects \in Nat

\* Before a command is sent nothing has happened.
NothingYet ==
  cmd.stage \in {"idle", "checking", "sending"} =>
    effects = 0 /\ cmd.inflight = 0 /\ ~wallet.submitted /\ cmd.receipt = "none"

\* Where the one transaction of a command is: with the node, with the wallet, or
\* carried out.
OnePlace ==
  /\ EffectOnce
  /\ wallet.submitted => cmd.inflight = 0 /\ cmd.multisig
  /\ wallet.executed \/ wallet.confirmed # {} => wallet.submitted
  /\ wallet.submitted /\ ~wallet.executed => effects = 0

\* What is behind the receipt of a transaction.
ReceiptTrue ==
  /\ cmd.receipt = "ok" /\ ~cmd.multisig => effects = 1
  /\ cmd.receipt = "ok" /\ cmd.multisig => wallet.submitted
  /\ cmd.stage = "effect" => cmd.receipt = "ok"
  /\ cmd.answer # "none" => cmd.stage = "answered"

ToolsInv == ToolsTyped /\ NothingYet /\ OnePlace /\ ReceiptTrue /\ AnswersTrue

LEMMA ToolsInitSound == ToolsInit => ToolsInv
BY DEF ToolsInit, ToolsInv, ToolsTyped, Command, Stages, Idle, NothingYet, OnePlace, EffectOnce,
   ReceiptTrue, AnswersTrue

-----------------------------------------------------------------------------
(* The process: what it does but for sending is to note what it learned.     *)

LEMMA NotPositive == \A n \in Nat : ~(n > 0) => n = 0
OBVIOUS

Told(c, answer) == [c EXCEPT !.stage = "answered", !.answer = answer, !.at = 1, !.tries = 0]

LEMMA AnswerTyped ==
  ASSUME NEW c \in Command, NEW answer \in {"refused", "done", "gave up"}
  PROVE  /\ Told(c, answer) \in Command
         /\ Told(c, answer).stage = "answered" /\ Told(c, answer).answer = answer
         /\ Told(c, answer).multisig = c.multisig
         /\ Told(c, answer).inflight = c.inflight /\ Told(c, answer).receipt = c.receipt
BY DEF Told, Command, Stages

\* What the process has answered is the command as it was, or nothing of it.
LEMMA AnsweredIs ==
  ASSUME ToolsTyped, OnePlace,
         NEW answer \in {"refused", "done", "gave up"}
  PROVE  /\ Answered(answer) \in Command
         /\ Answered(answer).stage = "answered" /\ Answered(answer).answer = answer
         /\ Answered(answer).multisig = cmd.multisig
         /\ Answered(answer).inflight = cmd.inflight
         /\ Answered(answer).receipt \in {"none", cmd.receipt}
<1> DEFINE lives == cmd.inflight > 0 \/ (wallet.submitted /\ ~wallet.executed)
           old == [Idle EXCEPT !.multisig = cmd.multisig]
<1>1. cmd \in Command /\ cmd.multisig \in BOOLEAN /\ cmd.inflight \in Nat
  BY DEF ToolsTyped, Command
<1>2. /\ old \in Command /\ old.multisig = cmd.multisig /\ old.inflight = 0 /\ old.receipt = "none"
  BY <1>1 DEF Idle, Command, Stages
<1> DEFINE base == IF lives THEN cmd ELSE old
<1>3. /\ base \in Command /\ base.multisig = cmd.multisig /\ base.inflight = cmd.inflight
      /\ base.receipt \in {"none", cmd.receipt}
  <2>1. CASE lives
    <3>1. base = cmd
      BY <2>1
    <3> QED  BY <1>1, <3>1
  <2>2. CASE ~lives
    <3>0. ~(cmd.inflight > 0)
      BY <2>2, Zenon
    <3>1. cmd.inflight = 0
      BY <1>1, <3>0, NotPositive
    <3> HIDE DEF old
    <3>2. base = old
      BY <2>2
    <3> HIDE DEF base
    <3> QED  BY <1>2, <3>1, <3>2
  <2> QED  BY <2>1, <2>2
<1> DEFINE told == Answered(answer)
<1>4. told = Told(base, answer)
  BY Zenon DEF Answered, Told
<1>5. base \in Command
  BY <1>3
<1> HIDE DEF base, told
<1>6. /\ told \in Command
      /\ told.stage = "answered" /\ told.answer = answer /\ told.multisig = base.multisig
      /\ told.inflight = base.inflight /\ told.receipt = base.receipt
  BY <1>4, <1>5, AnswerTyped
<1>7. /\ told \in Command
      /\ told.stage = "answered" /\ told.answer = answer /\ told.multisig = cmd.multisig
      /\ told.inflight = cmd.inflight /\ told.receipt \in {"none", cmd.receipt}
  BY <1>3, <1>6
<1> QED  BY <1>7 DEF told

\* An answer that is true may be given.
LEMMA AnswerSound ==
  ASSUME ToolsInv, NEW answer \in {"refused", "done", "gave up"}, cmd' = Answered(answer),
         UNCHANGED <<wallet, effects>>,
         answer = "refused" => effects = 0 /\ cmd.inflight = 0 /\ ~wallet.submitted,
         answer = "done" => cmd.receipt = "ok"
  PROVE  ToolsInv'
<1>1. /\ cmd' \in Command /\ cmd'.stage = "answered" /\ cmd'.answer = answer
      /\ cmd'.multisig = cmd.multisig /\ cmd'.inflight = cmd.inflight
      /\ cmd'.receipt \in {"none", cmd.receipt}
  BY AnsweredIs DEF ToolsInv
<1>2. wallet' = wallet /\ effects' = effects
  OBVIOUS
<1>3. ToolsTyped' /\ NothingYet'
  BY <1>1, <1>2 DEF ToolsInv, ToolsTyped, NothingYet
<1>4. OnePlace'
  BY <1>1, <1>2 DEF ToolsInv, OnePlace, EffectOnce
<1>5. ReceiptTrue'
  BY <1>1, <1>2 DEF ToolsInv, ReceiptTrue
<1>6. AnswersTrue'
  BY <1>1, <1>2 DEF ToolsInv, ReceiptTrue, AnswersTrue
<1> QED  BY <1>3, <1>4, <1>5, <1>6 DEF ToolsInv

Same == /\ cmd'.answer = cmd.answer /\ cmd'.multisig = cmd.multisig
        /\ cmd'.inflight = cmd.inflight /\ cmd'.receipt = cmd.receipt

\* So may another stage or another try be noted.
LEMMA NoteSound ==
  ASSUME ToolsInv, cmd' \in Command, Same, UNCHANGED <<wallet, effects>>,
         cmd.stage # "answered", cmd'.stage # "answered",
         cmd'.stage \in {"idle", "checking", "sending"} => cmd.stage \in {"idle", "checking", "sending"},
         cmd'.stage = "effect" => cmd.receipt = "ok"
  PROVE  ToolsInv'
<1>1. wallet' = wallet /\ effects' = effects
  OBVIOUS
<1> QED  BY <1>1 DEF Same, ToolsInv, ToolsTyped, NothingYet, OnePlace, EffectOnce, ReceiptTrue,
         AnswersTrue

\* A number of the command may be set.
LEMMA CountedIs ==
  ASSUME cmd \in Command, NEW n \in Nat,
         \/ cmd' = [cmd EXCEPT !.tries = n]
         \/ cmd' = [cmd EXCEPT !.at = n]
  PROVE  cmd' \in Command /\ Same /\ cmd'.stage = cmd.stage
BY DEF Command, Same

LEMMA RetrySound ==
  ASSUME ToolsInv, cmd.stage \in {"sent", "effect"}, Retry, UNCHANGED <<wallet, effects>>
  PROVE  ToolsInv'
<1>1. cmd \in Command /\ cmd.tries \in Nat
  BY DEF ToolsInv, ToolsTyped, Command
<1>2. CASE cmd' = Answered("gave up")
  BY <1>2, AnswerSound
<1>3. CASE cmd' = [cmd EXCEPT !.tries = @ + 1]
  <2> DEFINE n == cmd.tries + 1
  <2>1. n \in Nat /\ cmd' = [cmd EXCEPT !.tries = n]
    BY <1>1, <1>3
  <2> HIDE DEF n
  <2>2. cmd' \in Command /\ Same /\ cmd'.stage = cmd.stage
    BY <1>1, <2>1, CountedIs
  <2>3. cmd.stage = "effect" => cmd.receipt = "ok"
    BY DEF ToolsInv, ReceiptTrue
  <2> QED  BY <2>2, <2>3, NoteSound
<1> QED  BY <1>2, <1>3 DEF Retry

LEMMA ProcessSound ==
  ASSUME ToolsInv, StartAny \/ Check \/ Send \/ PollReceipt \/ PollEffect
  PROVE  ToolsInv'
<1>1. cmd \in Command /\ cmd.at \in Nat /\ cmd.tries \in Nat /\ cmd.inflight \in Nat
  BY DEF ToolsInv, ToolsTyped, Command
<1>2. CASE StartAny
  <2>1. PICK kind \in Kinds, multisig \in BOOLEAN, arg \in Account \cup {NullAddr} :
          Start(kind, arg, multisig)
    BY <1>2, TokenAssumption, ToolsAssumption DEF StartAny, Kinds
  <2>2. /\ cmd' \in Command /\ cmd'.stage = "checking" /\ cmd'.inflight = 0
        /\ cmd'.receipt = "none" /\ cmd'.answer = "none"
    BY <2>1 DEF Start, Idle, Command, Stages
  <2>3. cmd.stage = "idle" /\ wallet' = wallet /\ effects' = effects
    BY <2>1 DEF Start
  <2>4. effects = 0 /\ ~wallet.submitted
    BY <2>3 DEF ToolsInv, NothingYet
  <2> QED  BY <2>2, <2>3, <2>4 DEF ToolsInv, ToolsTyped, NothingYet, OnePlace, EffectOnce,
           ReceiptTrue, AnswersTrue
<1>3. CASE Check
  <2>1. cmd.stage = "checking" /\ UNCHANGED <<wallet, effects>>
    BY <1>3 DEF Check
  <2>2. CASE cmd' = Answered("refused")
    BY <2>1, <2>2, AnswerSound DEF ToolsInv, NothingYet
  <2>3. CASE cmd' = [cmd EXCEPT !.stage = "sending"]
    <3>1. cmd' \in Command /\ Same /\ cmd'.stage = "sending"
      BY <1>1, <2>3 DEF Command, Same, Stages
    <3> QED  BY <2>1, <3>1, NoteSound
  <2>4. CASE cmd' = [cmd EXCEPT !.at = @ + 1]
    <3> DEFINE n == cmd.at + 1
    <3>1. n \in Nat /\ cmd' = [cmd EXCEPT !.at = n]
      BY <1>1, <2>4
    <3> HIDE DEF n
    <3>2. cmd' \in Command /\ Same /\ cmd'.stage = cmd.stage
      BY <1>1, <3>1, CountedIs
    <3> QED  BY <2>1, <3>2, NoteSound
  <2> QED  BY <1>3, <2>2, <2>3, <2>4 DEF Check
<1>4. CASE Send
  <2>1. PICK taken \in {0, 1} : cmd' = [cmd EXCEPT !.stage = "sent", !.inflight = @ + taken]
    BY <1>4 DEF Send
  <2>2. cmd.stage = "sending" /\ wallet' = wallet /\ effects' = effects
    BY <1>4 DEF Send
  <2>3. effects = 0 /\ cmd.inflight = 0 /\ ~wallet.submitted /\ cmd.receipt = "none"
        /\ cmd.answer = "none"
    BY <2>2 DEF ToolsInv, NothingYet, ReceiptTrue
  <2>4. cmd.inflight + taken = taken /\ taken \in Nat
    BY <2>3
  <2>5. cmd' = [cmd EXCEPT !.stage = "sent", !.inflight = taken]
    BY <2>1, <2>4
  <2>6. /\ cmd' \in Command /\ cmd'.stage = "sent" /\ cmd'.inflight = taken
        /\ cmd'.receipt = "none" /\ cmd'.answer = "none"
    BY <1>1, <2>3, <2>4, <2>5 DEF Command, Stages
  <2> QED  BY <2>2, <2>3, <2>6 DEF ToolsInv, ToolsTyped, NothingYet, OnePlace, EffectOnce,
           ReceiptTrue, AnswersTrue
<1>5. CASE PollReceipt
  <2>1. cmd.stage = "sent" /\ UNCHANGED <<wallet, effects>>
    BY <1>5 DEF PollReceipt
  <2>2. CASE Retry
    BY <2>1, <2>2, RetrySound
  <2>3. CASE cmd.receipt = "ok" /\ cmd' = Answered("done")
    BY <2>1, <2>3, AnswerSound
  <2>4. CASE cmd.receipt = "ok" /\ cmd' = [cmd EXCEPT !.stage = "effect", !.tries = 0]
    <3>1. cmd' \in Command /\ Same /\ cmd'.stage = "effect"
      BY <1>1, <2>4 DEF Command, Same, Stages
    <3> QED  BY <2>1, <2>4, <3>1, NoteSound
  <2> QED  BY <1>5, <2>2, <2>3, <2>4 DEF PollReceipt
<1>6. CASE PollEffect
  <2>1. cmd.stage = "effect" /\ cmd.receipt = "ok" /\ UNCHANGED <<wallet, effects>>
    BY <1>6 DEF PollEffect, ToolsInv, ReceiptTrue
  <2>2. CASE Retry
    BY <2>1, <2>2, RetrySound
  <2>3. CASE cmd' = Answered("done")
    BY <2>1, <2>3, AnswerSound
  <2> QED  BY <1>6, <2>2, <2>3 DEF PollEffect
<1> QED  BY <1>2, <1>3, <1>4, <1>5, <1>6

-----------------------------------------------------------------------------
(* The transaction and the wallet.                                           *)

WalletState == [submitted : BOOLEAN, confirmed : SUBSET Account, executed : BOOLEAN]

\* A call the wallet executes or leaves for later, when it has not done so before.
LEMMA ExecuteIs ==
  ASSUME NEW confirmed \in SUBSET Account, Execute(confirmed), effects = 0
  PROVE  /\ wallet' \in WalletState /\ wallet'.submitted
         /\ effects' = IF wallet'.executed THEN 1 ELSE 0
<1>1. PICK executed \in BOOLEAN :
        /\ wallet' = [submitted |-> TRUE, confirmed |-> confirmed, executed |-> executed]
        /\ effects' = IF executed THEN effects + 1 ELSE effects
  BY DEF Execute
<1>2. wallet'.executed = executed
  BY <1>1
<1>3. CASE executed
  BY <1>1, <1>2, <1>3 DEF WalletState
<1>4. CASE ~executed
  BY <1>1, <1>2, <1>4 DEF WalletState
<1> QED  BY <1>3, <1>4

LEMMA WalletSound ==
  ASSUME ToolsInv, NEW signer \in Signers,
         \/ confirmTransaction(signer) \/ revokeConfirmation(signer) \/ executeTransaction(signer)
  PROVE  ToolsInv'
<1>1. /\ signer \in Account /\ wallet \in WalletState
      /\ wallet.submitted /\ ~wallet.executed /\ effects = 0 /\ cmd.inflight = 0 /\ cmd.multisig
  BY ToolsAssumption DEF ToolsInv, ToolsTyped, OnePlace, WalletState, confirmTransaction,
     revokeConfirmation, executeTransaction
<1>2. CASE confirmTransaction(signer) \/ executeTransaction(signer)
  <2>1. PICK confirmed \in SUBSET Account : Execute(confirmed)
    BY <1>1, <1>2 DEF confirmTransaction, executeTransaction, WalletState
  <2>2. /\ wallet' \in WalletState /\ wallet'.submitted
        /\ effects' = IF wallet'.executed THEN 1 ELSE 0
    BY <1>1, <2>1, ExecuteIs
  <2>3. cmd' = cmd
    BY <1>2 DEF confirmTransaction, executeTransaction
  <2>4. effects' \in {0, 1} /\ (wallet'.executed \/ effects' = 0)
    BY <2>2
  <2>5. ~(cmd.stage \in {"idle", "checking", "sending"})
    BY <1>1 DEF ToolsInv, NothingYet
  <2>6. cmd.answer # "refused"
    BY <1>1 DEF ToolsInv, AnswersTrue
  <2>7. ToolsTyped' /\ NothingYet'
    BY <2>2, <2>3, <2>4, <2>5 DEF ToolsInv, ToolsTyped, NothingYet, WalletState
  <2>8. OnePlace'
    BY <1>1, <2>2, <2>3, <2>4 DEF OnePlace, EffectOnce
  <2>9. ReceiptTrue' /\ AnswersTrue'
    BY <1>1, <2>2, <2>3, <2>6 DEF ToolsInv, ReceiptTrue, AnswersTrue
  <2> QED  BY <2>7, <2>8, <2>9 DEF ToolsInv
<1>3. CASE revokeConfirmation(signer)
  <2>1. wallet' = [wallet EXCEPT !.confirmed = @ \ {signer}] /\ cmd' = cmd /\ effects' = effects
    BY <1>3 DEF revokeConfirmation
  <2>2. wallet' \in WalletState /\ wallet'.submitted /\ ~wallet'.executed
    BY <1>1, <2>1 DEF WalletState
  <2> QED  BY <1>1, <2>1, <2>2 DEF ToolsInv, ToolsTyped, NothingYet, OnePlace, EffectOnce,
           ReceiptTrue, AnswersTrue, WalletState
<1> QED  BY <1>2, <1>3

\* The receipt comes when the transaction has taken its place.
LEMMA MineSound ==
  ASSUME ToolsInv, Mine
  PROVE  ToolsInv'
<1>1. /\ cmd \in Command /\ cmd.inflight \in Nat /\ cmd.inflight > 0 /\ effects \in Nat
      /\ wallet \in WalletState
  BY DEF Mine, ToolsInv, ToolsTyped, Command, WalletState
<1>2. effects + cmd.inflight <= 1
  BY DEF ToolsInv, OnePlace, EffectOnce
<1>3. cmd.inflight = 1 /\ effects = 0 /\ cmd.inflight - 1 = 0
  BY <1>1, <1>2
<1>4. ~wallet.submitted /\ ~wallet.executed /\ wallet.confirmed = {}
  BY <1>3 DEF ToolsInv, OnePlace
<1>5. ~(cmd.stage \in {"idle", "checking", "sending"}) /\ cmd.answer # "refused"
  BY <1>3 DEF ToolsInv, NothingYet, AnswersTrue
<1>6. PICK receipt \in {"ok", "failed"} :
        /\ cmd' = [cmd EXCEPT !.inflight = 0, !.receipt = receipt]
        /\ \/ cmd.multisig /\ Execute({Operator}) /\ receipt = "ok"
           \/ ~cmd.multisig /\ effects' = 1 /\ wallet' = wallet /\ receipt = "ok"
           \/ ~cmd.multisig /\ effects' = 0 /\ wallet' = wallet /\ receipt = "failed"
  <2>1. CASE cmd.multisig /\ Execute({Operator}) /\ cmd' = [cmd EXCEPT !.inflight = @ - 1, !.receipt = "ok"]
    BY <1>3, <2>1
  <2>2. CASE /\ ~cmd.multisig /\ effects' = effects + 1 /\ UNCHANGED wallet
             /\ cmd' = [cmd EXCEPT !.inflight = @ - 1, !.receipt = "ok"]
    BY <1>3, <2>2
  <2>3. CASE /\ ~cmd.multisig /\ UNCHANGED <<wallet, effects>>
             /\ cmd' = [cmd EXCEPT !.inflight = @ - 1, !.receipt = "failed"]
    BY <1>3, <2>3
  <2> QED  BY <2>1, <2>2, <2>3 DEF Mine
<1>7. /\ cmd' \in Command /\ cmd'.inflight = 0 /\ cmd'.receipt = receipt
      /\ cmd'.stage = cmd.stage /\ cmd'.answer = cmd.answer /\ cmd'.multisig = cmd.multisig
  BY <1>1, <1>6 DEF Command
<1>8. cmd.stage # "effect"
  BY <1>3, <1>4 DEF ToolsInv, ReceiptTrue
<1>9. cmd.answer # "done"
  BY <1>3, <1>4 DEF ToolsInv, AnswersTrue
<1>10. CASE cmd.multisig /\ Execute({Operator}) /\ receipt = "ok"
  <2>1. {Operator} \in SUBSET Account
    BY ToolsAssumption
  <2>2. /\ wallet' \in WalletState /\ wallet'.submitted
        /\ effects' = IF wallet'.executed THEN 1 ELSE 0
    BY <1>3, <1>10, <2>1, ExecuteIs
  <2>3. effects' \in {0, 1} /\ (wallet'.executed \/ effects' = 0)
    BY <2>2
  <2>4. ToolsTyped' /\ NothingYet'
    BY <1>5, <1>7, <2>2, <2>3 DEF ToolsTyped, NothingYet, WalletState
  <2>5. OnePlace'
    BY <1>7, <1>10, <2>2, <2>3 DEF OnePlace, EffectOnce
  <2>6. ReceiptTrue' /\ AnswersTrue'
    BY <1>5, <1>7, <1>8, <1>9, <1>10, <2>2 DEF ToolsInv, ReceiptTrue, AnswersTrue
  <2> QED  BY <2>4, <2>5, <2>6 DEF ToolsInv
<1>11. CASE /\ ~cmd.multisig /\ wallet' = wallet
            /\ (effects' = 1 /\ receipt = "ok") \/ (effects' = 0 /\ receipt = "failed")
  <2>1. ToolsTyped' /\ NothingYet'
    BY <1>1, <1>5, <1>7, <1>11 DEF ToolsTyped, NothingYet, WalletState
  <2>2. OnePlace'
    BY <1>4, <1>7, <1>11 DEF OnePlace, EffectOnce
  <2>3. ReceiptTrue' /\ AnswersTrue'
    BY <1>5, <1>7, <1>8, <1>9, <1>11 DEF ToolsInv, ReceiptTrue, AnswersTrue
  <2> QED  BY <2>1, <2>2, <2>3 DEF ToolsInv
<1> QED  BY <1>6, <1>10, <1>11

-----------------------------------------------------------------------------
(* The theorems.                                                             *)

LEMMA ToolsStepSound == ToolsInv /\ [ToolsNext]_toolVars => ToolsInv'
<1> SUFFICES ASSUME ToolsInv, [ToolsNext]_toolVars PROVE ToolsInv'
  OBVIOUS
<1>1. CASE UNCHANGED <<cmd, wallet, effects>>
  BY <1>1 DEF ToolsInv, ToolsTyped, NothingYet, OnePlace, EffectOnce, ReceiptTrue, AnswersTrue
<1>2. CASE ToolStep
  BY <1>2, ProcessSound, MineSound, WalletSound DEF ToolStep
<1> QED  BY <1>1, <1>2 DEF ToolsNext, Others, toolVars

\* What was asked for takes effect once at most.
THEOREM EffectsAreOnce == ToolsSpec => []EffectOnce
<1>1. ToolsInv => EffectOnce
  BY DEF ToolsInv, OnePlace
<1> QED  BY <1>1, ToolsInitSound, ToolsStepSound, PTL DEF ToolsSpec

\* The operator is told the truth.
THEOREM AnswersAreTrue == ToolsSpec => []AnswersTrue
<1>1. ToolsInv => AnswersTrue
  BY DEF ToolsInv
<1> QED  BY <1>1, ToolsInitSound, ToolsStepSound, PTL DEF ToolsSpec
=============================================================================
