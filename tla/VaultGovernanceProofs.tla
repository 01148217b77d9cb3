----------------------- MODULE VaultGovernanceProofs -----------------------
(***************************************************************************)
(* The vault's governance, proved for any accounts, setter calls, delay    *)
(* and grace.  A step is a core action (a vault entry point) taken by an   *)
(* account as itself, or by the guard for its controller; the lemmas below *)
(* are about the core actions, so each is argued once for both.            *)
(***************************************************************************)
EXTENDS VaultGovernance, TLAPS

(* A pending call's eta is the one users were shown when it was queued.    *)
EtaIsThePublishedOne ==
  \A c \in Calls :
    /\ changeEta[c] = 0 <=> announced[c] = 0
    /\ changeEta[c] # 0 => changeEta[c] = announced[c] + CHANGE_DELAY

IInv == GovTypeOK /\ EtaIsThePublishedOne /\ GuardedVaultIsClosed /\ LiveVaultIsWired

(* What any setter body does to the rules (VaultRules).                    *)
LEMMA ApplyIsARule == \A c \in Calls : Apply(c) => RulesNext
<1> SUFFICES ASSUME NEW c \in Calls, Apply(c)
             PROVE  RulesNext
  OBVIOUS
<1>0. c \in SetterCall
  BY GovernanceAssumption
<1>1. CASE c.fn = "setVerifier" /\ SetVerifier(c.v)
  <2>1. c.v \in Verifiers \cup {NoAddress}
    BY <1>0, <1>1 DEF SetterCall
  <2> QED BY <1>1, <2>1 DEF RulesNext
<1>2. CASE c.fn = "setShieldVerifier" /\ SetShieldVerifier(c.v)
  <2>1. c.v \in Verifiers \cup {NoAddress} /\ c.v # NoAddress
    BY <1>0, <1>2 DEF SetterCall, SetShieldVerifier
  <2> QED BY <1>2, <2>1 DEF RulesNext
<1>3. CASE c.fn = "setDepositLimit" /\ SetDepositLimit(c.asset, c.limit)
  <2>1. c.asset \in Assets /\ c.limit \in DepositLimit
    BY <1>0, <1>3 DEF SetterCall
  <2> QED BY <1>3, <2>1 DEF RulesNext
<1>4. CASE c.fn = "setWithdrawFee" /\ SetWithdrawFee(c.bps, c.to)
  <2>1. c.bps \in 0..BPS /\ c.to \in Addresses \cup {NoAddress}
    BY <1>0, <1>4 DEF SetterCall
  <2> QED BY <1>4, <2>1 DEF RulesNext
<1> QED BY <1>1, <1>2, <1>3, <1>4 DEF Apply

LEMMA RulesStep == RulesTypeOK /\ [RulesNext]_ruleVars => RulesTypeOK'
<1> SUFFICES ASSUME RulesTypeOK, [RulesNext]_ruleVars
             PROVE  RulesTypeOK'
  OBVIOUS
<1> USE DEF RulesTypeOK
<1>1. ASSUME NEW v \in Verifiers \cup {NoAddress}, SetVerifier(v)
      PROVE  RulesTypeOK'
  BY <1>1 DEF SetVerifier
<1>2. ASSUME NEW v \in Verifiers, SetShieldVerifier(v)
      PROVE  RulesTypeOK'
  BY <1>2 DEF SetShieldVerifier
<1>3. CASE TurnOnDepositLimits
  BY <1>3 DEF TurnOnDepositLimits
<1>4. ASSUME NEW a \in Assets, NEW l \in DepositLimit, SetDepositLimit(a, l)
      PROVE  RulesTypeOK'
  BY <1>4 DEF SetDepositLimit
<1>5. ASSUME NEW bps \in 0..BPS, NEW to \in Addresses \cup {NoAddress},
             SetWithdrawFee(bps, to)
      PROVE  RulesTypeOK'
  <2>1. bps \in 0..MAX_WITHDRAW_FEE_BPS
    BY <1>5, RulesAssumption DEF SetWithdrawFee, FeeWithinCap
  <2> QED BY <1>5, <2>1 DEF SetWithdrawFee
<1>6. CASE UNCHANGED ruleVars
  BY <1>6 DEF ruleVars
<1> QED BY <1>1, <1>2, <1>3, <1>4, <1>5, <1>6 DEF RulesNext

-----------------------------------------------------------------------------
(* Core actions by kind: those that run a setter body, and the rest.       *)
RuleStep(s) ==
  \/ \E c \in Calls : DirectSetter(s, c)
  \/ DirectTurnOnDepositLimits(s)
  \/ \E a \in Assets, l \in DepositLimit : LowerDepositLimit(s, a, l)
  \/ \E bps \in 0..BPS : LowerWithdrawFee(s, bps)
  \/ \E c \in Calls : ExecuteChange(s, c)

LEMMA RuleStepIsARule ==
  ASSUME RulesTypeOK, NEW s, RuleStep(s)
  PROVE  RulesNext
<1>1. ASSUME NEW c \in Calls, DirectSetter(s, c) PROVE RulesNext
  BY <1>1, ApplyIsARule DEF DirectSetter
<1>2. CASE DirectTurnOnDepositLimits(s)
  BY <1>2 DEF DirectTurnOnDepositLimits, RulesNext
<1>3. ASSUME NEW a \in Assets, NEW l \in DepositLimit, LowerDepositLimit(s, a, l)
      PROVE  RulesNext
  BY <1>3 DEF LowerDepositLimit, RulesNext
<1>4. ASSUME NEW bps \in 0..BPS, LowerWithdrawFee(s, bps) PROVE RulesNext
  BY <1>4 DEF LowerWithdrawFee, RulesNext, RulesTypeOK
<1>5. ASSUME NEW c \in Calls, ExecuteChange(s, c) PROVE RulesNext
  BY <1>5, ApplyIsARule DEF ExecuteChange
<1> QED BY <1>1, <1>2, <1>3, <1>4, <1>5 DEF RuleStep

(* Every step is a setter body or leaves the rules alone.                  *)
LEMMA StepIsARule ==
  ASSUME RulesTypeOK, [Next]_vars
  PROVE  [RulesNext]_ruleVars
<1>1. ASSUME NEW s \in Accounts, OwnerStep(s)
      PROVE  [RulesNext]_ruleVars
  <2>1. CASE RuleStep(s)
    BY <2>1, RuleStepIsARule
  <2>2. CASE ~RuleStep(s)
    BY <1>1, <2>2 DEF OwnerStep, RuleStep, EndSetup, QueueChange, CancelChange,
                      TransferOwnership, AcceptOwnership
  <2> QED BY <2>1, <2>2
<1>2. ASSUME NEW s \in Accounts, ControllerStep(s)
      PROVE  [RulesNext]_ruleVars
  <2>1. CASE RuleStep(GUARD)
    BY <2>1, RuleStepIsARule
  <2>2. CASE ~RuleStep(GUARD)
    BY <1>2, <2>2 DEF ControllerStep, RuleStep, GuardAccept, GuardQueue, GuardExecute,
         GuardCancel, GuardLowerDepositLimit, GuardLowerWithdrawFee, QueueChange,
         CancelChange, AcceptOwnership, TransferController, AcceptController
  <2> QED BY <2>1, <2>2
<1>3. CASE Tick
  BY <1>3 DEF Tick
<1>4. CASE UNCHANGED vars
  BY <1>4 DEF vars
<1> QED BY <1>1, <1>2, <1>3, <1>4 DEF Next

LEMMA RulesStart == RulesInit => RulesTypeOK
<1> SUFFICES ASSUME RulesInit PROVE RulesTypeOK
  OBVIOUS
<1>1. depositLimit \in [Assets -> DepositLimit]
  BY RulesAssumption DEF RulesInit, DepositLimit
<1>2. withdrawFeeBps \in 0..MAX_WITHDRAW_FEE_BPS
  BY RulesAssumption DEF RulesInit
<1> QED BY <1>1, <1>2 DEF RulesInit, RulesTypeOK

(* Governance only ever changes rules the way VaultRules lets them change, *)
(* so what Vault shows of the money under any rule change holds under this *)
(* governance.                                                             *)
THEOREM GovernanceKeepsToTheRules == Spec => RulesSpec
<1>1. Init => RulesInit /\ RulesTypeOK
  BY RulesStart DEF Init
<1>2. RulesTypeOK /\ [Next]_vars => RulesTypeOK' /\ [RulesNext]_ruleVars
  BY StepIsARule, RulesStep
<1> QED BY <1>1, <1>2, PTL DEF Spec, RulesSpec

-----------------------------------------------------------------------------
LEMMA InitInv == Init => IInv
<1> SUFFICES ASSUME Init PROVE IInv
  OBVIOUS
<1> USE RulesAssumption, GovernanceAssumption
<1>1. RulesTypeOK
  BY RulesStart DEF Init
<1>2. GovTypeOK
  BY <1>1 DEF Init, GovTypeOK, Owners
<1> QED BY <1>2 DEF Init, IInv, EtaIsThePublishedOne, GuardedVaultIsClosed, LiveVaultIsWired

(* A call that runs leaves a wired pool wired: a value-bound shield        *)
(* verifier is never replaced, and no setter body turns limits off.        *)
LEMMA RulesKeepTheWiring ==
  ASSUME [RulesNext]_ruleVars, shieldVerifier # NoAddress, depositLimitsOn
  PROVE  shieldVerifier' # NoAddress /\ depositLimitsOn'
BY DEF RulesNext, ruleVars, SetVerifier, SetShieldVerifier, TurnOnDepositLimits,
       SetDepositLimit, SetWithdrawFee

GuardStep(s) ==
  \/ GuardAccept(s)
  \/ \E o \in Accounts : TransferController(s, o)
  \/ AcceptController(s)

(* The one reading of Next the proofs below use: an account acting as      *)
(* itself, the guard acting for its controller, the guard's own steps.     *)
LEMMA StepByKind ==
  ASSUME Next
  PROVE  \/ \E s \in Accounts : OwnerStep(s)
         \/ \E s \in Accounts : GuardStep(s)
         \/ \E c \in Calls : AllowedChange(c) /\ QueueChange(GUARD, c)
         \/ \E c \in Calls : AllowedChange(c) /\ ExecuteChange(GUARD, c)
         \/ \E c \in Calls : AllowedChange(c) /\ CancelChange(GUARD, c)
         \/ \E a \in Assets, l \in DepositLimit : LowerDepositLimit(GUARD, a, l)
         \/ \E bps \in 0..BPS : LowerWithdrawFee(GUARD, bps)
         \/ Tick
BY DEF Next, ControllerStep, GuardStep, GuardQueue, GuardExecute, GuardCancel,
       GuardLowerDepositLimit, GuardLowerWithdrawFee

LEMMA TypeStep ==
  ASSUME GovTypeOK, [Next]_vars
  PROVE  GovTypeOK'
<1> USE GovernanceAssumption DEF GovTypeOK, Owners
<1>0. RulesTypeOK'
  BY StepIsARule, RulesStep
<1>1. ASSUME NEW s \in Owners, RuleStep(s) PROVE GovTypeOK'
  BY <1>0, <1>1 DEF RuleStep, DirectSetter, DirectTurnOnDepositLimits,
     LowerDepositLimit, LowerWithdrawFee, ExecuteChange, govVars
<1>2. ASSUME NEW s \in Owners, NEW c \in Calls, QueueChange(s, c) PROVE GovTypeOK'
  <2>1. SeenSince(c) \in Nat
    BY <1>2 DEF QueueChange, MayQueue, SeenSince
  <2> QED BY <1>0, <1>2, <2>1 DEF QueueChange
<1>3. ASSUME NEW s \in Owners, NEW c \in Calls, CancelChange(s, c) PROVE GovTypeOK'
  BY <1>0, <1>3 DEF CancelChange
<1>4. ASSUME NEW s \in Accounts, OwnerStep(s) PROVE GovTypeOK'
  <2>1. CASE EndSetup(s)
    BY <1>0, <2>1 DEF EndSetup
  <2>2. ASSUME NEW o \in Owners, TransferOwnership(s, o) PROVE GovTypeOK'
    BY <1>0, <2>2 DEF TransferOwnership
  <2>3. CASE AcceptOwnership(s)
    BY <1>0, <2>3 DEF AcceptOwnership, NoOffer
  <2> QED BY <1>1, <1>2, <1>3, <1>4, <2>1, <2>2, <2>3 DEF OwnerStep, RuleStep
<1>5. ASSUME NEW s \in Accounts, GuardStep(s) PROVE GovTypeOK'
  BY <1>0, <1>5 DEF GuardStep, GuardAccept, AcceptOwnership, NoOffer,
     TransferController, AcceptController
<1>6. CASE Tick
  BY <1>0, <1>6 DEF Tick
<1>7. CASE UNCHANGED vars
  BY <1>7 DEF vars, govVars, RulesTypeOK, ruleVars
<1> QED
  BY <1>1, <1>2, <1>3, <1>4, <1>5, <1>6, <1>7, StepByKind DEF RuleStep

LEMMA EtaStep ==
  ASSUME GovTypeOK, EtaIsThePublishedOne, [Next]_vars
  PROVE  EtaIsThePublishedOne'
<1> USE GovernanceAssumption DEF GovTypeOK, EtaIsThePublishedOne
<1>1. ASSUME NEW s, NEW c \in Calls, QueueChange(s, c) PROVE EtaIsThePublishedOne'
  <2>1. SeenSince(c) = now
    BY <1>1 DEF QueueChange, MayQueue, SeenSince
  <2> QED BY <1>1, <2>1 DEF QueueChange
<1>2. ASSUME NEW s, NEW c \in Calls, ExecuteChange(s, c) \/ CancelChange(s, c)
      PROVE  EtaIsThePublishedOne'
  BY <1>2 DEF ExecuteChange, CancelChange
<1>3. CASE UNCHANGED <<changeEta, announced>>
  BY <1>3
<1>4. ASSUME NEW s \in Accounts, OwnerStep(s) PROVE EtaIsThePublishedOne'
  BY <1>1, <1>2, <1>3, <1>4 DEF OwnerStep, DirectSetter, DirectTurnOnDepositLimits,
     LowerDepositLimit, LowerWithdrawFee, EndSetup, TransferOwnership,
     AcceptOwnership, govVars
<1>5. ASSUME NEW s \in Accounts, GuardStep(s) PROVE EtaIsThePublishedOne'
  BY <1>3, <1>5 DEF GuardStep, GuardAccept, AcceptOwnership, TransferController,
     AcceptController
<1>6. ASSUME NEW a, NEW l, LowerDepositLimit(GUARD, a, l) PROVE EtaIsThePublishedOne'
  BY <1>3, <1>6 DEF LowerDepositLimit, govVars
<1>7. ASSUME NEW bps, LowerWithdrawFee(GUARD, bps) PROVE EtaIsThePublishedOne'
  BY <1>3, <1>7 DEF LowerWithdrawFee, govVars
<1>8. CASE Tick \/ UNCHANGED vars
  BY <1>3, <1>8 DEF Tick, vars, govVars
<1> QED BY <1>1, <1>2, <1>4, <1>5, <1>6, <1>7, <1>8, StepByKind

(* The guard only takes a vault past setup, taking it closes the offer it  *)
(* came by, and nobody else can act as the owner to make another.          *)
LEMMA ClosedStep ==
  ASSUME GovTypeOK, GuardedVaultIsClosed, [Next]_vars
  PROVE  GuardedVaultIsClosed' /\ (owner = GUARD => owner' = GUARD)
<1> USE GovernanceAssumption DEF GovTypeOK, GuardedVaultIsClosed, Owners
<1>1. CASE UNCHANGED <<owner, pendingOwner, setupMode>>
  BY <1>1
<1>2. ASSUME NEW s \in Accounts, OwnerStep(s)
      PROVE  GuardedVaultIsClosed' /\ (owner = GUARD => owner' = GUARD)
  <2>1. CASE AcceptOwnership(s)
    BY <2>1 DEF AcceptOwnership, NoOffer
  <2>2. CASE EndSetup(s) \/ \E o \in Owners : TransferOwnership(s, o)
    BY <2>2 DEF EndSetup, TransferOwnership
  <2> QED BY <1>1, <1>2, <2>1, <2>2 DEF OwnerStep, DirectSetter,
       DirectTurnOnDepositLimits, LowerDepositLimit, LowerWithdrawFee,
       QueueChange, ExecuteChange, CancelChange, govVars
<1>3. ASSUME NEW s \in Accounts, GuardStep(s)
      PROVE  GuardedVaultIsClosed' /\ (owner = GUARD => owner' = GUARD)
  BY <1>3 DEF GuardStep, GuardAccept, AcceptOwnership, NoOffer,
     TransferController, AcceptController
<1>4. ASSUME NEW c \in Calls,
             QueueChange(GUARD, c) \/ ExecuteChange(GUARD, c) \/ CancelChange(GUARD, c)
      PROVE  UNCHANGED <<owner, pendingOwner, setupMode>>
  BY <1>4 DEF QueueChange, ExecuteChange, CancelChange
<1>5. ASSUME NEW a, NEW l, LowerDepositLimit(GUARD, a, l)
      PROVE  UNCHANGED <<owner, pendingOwner, setupMode>>
  BY <1>5 DEF LowerDepositLimit, govVars
<1>6. ASSUME NEW bps, LowerWithdrawFee(GUARD, bps)
      PROVE  UNCHANGED <<owner, pendingOwner, setupMode>>
  BY <1>6 DEF LowerWithdrawFee, govVars
<1>7. CASE Tick \/ UNCHANGED vars
  BY <1>1, <1>7 DEF Tick, vars, govVars
<1> QED BY <1>1, <1>2, <1>3, <1>4, <1>5, <1>6, <1>7, StepByKind

LEMMA WiredStep ==
  ASSUME GovTypeOK, LiveVaultIsWired, [Next]_vars
  PROVE  LiveVaultIsWired'
<1> USE DEF LiveVaultIsWired, GovTypeOK
<1>0. [RulesNext]_ruleVars
  BY StepIsARule
<1>1. CASE UNCHANGED setupMode
  BY <1>0, <1>1, RulesKeepTheWiring
<1>2. ASSUME NEW s, EndSetup(s) PROVE LiveVaultIsWired'
  BY <1>2 DEF EndSetup, ReadyToEndSetup, ruleVars
<1>3. UNCHANGED setupMode \/ \E s \in Accounts : EndSetup(s)
  BY StepByKind DEF OwnerStep, GuardStep, DirectSetter, DirectTurnOnDepositLimits,
     LowerDepositLimit, LowerWithdrawFee, QueueChange, ExecuteChange, CancelChange,
     TransferOwnership, AcceptOwnership, GuardAccept, TransferController,
     AcceptController, Tick, vars, govVars
<1> QED BY <1>1, <1>2, <1>3

(* The inductive invariant of governance.                                  *)
THEOREM InvHolds == Spec => []IInv
<1>1. IInv /\ [Next]_vars => IInv'
  BY TypeStep, EtaStep, ClosedStep, WiredStep DEF IInv
<1> QED BY <1>1, InitInv, PTL DEF Spec

(* A guarded vault has no open offer and is past setup, for any accounts   *)
(* and any order of offers, changes and controllers.                       *)
THEOREM GuardedVaultStaysClosed == Spec => []GuardedVaultIsClosed
<1>1. IInv => GuardedVaultIsClosed
  BY DEF IInv
<1> QED BY <1>1, InvHolds, PTL

(* A live vault stays value bound and under limits.                        *)
THEOREM LiveVaultStaysWired == Spec => []LiveVaultIsWired
<1>1. IInv => LiveVaultIsWired
  BY DEF IInv
<1> QED BY <1>1, InvHolds, PTL

-----------------------------------------------------------------------------
(* Under the guard no step touches the proof checkers: its controller can  *)
(* only forward limit and fee calls, whatever the old owner left queued.   *)
LEMMA CheckersFixed ==
  ASSUME IInv, [Next]_vars, owner = GUARD
  PROVE  UNCHANGED <<verifier, shieldVerifier>>
<1> USE GovernanceAssumption DEF IInv, GovTypeOK, GuardedVaultIsClosed
<1>1. ASSUME NEW c \in Calls, AllowedChange(c), Apply(c)
      PROVE  UNCHANGED <<verifier, shieldVerifier>>
  BY <1>1 DEF AllowedChange, Apply, SetDepositLimit, SetWithdrawFee
<1>2. ASSUME NEW s \in Accounts, OwnerStep(s)
      PROVE  FALSE
  BY <1>2 DEF OwnerStep, DirectSetter, DirectTurnOnDepositLimits, LowerDepositLimit,
     LowerWithdrawFee, EndSetup, QueueChange, ExecuteChange, CancelChange,
     TransferOwnership, AcceptOwnership
<1>3. ASSUME NEW c \in Calls, AllowedChange(c), ExecuteChange(GUARD, c)
      PROVE  UNCHANGED <<verifier, shieldVerifier>>
  BY <1>1, <1>3 DEF ExecuteChange
<1>4. ASSUME NEW a, NEW l, LowerDepositLimit(GUARD, a, l)
      PROVE  UNCHANGED <<verifier, shieldVerifier>>
  BY <1>4 DEF LowerDepositLimit, SetDepositLimit
<1>5. ASSUME NEW bps, LowerWithdrawFee(GUARD, bps)
      PROVE  UNCHANGED <<verifier, shieldVerifier>>
  BY <1>5 DEF LowerWithdrawFee, SetWithdrawFee
<1>6. CASE UNCHANGED ruleVars
  BY <1>6 DEF ruleVars
<1>7. ASSUME NEW s \in Accounts, GuardStep(s) PROVE UNCHANGED ruleVars
  BY <1>7 DEF GuardStep, GuardAccept, AcceptOwnership, TransferController,
     AcceptController, ruleVars
<1>8. ASSUME NEW c \in Calls, QueueChange(GUARD, c) \/ CancelChange(GUARD, c)
      PROVE  UNCHANGED ruleVars
  BY <1>8 DEF QueueChange, CancelChange
<1>9. Tick \/ UNCHANGED vars => UNCHANGED ruleVars
  BY DEF Tick, vars
<1> QED BY <1>2, <1>3, <1>4, <1>5, <1>6, <1>7, <1>8, <1>9, StepByKind

(* Handing a vault to the guard cannot be undone: it stays the owner and   *)
(* the proof checkers never change again.                                  *)
THEOREM GuardNeverLetsGo == Spec => GuardIsOneWay
<1>1. IInv /\ [Next]_vars =>
        [owner = GUARD => /\ owner' = GUARD
                          /\ UNCHANGED <<verifier, shieldVerifier>>]_vars
  BY ClosedStep, CheckersFixed DEF IInv
<1> QED BY <1>1, InvHolds, PTL DEF Spec, GuardIsOneWay

-----------------------------------------------------------------------------
(* The body of NoticeBeforeChange: what a step may do to a live vault.     *)
NoticedStep ==
  ~setupMode /\ ruleVars' # ruleVars =>
    \/ OnlyLowers
    \/ \E c \in Calls :
         /\ announced[c] # 0
         /\ now - announced[c] \in CHANGE_DELAY..(CHANGE_DELAY + CHANGE_GRACE)
         /\ announced'[c] = 0
         /\ Apply(c)

LEMMA LimitsAreInts ==
  ASSUME RulesTypeOK
  PROVE  \A a \in Assets : /\ depositLimit[a].perDeposit \in Int
                           /\ depositLimit[a].total \in Int
<1> TAKE a \in Assets
<1>1. depositLimit[a] \in [perDeposit : LimitValues, total : LimitValues]
  BY DEF RulesTypeOK, DepositLimit
<1>2. \A x \in LimitValues : x \in Int
  BY RulesAssumption
<1> QED BY <1>1, <1>2

LEMMA StepIsNoticed ==
  ASSUME IInv, [Next]_vars
  PROVE  NoticedStep
<1> USE GovernanceAssumption, RulesAssumption
    DEF IInv, GovTypeOK, RulesTypeOK, DepositLimit
<1>1. ASSUME NEW s, NEW c \in Calls, ExecuteChange(s, c) PROVE NoticedStep
  <2>1. announced[c] # 0 /\ changeEta[c] = announced[c] + CHANGE_DELAY
    BY <1>1 DEF EtaIsThePublishedOne, ExecuteChange, Matured
  <2>2. changeEta[c] <= now /\ now <= changeEta[c] + CHANGE_GRACE
    BY <1>1 DEF ExecuteChange, Matured
  <2>3. now - announced[c] \in CHANGE_DELAY..(CHANGE_DELAY + CHANGE_GRACE)
    BY <2>1, <2>2
  <2>4. announced'[c] = 0 /\ Apply(c)
    BY <1>1 DEF ExecuteChange
  <2> QED BY <2>1, <2>3, <2>4 DEF NoticedStep
<1>2. ASSUME NEW s, NEW a \in Assets, NEW l \in DepositLimit, LowerDepositLimit(s, a, l)
      PROVE  NoticedStep
  <2>1. \A b \in Assets : /\ depositLimit[b].perDeposit \in Int
                          /\ depositLimit[b].total \in Int
    BY LimitsAreInts DEF IInv, GovTypeOK
  <2>2. OnlyLowers
    BY <1>2, <2>1 DEF LowerDepositLimit, SetDepositLimit, OnlyLowers
  <2> QED BY <2>2 DEF NoticedStep
<1>3. ASSUME NEW s, NEW bps \in 0..BPS, LowerWithdrawFee(s, bps) PROVE NoticedStep
  <2>1. \A b \in Assets : /\ depositLimit[b].perDeposit \in Int
                          /\ depositLimit[b].total \in Int
    BY LimitsAreInts DEF IInv, GovTypeOK
  <2>2. OnlyLowers
    BY <1>3, <2>1 DEF LowerWithdrawFee, SetWithdrawFee, OnlyLowers
  <2> QED BY <2>2 DEF NoticedStep
<1>4. CASE setupMode \/ UNCHANGED ruleVars
  BY <1>4 DEF NoticedStep
<1>5. ASSUME NEW s \in Accounts, OwnerStep(s) PROVE NoticedStep
  BY <1>1, <1>2, <1>3, <1>4, <1>5 DEF OwnerStep, DirectSetter,
     DirectTurnOnDepositLimits, EndSetup, QueueChange, CancelChange,
     TransferOwnership, AcceptOwnership
<1>6. ASSUME NEW s \in Accounts, GuardStep(s) PROVE UNCHANGED ruleVars
  BY <1>6 DEF GuardStep, GuardAccept, AcceptOwnership, TransferController,
     AcceptController, ruleVars
<1>7. ASSUME NEW c \in Calls, QueueChange(GUARD, c) \/ CancelChange(GUARD, c)
      PROVE  UNCHANGED ruleVars
  BY <1>7 DEF QueueChange, CancelChange
<1>8. Tick \/ UNCHANGED vars => UNCHANGED ruleVars
  BY DEF Tick, vars
<1> QED BY <1>1, <1>2, <1>3, <1>4, <1>5, <1>6, <1>7, <1>8, StepByKind

(* Users see a change coming: on a live vault a rule gets tighter, or the  *)
(* step is a call that was public for the whole delay, has not outlived    *)
(* its grace and uses its notice up, for every delay and grace.            *)
THEOREM ChangesAreNoticed == Spec => NoticeBeforeChange
<1>1. IInv /\ [Next]_vars => [NoticedStep]_vars
  BY StepIsNoticed
<1> QED BY <1>1, InvHolds, PTL DEF Spec, NoticeBeforeChange, NoticedStep
=============================================================================
