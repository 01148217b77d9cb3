-------------------------- MODULE VaultGovernance --------------------------
(***************************************************************************)
(* Who may change a vault's rules, and when: setup mode, the three day     *)
(* timelock (ChangeTimelock), the two-step owner (ShieldPoolCore) and      *)
(* VaultOwnerGuard, the contract that may own a live vault for good.       *)
(* block.timestamp is a clock that ticks; reverting calls are no steps.    *)
(***************************************************************************)
EXTENDS VaultRules

CONSTANTS
  Accounts,       \* externally owned accounts
  GUARD,          \* the VaultOwnerGuard contract
  Calls,          \* the setter calls the owner ever queues or makes
  CHANGE_DELAY,   \* 3 days
  CHANGE_GRACE,   \* 14 days
  MaxTime         \* bound on the clock

VARIABLES
  setupMode, changeEta, owner, pendingOwner,   \* the vault
  controller, pendingController,               \* the guard
  now,
  announced   \* history: since when users see a pending call, 0 if they see none

govVars == <<setupMode, changeEta, owner, pendingOwner, controller,
             pendingController, now, announced>>
vars == <<ruleVars, govVars>>

(* The whitelisted setters, one record per ABI-encoded call                *)
(* (ShieldPoolCore._changeArgWords).                                       *)
SetterCall ==
  [fn : {"setVerifier", "setShieldVerifier"}, v : Verifiers \cup {NoAddress}]
  \cup [fn : {"setDepositLimit"}, asset : Assets, limit : DepositLimit]
  \cup [fn : {"setWithdrawFee"}, bps : 0..BPS, to : Addresses \cup {NoAddress}]

ASSUME GovernanceAssumption ==
  /\ Calls \subseteq SetterCall
  /\ GUARD \notin Accounts
  /\ NoAddress \notin Accounts \cup {GUARD}
  /\ CHANGE_DELAY \in Nat \ {0}
  /\ CHANGE_GRACE \in Nat
  /\ MaxTime \in Nat \ {0}

Owners == Accounts \cup {GUARD}

GovTypeOK ==
  /\ RulesTypeOK
  /\ setupMode \in BOOLEAN
  /\ changeEta \in [Calls -> Nat]
  /\ announced \in [Calls -> Nat]
  /\ owner \in Owners
  /\ pendingOwner \in Owners \cup {NoAddress}
  /\ controller \in Accounts
  /\ pendingController \in Accounts \cup {NoAddress}
  /\ now \in 1..MaxTime

Init ==
  /\ RulesInit
  /\ setupMode = TRUE
  /\ changeEta = [c \in Calls |-> 0]
  /\ announced = [c \in Calls |-> 0]
  /\ owner \in Accounts
  /\ pendingOwner = NoAddress
  /\ controller \in Accounts
  /\ pendingController = NoAddress
  /\ now = 1

-----------------------------------------------------------------------------
(* _applyChange: the dispatch on the selector of a matured call.           *)
ApplyUncapped(call) ==  \* mutant: the fee is written without _setWithdrawFee
  \/ call.fn = "setVerifier" /\ SetVerifier(call.v)
  \/ call.fn = "setShieldVerifier" /\ SetShieldVerifier(call.v)
  \/ call.fn = "setDepositLimit" /\ SetDepositLimit(call.asset, call.limit)
  \/ /\ call.fn = "setWithdrawFee"
     /\ withdrawFeeBps' = call.bps /\ feeRecipient' = call.to
     /\ UNCHANGED <<verifier, shieldVerifier, depositLimitsOn, depositLimit>>

Apply(call) ==
  \/ call.fn = "setVerifier" /\ SetVerifier(call.v)
  \/ call.fn = "setShieldVerifier" /\ SetShieldVerifier(call.v)
  \/ call.fn = "setDepositLimit" /\ SetDepositLimit(call.asset, call.limit)
  \/ call.fn = "setWithdrawFee" /\ SetWithdrawFee(call.bps, call.to)

DirectSetter(sender, call) ==
  /\ sender = owner
  /\ setupMode
  /\ Apply(call)
  /\ UNCHANGED govVars

DirectTurnOnDepositLimits(sender) ==
  /\ sender = owner
  /\ setupMode
  /\ TurnOnDepositLimits
  /\ UNCHANGED govVars

LowerDepositLimit(sender, asset, limit) ==
  /\ sender = owner
  /\ limit.perDeposit <= depositLimit[asset].perDeposit
  /\ limit.total <= depositLimit[asset].total
  /\ SetDepositLimit(asset, limit)
  /\ UNCHANGED govVars

LowerWithdrawFee(sender, bps) ==
  /\ sender = owner
  /\ bps <= withdrawFeeBps
  /\ SetWithdrawFee(bps, feeRecipient)
  /\ UNCHANGED govVars

(* ShieldPoolPayments._checkReadyToEndSetup                                *)
ReadyUnchecked == TRUE  \* mutant: setup may end on a half wired pool
ReadyToEndSetup ==
  /\ verifier # NoAddress
  /\ shieldVerifier # NoAddress
  /\ depositLimitsOn

EndSetup(sender) ==
  /\ sender = owner
  /\ setupMode
  /\ ReadyToEndSetup
  /\ setupMode' = FALSE
  /\ UNCHANGED <<ruleVars, changeEta, announced, owner, pendingOwner,
                 controller, pendingController, now>>

(* A live entry is never queued again: that would silently move its eta.   *)
(* Users who saw a call while it was live would not look again, so queuing *)
(* it anew then would not count as an announcement.                        *)
LiveEntry(call) == changeEta[call] # 0 /\ now <= changeEta[call] + CHANGE_GRACE
SeenSince(call) == IF LiveEntry(call) THEN announced[call] ELSE now

Requeued(call) == TRUE  \* mutant: a live entry may be queued again
MayQueue(call) == ~LiveEntry(call)

QueueChange(sender, call) ==
  /\ sender = owner
  /\ ~setupMode
  /\ MayQueue(call)
  /\ changeEta' = [changeEta EXCEPT ![call] = now + CHANGE_DELAY]
  /\ announced' = [announced EXCEPT ![call] = SeenSince(call)]
  /\ UNCHANGED <<ruleVars, setupMode, owner, pendingOwner, controller,
                 pendingController, now>>

UntimedCall(call) == changeEta[call] # 0  \* mutant: an entry runs before its eta
Matured(call) ==
  /\ changeEta[call] # 0
  /\ changeEta[call] <= now
  /\ now <= changeEta[call] + CHANGE_GRACE

ExecuteChange(sender, call) ==
  /\ sender = owner
  /\ Matured(call)
  /\ changeEta' = [changeEta EXCEPT ![call] = 0]
  /\ announced' = [announced EXCEPT ![call] = 0]
  /\ Apply(call)
  /\ UNCHANGED <<setupMode, owner, pendingOwner, controller,
                 pendingController, now>>

CancelChange(sender, call) ==
  /\ sender = owner
  /\ changeEta[call] # 0
  /\ changeEta' = [changeEta EXCEPT ![call] = 0]
  /\ announced' = [announced EXCEPT ![call] = 0]
  /\ UNCHANGED <<ruleVars, setupMode, owner, pendingOwner, controller,
                 pendingController, now>>

TransferOwnership(sender, to) ==
  /\ sender = owner
  /\ pendingOwner' = to
  /\ UNCHANGED <<ruleVars, setupMode, changeEta, announced, owner, controller,
                 pendingController, now>>

StaleOffer == pendingOwner  \* mutant: an accepted offer stays open
NoOffer == NoAddress

AcceptOwnership(sender) ==
  /\ sender = pendingOwner
  /\ owner' = pendingOwner
  /\ pendingOwner' = NoOffer
  /\ UNCHANGED <<ruleVars, setupMode, changeEta, announced, controller,
                 pendingController, now>>

-----------------------------------------------------------------------------
(* VaultOwnerGuard.isAllowedChange                                         *)
AnyChange(call) == TRUE  \* mutant: the guard forwards every setter
AllowedChange(call) == call.fn \in {"setDepositLimit", "setWithdrawFee"}

GuardAccept(sender) ==
  /\ sender = controller
  /\ owner # GUARD
  /\ ~setupMode
  /\ AcceptOwnership(GUARD)

GuardQueue(sender, call) ==
  sender = controller /\ AllowedChange(call) /\ QueueChange(GUARD, call)

GuardExecute(sender, call) ==
  sender = controller /\ AllowedChange(call) /\ ExecuteChange(GUARD, call)

GuardCancel(sender, call) ==
  sender = controller /\ AllowedChange(call) /\ CancelChange(GUARD, call)

GuardLowerDepositLimit(sender, asset, limit) ==
  sender = controller /\ LowerDepositLimit(GUARD, asset, limit)

GuardLowerWithdrawFee(sender, bps) ==
  sender = controller /\ LowerWithdrawFee(GUARD, bps)

TransferController(sender, to) ==
  /\ sender = controller
  /\ pendingController' = to
  /\ UNCHANGED <<ruleVars, setupMode, changeEta, announced, owner,
                 pendingOwner, controller, now>>

AcceptController(sender) ==
  /\ sender = pendingController
  /\ controller' = sender
  /\ pendingController' = NoAddress
  /\ UNCHANGED <<ruleVars, setupMode, changeEta, announced, owner,
                 pendingOwner, now>>

Tick ==
  /\ now < MaxTime
  /\ now' = now + 1
  /\ UNCHANGED <<ruleVars, setupMode, changeEta, announced, owner,
                 pendingOwner, controller, pendingController>>

OwnerStep(s) ==
  \/ \E c \in Calls : DirectSetter(s, c)
  \/ DirectTurnOnDepositLimits(s)
  \/ \E a \in Assets, l \in DepositLimit : LowerDepositLimit(s, a, l)
  \/ \E bps \in 0..BPS : LowerWithdrawFee(s, bps)
  \/ EndSetup(s)
  \/ \E c \in Calls : QueueChange(s, c)
  \/ \E c \in Calls : ExecuteChange(s, c)
  \/ \E c \in Calls : CancelChange(s, c)
  \/ \E o \in Owners : TransferOwnership(s, o)
  \/ AcceptOwnership(s)

ControllerStep(s) ==
  \/ GuardAccept(s)
  \/ \E c \in Calls : GuardQueue(s, c)
  \/ \E c \in Calls : GuardExecute(s, c)
  \/ \E c \in Calls : GuardCancel(s, c)
  \/ \E a \in Assets, l \in DepositLimit : GuardLowerDepositLimit(s, a, l)
  \/ \E bps \in 0..BPS : GuardLowerWithdrawFee(s, bps)
  \/ \E o \in Accounts : TransferController(s, o)
  \/ AcceptController(s)

Next ==
  \/ \E s \in Accounts : OwnerStep(s)
  \/ \E s \in Accounts : ControllerStep(s)
  \/ Tick

Spec == Init /\ [][Next]_vars

-----------------------------------------------------------------------------
(* A step that only lowers a deposit limit or the fee.                     *)
OnlyLowers ==
  /\ UNCHANGED <<verifier, shieldVerifier, depositLimitsOn, feeRecipient>>
  /\ withdrawFeeBps' <= withdrawFeeBps
  /\ \A a \in Assets :
       /\ depositLimit'[a].perDeposit <= depositLimit[a].perDeposit
       /\ depositLimit'[a].total <= depositLimit[a].total

(* "Users see every pending rule change on chain at least CHANGE_DELAY     *)
(* before it can take effect" (ChangeTimelock.sol:16): once setup is over, *)
(* a rule either only becomes tighter, or the step is a call that has been *)
(* public for CHANGE_DELAY, at the eta first shown or within the grace     *)
(* after it, and that uses its announcement up.                            *)
NoticeBeforeChange ==
  [][~setupMode /\ ruleVars' # ruleVars =>
       \/ OnlyLowers
       \/ \E c \in Calls :
            /\ announced[c] # 0
            /\ now - announced[c] \in CHANGE_DELAY..(CHANGE_DELAY + CHANGE_GRACE)
            /\ announced'[c] = 0
            /\ Apply(c)]_vars

(* Once the guard owns the vault it owns it for good and the proof         *)
(* checkers never change again, whatever was queued before it came         *)
(* (VaultOwnerGuard.sol:30-63).                                            *)
GuardIsOneWay ==
  [][owner = GUARD => /\ owner' = GUARD
                      /\ UNCHANGED <<verifier, shieldVerifier>>]_vars

(* What makes the guard one-way: nobody holds an open offer of a vault the *)
(* guard owns, and such a vault is past setup (VaultOwnerGuard.sol:53-56). *)
GuardedVaultIsClosed ==
  owner = GUARD => pendingOwner = NoAddress /\ ~setupMode

(* A vault that left setup only ever takes value-bound deposits under      *)
(* limits (ShieldPoolPayments.sol:30-35).                                  *)
LiveVaultIsWired ==
  ~setupMode => shieldVerifier # NoAddress /\ depositLimitsOn
=============================================================================
