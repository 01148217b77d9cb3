----------------------------- MODULE VaultRules -----------------------------
(***************************************************************************)
(* The rules a Gloam vault runs under and the bodies of the setters that   *)
(* change them (ShieldPoolCore._setVerifier, _setShieldVerifier,           *)
(* _setDepositLimit, _setWithdrawFee, turnOnDepositLimits).  WHO may run a *)
(* setter and WHEN is VaultGovernance's subject; here a rule may change at *)
(* any moment, so what Vault shows of the money holds under every          *)
(* governance that only uses these bodies.                                 *)
(***************************************************************************)
EXTENDS Integers

CONSTANTS
  Assets,                \* token addresses a deposit may name
  NATIVE,                \* address(0) as an asset: the chain's own coin
  Addresses,             \* accounts that may be paid
  NoAddress,             \* address(0) as an account
  Verifiers,             \* deployed verifiers of the vault's circuits
  LimitValues,           \* the uint128 values a deposit limit is given
  BPS,                   \* 10_000 in the source
  MAX_WITHDRAW_FEE_BPS   \* 100 in the source

ASSUME RulesAssumption ==
  /\ NATIVE \in Assets
  /\ NoAddress \notin Addresses
  /\ NoAddress \notin Verifiers
  /\ LimitValues \subseteq Nat
  /\ 0 \in LimitValues
  /\ BPS \in Nat
  /\ MAX_WITHDRAW_FEE_BPS \in Nat
  /\ MAX_WITHDRAW_FEE_BPS < BPS

VARIABLES
  verifier, shieldVerifier, depositLimitsOn, depositLimit,
  withdrawFeeBps, feeRecipient

ruleVars == <<verifier, shieldVerifier, depositLimitsOn, depositLimit,
              withdrawFeeBps, feeRecipient>>

DepositLimit == [perDeposit : LimitValues, total : LimitValues]

RulesTypeOK ==
  /\ verifier \in Verifiers \cup {NoAddress}
  /\ shieldVerifier \in Verifiers \cup {NoAddress}
  /\ depositLimitsOn \in BOOLEAN
  /\ depositLimit \in [Assets -> DepositLimit]
  /\ withdrawFeeBps \in 0..MAX_WITHDRAW_FEE_BPS
  /\ feeRecipient \in Addresses \cup {NoAddress}

RulesInit ==
  /\ verifier \in Verifiers \cup {NoAddress}
  /\ shieldVerifier = NoAddress
  /\ depositLimitsOn = FALSE
  /\ depositLimit = [a \in Assets |-> [perDeposit |-> 0, total |-> 0]]
  /\ withdrawFeeBps = 0
  /\ feeRecipient = NoAddress

SetVerifier(v) ==
  /\ verifier' = v
  /\ UNCHANGED <<shieldVerifier, depositLimitsOn, depositLimit,
                 withdrawFeeBps, feeRecipient>>

SetShieldVerifier(v) ==
  /\ shieldVerifier = NoAddress
  /\ v # NoAddress
  /\ shieldVerifier' = v
  /\ UNCHANGED <<verifier, depositLimitsOn, depositLimit,
                 withdrawFeeBps, feeRecipient>>

TurnOnDepositLimits ==
  /\ depositLimitsOn' = TRUE
  /\ UNCHANGED <<verifier, shieldVerifier, depositLimit,
                 withdrawFeeBps, feeRecipient>>

SetDepositLimit(asset, limit) ==
  /\ depositLimit' = [depositLimit EXCEPT ![asset] = limit]
  /\ UNCHANGED <<verifier, shieldVerifier, depositLimitsOn,
                 withdrawFeeBps, feeRecipient>>

FeeUncapped(bps) == TRUE  \* mutant: no FeeTooHigh check
FeeWithinCap(bps) == bps <= MAX_WITHDRAW_FEE_BPS

SetWithdrawFee(bps, recipient) ==
  /\ FeeWithinCap(bps)
  /\ bps # 0 => recipient # NoAddress
  /\ withdrawFeeBps' = bps
  /\ feeRecipient' = recipient
  /\ UNCHANGED <<verifier, shieldVerifier, depositLimitsOn, depositLimit>>

RulesNext ==
  \/ \E v \in Verifiers \cup {NoAddress} : SetVerifier(v)
  \/ \E v \in Verifiers : SetShieldVerifier(v)
  \/ TurnOnDepositLimits
  \/ \E a \in Assets, l \in DepositLimit : SetDepositLimit(a, l)
  \/ \E bps \in 0..BPS, r \in Addresses \cup {NoAddress} :
       SetWithdrawFee(bps, r)

RulesSpec == RulesInit /\ [][RulesNext]_ruleVars

-----------------------------------------------------------------------------
(* The cash-out fee, computed in two parts so that amount * bps never      *)
(* overflows a uint256 (ShieldPoolCore._withdrawFee).                      *)
WithdrawFee(amount, bps, recipient) ==
  IF bps = 0 \/ recipient = NoAddress
  THEN 0
  ELSE (amount \div BPS) * bps + ((amount % BPS) * bps) \div BPS
=============================================================================
