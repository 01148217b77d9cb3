------------------------- MODULE MCVaultGovernance -------------------------
(* One asset, one verifier, two accounts; a delay of one tick and no       *)
(* grace, so that entries mature, run, expire and are queued again.  The   *)
(* last call charges above the cap: the body must refuse it.               *)
EXTENDS VaultGovernance, TLC

CONSTANTS eth, v1, treasury

MCCalls ==
  { [fn |-> "setVerifier", v |-> NoAddress],
    [fn |-> "setShieldVerifier", v |-> v1],
    [fn |-> "setDepositLimit", asset |-> eth,
     limit |-> [perDeposit |-> 1, total |-> 1]],
    [fn |-> "setWithdrawFee", bps |-> 1, to |-> treasury],
    [fn |-> "setWithdrawFee", bps |-> 2, to |-> treasury] }

AccountSymmetry == Permutations(Accounts)
=============================================================================
