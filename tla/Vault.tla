------------------------------- MODULE Vault -------------------------------
(***************************************************************************)
(* The money side of the vault: ShieldPoolPayments / ShieldPoolCore with   *)
(* the shield, transfer and unshield circuits and the Merkle tree.         *)
(*                                                                         *)
(* A note's commitment is Poseidon(secret, amount, asset) and its          *)
(* nullifier Poseidon(secret, commitment).  Both hashes are taken to be    *)
(* collision free, so a commitment IS its opening and a nullifier is named *)
(* by the note it belongs to.  The i-th root stands for the first i        *)
(* leaves.  A proof is accepted exactly when its circuit's constraints     *)
(* hold: every address in Verifiers is a sound verifier of the circuits.   *)
(***************************************************************************)
EXTENDS VaultRules, Sequences, FiniteSets

CONSTANTS
  Secrets,       \* note secrets, non-zero field elements
  MaxAmount,     \* 2^128 - 1 in the circuits (Num2Bits(128))
  MAX_LEAVES,    \* 2^20 in the source
  VAULT,         \* the vault's own address, a legal payee
  MaxBalance     \* bound on the money sent to the vault outside a deposit

ASSUME VaultAssumption ==
  /\ MaxAmount \in Nat
  /\ MAX_LEAVES \in Nat
  /\ MaxBalance \in Nat
  /\ VAULT \in Addresses

VARIABLES
  leaves,          \* tree: the commitments in insertion order
  commitmentSeen,  \* commitments ever accepted
  spent,           \* nullifiers used, each named by its note
  deposited,       \* per asset, the pool's record of the notes' backing
  feesOwed,        \* per asset, fees kept back and not yet collected
  balance          \* per asset, what the token says the vault holds

ledgerVars == <<leaves, commitmentSeen, spent, deposited, feesOwed, balance>>
vars == <<ledgerVars, ruleVars>>

Note == [secret : Secrets, amount : 0..MaxAmount, asset : Assets]

TypeOK ==
  /\ RulesTypeOK
  /\ leaves \in Seq(Note)
  /\ commitmentSeen \subseteq Note
  /\ spent \subseteq Note
  /\ deposited \in [Assets -> Nat]
  /\ feesOwed \in [Assets -> Nat]
  /\ balance \in [Assets -> Nat]

Init ==
  /\ RulesInit
  /\ leaves = <<>>
  /\ commitmentSeen = {}
  /\ spent = {}
  /\ deposited = [a \in Assets |-> 0]
  /\ feesOwed = [a \in Assets |-> 0]
  /\ balance = [a \in Assets |-> 0]

-----------------------------------------------------------------------------
(* Every root the tree ever had stays known, so root r is any past length. *)
OnlyLatestRoot(r) == r = Len(leaves)  \* mutant: a proof expires with its root
KnownRoot(r) == r \in 0..Len(leaves)

InTree(n, r) == \E i \in 1..r : leaves[i] = n

WithinDepositLimit(asset, amount) ==
  depositLimitsOn => /\ amount <= depositLimit[asset].perDeposit
                     /\ deposited[asset] + amount <= depositLimit[asset].total

(* deposit: the shield circuit binds the commitment to (amount, asset), so *)
(* the note that enters is worth exactly what is pulled in.  The pull is   *)
(* exact (FeeOnTransferNotSupported otherwise).                            *)
ShieldBound(n) ==
  /\ shieldVerifier # NoAddress
  /\ n.amount # 0
  /\ n \notin commitmentSeen
  /\ WithinDepositLimit(n.asset, n.amount)
  /\ Len(leaves) < MAX_LEAVES
  /\ commitmentSeen' = commitmentSeen \cup {n}
  /\ balance' = [balance EXCEPT ![n.asset] = @ + n.amount]
  /\ deposited' = [deposited EXCEPT ![n.asset] = @ + n.amount]
  /\ leaves' = Append(leaves, n)
  /\ UNCHANGED <<spent, feesOwed, ruleVars>>

(* The transfer circuit: the spent note is under a root, the two new notes *)
(* are of its asset and split its amount (either part may be zero).        *)
UnboundChange(n, pay, change, r) ==  \* mutant: the change is not part of the sum
  /\ InTree(n, r)
  /\ pay.asset = n.asset
  /\ change.asset = n.asset
  /\ n.amount >= pay.amount
  /\ n.amount >= change.amount

TransferProof(n, pay, change, r) ==
  /\ InTree(n, r)
  /\ pay.asset = n.asset
  /\ change.asset = n.asset
  /\ n.amount = pay.amount + change.amount

Transfer(n, pay, change, r) ==
  /\ n \notin spent
  /\ verifier # NoAddress
  /\ KnownRoot(r)
  /\ TransferProof(n, pay, change, r)
  /\ pay \notin commitmentSeen
  /\ change \notin commitmentSeen \cup {pay}
  /\ Len(leaves) + 2 <= MAX_LEAVES
  /\ spent' = spent \cup {n}
  /\ commitmentSeen' = commitmentSeen \cup {pay, change}
  /\ leaves' = leaves \o <<pay, change>>
  /\ UNCHANGED <<deposited, feesOwed, balance, ruleVars>>

(* A push to the vault itself leaves its balance as it was.                *)
Pushed(asset, to, amount) ==
  [balance EXCEPT ![asset] = IF to = VAULT THEN @ ELSE @ - amount]

CanUnshield(n, to, r) ==
  /\ to # NoAddress
  /\ n.amount # 0
  /\ n \notin spent
  /\ verifier # NoAddress
  /\ KnownRoot(r)
  /\ InTree(n, r)
  /\ deposited[n.asset] >= n.amount

(* The token's own transfer refuses to pay more than the vault holds.      *)
Unshield(n, to, r) ==
  LET fee == WithdrawFee(n.amount, withdrawFeeBps, feeRecipient) IN
  /\ CanUnshield(n, to, r)
  /\ balance[n.asset] >= n.amount - fee
  /\ spent' = spent \cup {n}
  /\ deposited' = [deposited EXCEPT ![n.asset] = @ - n.amount]
  /\ feesOwed' = [feesOwed EXCEPT ![n.asset] = @ + fee]
  /\ balance' = Pushed(n.asset, to, n.amount - fee)
  /\ UNCHANGED <<leaves, commitmentSeen, ruleVars>>

(* Anyone may call it; the money only ever goes to feeRecipient.           *)
CollectFees(asset) ==
  /\ feeRecipient # NoAddress
  /\ feesOwed[asset] # 0
  /\ balance[asset] >= feesOwed[asset]
  /\ feesOwed' = [feesOwed EXCEPT ![asset] = 0]
  /\ balance' = Pushed(asset, feeRecipient, feesOwed[asset])
  /\ UNCHANGED <<leaves, commitmentSeen, spent, deposited, ruleVars>>

BackedWithoutFees(asset) == deposited[asset]  \* mutant: fees owed taken for stray coin
Backed(asset) == deposited[asset] + feesOwed[asset]

SweepStrayNative(to) ==
  /\ to # NoAddress
  /\ balance[NATIVE] > Backed(NATIVE)
  /\ balance' = Pushed(NATIVE, to, balance[NATIVE] - Backed(NATIVE))
  /\ UNCHANGED <<leaves, commitmentSeen, spent, deposited, feesOwed, ruleVars>>

(* receive() and plain token transfers: money nobody made a note for.      *)
StrayArrives(asset, amount) ==
  /\ balance[asset] + amount <= MaxBalance
  /\ balance' = [balance EXCEPT ![asset] = @ + amount]
  /\ UNCHANGED <<leaves, commitmentSeen, spent, deposited, feesOwed, ruleVars>>

RuleChange == RulesNext /\ UNCHANGED ledgerVars

Next ==
  \/ \E n \in Note : ShieldBound(n)
  \/ \E n \in commitmentSeen, r \in 0..Len(leaves) :
       \E pay, change \in Note \ commitmentSeen : Transfer(n, pay, change, r)
  \/ \E n \in commitmentSeen, to \in Addresses, r \in 0..Len(leaves) :
       Unshield(n, to, r)
  \/ \E a \in Assets : CollectFees(a)
  \/ \E to \in Addresses : SweepStrayNative(to)
  \/ \E a \in Assets, x \in 1..MaxAmount : StrayArrives(a, x)
  \/ RuleChange

Spec == Init /\ [][Next]_vars

-----------------------------------------------------------------------------
Unspent == commitmentSeen \ spent

(* What a set of notes is worth in one asset, counted unit by unit: a note *)
(* of amount k contributes the pairs <<note, 1>> .. <<note, k>>.           *)
Units(S, asset) ==
  {p \in S \X (1..MaxAmount) : p[1].asset = asset /\ p[2] <= p[1].amount}
Value(S, asset) == Cardinality(Units(S, asset))

(* The pool's own record of each asset equals, at every moment, the sum of *)
(* the notes nobody has spent yet, whatever order deposits, private sends, *)
(* cash outs and fee changes come in: no send mints or burns value         *)
(* (ShieldPoolCore.sol:415, 430, 461).                                     *)
BackingIsExact == \A a \in Assets : deposited[a] = Value(Unspent, a)

(* The vault always holds what backs the notes and, on top of it, the fees *)
(* it owes: neither collecting fees nor sweeping stray coin reaches money  *)
(* that backs a note (ShieldPoolCore.sol:302-332).                         *)
Solvent == \A a \in Assets : balance[a] >= Backed(a)

(* Every unspent note can be cashed out in full at every moment a verifier *)
(* is set, against the latest root and against every root since the note   *)
(* entered: no limit, fee, sweep, full tree or other user's cash out stops *)
(* it, and the InsufficientPoolBalance check (ShieldPoolCore.sol:456)      *)
(* never fires on a valid proof.                                           *)
NoteRedeemable ==
  verifier # NoAddress =>
    \A n \in Unspent : \A r \in 0..Len(leaves) :
      n.amount # 0 /\ (r = Len(leaves) \/ InTree(n, r)) =>
        /\ CanUnshield(n, VAULT, r)
        /\ balance[n.asset] >= n.amount
=============================================================================
