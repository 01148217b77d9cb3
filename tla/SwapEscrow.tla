----------------------------- MODULE SwapEscrow -----------------------------
(***************************************************************************)
(* The swap router of a vault (GloamVaultSwap2 with GloamVaultSwapV4c's    *)
(* pools) and the escrows it opens (SwapEscrow2).  A swap's address is a   *)
(* hash of its whole key, so an escrow is named by its swap; commitments   *)
(* and nullifiers are named by their notes.  A call that reverts changes   *)
(* nothing and is no step: the vault refusing a deposit (paused, full) or  *)
(* a pool refusing a trade is a step not taken.                            *)
(***************************************************************************)
EXTENDS Integers

CONSTANTS
  Swaps,        \* swaps proved by the holders of notes
  key,          \* the EscrowKey of each, with the input asset beside it
  Nullifiers, Commitments, Assets, Pools,
  NATIVE,       \* the chain's own coin, an asset of the vault
  Unspent, Elsewhere,
  POOL_DELAY,
  MaxFee,       \* the vault's cap on its cash-out fee (1% in the source)
  MaxTime, MaxAmount, MaxStray  \* bounds on time, on amounts, on stray money

EscrowKey == [nullifier : Nullifiers, assetIn : Assets, amountIn : Nat,
              outCommitment : Commitments, assetOut : Assets, amountOut : Nat,
              refundCommitment : Commitments, refundAmount : Nat,
              pools : SUBSET Pools, deadline : Nat]

ASSUME SwapAssumption ==
  /\ key \in [Swaps -> EscrowKey]
  /\ NATIVE \in Assets
  /\ {Unspent, Elsewhere} \cap Swaps = {} /\ Unspent # Elsewhere
  /\ {POOL_DELAY, MaxFee, MaxTime, MaxAmount, MaxStray} \subseteq Nat
  /\ \A k \in Swaps : key[k].amountIn > MaxFee

VARIABLES
  spentTo,     \* vault: where each note's money went
  seen,        \* vault: commitments it holds
  fee,         \* vault: what it keeps of an unshield now.  In the source a share
               \* of the amount; it may move before every step, so each
               \* unshield of any amount meets every fee it could meet there
  held,        \* what each escrow holds of its swap's input asset
  opened,      \* escrows deployed: one byte of code that refuses every call
  router,      \* per asset, what the router holds between calls
  treasury,    \* per asset, what the treasury was sent
  poolLiveAt,  \* per pool, the first time a route may use it; 0: not listed
  now,
  result       \* the event each swap ended with

vaultVars == <<spentTo, seen, fee>>
cashVars == <<router, treasury>>
listVars == <<poolLiveAt, now>>
vars == <<vaultVars, held, opened, cashVars, listVars, result>>

TypeOK ==
  /\ spentTo \in [Nullifiers -> Swaps \cup {Unspent, Elsewhere}]
  /\ seen \subseteq Commitments
  /\ fee \in 0..MaxFee
  /\ held \in [Swaps -> Nat]
  /\ opened \subseteq Swaps
  /\ router \in [Assets -> Nat]
  /\ treasury \in [Assets -> Nat]
  /\ poolLiveAt \in [Pools -> Nat]
  /\ now \in Nat
  /\ result \in [Swaps -> {"none", "VaultSwap", "VaultSwapRefund", "VaultSwapExit"}]

(* The constructor lists its pools at once: any set of them.               *)
Init ==
  /\ spentTo = [n \in Nullifiers |-> Unspent]
  /\ seen = {}
  /\ fee \in 0..MaxFee
  /\ held = [k \in Swaps |-> 0]
  /\ opened = {}
  /\ router = [a \in Assets |-> 0]
  /\ treasury = [a \in Assets |-> 0]
  /\ now = 1
  /\ poolLiveAt \in [Pools -> {0, now}]
  /\ result = [k \in Swaps |-> "none"]

-----------------------------------------------------------------------------
Note(k) == key[k].nullifier
isSpent(k) == spentTo[Note(k)] # Unspent

allowedPool(p) == poolLiveAt[p] # 0 /\ now >= poolLiveAt[p]

(* The checks swap() makes of its arguments.                               *)
WellFormed(k) ==
  /\ key[k].assetIn # key[k].assetOut
  /\ key[k].amountOut # 0
  /\ key[k].refundAmount \in 1..key[k].amountIn
  /\ key[k].refundCommitment # key[k].outCommitment

(* What the escrow hands over when it opens after this call's own unshield:*)
(* the note less the vault's fee, and anything that was there already.     *)
Available(k) == held[k] + key[k].amountIn - fee

AnyInput(k, paid) == paid <= router[key[k].assetIn] + Available(k)  \* mutant: bounded by the balance
ForgetsFee(k, paid) == paid <= held[k] + key[k].amountIn  \* mutant: the vault's fee is spent too
InputCovered(k, paid) == paid <= Available(k)

OutputCovered(k, got) == got >= key[k].amountOut

(* _trySweep of the assets in S: all of each the treasury takes.           *)
Swept(balance, S) ==
  /\ router' = [a \in Assets |-> IF a \in S THEN 0 ELSE balance[a]]
  /\ treasury' = [a \in Assets |-> treasury[a] + IF a \in S THEN balance[a] ELSE 0]

(* swap() of a note still in the vault.  The pools ask `paid` of the input *)
(* and give `got` of the output; `takes` is what the treasury accepts.     *)
Swap(k, paid, got, takes) ==
  LET in == key[k].assetIn
      out == key[k].assetOut
  IN /\ WellFormed(k)
     /\ ~isSpent(k)
     /\ now <= key[k].deadline
     /\ k \notin opened
     /\ key[k].pools # {} /\ \A p \in key[k].pools : allowedPool(p)
     /\ InputCovered(k, paid)
     /\ OutputCovered(k, got)
     /\ key[k].outCommitment \notin seen
     /\ spentTo' = [spentTo EXCEPT ![Note(k)] = k]
     /\ opened' = opened \cup {k}
     /\ held' = [held EXCEPT ![k] = 0]
     /\ seen' = seen \cup {key[k].outCommitment}
     /\ Swept([router EXCEPT ![in] = @ + Available(k) - paid,
                             ![out] = @ + got - key[k].amountOut],
              takes \cap {in, out, NATIVE})
     /\ result' = [result EXCEPT ![k] = "VaultSwap"]
     /\ UNCHANGED <<fee, listVars>>

RefundFromBalance(k) == held[k] + router[key[k].assetIn] >= key[k].refundAmount  \* mutant
RefundCovered(k) == held[k] >= key[k].refundAmount

(* swap() of a note already spent: the refund, with no deadline.           *)
Refund(k, takes) ==
  LET in == key[k].assetIn
  IN /\ WellFormed(k)
     /\ isSpent(k)
     /\ RefundCovered(k)
     /\ k \notin opened
     /\ key[k].refundCommitment \notin seen
     /\ opened' = opened \cup {k}
     /\ held' = [held EXCEPT ![k] = 0]
     /\ seen' = seen \cup {key[k].refundCommitment}
     /\ Swept([router EXCEPT ![in] = @ + held[k] - key[k].refundAmount], takes \cap {in})
     /\ result' = [result EXCEPT ![k] = "VaultSwapRefund"]
     /\ UNCHANGED <<spentTo, fee, listVars>>

ExitAnyTime(k) == held[k] # 0                        \* mutant: the note may still be in the vault
ExitInTime(k) == isSpent(k) /\ held[k] # 0 /\ now <= key[k].deadline  \* mutant: the deadline holds for exits
CanExit(k) == isSpent(k) /\ held[k] # 0

(* exit(), signed by the swap's exit key: the escrow pays `to` itself.     *)
Exit(k) ==
  /\ CanExit(k)
  /\ k \notin opened
  /\ opened' = opened \cup {k}
  /\ held' = [held EXCEPT ![k] = 0]
  /\ result' = [result EXCEPT ![k] = "VaultSwapExit"]
  /\ UNCHANGED <<vaultVars, cashVars, listVars>>

-----------------------------------------------------------------------------
(* The swap's unshield proof is public once sent: anyone may send it alone.*)
UnshieldAlone(k) ==
  /\ ~isSpent(k)
  /\ spentTo' = [spentTo EXCEPT ![Note(k)] = k]
  /\ held' = [held EXCEPT ![k] = @ + key[k].amountIn - fee]
  /\ UNCHANGED <<seen, fee, opened, cashVars, listVars, result>>

(* The holder spends the note some other way; a commitment of somebody     *)
(* else's proof is taken into the vault.                                   *)
SpendElsewhere(n) ==
  /\ spentTo[n] = Unspent
  /\ spentTo' = [spentTo EXCEPT ![n] = Elsewhere]
  /\ UNCHANGED <<seen, fee, held, opened, cashVars, listVars, result>>

SetFee(f) ==
  /\ f # fee
  /\ fee' = f
  /\ UNCHANGED <<spentTo, seen, held, opened, cashVars, listVars, result>>

(* Money sent straight to the router or to an escrow.  One already opened  *)
(* refuses the chain's coin; a token sent there is the sender's loss, no   *)
(* swap's money, and `held` does not count it.                             *)
StrayToRouter(a) ==
  /\ router[a] + treasury[a] < MaxStray
  /\ router' = [router EXCEPT ![a] = @ + 1]
  /\ UNCHANGED <<vaultVars, held, opened, treasury, listVars, result>>

StrayToEscrow(k) ==
  /\ k \notin opened
  /\ held[k] < MaxStray
  /\ held' = [held EXCEPT ![k] = @ + 1]
  /\ UNCHANGED <<vaultVars, opened, cashVars, listVars, result>>

QueuePool(p) ==
  /\ poolLiveAt[p] = 0
  /\ poolLiveAt' = [poolLiveAt EXCEPT ![p] = now + POOL_DELAY]
  /\ UNCHANGED <<vaultVars, held, opened, cashVars, now, result>>

RemovePool(p) ==
  /\ poolLiveAt[p] # 0
  /\ poolLiveAt' = [poolLiveAt EXCEPT ![p] = 0]
  /\ UNCHANGED <<vaultVars, held, opened, cashVars, now, result>>

Tick ==
  /\ now < MaxTime
  /\ now' = now + 1
  /\ UNCHANGED <<vaultVars, held, opened, cashVars, poolLiveAt, result>>

SwapStep(k) ==
  \/ \E paid, got \in 1..MaxAmount, takes \in SUBSET Assets : Swap(k, paid, got, takes)
  \/ \E takes \in SUBSET Assets : Refund(k, takes)
  \/ Exit(k)
  \/ UnshieldAlone(k)
  \/ StrayToEscrow(k)

Next ==
  \/ \E k \in Swaps : SwapStep(k)
  \/ \E n \in Nullifiers : SpendElsewhere(n)
  \/ \E f \in 0..MaxFee : SetFee(f)
  \/ \E a \in Assets : StrayToRouter(a)
  \/ \E p \in Pools : QueuePool(p) \/ RemovePool(p)
  \/ Tick

Spec == Init /\ [][Next]_vars

(* A holder who keeps the exit key sends the exit of money that waits.     *)
FairSpec == Spec /\ \A k \in Swaps : WF_vars(Exit(k))

-----------------------------------------------------------------------------
(* An escrow opens only after its note is spent and holds nothing          *)
(* afterwards: a note still in the vault can never be paid to an address   *)
(* that refuses every call, where its money would stop for good.           *)
NoNoteToADeadEscrow ==
  \A k \in opened : isSpent(k) /\ held[k] = 0

(* What the router kept from earlier calls (a leftover the treasury could  *)
(* not take, a stray transfer) is never spent on anyone's behalf: router   *)
(* and treasury together only grow, whatever the pools ask and give.       *)
StraysAreNeverSpent ==
  [][\A a \in Assets : router[a] + treasury[a] <= router'[a] + treasury'[a]]_vars

(* Money sent to an escrow by itself leaves it, whatever happens to the    *)
(* fee, the deadline or the pools its swap named.                          *)
WaitingMoneyLeaves ==
  \A k \in Swaps : (spentTo[Note(k)] = k) ~> (k \in opened)

FateOf == [none |-> "waiting", VaultSwap |-> "swapped",
           VaultSwapRefund |-> "refunded", VaultSwapExit |-> "exited"]
Fate(k) == IF spentTo[Note(k)] = k THEN FateOf[result[k]] ELSE "asked"

Promise == INSTANCE SwapPromise WITH
  NullifierOf <- [k \in Swaps |-> Note(k)],
  fate <- [k \in Swaps |-> Fate(k)]

(* The router and its escrows keep what SwapPromise promises.              *)
KeepsPromise == Promise!Spec
=============================================================================
