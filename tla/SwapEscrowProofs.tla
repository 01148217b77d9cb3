-------------------------- MODULE SwapEscrowProofs --------------------------
(***************************************************************************)
(* The swap router and its escrows, proved for any set of swaps, notes,    *)
(* assets and pools, any fee under the vault's cap, any prices the pools   *)
(* give and any stray money.  The invariant: an escrow is opened exactly   *)
(* when its swap ended, after its note was spent and leaving nothing; and  *)
(* a note's money sent to an escrow not opened is still there.             *)
(***************************************************************************)
EXTENDS SwapEscrow, TLAPS

EndedIsOpened == \A k \in Swaps : result[k] = "none" <=> k \notin opened
WaitingIsHeld == \A k \in Swaps \ opened : spentTo[Note(k)] = k => held[k] # 0

IInv == TypeOK /\ NoNoteToADeadEscrow /\ EndedIsOpened /\ WaitingIsHeld

LEMMA KeyFacts ==
  ASSUME NEW k \in Swaps
  PROVE  /\ Note(k) \in Nullifiers
         /\ key[k].assetIn \in Assets /\ key[k].assetOut \in Assets
         /\ key[k].amountIn \in Nat /\ key[k].amountOut \in Nat
         /\ key[k].refundAmount \in Nat
         /\ key[k].outCommitment \in Commitments
         /\ key[k].refundCommitment \in Commitments
         /\ key[k].amountIn > MaxFee
         /\ k # Unspent /\ k # Elsewhere
BY SwapAssumption DEF EscrowKey, Note

(* What an unshield pays is never nothing, whatever the fee.               *)
LEMMA AvailableIsPositive ==
  ASSUME TypeOK, NEW k \in Swaps
  PROVE  Available(k) \in Nat /\ Available(k) > 0
BY KeyFacts, SwapAssumption DEF TypeOK, Available

(* A sweep moves money from the router to the treasury and loses none.     *)
LEMMA SweepKeeps ==
  ASSUME TypeOK, NEW S, NEW balance \in [Assets -> Nat], Swept(balance, S)
  PROVE  /\ router' \in [Assets -> Nat] /\ treasury' \in [Assets -> Nat]
         /\ \A a \in Assets : router'[a] + treasury'[a] = balance[a] + treasury[a]
BY DEF TypeOK, Swept

SwapBalance(k, paid, got) ==
  [router EXCEPT ![key[k].assetIn] = @ + Available(k) - paid,
                 ![key[k].assetOut] = @ + got - key[k].amountOut]
RefundBalance(k) ==
  [router EXCEPT ![key[k].assetIn] = @ + held[k] - key[k].refundAmount]

(* A swap adds to what the router held, however the pools trade.           *)
LEMMA SwapAdds ==
  ASSUME TypeOK, NEW k \in Swaps, NEW paid \in 1..MaxAmount, NEW got \in 1..MaxAmount,
         WellFormed(k), InputCovered(k, paid), OutputCovered(k, got)
  PROVE  /\ SwapBalance(k, paid, got) \in [Assets -> Nat]
         /\ \A a \in Assets : router[a] <= SwapBalance(k, paid, got)[a]
<1>1. Available(k) - paid \in Nat /\ got - key[k].amountOut \in Nat
  BY AvailableIsPositive, KeyFacts, SwapAssumption DEF InputCovered, OutputCovered
<1>2. router \in [Assets -> Nat] /\ key[k].assetIn \in Assets /\ key[k].assetOut \in Assets
  BY KeyFacts DEF TypeOK
<1> DEFINE more == [router EXCEPT ![key[k].assetIn] = @ + Available(k) - paid]
<1>3. more \in [Assets -> Nat] /\ \A a \in Assets : router[a] <= more[a]
  BY <1>1, <1>2, AvailableIsPositive
<1>4. SwapBalance(k, paid, got) = [more EXCEPT ![key[k].assetOut] = @ + got - key[k].amountOut]
  BY <1>2 DEF SwapBalance, WellFormed
<1>5. key[k].amountOut \in Nat
  BY KeyFacts
<1> HIDE DEF more
<1> QED BY <1>1, <1>2, <1>3, <1>4, <1>5

(* So does a refund.                                                       *)
LEMMA RefundAdds ==
  ASSUME TypeOK, NEW k \in Swaps, RefundCovered(k)
  PROVE  /\ RefundBalance(k) \in [Assets -> Nat]
         /\ \A a \in Assets : router[a] <= RefundBalance(k)[a]
BY KeyFacts DEF TypeOK, RefundCovered, RefundBalance

LEMMA InitInv == Init => IInv
BY KeyFacts, SwapAssumption
   DEF Init, IInv, TypeOK, NoNoteToADeadEscrow, EndedIsOpened, WaitingIsHeld

-----------------------------------------------------------------------------
(* Each action keeps the invariant.                                        *)
LEMMA SwapKeeps ==
  ASSUME IInv, NEW k \in Swaps, NEW paid \in 1..MaxAmount, NEW got \in 1..MaxAmount,
         NEW takes, Swap(k, paid, got, takes)
  PROVE  IInv'
<1>1. Swept(SwapBalance(k, paid, got), takes \cap {key[k].assetIn, key[k].assetOut, NATIVE})
  BY DEF Swap, SwapBalance
<1>2. router' \in [Assets -> Nat] /\ treasury' \in [Assets -> Nat]
  BY <1>1, SwapAdds, SweepKeeps DEF IInv, Swap
<1>3. TypeOK'
  BY <1>2, KeyFacts DEF IInv, TypeOK, Swap, vaultVars, listVars
<1>4. \A j \in Swaps : spentTo'[Note(j)] = IF Note(j) = Note(k) THEN k ELSE spentTo[Note(j)]
  BY KeyFacts DEF IInv, TypeOK, Swap, isSpent, Note
<1>5. NoNoteToADeadEscrow'
  BY <1>4, KeyFacts DEF IInv, TypeOK, NoNoteToADeadEscrow, Swap, isSpent
<1>6. EndedIsOpened' /\ WaitingIsHeld'
  BY <1>4, KeyFacts DEF IInv, TypeOK, EndedIsOpened, WaitingIsHeld, Swap, isSpent
<1> QED BY <1>3, <1>5, <1>6 DEF IInv

LEMMA RefundKeeps ==
  ASSUME IInv, NEW k \in Swaps, NEW takes, Refund(k, takes)
  PROVE  IInv'
<1>1. Swept(RefundBalance(k), takes \cap {key[k].assetIn})
  BY DEF Refund, RefundBalance
<1>2. router' \in [Assets -> Nat] /\ treasury' \in [Assets -> Nat]
  BY <1>1, RefundAdds, SweepKeeps DEF IInv, Refund
<1>3. TypeOK'
  BY <1>2, KeyFacts DEF IInv, TypeOK, Refund, listVars
<1> QED
  BY <1>3 DEF IInv, TypeOK, NoNoteToADeadEscrow, EndedIsOpened, WaitingIsHeld, Refund, isSpent, Note

LEMMA ExitKeeps ==
  ASSUME IInv, NEW k \in Swaps, Exit(k)
  PROVE  IInv'
BY DEF IInv, TypeOK, NoNoteToADeadEscrow, EndedIsOpened, WaitingIsHeld, Exit, CanExit,
       isSpent, Note, vaultVars, cashVars, listVars

LEMMA UnshieldKeeps ==
  ASSUME IInv, NEW k \in Swaps, UnshieldAlone(k)
  PROVE  IInv'
<1>1. Available(k) \in Nat /\ Available(k) > 0 /\ held' = [held EXCEPT ![k] = Available(k)]
  BY AvailableIsPositive DEF IInv, UnshieldAlone, Available
<1>2. \A j \in Swaps : spentTo'[Note(j)] = IF Note(j) = Note(k) THEN k ELSE spentTo[Note(j)]
  BY KeyFacts DEF IInv, TypeOK, UnshieldAlone, Note
<1>3. k \notin opened
  BY DEF IInv, NoNoteToADeadEscrow, UnshieldAlone, isSpent
<1>4. TypeOK'
  BY <1>1, KeyFacts DEF IInv, TypeOK, UnshieldAlone, cashVars, listVars
<1> QED
  BY <1>1, <1>2, <1>3, <1>4, KeyFacts
     DEF IInv, TypeOK, NoNoteToADeadEscrow, EndedIsOpened, WaitingIsHeld, UnshieldAlone, isSpent

LEMMA InvStep == IInv /\ [Next]_vars => IInv'
<1> SUFFICES ASSUME IInv, [Next]_vars PROVE IInv'
  OBVIOUS
<1> USE DEF IInv, TypeOK, NoNoteToADeadEscrow, EndedIsOpened, WaitingIsHeld, isSpent, Note
<1>1. ASSUME NEW k \in Swaps, SwapStep(k) PROVE IInv'
  <2>1. ASSUME StrayToEscrow(k) PROVE IInv'
    BY <2>1 DEF StrayToEscrow, vaultVars, cashVars, listVars
  <2> QED BY <1>1, <2>1, SwapKeeps, RefundKeeps, ExitKeeps, UnshieldKeeps DEF SwapStep
<1>2. ASSUME NEW n \in Nullifiers, SpendElsewhere(n) PROVE IInv'
  BY <1>2, SwapAssumption DEF SpendElsewhere, cashVars, listVars
<1>3. ASSUME NEW f \in 0..MaxFee, SetFee(f) PROVE IInv'
  BY <1>3 DEF SetFee, cashVars, listVars
<1>4. ASSUME NEW a \in Assets, StrayToRouter(a) PROVE IInv'
  BY <1>4 DEF StrayToRouter, vaultVars, listVars
<1>5. ASSUME NEW p \in Pools, QueuePool(p) PROVE IInv'
  BY <1>5, SwapAssumption DEF QueuePool, vaultVars, cashVars
<1>6. ASSUME NEW p \in Pools, RemovePool(p) PROVE IInv'
  BY <1>6 DEF RemovePool, vaultVars, cashVars
<1>7. CASE Tick
  BY <1>7 DEF Tick, vaultVars, cashVars
<1>8. CASE UNCHANGED vars
  BY <1>8 DEF vars, vaultVars, cashVars, listVars
<1> QED BY <1>1, <1>2, <1>3, <1>4, <1>5, <1>6, <1>7, <1>8 DEF Next

(* The invariant holds throughout, for any swaps, prices, fees and pools.  *)
THEOREM InvHolds == Spec => []IInv
<1>1. IInv /\ [Next]_vars => IInv'
  BY InvStep
<1> QED BY <1>1, InitInv, PTL DEF Spec

(* A note is never unshielded to an escrow that is open already, where its *)
(* money would stop for good.                                              *)
THEOREM NoMoneyIsStuck == Spec => []NoNoteToADeadEscrow
<1>1. IInv => NoNoteToADeadEscrow
  BY DEF IInv
<1> QED BY <1>1, InvHolds, PTL

(* Whatever a pool asks or gives and whatever the fee, the balances stay   *)
(* amounts: no call of the router takes below nothing.                     *)
THEOREM TypeCorrect == Spec => []TypeOK
<1>1. IInv => TypeOK
  BY DEF IInv
<1> QED BY <1>1, InvHolds, PTL

ExitIsOpen == \A k \in Swaps \ opened : spentTo[Note(k)] = k => CanExit(k)

(* Money that waits at an escrow can be exited at every moment: no fee, no *)
(* deadline and no pool list can close the way out of exit().              *)
THEOREM MoneyCanAlwaysLeave == Spec => []ExitIsOpen
<1>1. IInv => ExitIsOpen
  BY KeyFacts DEF IInv, WaitingIsHeld, ExitIsOpen, CanExit, isSpent
<1> QED BY <1>1, InvHolds, PTL

-----------------------------------------------------------------------------
LEMMA StraysStay ==
  IInv /\ [Next]_vars =>
    [\A a \in Assets : router[a] + treasury[a] <= router'[a] + treasury'[a]]_vars
<1> DEFINE Grows == \A a \in Assets : router[a] + treasury[a] <= router'[a] + treasury'[a]
<1> SUFFICES ASSUME IInv, Next PROVE Grows
  OBVIOUS
<1>0. router \in [Assets -> Nat] /\ treasury \in [Assets -> Nat]
  BY DEF IInv, TypeOK
<1>1. ASSUME NEW k \in Swaps, NEW paid \in 1..MaxAmount, NEW got \in 1..MaxAmount,
             NEW takes, Swap(k, paid, got, takes)
      PROVE  Grows
  <2>1. Swept(SwapBalance(k, paid, got), takes \cap {key[k].assetIn, key[k].assetOut, NATIVE})
    BY <1>1 DEF Swap, SwapBalance
  <2>2. WellFormed(k) /\ InputCovered(k, paid) /\ OutputCovered(k, got)
    BY <1>1 DEF Swap
  <2> QED BY <1>0, <2>1, <2>2, SwapAdds, SweepKeeps DEF IInv
<1>2. ASSUME NEW k \in Swaps, NEW takes, Refund(k, takes) PROVE Grows
  <2>1. Swept(RefundBalance(k), takes \cap {key[k].assetIn}) /\ RefundCovered(k)
    BY <1>2 DEF Refund, RefundBalance
  <2> QED BY <1>0, <2>1, RefundAdds, SweepKeeps DEF IInv
<1>3. ASSUME NEW a \in Assets, StrayToRouter(a) PROVE Grows
  BY <1>0, <1>3 DEF StrayToRouter
<1>4. ASSUME UNCHANGED cashVars PROVE Grows
  BY <1>0, <1>4 DEF cashVars
<1> QED
  BY <1>1, <1>2, <1>3, <1>4
     DEF Next, SwapStep, Exit, UnshieldAlone, StrayToEscrow, SpendElsewhere, SetFee,
         QueuePool, RemovePool, Tick

(* The router never spends what it was left or sent: with the treasury it  *)
(* only gains, for any trades of any pools.                                *)
THEOREM StraysAreSafe == Spec => StraysAreNeverSpent
BY InvHolds, StraysStay, PTL DEF Spec, StraysAreNeverSpent

-----------------------------------------------------------------------------
(* The refinement: what a step does to the fate of every swap.             *)
fates == [k \in Swaps |-> Fate(k)]
EndsAs(k, f) == fates' = [fates EXCEPT ![k] = f]

LEMMA FatesChange ==
  ASSUME NEW k \in Swaps, NEW f,
         Fate(k)' = f, \A j \in Swaps \ {k} : Fate(j)' = Fate(j)
  PROVE  EndsAs(k, f)
BY DEF fates, EndsAs

LEMMA FatesStay ==
  ASSUME \A j \in Swaps : Fate(j)' = Fate(j)
  PROVE  fates' = fates
BY DEF fates

(* While a note is in the vault none of its swaps has had its money.       *)
LEMMA UnspentIsWhole ==
  ASSUME NEW k \in Swaps, ~isSpent(k)
  PROVE  \A j \in Swaps : Note(j) = Note(k) => Fate(j) = "asked"
BY KeyFacts DEF isSpent, Fate

LEMMA SpendMaps ==
  ASSUME IInv, NEW k \in Swaps, ~isSpent(k), spentTo' = [spentTo EXCEPT ![Note(k)] = k]
  PROVE  \A j \in Swaps : spentTo'[Note(j)] = j <=> j = k \/ spentTo[Note(j)] = j
BY KeyFacts DEF IInv, TypeOK, isSpent

LEMMA EndMaps ==
  ASSUME IInv, NEW k \in Swaps, NEW r \in {"VaultSwap", "VaultSwapRefund", "VaultSwapExit"},
         k \notin opened, result' = [result EXCEPT ![k] = r]
  PROVE  /\ result[k] = "none" /\ result'[k] = r
         /\ \A j \in Swaps \ {k} : result'[j] = result[j]
BY DEF IInv, TypeOK, EndedIsOpened

LEMMA FateOfWaiting ==
  ASSUME IInv, NEW k \in Swaps \ opened, spentTo[Note(k)] = k
  PROVE  Fate(k) = "waiting"
BY DEF IInv, EndedIsOpened, Fate, FateOf

LEMMA SwapMaps ==
  ASSUME IInv, NEW k \in Swaps, NEW paid, NEW got, NEW takes, Swap(k, paid, got, takes)
  PROVE  Promise!Swap(k)
<1>1. spentTo' = [spentTo EXCEPT ![Note(k)] = k] /\ ~isSpent(k) /\ k \notin opened
      /\ result' = [result EXCEPT ![k] = "VaultSwap"]
  BY DEF Swap
<1>2. \A j \in Swaps : spentTo'[Note(j)] = j <=> j = k \/ spentTo[Note(j)] = j
  BY <1>1, SpendMaps
<1>3. result'[k] = "VaultSwap" /\ \A j \in Swaps \ {k} : result'[j] = result[j]
  BY <1>1, EndMaps
<1>4. Fate(k)' = "swapped"
  BY <1>2, <1>3 DEF Fate, FateOf, Note
<1>5. \A j \in Swaps \ {k} : Fate(j)' = Fate(j)
  BY <1>2, <1>3 DEF Fate, Note
<1> QED
  BY <1>1, <1>4, <1>5, FatesChange, UnspentIsWhole
     DEF EndsAs, fates, Promise!Swap, Promise!Whole, Promise!Becomes

LEMMA UnshieldMaps ==
  ASSUME IInv, NEW k \in Swaps, UnshieldAlone(k)
  PROVE  Promise!UnshieldAlone(k)
<1>1. spentTo' = [spentTo EXCEPT ![Note(k)] = k] /\ ~isSpent(k) /\ UNCHANGED result
  BY DEF UnshieldAlone
<1>2. result[k] = "none"
  BY <1>1 DEF IInv, NoNoteToADeadEscrow, EndedIsOpened
<1>3. \A j \in Swaps : spentTo'[Note(j)] = j <=> j = k \/ spentTo[Note(j)] = j
  BY <1>1, SpendMaps
<1>4. Fate(k)' = "waiting"
  BY <1>1, <1>2, <1>3 DEF Fate, FateOf, Note
<1>5. \A j \in Swaps \ {k} : Fate(j)' = Fate(j)
  BY <1>1, <1>3 DEF Fate, Note
<1> QED
  BY <1>1, <1>4, <1>5, FatesChange, UnspentIsWhole
     DEF EndsAs, fates, Promise!UnshieldAlone, Promise!Whole, Promise!Becomes

(* A refund or an exit moves only money that waited: opening an escrow its *)
(* swap's note was not unshielded to (stray money alone) is a stutter.     *)
LEMMA OpeningMaps ==
  ASSUME IInv, NEW k \in Swaps, k \notin opened, UNCHANGED spentTo,
         NEW r \in {"VaultSwapRefund", "VaultSwapExit"},
         result' = [result EXCEPT ![k] = r]
  PROVE  \/ Fate(k) = "waiting" /\ EndsAs(k, FateOf[r])
         \/ UNCHANGED fates
<1>1. result[k] = "none" /\ result'[k] = r /\ \A j \in Swaps \ {k} : result'[j] = result[j]
  BY EndMaps
<1>2. \A j \in Swaps \ {k} : Fate(j)' = Fate(j)
  BY <1>1 DEF Fate, Note
<1>3. CASE spentTo[Note(k)] = k
  <2>1. Fate(k) = "waiting"
    BY <1>3, FateOfWaiting
  <2>2. Fate(k)' = FateOf[r]
    BY <1>1, <1>3 DEF Fate, Note
  <2> QED BY <1>2, <2>1, <2>2, FatesChange
<1>4. CASE spentTo[Note(k)] # k
  <2>1. Fate(k)' = Fate(k)
    BY <1>4 DEF Fate, Note
  <2> QED BY <1>2, <2>1, FatesStay
<1> QED BY <1>3, <1>4

LEMMA NextMaps == IInv /\ [Next]_vars => [Promise!Next]_fates
<1> SUFFICES ASSUME IInv, [Next]_vars
             PROVE  Promise!Next \/ UNCHANGED fates
  OBVIOUS
<1>1. ASSUME NEW k \in Swaps, SwapStep(k)
      PROVE  Promise!Step(k) \/ UNCHANGED fates
  <2>1. ASSUME NEW takes, Refund(k, takes)
        PROVE  Promise!Refund(k) \/ UNCHANGED fates
    <3>1. /\ k \notin opened /\ UNCHANGED spentTo
          /\ result' = [result EXCEPT ![k] = "VaultSwapRefund"]
      BY <2>1 DEF Refund
    <3> QED BY <3>1, OpeningMaps DEF FateOf, EndsAs, fates, Promise!Refund, Promise!Becomes
  <2>2. ASSUME Exit(k) PROVE Promise!Exit(k) \/ UNCHANGED fates
    <3>1. /\ k \notin opened /\ UNCHANGED spentTo
          /\ result' = [result EXCEPT ![k] = "VaultSwapExit"]
      BY <2>2 DEF Exit, vaultVars
    <3> QED BY <3>1, OpeningMaps DEF FateOf, EndsAs, fates, Promise!Exit, Promise!Becomes
  <2>3. ASSUME StrayToEscrow(k) PROVE UNCHANGED fates
    BY <2>3, FatesStay DEF StrayToEscrow, vaultVars, Fate, Note
  <2> QED BY <1>1, <2>1, <2>2, <2>3, SwapMaps, UnshieldMaps DEF SwapStep, Promise!Step
<1>2. ASSUME NEW n \in Nullifiers, SpendElsewhere(n) PROVE UNCHANGED fates
  <2>1. \A j \in Swaps : spentTo'[Note(j)] = j <=> spentTo[Note(j)] = j
    BY <1>2, KeyFacts DEF IInv, TypeOK, SpendElsewhere
  <2> QED BY <1>2, <2>1, FatesStay DEF SpendElsewhere, Fate, Note
<1>3. ASSUME UNCHANGED <<spentTo, result>> PROVE UNCHANGED fates
  BY <1>3, FatesStay DEF Fate, Note
<1> QED
  BY <1>1, <1>2, <1>3
     DEF Next, Promise!Next, SetFee, StrayToRouter, QueuePool, RemovePool, Tick, vars, vaultVars

LEMMA InitMaps == Init => Promise!Init
BY KeyFacts DEF Init, Promise!Init, Fate

(* The router and its escrows implement the promise: every step is one of  *)
(* SwapPromise or moves no swap's money, so a note's money leaves its      *)
(* escrow at most once and a refund or exit only follows an unshield.      *)
THEOREM RouterKeepsThePromise == Spec => KeepsPromise
<1>1. IInv /\ [Next]_vars => [Promise!Next]_fates
  BY NextMaps
<1> QED BY <1>1, InvHolds, InitMaps, PTL DEF Spec, KeepsPromise, Promise!Spec, fates
=============================================================================
