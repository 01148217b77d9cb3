-------------------------- MODULE AgentSwapProofs --------------------------
(***************************************************************************)
(* The agent server's private swaps of one note, proved for any swap calls *)
(* and private sends that may take it and any number of lost writes,       *)
(* crashes and refused sends.  The invariant: a call's notes are kept      *)
(* before its transaction is seen by anybody and never removed after, not  *)
(* even when it reverts; only a seen send takes the note; and a landing    *)
(* that was read and not yet written stays true of the chain, while a read *)
(* that nothing has landed may not.                                        *)
(***************************************************************************)
EXTENDS AgentSwap, TLAPS

(* A call keeps its notes before anybody sees its transaction.             *)
SentLater(c) == pc[c] \in {"off", "reserved", "kept"} => tx[c] = "unsent"
Exposed(c) == pc[c] = "kept" \/ tx[c] # "unsent"

SwapKept(k) ==
  /\ fate[k] # "asked" => tx[k] # "unsent"
  /\ Exposed(k) => made[k].out # "absent" /\ made[k].refund # "absent"
SendLanded(c) ==
  /\ took = c => tx[c] # "unsent"
  /\ tx[c] = "landed" => took = c
SendKept(c) ==
  /\ SendLanded(c)
  /\ Exposed(c) => fresh[c] # "absent"

(* What is shown spendable is there.                                       *)
SwapReal(k) ==
  /\ made[k].out = "unspent" => fate[k] = "swapped"
  /\ made[k].refund = "unspent" => fate[k] = "refunded"
SendReal(c) == fresh[c] = "unspent" => took = c
InputReal == input.status = "spent" => isSpent

(* An outcome read is final, except that a swap that has not landed, or    *)
(* whose copy reverted, may still happen.                                  *)
StillTrue(k, o) ==
  /\ o = "swapped" => fate[k] = "swapped"
  /\ o = "refunded" => fate[k] = "refunded"
  /\ o \in {"waiting", "closed"} => isSpent
LookTrue ==
  /\ look.swap # None => StillTrue(look.swap[1], look.swap[2])
  /\ look.input # None /\ look.input = "spent" => isSpent

IInv ==
  /\ TypeOK
  /\ \A c \in Calls : SentLater(c)
  /\ \A k \in Swaps : SwapKept(k) /\ SwapReal(k)
  /\ \A c \in Sends : SendKept(c) /\ SendReal(c)
  /\ InputReal
  /\ LookTrue

-----------------------------------------------------------------------------
(* The store's notes.                                                      *)
SwapNotes == [out : Statuses, refund : Statuses]
Inputs == [status : {"unspent", "pending", "spent"}, spentTx : Calls \cup {None},
           moveFirst : BOOLEAN, recheck : BOOLEAN]

LEMMA KeepNotesOfSwap ==
  ASSUME NEW k \in Swaps, made \in [Swaps -> SwapNotes], NEW s \in Statuses, NEW lost,
         KeepNotes(k, s, lost)
  PROVE  /\ made' \in [Swaps -> SwapNotes]
         /\ UNCHANGED fresh
         /\ \A j \in Swaps \ {k} : made'[j] = made[j]
         /\ made'[k].out = Kept("out", lost, s, made[k].out)
         /\ made'[k].refund = Kept("refund", lost, s, made[k].refund)
<1> DEFINE n == [out |-> Kept("out", lost, s, made[k].out),
                 refund |-> Kept("refund", lost, s, made[k].refund)]
<1>1. made' = [made EXCEPT ![k] = n] /\ UNCHANGED fresh
  BY DEF KeepNotes
<1>2. n \in SwapNotes /\ n.out = Kept("out", lost, s, made[k].out)
      /\ n.refund = Kept("refund", lost, s, made[k].refund)
  BY DEF Kept, SwapNotes
<1> HIDE DEF n
<1> QED BY <1>1, <1>2

LEMMA KeepNotesOfSend ==
  ASSUME NEW c \in Sends, fresh \in [Sends -> Statuses], NEW s \in Statuses, NEW lost,
         KeepNotes(c, s, lost)
  PROVE  /\ fresh' \in [Sends -> Statuses]
         /\ UNCHANGED made
         /\ \A d \in Sends \ {c} : fresh'[d] = fresh[d]
         /\ fresh'[c] = Kept("fresh", lost, s, fresh[c])
<1>1. /\ fresh' = [fresh EXCEPT ![c] = Kept("fresh", lost, s, fresh[c])]
      /\ UNCHANGED made
  BY AgentSwapAssumption DEF KeepNotes
<1> QED BY <1>1 DEF Kept

(* What an outcome that holds writes of a swap's notes and of the note.    *)
LEMMA AfterOutcomeReal ==
  ASSUME TypeOK, NEW k \in Swaps, SwapReal(k), InputReal,
         NEW o \in Outcomes, StillTrue(k, o)
  PROVE  LET after == AfterOutcome(k, o) IN
         /\ after[1] \in SwapNotes
         /\ after[1].out = "unspent" => fate[k] = "swapped"
         /\ after[1].refund = "unspent" => fate[k] = "refunded"
         /\ made[k].out # "absent" => after[1].out # "absent"
         /\ made[k].refund # "absent" => after[1].refund # "absent"
         /\ after[2] \in Inputs
         /\ after[2].status = "spent" => isSpent
<1> DEFINE n == made[k]
<1>1. n \in SwapNotes /\ input \in Inputs
  BY DEF TypeOK, SwapNotes, Inputs
<1>2. SpentInput \in Inputs /\ SpentInput.status = "spent"
  BY <1>1 DEF SpentInput, Inputs
<1>3. HeldInput(k) \in Inputs /\ (HeldInput(k).status = "spent" => input.status = "spent")
  BY <1>1 DEF HeldInput, FreeAndWatch, Free, Inputs
<1>4. ASSUME NEW s \in Statuses
      PROVE  /\ Landed(s) \in Statuses /\ (s # "absent" => Landed(s) # "absent")
             /\ Died(s) \in Statuses /\ Died(s) # "unspent" /\ (s # "absent" => Died(s) # "absent")
             /\ Woken(s) \in Statuses /\ (s # "absent" => Woken(s) # "absent")
             /\ Woken(s) = "unspent" => s = "unspent"
  BY DEF Landed, Died, Woken, Statuses
<1>5. n.out \in Statuses /\ n.refund \in Statuses
  BY <1>1 DEF SwapNotes
<1>6. CASE o = "swapped"
  BY <1>2, <1>4, <1>5, <1>6 DEF AfterOutcome, SwapNotes, StillTrue, isSpent
<1>7. CASE o = "refunded"
  BY <1>2, <1>4, <1>5, <1>7 DEF AfterOutcome, SwapNotes, StillTrue, isSpent
<1>8. CASE o = "waiting"
  BY <1>2, <1>4, <1>5, <1>8 DEF AfterOutcome, SwapNotes, StillTrue, SwapReal
<1>9. CASE o = "closed"
  BY <1>2, <1>4, <1>5, <1>9 DEF AfterOutcome, SwapNotes, StillTrue
<1>10. CASE o \in {"reverted", "expired"}
  BY <1>3, <1>4, <1>5, <1>10 DEF AfterOutcome, SwapNotes, InputReal
<1>11. CASE o = "pending"
  BY <1>1, <1>11 DEF AfterOutcome, SwapReal, InputReal
<1> QED BY <1>6, <1>7, <1>8, <1>9, <1>10, <1>11 DEF Outcomes

(* A store write of swap k that fits the chain as it is or will be.        *)
Writes(k) ==
  /\ made' \in [Swaps -> SwapNotes]
  /\ \A j \in Swaps \ {k} : made'[j] = made[j]
  /\ made[k].out # "absent" => made'[k].out # "absent"
  /\ made[k].refund # "absent" => made'[k].refund # "absent"
  /\ made'[k].out = "unspent" => fate[k] = "swapped"
  /\ made'[k].refund = "unspent" => fate[k] = "refunded"
  /\ input' \in Inputs
  /\ input'.status = "spent" => isSpent
  /\ faults' \in 0..MaxFaults

LEMMA LoseBound == ASSUME TypeOK, NEW lost, Lose(lost) PROVE faults' \in 0..MaxFaults
BY AgentSwapAssumption DEF TypeOK, Lose, Fine, Fault

LEMMA FaultBound == TypeOK /\ Fault => faults' \in 0..MaxFaults
BY AgentSwapAssumption DEF TypeOK, Fault

LEMMA OutcomeWritten ==
  ASSUME IInv, NEW k \in Swaps, NEW o \in Outcomes, StillTrue(k, o),
         applySwapOutcome(k, o)
  PROVE  Writes(k)
<1> DEFINE after == AfterOutcome(k, o)
<1>1. TypeOK /\ SwapReal(k) /\ InputReal
  BY DEF IInv
<1>2. /\ after[1] \in SwapNotes
      /\ after[1].out = "unspent" => fate[k] = "swapped"
      /\ after[1].refund = "unspent" => fate[k] = "refunded"
      /\ made[k].out # "absent" => after[1].out # "absent"
      /\ made[k].refund # "absent" => after[1].refund # "absent"
      /\ after[2] \in Inputs
      /\ after[2].status = "spent" => isSpent
  BY <1>1, AfterOutcomeReal
<1>3. PICK lost \in SUBSET {"out", "refund", "input"} :
        /\ Lose(lost)
        /\ made' = [made EXCEPT ![k] =
             [out |-> Kept("out", lost, after[1].out, made[k].out),
              refund |-> Kept("refund", lost, after[1].refund, made[k].refund)]]
        /\ input' = Kept("input", lost, after[2], input)
  BY DEF applySwapOutcome
<1> HIDE DEF after
<1>4. made \in [Swaps -> SwapNotes] /\ input \in Inputs
  BY <1>1 DEF TypeOK, SwapNotes, Inputs
<1> DEFINE n == [out |-> Kept("out", lost, after[1].out, made[k].out),
                 refund |-> Kept("refund", lost, after[1].refund, made[k].refund)]
<1>5. /\ n \in SwapNotes
      /\ n.out \in {after[1].out, made[k].out}
      /\ n.refund \in {after[1].refund, made[k].refund}
  BY <1>2, <1>4 DEF Kept, SwapNotes
<1>6. made' = [made EXCEPT ![k] = n]
  BY <1>3
<1> HIDE DEF n
<1>7. /\ made' \in [Swaps -> SwapNotes] /\ made'[k] = n
      /\ \A j \in Swaps \ {k} : made'[j] = made[j]
  BY <1>4, <1>5, <1>6
<1>8. input' \in Inputs /\ (input'.status = "spent" => isSpent)
  BY <1>1, <1>2, <1>3, <1>4 DEF Kept, InputReal
<1>9. faults' \in 0..MaxFaults
  BY <1>1, <1>3, LoseBound
<1> QED BY <1>1, <1>2, <1>5, <1>7, <1>8, <1>9 DEF Writes, SwapReal

-----------------------------------------------------------------------------
(* The steps by what they leave alone.                                     *)
ChainTyped ==
  /\ fate \in [Swaps -> Chain!Fates]
  /\ took \in Sends \cup {None}
  /\ tx \in [Calls -> {"unsent", "seen", "out", "reverted", "landed"}]
  /\ late \subseteq Swaps

(* The chain and the relay: nothing is undone, nothing unseen lands.       *)
ChainGoesOn ==
  /\ ChainTyped'
  /\ faults' \in 0..MaxFaults
  /\ \A k \in Swaps : /\ fate[k] \in {"swapped", "refunded"} => fate'[k] = fate[k]
                      /\ fate'[k] # "asked" => tx'[k] # "unsent"
  /\ \A c \in Calls : tx'[c] = "unsent" <=> tx[c] = "unsent"
  /\ \A c \in Sends : SendLanded(c)'
  /\ took # None => took' = took
  /\ isSpent => isSpent'

LEMMA ChainStep ==
  ASSUME IInv, ChainGoesOn, UNCHANGED <<storeVars, pc, look>>
  PROVE  IInv'
<1>1. UNCHANGED <<input, made, fresh, told, pc, look>>
  BY DEF storeVars
<1>2. TypeOK'
  BY <1>1 DEF IInv, TypeOK, ChainGoesOn, ChainTyped
<1>3. ASSUME NEW c \in Calls PROVE SentLater(c)'
  BY <1>1 DEF IInv, SentLater, ChainGoesOn
<1>4. ASSUME NEW k \in Swaps PROVE SwapKept(k)' /\ SwapReal(k)'
  BY <1>1 DEF IInv, SwapKept, SwapReal, Exposed, ChainGoesOn, Calls
<1>5. ASSUME NEW c \in Sends PROVE SendKept(c)' /\ SendReal(c)'
  <2>1. took = c => took' = c
    BY AgentSwapAssumption DEF ChainGoesOn, Calls
  <2> QED BY <1>1, <2>1 DEF IInv, SendKept, SendLanded, SendReal, Exposed, ChainGoesOn, Calls
<1>6. InputReal'
  BY <1>1 DEF IInv, InputReal, ChainGoesOn
<1>7. LookTrue'
  <2>1. look.swap # None => look.swap[1] \in Swaps
    BY DEF IInv, TypeOK
  <2> QED BY <1>1, <2>1 DEF IInv, LookTrue, StillTrue, ChainGoesOn
<1> QED BY <1>2, <1>3, <1>4, <1>5, <1>6, <1>7 DEF IInv

LEMMA SwapMoves ==
  ASSUME IInv, NEW k \in Swaps, NEW f \in {"swapped", "waiting", "refunded", "exited"},
         fate' = [fate EXCEPT ![k] = f],
         fate[k] \notin {"swapped", "refunded"},
         UNCHANGED <<took, late, faults, storeVars, pc, look>>,
         tx[k] # "unsent", tx' \in {tx, [tx EXCEPT ![k] = "landed"]}
  PROVE  IInv'
<1>1. ChainTyped /\ k \in Calls /\ k \notin Sends
  BY AgentSwapAssumption DEF IInv, TypeOK, ChainTyped, Calls
<1>2. ChainTyped'
  BY <1>1 DEF ChainTyped, Chain!Fates
<1>3. isSpent'
  <2>1. fate'[k] # "asked"
    BY <1>1 DEF ChainTyped
  <2> QED BY <2>1 DEF isSpent
<1>4. ASSUME NEW c \in Calls PROVE tx'[c] = "unsent" <=> tx[c] = "unsent"
  BY <1>1 DEF ChainTyped
<1>5. ASSUME NEW c \in Sends PROVE SendLanded(c)'
  BY <1>1, <1>4 DEF ChainTyped, IInv, SendKept, SendLanded, Calls
<1>6. ASSUME NEW j \in Swaps
      PROVE  /\ fate[j] \in {"swapped", "refunded"} => fate'[j] = fate[j]
             /\ fate'[j] # "asked" => tx'[j] # "unsent"
  BY <1>1, <1>4 DEF ChainTyped, IInv, SwapKept, Calls
<1>7. faults' \in 0..MaxFaults
  BY DEF IInv, TypeOK
<1> QED BY <1>2, <1>3, <1>4, <1>5, <1>6, <1>7, ChainStep DEF ChainGoesOn

LEMMA SwapChainStep ==
  ASSUME IInv, NEW k \in Swaps,
         SwapLands(k) \/ SwapRefunds(k) \/ UnshieldAlone(k) \/ FinishRefund(k)
  PROVE  IInv'
<1>1. fate \in [Swaps -> Chain!Fates] /\ tx \in [Calls -> {"unsent", "seen", "out", "reverted", "landed"}]
      /\ SwapKept(k) /\ UNCHANGED <<took, late, faults, storeVars, pc, look>>
  BY DEF IInv, TypeOK, SwapLands, SwapRefunds, UnshieldAlone, FinishRefund
<1>2. CASE SwapLands(k)
  <2>1. fate[k] = "asked" /\ fate' = [fate EXCEPT ![k] = "swapped"]
    BY <1>2 DEF SwapLands, Chain!Swap, Chain!Whole, Chain!Becomes
  <2>2. tx[k] # "unsent" /\ tx' \in {tx, [tx EXCEPT ![k] = "landed"]}
    BY <1>1, <1>2 DEF SwapLands, Sendable, Lands
  <2> QED BY <1>1, <2>1, <2>2, SwapMoves
<1>3. CASE SwapRefunds(k)
  <2>1. fate[k] = "waiting" /\ fate' = [fate EXCEPT ![k] = "refunded"]
    BY <1>3 DEF SwapRefunds, Chain!Refund, Chain!Becomes
  <2>2. tx[k] # "unsent" /\ tx' \in {tx, [tx EXCEPT ![k] = "landed"]}
    BY <1>1, <1>3 DEF SwapRefunds, Sendable, Lands
  <2> QED BY <1>1, <2>1, <2>2, SwapMoves
<1>4. CASE UnshieldAlone(k)
  <2>1. fate[k] = "asked" /\ fate' = [fate EXCEPT ![k] = "waiting"]
    BY <1>4 DEF UnshieldAlone, Chain!UnshieldAlone, Chain!Whole, Chain!Becomes
  <2>2. tx[k] # "unsent" /\ tx' = tx
    BY <1>4 DEF UnshieldAlone
  <2> QED BY <1>1, <2>1, <2>2, SwapMoves
<1>5. CASE FinishRefund(k)
  <2>1. fate[k] = "waiting" /\ fate' = [fate EXCEPT ![k] = "refunded"]
    BY <1>5 DEF FinishRefund, Chain!Refund, Chain!Becomes
  <2>2. tx[k] # "unsent" /\ tx' = tx
    BY <1>1, <1>5, <2>1 DEF FinishRefund, SwapKept
  <2> QED BY <1>1, <2>1, <2>2, SwapMoves
<1> QED BY <1>2, <1>3, <1>4, <1>5

LEMMA TransferLandsStep ==
  ASSUME IInv, NEW c \in Sends, TransferLands(c)
  PROVE  IInv'
<1>1. /\ ChainTyped /\ c \in Calls /\ c # None /\ c \notin Swaps
      /\ took = None /\ tx[c] # "unsent"
      /\ took' = c /\ tx' \in {tx, [tx EXCEPT ![c] = "landed"]}
      /\ UNCHANGED <<fate, late, faults, storeVars, pc, look>>
  BY AgentSwapAssumption
     DEF IInv, TypeOK, ChainTyped, Calls, TransferLands, Sendable, Lands, isSpent
<1>2. ChainTyped'
  BY <1>1 DEF ChainTyped
<1>3. isSpent'
  BY <1>1 DEF isSpent
<1>4. ASSUME NEW d \in Calls PROVE tx'[d] = "unsent" <=> tx[d] = "unsent"
  BY <1>1 DEF ChainTyped
<1>5. ASSUME NEW d \in Sends PROVE SendLanded(d)'
  <2>1. took # d
    BY <1>1, AgentSwapAssumption DEF Calls
  <2> QED BY <1>1, <1>4, <2>1 DEF ChainTyped, IInv, SendKept, SendLanded, Calls
<1>6. ASSUME NEW j \in Swaps PROVE fate'[j] # "asked" => tx'[j] # "unsent"
  BY <1>1, <1>4 DEF IInv, SwapKept, Calls
<1>7. faults' \in 0..MaxFaults
  BY <1>1 DEF IInv, TypeOK
<1> QED BY <1>1, <1>2, <1>3, <1>4, <1>5, <1>6, <1>7, ChainStep DEF ChainGoesOn

LEMMA OutEndsStep ==
  ASSUME IInv, NEW c \in Calls, Reverts(c) \/ Drops(c)
  PROVE  IInv'
<1>1. /\ ChainTyped /\ tx[c] = "out"
      /\ tx' = [tx EXCEPT ![c] = "reverted"] \/ tx' = [tx EXCEPT ![c] = "seen"]
      /\ UNCHANGED <<fate, took, late, storeVars, pc, look>>
  BY DEF IInv, TypeOK, ChainTyped, Reverts, Drops
<1>2. faults' \in 0..MaxFaults
  BY FaultBound DEF Reverts, Drops, Fine, IInv, TypeOK
<1>3. ChainTyped'
  BY <1>1 DEF ChainTyped
<1>4. ASSUME NEW d \in Calls
      PROVE  (tx'[d] = "unsent" <=> tx[d] = "unsent") /\ (tx'[d] = "landed" <=> tx[d] = "landed")
  BY <1>1 DEF ChainTyped
<1>5. ASSUME NEW d \in Sends PROVE SendLanded(d)'
  BY <1>1, <1>4 DEF IInv, SendKept, SendLanded, Calls
<1>6. ASSUME NEW j \in Swaps PROVE fate'[j] # "asked" => tx'[j] # "unsent"
  BY <1>1, <1>4 DEF IInv, SwapKept, Calls
<1>7. isSpent => isSpent'
  BY <1>1 DEF isSpent
<1> QED BY <1>1, <1>2, <1>3, <1>4, <1>5, <1>6, <1>7, ChainStep DEF ChainGoesOn

LEMMA DeadlineStep ==
  ASSUME IInv, NEW k \in Swaps, DeadlinePasses(k)
  PROVE  IInv'
<1>1. /\ ChainTyped /\ late' = late \cup {k}
      /\ UNCHANGED <<fate, took, tx, faults, storeVars, pc, look>>
  BY DEF IInv, TypeOK, ChainTyped, DeadlinePasses
<1>2. ChainGoesOn
  BY <1>1 DEF ChainGoesOn, ChainTyped, isSpent, IInv, TypeOK, SwapKept, SendKept, SendLanded
<1> QED BY <1>1, <1>2, ChainStep

-----------------------------------------------------------------------------
(* A step of one call that nothing it keeps loses by: it may show its      *)
(* transaction, unseen so far, once its notes are kept.                    *)
CallGoesOn(c) ==
  /\ UNCHANGED <<fate, took, late>>
  /\ tx' = tx \/ (tx[c] = "unsent" /\ \E t \in {"seen", "out"} : tx' = [tx EXCEPT ![c] = t])
  /\ \E p \in {"off", "reserved", "kept", "sent", "over"} : pc' = [pc EXCEPT ![c] = p]
  /\ pc'[c] \in {"off", "reserved", "kept"} => tx'[c] = "unsent"
  /\ input' \in Inputs /\ (input'.status = "spent" => isSpent)
  /\ told' \subseteq Calls
  /\ faults' \in 0..MaxFaults
  /\ look' \in {look, [look EXCEPT !.swap = None]}

NotesOfSwap(k) ==
  /\ UNCHANGED fresh
  /\ made' \in [Swaps -> SwapNotes]
  /\ \A j \in Swaps \ {k} : made'[j] = made[j]
  /\ pc'[k] = "kept" \/ tx'[k] # "unsent" => made'[k].out # "absent" /\ made'[k].refund # "absent"
  /\ made'[k].out = "unspent" => fate[k] = "swapped"
  /\ made'[k].refund = "unspent" => fate[k] = "refunded"

NotesOfSend(c) ==
  /\ UNCHANGED made
  /\ fresh' \in [Sends -> Statuses]
  /\ \A d \in Sends \ {c} : fresh'[d] = fresh[d]
  /\ pc'[c] = "kept" \/ tx'[c] # "unsent" => fresh'[c] # "absent"
  /\ fresh'[c] = "unspent" => took = c

LookTyped ==
  look \in [swap : (Swaps \X Outcomes \X {"call", "later"}) \cup {None},
            input : {"spent", "free", None}]

LEMMA CallOnlyStep ==
  ASSUME IInv, NEW c \in Calls, CallGoesOn(c),
         \/ c \in Swaps /\ NotesOfSwap(c)
         \/ c \in Sends /\ NotesOfSend(c)
  PROVE  IInv'
<1>1. /\ ChainTyped /\ LookTyped /\ made \in [Swaps -> SwapNotes]
      /\ fresh \in [Sends -> Statuses]
      /\ pc \in [Calls -> {"off", "reserved", "kept", "sent", "over"}]
      /\ UNCHANGED <<fate, took, late>>
  BY DEF IInv, TypeOK, ChainTyped, LookTyped, SwapNotes, CallGoesOn
<1>2. /\ tx' \in [Calls -> {"unsent", "seen", "out", "reverted", "landed"}]
      /\ \A d \in Calls \ {c} : tx'[d] = tx[d]
      /\ tx'[c] # tx[c] => tx[c] = "unsent" /\ tx'[c] \in {"seen", "out"}
  BY <1>1 DEF CallGoesOn, ChainTyped
<1>3. /\ pc' \in [Calls -> {"off", "reserved", "kept", "sent", "over"}]
      /\ \A d \in Calls \ {c} : pc'[d] = pc[d]
  BY <1>1 DEF CallGoesOn
<1>4. LookTyped'
  BY <1>1 DEF LookTyped, CallGoesOn
<1>5. made' \in [Swaps -> SwapNotes] /\ fresh' \in [Sends -> Statuses]
  BY <1>1 DEF NotesOfSwap, NotesOfSend
<1>6. isSpent' = isSpent
  BY <1>1 DEF isSpent
<1>7. TypeOK'
  BY <1>1, <1>2, <1>3, <1>4, <1>5
     DEF TypeOK, CallGoesOn, ChainTyped, LookTyped, SwapNotes, Inputs
<1>8. ASSUME NEW d \in Calls PROVE SentLater(d)'
  BY <1>2, <1>3 DEF IInv, SentLater, CallGoesOn
<1>9. ASSUME NEW k \in Swaps PROVE SwapKept(k)' /\ SwapReal(k)'
  <2>1. k \in Calls /\ SwapKept(k) /\ SwapReal(k)
    BY DEF IInv, Calls
  <2>2. CASE k = c
    <3>1. NotesOfSwap(c)
      BY <2>2, AgentSwapAssumption
    <3> QED BY <1>1, <1>2, <2>1, <2>2, <3>1 DEF NotesOfSwap, SwapKept, SwapReal, Exposed
  <2>3. CASE k # c
    <3>1. made'[k] = made[k] /\ tx'[k] = tx[k] /\ pc'[k] = pc[k]
      BY <1>2, <1>3, <2>1, <2>3 DEF NotesOfSwap, NotesOfSend
    <3> QED BY <1>1, <2>1, <3>1 DEF SwapKept, SwapReal, Exposed
  <2> QED BY <2>2, <2>3
<1>10. ASSUME NEW d \in Sends PROVE SendKept(d)' /\ SendReal(d)'
  <2>1. d \in Calls /\ SendKept(d) /\ SendReal(d)
    BY DEF IInv, Calls
  <2>2. CASE d = c
    <3>1. NotesOfSend(c)
      BY <2>2, AgentSwapAssumption
    <3> QED BY <1>1, <1>2, <2>1, <2>2, <3>1 DEF NotesOfSend, SendKept, SendLanded, SendReal, Exposed
  <2>3. CASE d # c
    <3>1. fresh'[d] = fresh[d] /\ tx'[d] = tx[d] /\ pc'[d] = pc[d]
      BY <1>2, <1>3, <2>1, <2>3 DEF NotesOfSwap, NotesOfSend
    <3> QED BY <1>1, <2>1, <3>1 DEF SendKept, SendLanded, SendReal, Exposed
  <2> QED BY <2>2, <2>3
<1>11. InputReal' /\ LookTrue'
  <2>1. InputReal'
    BY <1>6 DEF InputReal, CallGoesOn
  <2>2. look'.input = look.input /\ look'.swap \in {look.swap, None}
    BY <1>1 DEF LookTyped, CallGoesOn
  <2>3. LookTrue'
    BY <1>1, <1>6, <2>2 DEF IInv, LookTrue, StillTrue
  <2> QED BY <2>1, <2>3
<1> QED BY <1>7, <1>8, <1>9, <1>10, <1>11 DEF IInv

LEMMA NotesAsTheyWere ==
  ASSUME IInv, NEW c \in Calls, UNCHANGED <<made, fresh>>,
         pc'[c] = "kept" \/ tx'[c] # "unsent" => Exposed(c)
  PROVE  \/ c \in Swaps /\ NotesOfSwap(c)
         \/ c \in Sends /\ NotesOfSend(c)
<1>1. CASE c \in Swaps
  BY <1>1 DEF IInv, TypeOK, NotesOfSwap, SwapKept, SwapReal, SwapNotes
<1>2. CASE c \in Sends
  BY <1>2 DEF IInv, TypeOK, NotesOfSend, SendKept, SendReal
<1> QED BY <1>1, <1>2 DEF Calls

(* Notes all written as s, where that is no claim about the chain.         *)
LEMMA NotesAllWritten ==
  ASSUME IInv, NEW c \in Calls, NEW s \in Statuses \ {"unspent"}, KeepNotes(c, s, {}),
         pc'[c] = "kept" \/ tx'[c] # "unsent" => s # "absent"
  PROVE  \/ c \in Swaps /\ NotesOfSwap(c)
         \/ c \in Sends /\ NotesOfSend(c)
<1>1. made \in [Swaps -> SwapNotes] /\ fresh \in [Sends -> Statuses]
  BY DEF IInv, TypeOK, SwapNotes
<1>2. CASE c \in Swaps
  <2>1. /\ made' \in [Swaps -> SwapNotes] /\ UNCHANGED fresh
        /\ \A j \in Swaps \ {c} : made'[j] = made[j]
        /\ made'[c].out = s /\ made'[c].refund = s
    BY <1>1, <1>2, KeepNotesOfSwap DEF Kept
  <2> QED BY <1>2, <2>1 DEF NotesOfSwap
<1>3. CASE c \in Sends
  <2>1. /\ fresh' \in [Sends -> Statuses] /\ UNCHANGED made
        /\ \A d \in Sends \ {c} : fresh'[d] = fresh[d]
        /\ fresh'[c] = s
    BY <1>1, <1>3, KeepNotesOfSend DEF Kept
  <2> QED BY <1>3, <2>1 DEF NotesOfSend
<1> QED BY <1>2, <1>3 DEF Calls

LEMMA InputShape ==
  ASSUME TypeOK, NEW c \in Calls
  PROVE  /\ input \in Inputs
         /\ Free \in Inputs /\ Free.status = "unspent"
         /\ FreeAndWatch \in Inputs /\ FreeAndWatch.status = "unspent"
         /\ [input EXCEPT !.status = "pending"] \in Inputs
         /\ [input EXCEPT !.status = "pending"].status = "pending"
         /\ [input EXCEPT !.spentTx = c] \in Inputs
         /\ [input EXCEPT !.spentTx = c].status = input.status
         /\ [input EXCEPT !.moveFirst = TRUE] \in Inputs
         /\ [input EXCEPT !.moveFirst = TRUE].status = input.status
         /\ [input EXCEPT !.status = "spent", !.spentTx = c] \in Inputs
         /\ [input EXCEPT !.status = "spent", !.spentTx = None] \in Inputs
         /\ [input EXCEPT !.status = "spent", !.recheck = FALSE] \in Inputs
         /\ [input EXCEPT !.status = "spent"] \in Inputs
         /\ [FreeAndWatch EXCEPT !.spentTx = None] \in Inputs
         /\ [FreeAndWatch EXCEPT !.spentTx = None].status = "unspent"
BY DEF TypeOK, Inputs, Free, FreeAndWatch

LEMMA CallTyped ==
  ASSUME IInv, NEW c \in Calls
  PROVE  /\ TypeOK /\ SentLater(c) /\ tx[c] \in {"unsent", "seen", "out", "reverted", "landed"}
         /\ pc \in [Calls -> {"off", "reserved", "kept", "sent", "over"}]
         /\ tx \in [Calls -> {"unsent", "seen", "out", "reverted", "landed"}]
         /\ told \subseteq Calls /\ faults \in 0..MaxFaults
         /\ input.status = "spent" => isSpent
BY DEF IInv, TypeOK, InputReal

LEMMA ReserveStep ==
  ASSUME IInv, NEW c \in Calls, Reserve(c)
  PROVE  IInv'
<1>1. /\ pc[c] = "off" /\ pc' = [pc EXCEPT ![c] = "reserved"]
      /\ input' = [input EXCEPT !.status = "pending"]
      /\ UNCHANGED <<fate, took, tx, late, made, fresh, told, look, faults>>
  BY DEF Reserve, Goes, chainVars
<1>2. CallGoesOn(c)
  BY <1>1, CallTyped, InputShape DEF CallGoesOn, SentLater
<1>3. pc'[c] = "kept" \/ tx'[c] # "unsent" => Exposed(c)
  BY <1>1, CallTyped DEF Exposed
<1> QED BY <1>1, <1>2, <1>3, NotesAsTheyWere, CallOnlyStep

LEMMA KeepStep ==
  ASSUME IInv, NEW c \in Calls, Keep(c)
  PROVE  IInv'
<1>1. /\ pc[c] = "reserved" /\ pc' = [pc EXCEPT ![c] = "kept"]
      /\ KeepNotes(c, "pending", {})
      /\ UNCHANGED <<fate, took, tx, late, input, told, look, faults>>
  BY DEF Keep, Goes, chainVars
<1>2. CallGoesOn(c)
  BY <1>1, CallTyped, InputShape DEF CallGoesOn, SentLater
<1>3. "pending" \in Statuses \ {"unspent"}
  BY DEF Statuses
<1> QED BY <1>1, <1>2, <1>3, NotesAllWritten, CallOnlyStep

LEMMA KeepFailsStep ==
  ASSUME IInv, NEW c \in Calls, KeepFails(c)
  PROVE  IInv'
<1>1. /\ pc[c] = "reserved" /\ pc' = [pc EXCEPT ![c] = "over"]
      /\ input' = Free /\ Fault
      /\ UNCHANGED <<fate, took, tx, late, fresh, told, look>>
      /\ \/ UNCHANGED made
         \/ c \in Swaps /\ made' = [made EXCEPT ![c].refund = "pending"]
  BY DEF KeepFails, Goes, chainVars
<1>2. tx[c] = "unsent" /\ pc'[c] = "over"
  BY <1>1, CallTyped DEF SentLater
<1>3. CallGoesOn(c)
  BY <1>1, <1>2, CallTyped, InputShape, FaultBound DEF CallGoesOn
<1>4. CASE UNCHANGED made
  BY <1>1, <1>2, <1>3, <1>4, NotesAsTheyWere, CallOnlyStep
<1>5. CASE c \in Swaps /\ made' = [made EXCEPT ![c].refund = "pending"]
  <2>1. made \in [Swaps -> SwapNotes] /\ SwapReal(c)
    BY <1>5 DEF IInv, TypeOK, SwapNotes
  <2> DEFINE n == [made[c] EXCEPT !.refund = "pending"]
  <2>2. n \in SwapNotes /\ n.out = made[c].out /\ n.refund = "pending"
    BY <1>5, <2>1 DEF SwapNotes, Statuses
  <2>3. made' = [made EXCEPT ![c] = n]
    BY <1>5, <2>1
  <2> HIDE DEF n
  <2>4. NotesOfSwap(c)
    BY <1>1, <1>2, <1>5, <2>1, <2>2, <2>3 DEF NotesOfSwap, SwapReal
  <2> QED BY <1>3, <1>5, <2>4, CallOnlyStep
<1> QED BY <1>1, <1>4, <1>5

LEMMA NeverLeftStep ==
  ASSUME IInv, NEW c \in Calls, NeverLeft(c)
  PROVE  IInv'
<1>1. /\ pc[c] = "kept" /\ pc' = [pc EXCEPT ![c] = "over"]
      /\ input' = Free /\ Fault /\ KeepNotes(c, "absent", {})
      /\ UNCHANGED <<fate, took, tx, late, told, look>>
  BY DEF NeverLeft, Goes, chainVars
<1>2. tx[c] = "unsent" /\ pc'[c] = "over"
  BY <1>1, CallTyped DEF SentLater
<1>3. CallGoesOn(c)
  BY <1>1, <1>2, CallTyped, InputShape, FaultBound DEF CallGoesOn
<1>4. "absent" \in Statuses \ {"unspent"}
  BY DEF Statuses
<1> QED BY <1>1, <1>2, <1>3, <1>4, NotesAllWritten, CallOnlyStep

LEMMA RefusedStep ==
  ASSUME IInv, NEW c \in Calls, Refused(c)
  PROVE  IInv'
<1>1. /\ pc[c] = "kept" /\ pc' = [pc EXCEPT ![c] = "over"]
      /\ tx' = [tx EXCEPT ![c] = "seen"]
      /\ input' = FreeAndWatch /\ Fault /\ KeepNotes(c, "dead", {})
      /\ UNCHANGED <<fate, took, late, told, look>>
  BY DEF Refused, Goes
<1>2. tx[c] = "unsent" /\ pc'[c] = "over"
  BY <1>1, CallTyped DEF SentLater
<1>3. CallGoesOn(c)
  BY <1>1, <1>2, CallTyped, InputShape, FaultBound DEF CallGoesOn
<1>4. "dead" \in Statuses \ {"unspent"}
  BY DEF Statuses
<1> QED BY <1>1, <1>3, <1>4, NotesAllWritten, CallOnlyStep

LEMMA UnclearStep ==
  ASSUME IInv, NEW c \in Calls, Unclear(c)
  PROVE  IInv'
<1>1. /\ pc[c] = "kept" /\ pc' = [pc EXCEPT ![c] = "over"] /\ Fault
      /\ \E s \in {"out", "seen"} : tx' = [tx EXCEPT ![c] = s]
      /\ UNCHANGED <<fate, took, late, input, made, fresh, told, look>>
  BY DEF Unclear, Goes, storeVars
<1>2. tx[c] = "unsent" /\ pc'[c] = "over"
  BY <1>1, CallTyped DEF SentLater
<1>3. CallGoesOn(c)
  BY <1>1, <1>2, CallTyped, InputShape, FaultBound DEF CallGoesOn
<1>4. Exposed(c)
  BY <1>1 DEF Exposed
<1> QED BY <1>1, <1>3, <1>4, NotesAsTheyWere, CallOnlyStep

LEMMA SentStep ==
  ASSUME IInv, NEW c \in Calls, Sent(c)
  PROVE  IInv'
<1>1. /\ pc[c] = "kept" /\ pc' = [pc EXCEPT ![c] = "sent"]
      /\ tx' = [tx EXCEPT ![c] = "out"]
      /\ UNCHANGED <<fate, took, late, made, fresh, look>>
  BY DEF Sent, Goes
<1>2. PICK lost \in SUBSET {"input", "note"} :
        /\ Lose(lost)
        /\ input' = Kept("input", lost, [input EXCEPT !.spentTx = c], input)
        /\ told' = Kept("note", lost, told \cup {c}, told)
  BY DEF Sent
<1>3. tx[c] = "unsent" /\ pc'[c] = "sent"
  BY <1>1, CallTyped DEF SentLater
<1>4. input' \in Inputs /\ (input'.status = "spent" => isSpent) /\ told' \subseteq Calls
  BY <1>2, CallTyped, InputShape DEF Kept
<1>5. CallGoesOn(c)
  BY <1>1, <1>2, <1>3, <1>4, CallTyped, LoseBound DEF CallGoesOn
<1>6. Exposed(c)
  BY <1>1 DEF Exposed
<1> QED BY <1>1, <1>5, <1>6, NotesAsTheyWere, CallOnlyStep

LEMMA ReceiptStep ==
  ASSUME IInv, NEW c \in Calls, ReceiptOfSend(c)
  PROVE  IInv'
<1>1. /\ pc[c] = "sent" /\ c \in Sends /\ pc' = [pc EXCEPT ![c] = "over"]
      /\ UNCHANGED <<fate, took, tx, late, told, look>>
  BY DEF ReceiptOfSend, Goes, chainVars
<1>2. PICK lost \in SUBSET {"input", "fresh"} :
        /\ Lose(lost)
        /\ \/ /\ tx[c] = "landed"
              /\ input' = Kept("input", lost, [input EXCEPT !.status = "spent", !.spentTx = c], input)
              /\ KeepNotes(c, "unspent", lost)
           \/ /\ tx[c] = "reverted"
              /\ KeepNotes(c, "dead", lost)
              /\ input' = Kept("input", lost, FreeAndWatch, input)
           \/ /\ isSpent /\ UNCHANGED <<made, fresh>>
              /\ input' = Kept("input", lost, [input EXCEPT !.status = "spent", !.spentTx = None], input)
           \/ UNCHANGED <<input, made, fresh>>
  BY DEF ReceiptOfSend, KeepsReverted
<1>3. SendKept(c) /\ SendReal(c) /\ fresh \in [Sends -> Statuses] /\ pc'[c] = "over"
      /\ made \in [Swaps -> SwapNotes]
  BY <1>1, CallTyped DEF IInv, TypeOK, SwapNotes
<1>4. tx[c] = "landed" => isSpent
  BY <1>3, AgentSwapAssumption DEF SendKept, SendLanded, isSpent, Calls
<1>5. input' \in Inputs /\ (input'.status = "spent" => isSpent)
  BY <1>2, <1>4, CallTyped, InputShape DEF Kept
<1>6. CallGoesOn(c)
  BY <1>1, <1>2, <1>3, <1>5, CallTyped, LoseBound DEF CallGoesOn
<1>7. ASSUME NEW s \in {"unspent", "dead"}, KeepNotes(c, s, lost), s = "unspent" => tx[c] = "landed"
      PROVE  NotesOfSend(c)
  <2>1. /\ fresh' \in [Sends -> Statuses] /\ UNCHANGED made
        /\ \A d \in Sends \ {c} : fresh'[d] = fresh[d]
        /\ fresh'[c] \in {s, fresh[c]}
    BY <1>1, <1>3, <1>7, KeepNotesOfSend DEF Kept, Statuses
  <2> QED BY <1>1, <1>3, <1>7, <2>1 DEF NotesOfSend, SendKept, SendLanded, SendReal, Exposed
<1>8. UNCHANGED <<made, fresh>> => NotesOfSend(c)
  BY <1>1, <1>3 DEF NotesOfSend, SendKept, SendLanded, SendReal, Exposed
<1>9. NotesOfSend(c)
  BY <1>2, <1>7, <1>8
<1> QED BY <1>1, <1>6, <1>9, CallOnlyStep

LEMMA CrashStep ==
  ASSUME IInv, NEW c \in Calls, Crash(c)
  PROVE  IInv'
<1>1. /\ pc[c] \in {"reserved", "kept", "sent"} /\ pc' = [pc EXCEPT ![c] = "over"] /\ Fault
      /\ look' = [look EXCEPT !.swap = None]
      /\ UNCHANGED <<fate, took, tx, late, input, made, fresh, told>>
  BY DEF Crash, Goes, chainVars, storeVars
<1>2. CallGoesOn(c)
  BY <1>1, CallTyped, InputShape, FaultBound DEF CallGoesOn
<1>3. pc'[c] = "kept" \/ tx'[c] # "unsent" => Exposed(c)
  BY <1>1, CallTyped DEF Exposed
<1> QED BY <1>1, <1>2, <1>3, NotesAsTheyWere, CallOnlyStep

(* The outcome of a swap that can't be read.                               *)
LEMMA UnreadStep ==
  ASSUME IInv, NEW k \in Swaps, OutcomeUnread(k)
  PROVE  IInv'
<1>1. /\ pc[k] = "sent" /\ pc' = [pc EXCEPT ![k] = "over"] /\ Fault /\ k \in Calls
      /\ input' \in {input, [input EXCEPT !.moveFirst = TRUE]}
      /\ UNCHANGED <<fate, took, tx, late, made, fresh, told, look>>
  BY DEF OutcomeUnread, Goes, chainVars, Calls
<1>2. CallGoesOn(k)
  BY <1>1, CallTyped, InputShape, FaultBound DEF CallGoesOn
<1>3. pc'[k] = "kept" \/ tx'[k] # "unsent" => Exposed(k)
  BY <1>1, CallTyped DEF Exposed
<1> QED BY <1>1, <1>2, <1>3, NotesAsTheyWere, CallOnlyStep

-----------------------------------------------------------------------------
(* What is read of a swap, and what is written once it is known.           *)
LEMMA OutcomeTrue ==
  ASSUME TypeOK, NEW k \in Swaps
  PROVE  Outcome(k) \in Outcomes /\ StillTrue(k, Outcome(k))
<1>1. CASE fate[k] \in {"swapped", "refunded", "waiting"}
  <2>1. isSpent
    BY <1>1 DEF isSpent
  <2>2. Outcome(k) = fate[k]
    BY <1>1, <2>1 DEF Outcome
  <2> QED BY <1>1, <2>1, <2>2 DEF Outcomes, StillTrue
<1>2. CASE fate[k] \notin {"swapped", "refunded", "waiting"} /\ isSpent
  <2>1. Outcome(k) = "closed"
    BY <1>2 DEF Outcome
  <2> QED BY <1>2, <2>1 DEF Outcomes, StillTrue
<1>3. CASE fate[k] \notin {"swapped", "refunded", "waiting"} /\ ~isSpent
  <2>1. Outcome(k) \in {"reverted", "expired", "pending"}
    BY <1>3 DEF Outcome
  <2> QED BY <2>1 DEF Outcomes, StillTrue
<1> QED BY <1>1, <1>2, <1>3

LEMMA LooksStep ==
  ASSUME IInv, NEW k \in Swaps, NEW by \in {"call", "later"}, Looks(k, by)
  PROVE  IInv'
<1>1. /\ look' = [look EXCEPT !.swap = <<k, Outcome(k), by>>]
      /\ UNCHANGED <<fate, took, tx, late, input, made, fresh, told, pc, faults>>
  BY DEF Looks, chainVars, storeVars
<1>2. Outcome(k) \in Outcomes /\ StillTrue(k, Outcome(k))
  BY OutcomeTrue DEF IInv
<1>3. LookTyped /\ TypeOK
  BY DEF IInv, TypeOK, LookTyped
<1> DEFINE seen == <<k, Outcome(k), by>>
<1>4. /\ seen \in Swaps \X Outcomes \X {"call", "later"}
      /\ seen[1] = k /\ seen[2] = Outcome(k)
  BY <1>2
<1>5. look'.swap = seen /\ look'.input = look.input /\ LookTyped'
  BY <1>1, <1>3, <1>4 DEF LookTyped
<1>6. TypeOK'
  BY <1>1, <1>3, <1>5 DEF TypeOK, LookTyped
<1>7. isSpent' = isSpent
  BY <1>1 DEF isSpent
<1>8. LookTrue'
  BY <1>1, <1>2, <1>4, <1>5, <1>7 DEF IInv, LookTrue, StillTrue
<1> QED BY <1>1, <1>6, <1>7, <1>8
        DEF IInv, SentLater, SwapKept, SendKept, SendLanded, Exposed, SwapReal, SendReal, InputReal

LEMMA WrittenStep ==
  ASSUME IInv, NEW k \in Swaps, Writes(k),
         UNCHANGED <<took, tx, late, fresh>>, told' \subseteq Calls,
         \/ UNCHANGED fate
         \/ fate[k] = "waiting" /\ fate' = [fate EXCEPT ![k] = "exited"],
         pc' \in {pc, [pc EXCEPT ![k] = "over"]},
         look' \in {look, [look EXCEPT !.swap = None]}
  PROVE  IInv'
<1>1. /\ ChainTyped /\ LookTyped /\ k \in Calls
      /\ pc \in [Calls -> {"off", "reserved", "kept", "sent", "over"}]
  BY DEF IInv, TypeOK, ChainTyped, LookTyped, Calls
<1>2. /\ fate' \in [Swaps -> Chain!Fates]
      /\ \A j \in Swaps : /\ fate[j] \in {"swapped", "refunded"} => fate'[j] = fate[j]
                          /\ fate'[j] # "asked" <=> fate[j] # "asked"
  BY <1>1 DEF ChainTyped, Chain!Fates
<1>3. isSpent' = isSpent
  BY <1>2 DEF isSpent
<1>4. /\ pc' \in [Calls -> {"off", "reserved", "kept", "sent", "over"}]
      /\ \A c \in Calls : pc'[c] \in {pc[c], "over"}
  BY <1>1
<1>5. LookTyped' /\ look'.input = look.input /\ look'.swap \in {look.swap, None}
  BY <1>1 DEF LookTyped
<1>6. TypeOK'
  BY <1>2, <1>4, <1>5 DEF IInv, TypeOK, LookTyped, Writes, SwapNotes, Inputs
<1>7. ASSUME NEW c \in Calls PROVE SentLater(c)' /\ (Exposed(c)' => Exposed(c))
  BY <1>4 DEF IInv, SentLater, Exposed
<1>8. ASSUME NEW j \in Swaps PROVE SwapKept(j)' /\ SwapReal(j)'
  <2>1. j \in Calls /\ SwapKept(j) /\ SwapReal(j)
    BY DEF IInv, Calls
  <2>2. SwapKept(j)'
    BY <1>2, <1>7, <2>1 DEF SwapKept, Writes
  <2>3. SwapReal(j)'
    BY <1>2, <2>1 DEF SwapReal, Writes
  <2> QED BY <2>2, <2>3
<1>9. ASSUME NEW c \in Sends PROVE SendKept(c)' /\ SendReal(c)'
  BY <1>7 DEF IInv, SendKept, SendLanded, SendReal, Calls
<1>10. InputReal' /\ LookTrue'
  <2>1. InputReal'
    BY <1>3 DEF InputReal, Writes
  <2>2. look.swap # None => look.swap[1] \in Swaps
    BY <1>1 DEF LookTyped
  <2> QED BY <1>2, <1>3, <1>5, <2>1, <2>2 DEF IInv, LookTrue, StillTrue
<1> QED BY <1>6, <1>7, <1>8, <1>9, <1>10 DEF IInv

LEMMA LookedAt ==
  ASSUME IInv, NEW k \in Swaps, look.swap # None, look.swap[1] = k
  PROVE  look.swap[2] \in Outcomes /\ StillTrue(k, look.swap[2])
BY DEF IInv, TypeOK, LookTrue

LEMMA SettlesStep ==
  ASSUME IInv, NEW k \in Swaps, SwapSettles(k) \/ FinishSettles(k)
  PROVE  IInv'
<1>1. /\ look.swap # None /\ look.swap[1] = k
      /\ applySwapOutcome(k, look.swap[2])
      /\ look' = [look EXCEPT !.swap = None]
      /\ pc' \in {pc, [pc EXCEPT ![k] = "over"]}
      /\ UNCHANGED <<fate, took, tx, late, fresh, told>>
  BY DEF SwapSettles, FinishSettles, Goes, chainVars
<1>2. Writes(k)
  BY <1>1, LookedAt, OutcomeWritten
<1>3. told' \subseteq Calls
  BY <1>1 DEF IInv, TypeOK
<1> QED BY <1>1, <1>2, <1>3, WrittenStep

LEMMA RefreshSettlesStep ==
  ASSUME IInv, NEW k \in Swaps, RefreshSettles(k)
  PROVE  IInv'
<1>1. /\ look.swap # None /\ look.swap[1] = k
      /\ \/ UNCHANGED <<made, input, faults>>
         \/ applySwapOutcome(k, look.swap[2])
         \/ applySwapOutcome(k, "reverted")
      /\ look' = [look EXCEPT !.swap = None]
      /\ UNCHANGED <<fate, took, tx, late, fresh, told, pc>>
  BY DEF RefreshSettles, chainVars
<1>2. "reverted" \in Outcomes /\ StillTrue(k, "reverted")
  BY DEF Outcomes, StillTrue
<1>3. UNCHANGED <<made, input, faults>> => Writes(k)
  BY DEF Writes, IInv, TypeOK, SwapReal, InputReal, SwapNotes, Inputs
<1>4. Writes(k)
  BY <1>1, <1>2, <1>3, LookedAt, OutcomeWritten
<1>5. told' \subseteq Calls
  BY <1>1 DEF IInv, TypeOK
<1> QED BY <1>1, <1>4, <1>5, WrittenStep

LEMMA FinishExitStep ==
  ASSUME IInv, NEW k \in Swaps, FinishExit(k)
  PROVE  IInv'
<1>1. /\ fate[k] = "waiting" /\ fate' = [fate EXCEPT ![k] = "exited"]
      /\ UNCHANGED <<took, tx, late, fresh, told, pc, look>>
  BY DEF FinishExit, Chain!Exit, Chain!Becomes
<1>2. PICK lost \in SUBSET {"out", "refund", "input"} :
        /\ Lose(lost)
        /\ made' = [made EXCEPT ![k] =
             [out |-> Kept("out", lost, IF made[k].out = "spent" THEN made[k].out ELSE "dead", made[k].out),
              refund |-> Kept("refund", lost, "spent", made[k].refund)]]
        /\ input' = Kept("input", lost, [input EXCEPT !.status = "spent"], input)
  BY DEF FinishExit
<1> DEFINE n == [out |-> Kept("out", lost, IF made[k].out = "spent" THEN made[k].out ELSE "dead", made[k].out),
                 refund |-> Kept("refund", lost, "spent", made[k].refund)]
<1>3. made \in [Swaps -> SwapNotes] /\ TypeOK /\ SwapReal(k) /\ InputReal
  BY DEF IInv, TypeOK, SwapNotes
<1>4. /\ n \in SwapNotes
      /\ n.out \in {"spent", "dead", made[k].out}
      /\ n.refund \in {"spent", made[k].refund}
  BY <1>3 DEF Kept, SwapNotes, Statuses
<1>5. made' = [made EXCEPT ![k] = n]
  BY <1>2
<1> HIDE DEF n
<1>6. isSpent
  BY <1>1 DEF isSpent
<1>7. input' \in Inputs /\ faults' \in 0..MaxFaults
  <2>1. input \in Inputs /\ [input EXCEPT !.status = "spent"] \in Inputs
    BY <1>3 DEF TypeOK, Inputs
  <2> QED BY <1>2, <1>3, <2>1, LoseBound DEF Kept
<1>8. Writes(k)
  BY <1>3, <1>4, <1>5, <1>6, <1>7 DEF Writes, SwapReal
<1>9. told' \subseteq Calls
  BY <1>1, <1>3 DEF TypeOK
<1> QED BY <1>1, <1>8, <1>9, WrittenStep

-----------------------------------------------------------------------------
(* The refresh of the note itself and of the notes of sends.               *)
LEMMA InputOnlyStep ==
  ASSUME IInv, input' \in Inputs, input'.status = "spent" => isSpent,
         LookTyped', look'.swap = look.swap,
         look'.input # None /\ look'.input = "spent" => isSpent,
         UNCHANGED <<fate, took, tx, late, made, fresh, told, pc, faults>>
  PROVE  IInv'
<1>1. isSpent' = isSpent
  BY DEF isSpent
<1>2. TypeOK'
  BY DEF IInv, TypeOK, LookTyped, Inputs
<1>3. LookTrue' /\ InputReal'
  BY <1>1 DEF IInv, LookTrue, StillTrue, InputReal
<1> QED BY <1>2, <1>3
        DEF IInv, SentLater, SwapKept, SendKept, SendLanded, Exposed, SwapReal, SendReal

LEMMA InputReadsStep == IInv /\ InputReads => IInv'
<1> SUFFICES ASSUME IInv, InputReads PROVE IInv'
  OBVIOUS
<1>1. /\ \/ isSpent /\ look' = [look EXCEPT !.input = "spent"]
         \/ look' = [look EXCEPT !.input = "free"]
      /\ UNCHANGED <<fate, took, tx, late, input, made, fresh, told, pc, faults>>
  BY DEF InputReads, chainVars, storeVars
<1>2. LookTyped /\ input \in Inputs /\ (input.status = "spent" => isSpent)
  BY DEF IInv, TypeOK, LookTyped, Inputs, InputReal
<1>3. LookTyped' /\ look'.swap = look.swap /\ (look'.input = "spent" => isSpent)
  BY <1>1, <1>2 DEF LookTyped
<1> QED BY <1>1, <1>2, <1>3, InputOnlyStep

LEMMA InputWritesStep == IInv /\ InputWrites => IInv'
<1> SUFFICES ASSUME IInv, InputWrites PROVE IInv'
  OBVIOUS
<1>1. /\ look.input # None
      /\ input' = IF look.input = "spent" THEN [input EXCEPT !.status = "spent", !.recheck = FALSE]
                  ELSE [FreeAndWatch EXCEPT !.spentTx = None]
      /\ look' = [look EXCEPT !.input = None]
      /\ UNCHANGED <<fate, took, tx, late, made, fresh, told, pc, faults>>
  BY DEF InputWrites, chainVars
<1>2. LookTyped /\ input \in Inputs /\ (look.input = "spent" => isSpent)
  BY <1>1 DEF IInv, TypeOK, LookTyped, Inputs, LookTrue
<1>3. LookTyped' /\ look'.swap = look.swap /\ look'.input = None
  BY <1>1, <1>2 DEF LookTyped
<1>4. input' \in Inputs /\ (input'.status = "spent" => isSpent)
  BY <1>1, <1>2 DEF Inputs, FreeAndWatch, Free
<1> QED BY <1>1, <1>3, <1>4, InputOnlyStep

LEMMA MoveFindsSpentStep == IInv /\ MoveFindsSpent => IInv'
<1> SUFFICES ASSUME IInv, MoveFindsSpent PROVE IInv'
  OBVIOUS
<1>1. /\ isSpent /\ input' = [input EXCEPT !.status = "spent", !.recheck = FALSE]
      /\ UNCHANGED <<fate, took, tx, late, made, fresh, told, pc, look, faults>>
  BY DEF MoveFindsSpent, chainVars
<1>2. LookTyped /\ LookTyped' /\ input' \in Inputs
  BY <1>1 DEF IInv, TypeOK, LookTyped, Inputs
<1> QED BY <1>1, <1>2, InputOnlyStep

LEMMA RefreshFreshStep ==
  ASSUME IInv, NEW c \in Sends, RefreshFresh(c)
  PROVE  IInv'
<1>1. /\ \/ took = c /\ fresh' = [fresh EXCEPT ![c] = "unspent"]
         \/ fresh' = [fresh EXCEPT ![c] = "dead"]
      /\ UNCHANGED <<fate, took, tx, late, input, made, told, pc, look, faults>>
  BY DEF RefreshFresh, chainVars
<1>2. fresh \in [Sends -> Statuses] /\ isSpent' = isSpent
  BY <1>1 DEF IInv, TypeOK, isSpent
<1>3. /\ fresh' \in [Sends -> Statuses]
      /\ \A d \in Sends : \/ fresh'[d] = fresh[d]
                          \/ fresh'[d] = "dead"
                          \/ fresh'[d] = "unspent" /\ took = d
  BY <1>1, <1>2 DEF Statuses
<1>4. TypeOK'
  BY <1>1, <1>3 DEF IInv, TypeOK
<1>5. ASSUME NEW d \in Sends PROVE SendKept(d)' /\ SendReal(d)'
  BY <1>1, <1>3 DEF IInv, SendKept, SendLanded, SendReal, Exposed
<1> QED BY <1>1, <1>2, <1>4, <1>5
        DEF IInv, SentLater, SwapKept, Exposed, SwapReal, InputReal, LookTrue, StillTrue

-----------------------------------------------------------------------------
LEMMA InitInv == Init => IInv
<1> SUFFICES ASSUME Init PROVE IInv
  OBVIOUS
<1>1. ~isSpent
  BY DEF Init, isSpent, Chain!Init
<1>2. TypeOK
  BY AgentSwapAssumption
     DEF Init, TypeOK, Chain!Init, Chain!Fates, Statuses
<1>3. ASSUME NEW c \in Sends PROVE took # c
  BY AgentSwapAssumption DEF Init, Calls
<1> QED BY <1>1, <1>2, <1>3
        DEF Init, Chain!Init, IInv, SentLater, SwapKept, SendKept, SendLanded, Exposed, SwapReal,
            SendReal, InputReal, LookTrue, Calls

LEMMA StutterStep == IInv /\ UNCHANGED vars => IInv'
<1> SUFFICES ASSUME IInv, UNCHANGED vars PROVE IInv'
  OBVIOUS
<1> QED
  BY DEF vars, chainVars, storeVars, IInv, TypeOK, SentLater, SwapKept, SendKept, SendLanded, Exposed,
         SwapReal, SendReal, InputReal, LookTrue, StillTrue, isSpent

LEMMA InvStep == IInv /\ [Next]_vars => IInv'
<1> SUFFICES ASSUME IInv, [Next]_vars PROVE IInv'
  OBVIOUS
<1>1. ASSUME NEW c \in Calls, CallStep(c) PROVE IInv'
  BY <1>1, ReserveStep, KeepStep, KeepFailsStep, NeverLeftStep, RefusedStep,
     UnclearStep, SentStep, ReceiptStep, CrashStep DEF CallStep
<1>2. ASSUME NEW c \in Calls, Reverts(c) \/ Drops(c) PROVE IInv'
  BY <1>2, OutEndsStep
<1>3. ASSUME NEW k \in Swaps, SwapStep(k) PROVE IInv'
  BY <1>3, SwapChainStep, DeadlineStep, LooksStep, SettlesStep, RefreshSettlesStep,
     UnreadStep, FinishExitStep DEF SwapStep
<1>4. ASSUME NEW c \in Sends, TransferLands(c) \/ RefreshFresh(c) PROVE IInv'
  BY <1>4, TransferLandsStep, RefreshFreshStep
<1>5. CASE InputReads \/ InputWrites \/ MoveFindsSpent
  BY <1>5, InputReadsStep, InputWritesStep, MoveFindsSpentStep
<1>6. CASE UNCHANGED vars
  BY <1>6, StutterStep
<1> QED BY <1>1, <1>2, <1>3, <1>4, <1>5, <1>6 DEF Next

(* What the store and what was read say holds of the chain, however many   *)
(* calls race for the note and whatever is lost.                           *)
THEOREM InvHolds == Spec => []IInv
<1> QED BY InitInv, InvStep, PTL DEF Spec

(* The swaps of a note keep their types.                                   *)
THEOREM TypeCorrect == Spec => []TypeOK
<1>1. IInv => TypeOK
  BY DEF IInv
<1> QED BY <1>1, InvHolds, PTL

(* No refused, reverted, unclear, crashed or half written call leaves      *)
(* value in the vault, or a transaction that somebody could yet land,      *)
(* without its secret.                                                     *)
THEOREM SecretsAreKept == Spec => []NoSecretIsForgotten
<1>1. IInv => NoSecretIsForgotten
  BY DEF IInv, SwapKept, SendKept, SendLanded, Exposed, NoSecretIsForgotten, Sendable
<1> QED BY <1>1, InvHolds, PTL

(* No stale read, lost write or late receipt makes the store show a note   *)
(* that is not in the vault, or write off one that is not spent.           *)
THEOREM BalanceStaysReal == Spec => []BalanceIsReal
<1>1. IInv => BalanceIsReal
  BY DEF IInv, SwapReal, SendReal, InputReal, BalanceIsReal
<1> QED BY <1>1, InvHolds, PTL
=============================================================================
