----------------------------- MODULE AgentSwap -----------------------------
(***************************************************************************)
(* The agent server's private swaps (mcp/src/swaps.ts over noteStore.ts)   *)
(* for one note: the swap call, the private sends that may spend the same  *)
(* note (a split or payment, and the move of a note a reverted swap left   *)
(* held), the refresh of gloam_list_notes and gloam_finish_swap.  The swap *)
(* router is SwapPromise, which SwapEscrow implements.                     *)
(*                                                                         *)
(* Store writes of one handler happen together, each of them possibly lost *)
(* (tryStore swallows a failed write; a crash drops those not made yet).   *)
(* A clock that says ten minutes or an hour have passed is read only when  *)
(* no call that holds the note is still running.                           *)
(***************************************************************************)
EXTENDS Integers

CONSTANTS
  Swaps,     \* swap calls of the note
  Sends,     \* private sends of it: a split, a payment, or its move to a fresh note
  None,
  MaxFaults  \* bound on lost writes, crashes, failed sends and reverts

Calls == Swaps \cup Sends

ASSUME AgentSwapAssumption ==
  /\ Swaps \cap Sends = {}
  /\ None \notin Calls
  /\ MaxFaults \in Nat

VARIABLES
  fate,    \* the swaps at the router (SwapPromise)
  took,    \* the private send that spent the note, if one did
  tx,      \* what the relay and the chain have of each call's transaction
  late,    \* swaps whose deadline has passed
  input,   \* store: the note
  made,    \* store: per swap, its new note and its refund note
  fresh,   \* store: per send, the note it makes
  told,    \* store: calls whose transaction hash it holds
  pc,      \* where each call is
  look,    \* what was read of a swap or of the note and not yet acted on
  faults

chainVars == <<fate, took, tx, late>>
storeVars == <<input, made, fresh, told>>
vars == <<chainVars, storeVars, pc, look, faults>>

Chain == INSTANCE SwapPromise WITH NullifierOf <- [k \in Swaps |-> "input"]

Statuses == {"absent", "pending", "dead", "unspent", "spent"}
Outcomes == {"swapped", "refunded", "waiting", "closed", "reverted", "expired", "pending"}

TypeOK ==
  /\ fate \in [Swaps -> Chain!Fates]
  /\ took \in Sends \cup {None}
  /\ tx \in [Calls -> {"unsent", "seen", "out", "reverted", "landed"}]
  /\ late \subseteq Swaps
  /\ input \in [status : {"unspent", "pending", "spent"}, spentTx : Calls \cup {None},
                moveFirst : BOOLEAN, recheck : BOOLEAN]
  /\ made \in [Swaps -> [out : Statuses, refund : Statuses]]
  /\ fresh \in [Sends -> Statuses]
  /\ told \subseteq Calls
  /\ pc \in [Calls -> {"off", "reserved", "kept", "sent", "over"}]
  /\ look \in [swap : (Swaps \X Outcomes \X {"call", "later"}) \cup {None},
               input : {"spent", "free", None}]
  /\ faults \in 0..MaxFaults

Init ==
  /\ Chain!Init
  /\ took = None
  /\ tx = [c \in Calls |-> "unsent"]
  /\ late = {}
  /\ input = [status |-> "unspent", spentTx |-> None, moveFirst |-> FALSE, recheck |-> FALSE]
  /\ made = [k \in Swaps |-> [out |-> "absent", refund |-> "absent"]]
  /\ fresh = [c \in Sends |-> "absent"]
  /\ told = {}
  /\ pc = [c \in Calls |-> "off"]
  /\ look = [swap |-> None, input |-> None]
  /\ faults = 0

isSpent == took # None \/ \E k \in Swaps : fate[k] # "asked"
isHeld == input.status = "unspent" /\ input.moveFirst
Idle == \A c \in Calls : pc[c] \in {"off", "over"}

Fault == faults < MaxFaults /\ faults' = faults + 1
Fine == UNCHANGED faults
Goes(c, to) == pc' = [pc EXCEPT ![c] = to]

(* The writes of a handler, of which those in `lost` do not reach the disk.*)
Lose(lost) == IF lost = {} THEN Fine ELSE Fault
Kept(name, lost, new, old) == IF name \in lost THEN old ELSE new

-----------------------------------------------------------------------------
(* The chain and the relay.  A call's transaction may be sent by anybody   *)
(* who has seen it, and a swap's unshield on its own.  A transaction whose *)
(* copy has reverted may land by another copy, and its hash stays reverted.*)
Sendable(c) == tx[c] \in {"out", "seen", "reverted"}
Lands(c) == tx' = [tx EXCEPT ![c] = IF @ = "reverted" THEN @ ELSE "landed"]

SwapLands(k) ==
  /\ Sendable(k) /\ took = None /\ k \notin late
  /\ Chain!Swap(k)
  /\ Lands(k)
  /\ UNCHANGED <<took, late, storeVars, pc, look, faults>>

(* The swap's own transaction refunds once its unshield has been sent.     *)
SwapRefunds(k) ==
  /\ Sendable(k)
  /\ Chain!Refund(k)
  /\ Lands(k)
  /\ UNCHANGED <<took, late, storeVars, pc, look, faults>>

UnshieldAlone(k) ==
  /\ tx[k] # "unsent" /\ took = None
  /\ Chain!UnshieldAlone(k)
  /\ UNCHANGED <<took, tx, late, storeVars, pc, look, faults>>

TransferLands(c) ==
  /\ Sendable(c) /\ ~isSpent
  /\ took' = c
  /\ Lands(c)
  /\ UNCHANGED <<fate, late, storeVars, pc, look, faults>>

Reverts(c) ==
  /\ tx[c] = "out"
  /\ tx' = [tx EXCEPT ![c] = "reverted"]
  /\ IF c \in Sends /\ ~isSpent THEN Fault ELSE Fine
  /\ UNCHANGED <<fate, took, late, storeVars, pc, look>>

(* The network forgets a transaction: nobody knows its hash any more.      *)
Drops(c) ==
  /\ tx[c] = "out"
  /\ tx' = [tx EXCEPT ![c] = "seen"]
  /\ UNCHANGED <<fate, took, late, storeVars, pc, look, faults>>

DeadlinePasses(k) ==
  /\ k \notin late /\ tx[k] # "unsent" /\ ~isSpent
  /\ late' = late \cup {k}
  /\ UNCHANGED <<fate, took, tx, storeVars, pc, look, faults>>

-----------------------------------------------------------------------------
(* reserveForSpend: a held note is taken only by its move, a private send  *)
(* to the server's own notes; the old spentTx stays until there is a new.  *)
Reserve(c) ==
  /\ pc[c] = "off"
  /\ input.status = "unspent"
  /\ input.moveFirst => c \in Sends
  /\ ~isSpent
  /\ input' = [input EXCEPT !.status = "pending"]
  /\ Goes(c, "reserved")
  /\ UNCHANGED <<chainVars, made, fresh, told, look, faults>>

Free == [input EXCEPT !.status = "unspent"]
FreeAndWatch == [Free EXCEPT !.recheck = TRUE]

KeepNotes(c, s, lost) ==
  IF c \in Swaps
    THEN made' = [made EXCEPT ![c] = [out |-> Kept("out", lost, s, @.out),
                                      refund |-> Kept("refund", lost, s, @.refund)]] /\ UNCHANGED fresh
    ELSE fresh' = [fresh EXCEPT ![c] = Kept("fresh", lost, s, @)] /\ UNCHANGED made

(* The proofs are made and the new notes kept, before anything is sent.    *)
Keep(c) ==
  /\ pc[c] = "reserved"
  /\ KeepNotes(c, "pending", {})
  /\ Goes(c, "kept")
  /\ UNCHANGED <<chainVars, input, told, look, faults>>

(* A proof or a write fails: nothing was sent, and the note goes back.  A  *)
(* swap may leave its refund note behind.                                  *)
KeepFails(c) ==
  /\ pc[c] = "reserved"
  /\ Fault
  /\ \/ UNCHANGED made
     \/ c \in Swaps /\ made' = [made EXCEPT ![c].refund = "pending"]
  /\ input' = Free
  /\ Goes(c, "over")
  /\ UNCHANGED <<chainVars, fresh, told, look>>

(* Refused before the relay saw anything: the notes are removed again.     *)
NeverLeft(c) ==
  /\ pc[c] = "kept"
  /\ Fault
  /\ KeepNotes(c, "absent", {})
  /\ input' = Free
  /\ Goes(c, "over")
  /\ UNCHANGED <<chainVars, told, look>>

(* The relay refused it, but it has seen the proofs: the new notes stay    *)
(* kept, dead, and the note is spendable again and checked on refreshes.   *)
Refused(c) ==
  /\ pc[c] = "kept"
  /\ Fault
  /\ tx' = [tx EXCEPT ![c] = "seen"]
  /\ KeepNotes(c, "dead", {})
  /\ input' = FreeAndWatch
  /\ Goes(c, "over")
  /\ UNCHANGED <<fate, took, late, told, look>>

(* No clear answer: it may be out, or only seen.                           *)
Unclear(c) ==
  /\ pc[c] = "kept"
  /\ Fault
  /\ \E s \in {"out", "seen"} : tx' = [tx EXCEPT ![c] = s]
  /\ Goes(c, "over")
  /\ UNCHANGED <<fate, took, late, storeVars, look>>

(* The relay's answer is a hash, which the store keeps if it can.          *)
Sent(c) ==
  /\ pc[c] = "kept"
  /\ tx' = [tx EXCEPT ![c] = "out"]
  /\ \E lost \in SUBSET {"input", "note"} :
       /\ Lose(lost)
       /\ input' = Kept("input", lost, [input EXCEPT !.spentTx = c], input)
       /\ told' = Kept("note", lost, told \cup {c}, told)
  /\ Goes(c, "sent")
  /\ UNCHANGED <<fate, took, late, made, fresh, look>>

(* The receipt of a private send.  A revert frees the note, unless it is   *)
(* read as spent; that read may be older than another copy's landing.  A   *)
(* note read as spent is a payment's to write off, and stays pending for a *)
(* split or a move, as it does when no receipt comes.                      *)
ForgetsReverted(c, lost) == KeepNotes(c, "absent", lost)  \* mutant: a reverted send's note is removed
KeepsReverted(c, lost) == KeepNotes(c, "dead", lost)

ReceiptOfSend(c) ==
  /\ pc[c] = "sent" /\ c \in Sends
  /\ \E lost \in SUBSET {"input", "fresh"} :
       /\ Lose(lost)
       /\ \/ /\ tx[c] = "landed"
             /\ input' = Kept("input", lost, [input EXCEPT !.status = "spent", !.spentTx = c], input)
             /\ KeepNotes(c, "unspent", lost)
          \/ /\ tx[c] = "reverted"
             /\ KeepsReverted(c, lost)
             /\ input' = Kept("input", lost, FreeAndWatch, input)
          \/ /\ tx[c] = "reverted" /\ isSpent
             /\ input' = Kept("input", lost, [input EXCEPT !.status = "spent", !.spentTx = None], input)
             /\ UNCHANGED <<made, fresh>>
          \/ /\ tx[c] \in {"out", "seen"} \/ (tx[c] = "reverted" /\ isSpent)
             /\ lost = {}
             /\ UNCHANGED <<input, made, fresh>>
  /\ Goes(c, "over")
  /\ UNCHANGED <<chainVars, told, look>>

(* The server dies in the middle of a call, its send out or not.           *)
Crash(c) ==
  /\ pc[c] \in {"reserved", "kept", "sent"}
  /\ Fault
  /\ Goes(c, "over")
  /\ look' = [look EXCEPT !.swap = None]
  /\ UNCHANGED <<chainVars, storeVars>>

-----------------------------------------------------------------------------
(* readSwapOutcome: what became of a swap, read at one block.              *)
AnySpend(k) == IF isSpent THEN "swapped" ELSE "pending"  \* mutant: any spend is taken as the swap
Outcome(k) ==
  CASE fate[k] \in {"swapped", "refunded", "waiting"} -> fate[k]
    [] fate[k] \notin {"swapped", "refunded", "waiting"} /\ isSpent -> "closed"
    [] ~isSpent /\ k \in told /\ tx[k] = "reverted" -> "reverted"
    [] ~isSpent /\ ~(k \in told /\ tx[k] = "reverted") /\ k \in late -> "expired"
    [] OTHER -> "pending"

OnlyPending(s) == IF s = "pending" THEN "unspent" ELSE s  \* mutant: a dead note stays dead
Landed(s) == IF s \in {"pending", "dead"} THEN "unspent" ELSE s
Died(s) == IF s \in {"pending", "unspent"} THEN "dead" ELSE s
Woken(s) == IF s = "dead" THEN "pending" ELSE s
DeadInput == [input EXCEPT !.status = "dead"]  \* mutant: the spent note is marked dead
SpentInput == [input EXCEPT !.status = "spent", !.recheck = IF input.status = "spent" THEN @ ELSE FALSE]

(* holdSwapNote: another call that has shown its own hash keeps the note.  *)
HeldInput(k) ==
  IF input.status = "spent" \/ made[k].refund = "dead" THEN input
  ELSE IF input.status = "pending" /\ input.spentTx \notin {None} \cup ({k} \cap told)
    THEN [input EXCEPT !.moveFirst = TRUE]
  ELSE [FreeAndWatch EXCEPT !.moveFirst = TRUE]

(* The notes of swap k and the note it spent, once its outcome o is known. *)
AfterOutcome(k, o) ==
  LET n == made[k]
  IN CASE o = "swapped" -> <<[out |-> Landed(n.out), refund |-> Died(n.refund)], SpentInput>>
       [] o = "refunded" -> <<[out |-> Died(n.out), refund |-> Landed(n.refund)], SpentInput>>
       [] o = "waiting" -> <<[out |-> Died(n.out), refund |-> Woken(n.refund)], SpentInput>>
       [] o = "closed" -> <<[out |-> Died(n.out), refund |-> Died(n.refund)], SpentInput>>
       [] o \in {"reverted", "expired"} -> <<[out |-> Died(n.out), refund |-> Died(n.refund)], HeldInput(k)>>
       [] o = "pending" -> <<n, input>>

applySwapOutcome(k, o) ==
  LET after == AfterOutcome(k, o)
  IN \E lost \in SUBSET {"out", "refund", "input"} :
       /\ Lose(lost)
       /\ made' = [made EXCEPT ![k] = [out |-> Kept("out", lost, after[1].out, @.out),
                                       refund |-> Kept("refund", lost, after[1].refund, @.refund)]]
       /\ input' = Kept("input", lost, after[2], input)

(* The swap call reads the outcome once its transaction is out.  Later the *)
(* refresh reads it for open swaps and, now and then, for dead ones, and   *)
(* gloam_finish_swap whenever it is called: which of the two read it shows *)
(* only in what it does with it.                                           *)
Open(k) == made[k].refund \in {"pending", "dead"}

Looks(k, by) ==
  /\ look.swap = None
  /\ by = "call" => pc[k] = "sent"
  /\ by = "later" => made[k].refund # "absent"
  /\ look' = [look EXCEPT !.swap = <<k, Outcome(k), by>>]
  /\ UNCHANGED <<chainVars, storeVars, pc, faults>>

SwapSettles(k) ==
  /\ look.swap # None /\ look.swap[1] = k /\ look.swap[3] = "call"
  /\ applySwapOutcome(k, look.swap[2])
  /\ look' = [look EXCEPT !.swap = None]
  /\ Goes(k, "over")
  /\ UNCHANGED <<chainVars, fresh, told>>

(* The outcome can't be read: a swap seen to revert holds its note at once.*)
OutcomeUnread(k) ==
  /\ pc[k] = "sent" /\ Fault
  /\ input' = IF tx[k] = "reverted" THEN [input EXCEPT !.moveFirst = TRUE] ELSE input
  /\ Goes(k, "over")
  /\ UNCHANGED <<chainVars, made, fresh, told, look>>

FinishSettles(k) ==
  /\ look.swap # None /\ look.swap[1] = k /\ look.swap[3] = "later"
  /\ applySwapOutcome(k, look.swap[2])
  /\ look' = [look EXCEPT !.swap = None]
  /\ UNCHANGED <<chainVars, fresh, told, pc>>

(* A dead refund note comes back only when something changed for it.       *)
NothingNew(k, o) ==
  /\ made[k].refund = "dead"
  /\ \/ o \in {"reverted", "expired", "closed", "pending"}
     \/ o = "swapped" /\ made[k].out \notin {"pending", "dead"}

(* A swap with no hash that showed nothing for an hour ends as reverted.   *)
Unseen(k, o) == o = "pending" /\ k \notin told /\ Idle

RefreshSettles(k) ==
  /\ look.swap # None /\ look.swap[1] = k /\ look.swap[3] = "later"
  /\ Open(k)
  /\ LET o == look.swap[2]
     IN \/ NothingNew(k, o) /\ UNCHANGED <<made, input, faults>>
        \/ ~NothingNew(k, o) /\ applySwapOutcome(k, o)
        \/ ~NothingNew(k, o) /\ Unseen(k, o) /\ applySwapOutcome(k, "reverted")
  /\ look' = [look EXCEPT !.swap = None]
  /\ UNCHANGED <<chainVars, fresh, told, pc>>

(* The refresh of the note itself: spent after all, or spendable again     *)
(* once its spend reverted or never showed up: it has no hash, or nobody   *)
(* knows the hash.                                                         *)
GaveUp == input.spentTx # None /\ tx[input.spentTx] = "reverted"
HashNeverShown == Idle /\ input.spentTx # None /\ tx[input.spentTx] = "seen"  \* mutant: only a known hash
NeverShown == Idle /\ (input.spentTx # None => tx[input.spentTx] = "seen")

InputReads ==
  /\ look.input = None
  /\ input.status = "pending" \/ (input.status = "unspent" /\ input.recheck)
  /\ \/ isSpent /\ look' = [look EXCEPT !.input = "spent"]
     \/ /\ ~isSpent /\ input.status = "pending"
        /\ GaveUp \/ NeverShown
        /\ look' = [look EXCEPT !.input = "free"]
  /\ UNCHANGED <<chainVars, storeVars, pc, faults>>

InputWrites ==
  /\ look.input # None
  /\ input' = IF look.input = "spent" THEN [input EXCEPT !.status = "spent", !.recheck = FALSE]
              ELSE [FreeAndWatch EXCEPT !.spentTx = None]
  /\ look' = [look EXCEPT !.input = None]
  /\ UNCHANGED <<chainVars, made, fresh, told, pc, faults>>

(* The refresh of a note a send makes.                                     *)
RefreshFresh(c) ==
  /\ fresh[c] \in {"pending", "dead"}
  /\ \/ took = c /\ fresh' = [fresh EXCEPT ![c] = "unspent"]
     \/ /\ took # c /\ fresh[c] = "pending" /\ c \in told
        /\ tx[c] = "reverted" \/ (tx[c] = "seen" /\ Idle /\ ~(input.status = "pending" /\ input.spentTx = c))
        /\ fresh' = [fresh EXCEPT ![c] = "dead"]
  /\ UNCHANGED <<chainVars, input, made, told, pc, look, faults>>

(* A move that finds the note spent another way.                           *)
MoveFindsSpent ==
  /\ isHeld /\ isSpent
  /\ input' = [input EXCEPT !.status = "spent", !.recheck = FALSE]
  /\ UNCHANGED <<chainVars, made, fresh, told, pc, look, faults>>

(* gloam_finish_swap: the refund, or the exit when the refund can't land.  *)
FinishRefund(k) ==
  /\ made[k].refund # "absent"
  /\ Chain!Refund(k)
  /\ UNCHANGED <<took, tx, late, storeVars, pc, look, faults>>

FinishExit(k) ==
  /\ made[k].refund # "absent"
  /\ Chain!Exit(k)
  /\ \E lost \in SUBSET {"out", "refund", "input"} :
       /\ Lose(lost)
       /\ made' = [made EXCEPT ![k] = [out |-> Kept("out", lost, IF @.out = "spent" THEN @.out ELSE "dead", @.out),
                                       refund |-> Kept("refund", lost, "spent", @.refund)]]
       /\ input' = Kept("input", lost, [input EXCEPT !.status = "spent"], input)
  /\ UNCHANGED <<took, tx, late, fresh, told, pc, look>>

-----------------------------------------------------------------------------
CallStep(c) ==
  \/ Reserve(c) \/ Keep(c) \/ KeepFails(c) \/ NeverLeft(c) \/ Refused(c)
  \/ Unclear(c) \/ Sent(c) \/ ReceiptOfSend(c) \/ Crash(c)

SwapStep(k) ==
  \/ SwapLands(k) \/ SwapRefunds(k) \/ UnshieldAlone(k) \/ DeadlinePasses(k)
  \/ Looks(k, "call") \/ SwapSettles(k) \/ OutcomeUnread(k)
  \/ Looks(k, "later") \/ RefreshSettles(k) \/ FinishSettles(k) \/ FinishRefund(k) \/ FinishExit(k)

Next ==
  \/ \E c \in Calls : CallStep(c) \/ Reverts(c) \/ Drops(c)
  \/ \E k \in Swaps : SwapStep(k)
  \/ \E c \in Sends : TransferLands(c) \/ RefreshFresh(c)
  \/ InputReads \/ InputWrites \/ MoveFindsSpent

Spec == Init /\ [][Next]_vars

(* A call that runs goes on, the agent keeps calling gloam_list_notes with *)
(* refresh, and it finishes a swap whose money waits.                      *)
FairSpec ==
  /\ Spec
  /\ \A c \in Calls : WF_vars(Keep(c) \/ Sent(c) \/ ReceiptOfSend(c))
  /\ \A k \in Swaps : /\ SF_vars(Looks(k, "call")) /\ SF_vars(Open(k) /\ Looks(k, "later"))
                      /\ WF_vars(SwapSettles(k) \/ RefreshSettles(k) \/ FinishSettles(k))
                      /\ WF_vars(FinishRefund(k) \/ FinishExit(k))
  /\ \A c \in Sends : WF_vars(RefreshFresh(c))
  /\ WF_vars(InputReads \/ InputWrites) /\ WF_vars(MoveFindsSpent)

-----------------------------------------------------------------------------
(* A note that is in the vault, or that a transaction somebody has seen    *)
(* could still put there, has its secret in the store; so has a swap whose *)
(* money waits: the refund note holds its exit key.                        *)
NoSecretIsForgotten ==
  /\ \A k \in Swaps :
       /\ fate[k] = "swapped" \/ Sendable(k) => made[k].out # "absent"
       /\ fate[k] \in {"refunded", "waiting"} \/ tx[k] # "unsent" => made[k].refund # "absent"
  /\ \A c \in Sends : took = c \/ Sendable(c) => fresh[c] # "absent"

(* The balance is real: a note is shown spendable only when it is in the   *)
(* vault, and the note is written off only when it is spent.               *)
BalanceIsReal ==
  /\ \A k \in Swaps :
       /\ made[k].out = "unspent" => fate[k] = "swapped"
       /\ made[k].refund = "unspent" => fate[k] = "refunded"
  /\ \A c \in Sends : fresh[c] = "unspent" => took = c
  /\ input.status = "spent" => isSpent

Accounted ==
  /\ \A k \in Swaps : /\ fate[k] # "waiting"
                      /\ fate[k] = "swapped" => made[k].out = "unspent"
                      /\ fate[k] = "refunded" => made[k].refund = "unspent"
  /\ \A c \in Sends : took = c => fresh[c] = "unspent"

(* Whatever took the note's value, the store comes to show where it is,    *)
(* and goes on showing it; money that waits at the escrow is brought in.   *)
ValueIsFound == isSpent ~> []Accounted

(* The note stays reserved for good only by a send whose hash the store    *)
(* has and the network still knows.                                        *)
StillOut == input.spentTx # None /\ tx[input.spentTx] = "out"
NoteIsFreed == (input.status = "pending") ~> (input.status # "pending" \/ StillOut)
=============================================================================
