---------------------------- MODULE SwapPromise ----------------------------
(***************************************************************************)
(* What a vault swap promises the holder of a note, as GloamVaultSwap2's   *)
(* header says it: the note becomes the new note, or nothing happens; and  *)
(* when somebody sends the note's unshield on its own, the money waits at  *)
(* the swap's escrow and leaves it once, as the refund note or by an exit. *)
(***************************************************************************)
CONSTANTS
  Swaps,       \* the swaps proved: one escrow address each
  NullifierOf  \* the note each of them spends

VARIABLE fate

Fates == {"asked", "waiting", "swapped", "refunded", "exited"}

Init == fate = [k \in Swaps |-> "asked"]

(* No swap of this note has had its money.                                 *)
Whole(k) == \A j \in Swaps : NullifierOf[j] = NullifierOf[k] => fate[j] = "asked"

Becomes(k, f) == fate' = [fate EXCEPT ![k] = f]

Swap(k) == Whole(k) /\ Becomes(k, "swapped")
UnshieldAlone(k) == Whole(k) /\ Becomes(k, "waiting")
Refund(k) == fate[k] = "waiting" /\ Becomes(k, "refunded")
Exit(k) == fate[k] = "waiting" /\ Becomes(k, "exited")

Step(k) == Swap(k) \/ UnshieldAlone(k) \/ Refund(k) \/ Exit(k)
Next == \E k \in Swaps : Step(k)

Spec == Init /\ [][Next]_fate
=============================================================================
