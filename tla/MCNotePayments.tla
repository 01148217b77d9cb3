--------------------------- MODULE MCNotePayments ---------------------------
(* Three calls for one purchase, over a network whose nodes may be behind  *)
(* and one whose sends may land late, but not both.                        *)
EXTENDS NotePayments, TLC

CONSTANTS c1, c2, c3, n1, n2

MCWorlds == {{"lag"}, {"late"}}
MCBothWorlds == {{"lag", "late"}}
(* Two calls over a fault; a third when nothing went wrong and nodes agree.*)
ThreeWithoutFaults ==
  (\A c \in Calls : pc[c] # "off") =>
    faults = 0 /\ world = {"late"} /\ \A n \in Notes : spentBy[n] # Other

MCSymmetry == Permutations({c1, c2, c3}) \cup Permutations({n1, n2})
=============================================================================
