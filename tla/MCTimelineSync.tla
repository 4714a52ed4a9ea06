---------------------------- MODULE MCTimelineSync ----------------------------
(* Instances of TimelineSync for TLC. *)
EXTENDS TimelineSync, TLC

SlotSymmetry == Permutations(Slots)

=============================================================================
