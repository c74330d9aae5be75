-------------------------- MODULE MCChannelWidgets --------------------------
(* Small instances of ChannelWidgets for TLC.                                 *)
EXTENDS ChannelWidgets

CONSTANT w1

(* One widget is of any kind, and the others are of those that trace the      *)
(* variable, or of a radio matrix: an entry or a spinbox beside another has   *)
(* nothing to do with it.                                                     *)
MCKindsOf ==
  [w \in Widgets |-> IF w = w1 THEN Kinds ELSE Kinds \ {"entry", "spin"}]
=============================================================================
