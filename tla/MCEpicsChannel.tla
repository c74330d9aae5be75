--------------------------- MODULE MCEpicsChannel ---------------------------
(* Small instances of EpicsChannel for TLC.                                   *)
EXTENDS EpicsChannel, TLC

(* Values, field types and addresses are interchangeable.                     *)
Symmetry ==
  Permutations(Values) \cup Permutations(Types) \cup Permutations(Converters)
=============================================================================
