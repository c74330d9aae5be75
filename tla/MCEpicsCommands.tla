--------------------------- MODULE MCEpicsCommands ---------------------------
(* Small instances of EpicsCommands for TLC.                                  *)
EXTENDS EpicsCommands, TLC

(* Names, variables, values, addresses and clients are interchangeable.       *)
Symmetry ==
  Permutations(Names) \cup Permutations(Vars) \cup Permutations(Values)
    \cup Permutations(Commands) \cup Permutations(Clients)
=============================================================================
