------------------------- MODULE PollManager_proofs -------------------------
(* Proofs about poll managers: for any number of scripts, and of timers that  *)
(* nobody can cancel any more, there is one timer, stop stops it, and start   *)
(* starts it.                                                                 *)
EXTENDS PollManager, TLAPS

-----------------------------------------------------------------------------
(* The inductive invariant.                                                   *)

(* The parts of the type invariant.                                           *)
Flags ==
  /\ alive \in BOOLEAN /\ dispatching \in BOOLEAN /\ wanted \in BOOLEAN
  /\ failed \in BOOLEAN /\ restarted \in BOOLEAN /\ undone \in BOOLEAN

Data ==
  /\ afterId \in {"none", "set", "fired"}
  /\ orphans \in 0..MaxOrphans
  /\ serial \in 0..MaxScripts /\ scripts \subseteq 1..serial
  /\ todo \subseteq Ids /\ inside \in Ids \cup {0}

(* The bound on orphans leaves room for the timer that Reschedule forgets.    *)
Room == dispatching /\ afterId = "set" => orphans < MaxOrphans

(* Unless a script restarted the timer, each that is scheduled is afterId's,  *)
(* and none is while the scripts are evaluated.                               *)
TimersOwned ==
  ~restarted => orphans = 0 /\ (dispatching => afterId # "set")

(* A dispatch after a stop is one during which, or during one before which,   *)
(* a script called stop: Reschedule will not be the first to know.            *)
DispatchWanted ==
  dispatching /\ alive /\ ~wanted => undone \/ restarted

(* The id of a timer is kept when it has fired, but only until the dispatch   *)
(* ends, unless an error ends it.                                             *)
IdTellsTimer ==
  /\ wanted => alive /\ afterId # "none"
  /\ afterId = "fired" /\ alive /\ ~failed => dispatching

IInv ==
  /\ Flags /\ Data /\ Room
  /\ TimersOwned /\ DispatchWanted /\ IdTellsTimer /\ StopStops

LEMMA Types == Flags /\ Data => TypeOK
BY DEF TypeOK, Flags, Data

(* The parts of the invariant imply what the runs check.                      *)
LEMMA Implied == IInv => OneTimer /\ StopStops /\ StartStarts
BY SMT DEF IInv, Flags, Data, TimersOwned, IdTellsTimer, StopStops, OneTimer,
  StartStarts, Timers

LEMMA InitIInv == ASSUME Init PROVE IInv
<1>1. Flags
  BY Zenon DEF Init, Flags
<1>2. Data /\ Room
  BY BoundsAssumption, SMT DEF Init, Data, Room, Ids
<1>3. TimersOwned /\ DispatchWanted /\ IdTellsTimer /\ StopStops
  BY SMT DEF Init, TimersOwned, DispatchWanted, IdTellsTimer, StopStops, Timers
<1> QED
  BY <1>1, <1>2, <1>3 DEF IInv

-----------------------------------------------------------------------------
(* The methods.                                                               *)

LEMMA StartKeeps ==
  ASSUME IInv, Start PROVE IInv'
<1>1. Flags'
  BY Zenon DEF Start, Callable, array, loop, IInv, Flags
<1>2. Data' /\ Room'
  BY BoundsAssumption, SMT
  DEF Start, Callable, array, loop, IInv, Flags, Data, Room, Ids
<1>3. /\ TimersOwned' /\ DispatchWanted' /\ IdTellsTimer' /\ StopStops'
  BY SMT DEF Start, Callable, array, loop, IInv, Flags, Data,
    TimersOwned, DispatchWanted, IdTellsTimer, StopStops, Timers
<1> QED
  BY <1>1, <1>2, <1>3 DEF IInv

LEMMA StopKeeps ==
  ASSUME IInv, Stop PROVE IInv'
<1>1. Flags'
  BY Zenon DEF Stop, Callable, Cancelled, array, loop, IInv, Flags
<1>2. Data' /\ Room'
  BY BoundsAssumption, SMT
  DEF Stop, Callable, Cancelled, array, loop, IInv, Flags, Data, Room, Ids
<1>3. /\ TimersOwned' /\ DispatchWanted' /\ IdTellsTimer' /\ StopStops'
  BY SMT DEF Stop, Callable, Cancelled, array, loop, IInv, Flags, Data,
    TimersOwned, DispatchWanted, IdTellsTimer, StopStops, Timers
<1> QED
  BY <1>1, <1>2, <1>3 DEF IInv

LEMMA AddKeeps ==
  ASSUME IInv, Add PROVE IInv'
<1>1. Flags'
  BY Zenon DEF Add, Callable, loop, asked, IInv, Flags
<1>2. Data' /\ Room'
  BY BoundsAssumption, SMT
  DEF Add, Callable, loop, asked, IInv, Flags, Data, Room, Ids
<1>3. /\ TimersOwned' /\ DispatchWanted' /\ IdTellsTimer' /\ StopStops'
  BY SMT DEF Add, Callable, loop, asked, IInv, Flags, Data,
    TimersOwned, DispatchWanted, IdTellsTimer, StopStops, Timers
<1> QED
  BY <1>1, <1>2, <1>3 DEF IInv

LEMMA RemoveKeeps ==
  ASSUME NEW i \in Ids, IInv, Remove(i) PROVE IInv'
<1>1. Flags'
  BY Zenon DEF Remove, Callable, loop, asked, IInv, Flags
<1>2. Data' /\ Room'
  BY BoundsAssumption, SMT
  DEF Remove, Callable, loop, asked, IInv, Flags, Data, Room, Ids
<1>3. /\ TimersOwned' /\ DispatchWanted' /\ IdTellsTimer' /\ StopStops'
  BY SMT DEF Remove, Callable, loop, asked, IInv, Flags, Data,
    TimersOwned, DispatchWanted, IdTellsTimer, StopStops, Timers
<1> QED
  BY <1>1, <1>2, <1>3 DEF IInv

LEMMA DestroyKeeps ==
  ASSUME IInv, Destroy PROVE IInv'
<1>1. Flags'
  BY Zenon DEF Destroy, Callable, Cancelled, array, loop, IInv, Flags
<1>2. Data' /\ Room'
  BY BoundsAssumption, SMT
  DEF Destroy, Callable, Cancelled, array, loop, IInv, Flags, Data, Room, Ids
<1>3. /\ TimersOwned' /\ DispatchWanted' /\ IdTellsTimer' /\ StopStops'
  BY SMT DEF Destroy, Callable, Cancelled, array, loop, IInv, Flags, Data,
    TimersOwned, DispatchWanted, IdTellsTimer, StopStops, Timers
<1> QED
  BY <1>1, <1>2, <1>3 DEF IInv

-----------------------------------------------------------------------------
(* The timers and the dispatch.                                               *)

LEMMA FireKeeps ==
  ASSUME IInv, Fire PROVE IInv'
<1>1. Flags'
  BY Zenon DEF Fire, array, asked, IInv, Flags
<1>2. Data' /\ Room'
  BY BoundsAssumption, SMT
  DEF Fire, array, asked, IInv, Flags, Data, Room, Ids
<1>3. /\ TimersOwned' /\ DispatchWanted' /\ IdTellsTimer' /\ StopStops'
  BY SMT DEF Fire, array, asked, IInv, Flags, Data,
    TimersOwned, DispatchWanted, IdTellsTimer, StopStops, Timers
<1> QED
  BY <1>1, <1>2, <1>3 DEF IInv

LEMMA NextScriptKeeps ==
  ASSUME NEW i \in Ids, IInv, NextScript(i) PROVE IInv'
<1>1. Flags'
  BY Zenon DEF NextScript, DispatchFails, array, asked, IInv, Flags
<1>2. UNCHANGED <<alive, afterId, orphans, serial, scripts, wanted, undone,
                  restarted>>
  BY Zenon DEF NextScript, array, asked
<1>3. CASE /\ inside' = i /\ todo' = todo \ {i}
           /\ UNCHANGED <<dispatching, failed>>
  <2>1. Data' /\ Room'
    BY <1>2, <1>3, SMT DEF IInv, Flags, Data, Room, Ids
  <2>2. /\ TimersOwned' /\ DispatchWanted' /\ IdTellsTimer' /\ StopStops'
    BY <1>2, <1>3, SMT DEF IInv, Flags, Data, TimersOwned, DispatchWanted,
      IdTellsTimer, StopStops, Timers
  <2> QED
    BY <1>1, <2>1, <2>2 DEF IInv
<1>4. CASE DispatchFails /\ dispatching
  <2>1. Data' /\ Room'
    BY <1>2, <1>4, SMT DEF DispatchFails, IInv, Flags, Data, Room, Ids
  <2>2. /\ TimersOwned' /\ DispatchWanted' /\ IdTellsTimer' /\ StopStops'
    BY <1>2, <1>4, SMT DEF DispatchFails, IInv, Flags, Data, TimersOwned,
      DispatchWanted, IdTellsTimer, StopStops, Timers
  <2> QED
    BY <1>1, <2>1, <2>2 DEF IInv
<1> QED
  BY <1>3, <1>4 DEF NextScript

LEMMA ScriptEndsKeeps ==
  ASSUME IInv, ScriptEnds PROVE IInv'
<1>1. Flags'
  BY Zenon DEF ScriptEnds, array, asked, IInv, Flags
<1>2. Data' /\ Room'
  BY BoundsAssumption, SMT
  DEF ScriptEnds, array, asked, IInv, Flags, Data, Room, Ids
<1>3. /\ TimersOwned' /\ DispatchWanted' /\ IdTellsTimer' /\ StopStops'
  BY SMT DEF ScriptEnds, array, asked, IInv, Flags, Data,
    TimersOwned, DispatchWanted, IdTellsTimer, StopStops, Timers
<1> QED
  BY <1>1, <1>2, <1>3 DEF IInv

LEMMA ScriptFailsKeeps ==
  ASSUME IInv, ScriptFails PROVE IInv'
<1>1. Flags'
  BY Zenon DEF ScriptFails, DispatchFails, array, asked, IInv, Flags
<1>2. Data' /\ Room'
  BY BoundsAssumption, SMT
  DEF ScriptFails, DispatchFails, array, asked, IInv, Flags, Data, Room, Ids
<1>3. /\ TimersOwned' /\ DispatchWanted' /\ IdTellsTimer' /\ StopStops'
  BY SMT DEF ScriptFails, DispatchFails, array, asked, IInv, Flags, Data,
    TimersOwned, DispatchWanted, IdTellsTimer, StopStops, Timers
<1> QED
  BY <1>1, <1>2, <1>3 DEF IInv

LEMMA RescheduleKeeps ==
  ASSUME IInv, Reschedule PROVE IInv'
<1>1. Flags'
  BY Zenon DEF Reschedule, DispatchFails, array, asked, IInv, Flags
<1>2. Data' /\ Room'
  BY BoundsAssumption, SMT
  DEF Reschedule, DispatchFails, array, asked, IInv, Flags, Data, Room, Ids
<1>3. CASE alive
  <2>1. /\ dispatching /\ afterId' = "set" /\ UNCHANGED failed
        /\ orphans' = (IF afterId = "set" THEN orphans + 1 ELSE orphans)
        /\ ~dispatching' /\ UNCHANGED <<alive, wanted, undone, restarted>>
    BY <1>3, Zenon DEF Reschedule, array, asked
  <2>2. /\ TimersOwned' /\ DispatchWanted' /\ IdTellsTimer' /\ StopStops'
    BY <1>3, <2>1, SMT DEF IInv, Flags, Data, TimersOwned,
      DispatchWanted, IdTellsTimer, StopStops, Timers
  <2> QED
    BY <1>1, <1>2, <2>2 DEF IInv
<1>4. CASE ~alive
  <2>1. /\ dispatching /\ UNCHANGED <<afterId, orphans>> /\ failed'
        /\ ~dispatching' /\ UNCHANGED <<alive, wanted, undone, restarted>>
    BY <1>4, Zenon DEF Reschedule, DispatchFails, array, asked
  <2>2. /\ TimersOwned' /\ DispatchWanted' /\ IdTellsTimer' /\ StopStops'
    BY <1>4, <2>1, SMT DEF IInv, Flags, Data, TimersOwned,
      DispatchWanted, IdTellsTimer, StopStops, Timers
  <2> QED
    BY <1>1, <1>2, <2>2 DEF IInv
<1> QED
  BY <1>3, <1>4, Zenon


-----------------------------------------------------------------------------
(* The theorems.                                                              *)

LEMMA NextKeeps == IInv /\ [Next]_vars => IInv'
<1> SUFFICES ASSUME IInv, [Next]_vars PROVE IInv'
  OBVIOUS
<1>1. CASE Caller
  BY <1>1, StartKeeps, StopKeeps, AddKeeps, RemoveKeeps, DestroyKeeps
  DEF Caller
<1>2. CASE Fire
  BY <1>2, FireKeeps
<1>3. CASE Dispatch
  BY <1>3, NextScriptKeeps, ScriptEndsKeeps, RescheduleKeeps DEF Dispatch
<1>4. CASE ScriptFails
  BY <1>4, ScriptFailsKeeps
<1>5. CASE UNCHANGED vars
  BY <1>5 DEF vars, array, loop, asked, IInv, Flags, Data, Room,
    TimersOwned, DispatchWanted, IdTellsTimer, StopStops, Timers, Ids
<1> QED
  BY <1>1, <1>2, <1>3, <1>4, <1>5 DEF Next

LEMMA Invariance == Spec => []IInv
BY InitIInv, NextKeeps, PTL DEF Spec

(* Every variable keeps its type, the ids given out are those of scripts that *)
(* were added, and afterId is empty, a timer or one that has fired.           *)
THEOREM TypeCorrect == Spec => []TypeOK
<1>1. IInv => TypeOK
  BY Types DEF IInv
<1> QED
  BY <1>1, Invariance, PTL

(* Of all the timers that start, DispatchScripts and stop schedule and cancel *)
(* (pollmanager.tcl), one at most is scheduled at a time, and none while the  *)
(* scripts are evaluated, unless one of them has restarted the timer.         *)
THEOREM OneTimerAtMost == Spec => []OneTimer
<1>1. IInv => OneTimer
  BY Implied
<1> QED
  BY <1>1, Invariance, PTL

(* stop, called from outside the polled scripts, leaves no timer behind, and  *)
(* no dispatch that is over by then schedules another (pollmanager.tcl:47).   *)
THEOREM StopIsObeyed == Spec => []StopStops
<1>1. IInv => StopStops
  BY Implied
<1> QED
  BY <1>1, Invariance, PTL

(* start, wherever it is called from, leaves a timer, or a dispatch that will *)
(* schedule one, although it only looks whether afterId is empty.             *)
THEOREM StartIsObeyed == Spec => []StartStarts
<1>1. IInv => StartStarts
  BY Implied
<1> QED
  BY <1>1, Invariance, PTL
=============================================================================
