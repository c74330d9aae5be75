---------------------------- MODULE PollManager ----------------------------
(* A poll manager (src/pollmanager.tcl): scripts that one timer evaluates     *)
(* period after period.  Its methods are called from the event loop, or from  *)
(* one of its own scripts while DispatchScripts evaluates it.                 *)
(*                                                                            *)
(* Tcl never uses the id of a timer twice, and "after cancel" of a timer that *)
(* has fired does nothing.  So afterId is only whether it is empty, names a   *)
(* timer that is scheduled, or one that has fired; and a scheduled timer      *)
(* whose id afterId no longer holds cannot be cancelled by anyone.            *)
EXTENDS Integers

CONSTANTS
  MaxScripts,  \* bound on the scripts ever added
  MaxOrphans   \* bound on the timers that cannot be cancelled

ASSUME BoundsAssumption == MaxScripts \in Nat /\ MaxOrphans \in Nat

VARIABLES
  alive,         \* the object has not been destroyed
  afterId,       \* "none", "set" or "fired"
  orphans,       \* how many scheduled timers are not afterId's
  serial,        \* scriptSerial
  scripts,       \* the ids in the array scripts
  dispatching,   \* DispatchScripts is running
  todo,          \* the names it has still to visit
  inside,        \* the script being evaluated, or 0
  wanted,        \* start was called after the last stop
  failed,        \* a script, or the loop over them, has failed since that stop
  restarted,     \* a script has stopped the timer and scheduled another
  undone         \* the last stop came from a script

asked == <<wanted, undone>>
array == <<serial, scripts>>
loop  == <<dispatching, todo, inside>>
vars  == <<alive, afterId, orphans, array, loop, asked, failed, restarted>>

Ids == 1..MaxScripts

TypeOK ==
  /\ alive \in BOOLEAN
  /\ afterId \in {"none", "set", "fired"}
  /\ orphans \in 0..MaxOrphans
  /\ serial \in 0..MaxScripts /\ scripts \subseteq 1..serial
  /\ dispatching \in BOOLEAN
  /\ todo \subseteq Ids /\ inside \in Ids \cup {0}
  /\ wanted \in BOOLEAN /\ failed \in BOOLEAN
  /\ restarted \in BOOLEAN /\ undone \in BOOLEAN

Init ==
  /\ alive = TRUE /\ afterId = "none" /\ orphans = 0
  /\ serial = 0 /\ scripts = {}
  /\ dispatching = FALSE /\ todo = {} /\ inside = 0
  /\ wanted = FALSE /\ failed = FALSE /\ restarted = FALSE /\ undone = FALSE

(* Methods are called from the event loop or by a script.                     *)
Callable == alive /\ (dispatching => inside # 0)

-----------------------------------------------------------------------------
(* Mutant: start does not look whether there is a timer already.              *)
Start_Always ==
  /\ Callable /\ wanted' = TRUE
  /\ afterId' = "set"
  /\ orphans' = IF afterId = "set" THEN orphans + 1 ELSE orphans
  /\ orphans' <= MaxOrphans
  /\ restarted' = (restarted \/ dispatching)
  /\ UNCHANGED <<alive, array, loop, failed, undone>>

Start ==
  /\ Callable /\ wanted' = TRUE
  /\ \/ /\ afterId = "none"
        /\ dispatching => orphans < MaxOrphans
        /\ afterId' = "set"
        /\ restarted' = (restarted \/ dispatching)
     \/ afterId # "none" /\ UNCHANGED <<afterId, restarted>>
  /\ UNCHANGED <<alive, orphans, array, loop, failed, undone>>

(* Mutant: the timer is cancelled but its id is kept.                         *)
Cancelled_KeepsId(id) == IF id = "set" THEN "fired" ELSE id

(* afterId when the timer it names, if any, has been cancelled.               *)
Cancelled(id) == "none"

(* Mutant: the id is forgotten, and the timer left scheduled.                 *)
Stop_LeavesTimer ==
  /\ Callable /\ wanted' = FALSE /\ failed' = FALSE /\ undone' = dispatching
  /\ afterId' = "none"
  /\ orphans' = IF afterId = "set" THEN orphans + 1 ELSE orphans
  /\ orphans' <= MaxOrphans
  /\ UNCHANGED <<alive, array, loop, restarted>>

Stop ==
  /\ Callable /\ wanted' = FALSE /\ failed' = FALSE /\ undone' = dispatching
  /\ afterId' = Cancelled(afterId)
  /\ UNCHANGED <<alive, orphans, array, loop, restarted>>

Add ==
  /\ Callable /\ serial < MaxScripts
  /\ serial' = serial + 1 /\ scripts' = scripts \cup {serial + 1}
  /\ UNCHANGED <<alive, afterId, orphans, loop, asked, failed, restarted>>

(* To remove an unknown id is an error of its caller and changes nothing.     *)
Remove(i) ==
  /\ Callable /\ i \in scripts
  /\ scripts' = scripts \ {i}
  /\ UNCHANGED <<alive, afterId, orphans, serial, loop, asked, failed,
                 restarted>>

(* The destructor stops polling.                                              *)
Destroy ==
  /\ Callable
  /\ alive' = FALSE /\ wanted' = FALSE /\ afterId' = Cancelled(afterId)
  /\ UNCHANGED <<orphans, array, loop, undone, failed, restarted>>

-----------------------------------------------------------------------------
(* A timer expires: DispatchScripts starts on the names there are now.  The   *)
(* callback of an object that has been destroyed is an error.                 *)
Fire ==
  /\ ~dispatching
  /\ \/ afterId = "set" /\ afterId' = "fired" /\ UNCHANGED orphans
     \/ orphans > 0 /\ orphans' = orphans - 1 /\ UNCHANGED afterId
  /\ dispatching' = alive
  /\ todo' = IF alive THEN scripts ELSE {}
  /\ UNCHANGED <<alive, array, inside, asked, failed, restarted>>

(* An error ends DispatchScripts before it has scheduled its next event.      *)
DispatchFails ==
  /\ failed' = TRUE
  /\ dispatching' = FALSE /\ todo' = {} /\ inside' = 0

(* Mutant: a name is visited again and again.                                 *)
NextScript_Again(i) ==
  /\ dispatching /\ inside = 0 /\ i \in todo
  /\ alive /\ i \in scripts
  /\ inside' = i
  /\ UNCHANGED <<alive, afterId, orphans, array, asked, restarted,
                 dispatching, todo, failed>>

(* The next name is visited.  A script that another has removed meanwhile is  *)
(* an error.                                                                  *)
NextScript(i) ==
  /\ dispatching /\ inside = 0 /\ i \in todo
  /\ \/ /\ alive /\ i \in scripts
        /\ inside' = i /\ todo' = todo \ {i}
        /\ UNCHANGED <<dispatching, failed>>
     \/ ~(alive /\ i \in scripts) /\ DispatchFails
  /\ UNCHANGED <<alive, afterId, orphans, array, asked, restarted>>

ScriptEnds ==
  /\ inside # 0 /\ inside' = 0
  /\ UNCHANGED <<alive, afterId, orphans, array, dispatching, todo, asked,
                 failed, restarted>>

ScriptFails ==
  /\ inside # 0 /\ DispatchFails
  /\ UNCHANGED <<alive, afterId, orphans, array, asked, restarted>>

(* All have been visited.  The next event is scheduled, whatever the scripts  *)
(* have done to the timer.                                                    *)
Reschedule ==
  /\ dispatching /\ inside = 0 /\ todo = {}
  /\ \/ /\ alive
        /\ orphans' = IF afterId = "set" THEN orphans + 1 ELSE orphans
        /\ afterId' = "set"
        /\ dispatching' = FALSE
        /\ UNCHANGED <<todo, inside, failed>>
     \/ ~alive /\ DispatchFails /\ UNCHANGED <<afterId, orphans>>
  /\ UNCHANGED <<alive, array, asked, restarted>>

-----------------------------------------------------------------------------
Caller == Start \/ Stop \/ Add \/ (\E i \in Ids : Remove(i)) \/ Destroy
Dispatch == (\E i \in Ids : NextScript(i)) \/ ScriptEnds \/ Reschedule

Next == Caller \/ Fire \/ Dispatch \/ ScriptFails

(* Timers fire, the loop goes on, and a script comes to its end.  Nobody has  *)
(* to call a method.                                                          *)
Spec == Init /\ [][Next]_vars /\ WF_vars(Fire) /\ SF_vars(ScriptEnds)
             /\ WF_vars(Dispatch)

-----------------------------------------------------------------------------
Timers == orphans + (IF afterId = "set" THEN 1 ELSE 0)

(* There is one timer at most, and none while DispatchScripts runs, unless a  *)
(* script has called stop and then start: then its own timer is scheduled     *)
(* beside the one that DispatchScripts schedules.                             *)
OneTimer == ~restarted => Timers <= 1 /\ (dispatching => Timers = 0)

(* Nothing is polled after a stop, or after the object's end, unless it came  *)
(* from a script, whose dispatch schedules the next event all the same, or a  *)
(* script has restarted the timer before.                                     *)
StopStops ==
  ~wanted /\ ~undone /\ ~restarted /\ ~dispatching => Timers = 0

(* An object that polls, as far as its user knows, has a timer or is          *)
(* dispatching, unless an error has stopped it.  (Then start does nothing     *)
(* until stop has been called.)                                               *)
StartStarts == wanted /\ ~failed => dispatching \/ Timers > 0

(* A script that is registered for good is evaluated again and again, if the  *)
(* object polls and no script fails.                                          *)
ScriptsEvaluated ==
  \A i \in Ids :
    <>[](wanted /\ ~failed /\ i \in scripts) => []<>(inside = i)
=============================================================================
