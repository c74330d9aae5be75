--------------------------- MODULE CachedChannel ---------------------------
(* What a CChannel promises the command that uses it, every event being one   *)
(* step.  What is read is a value that the process variable had, each read    *)
(* after the one before; an event that is read notifies the slot; and a       *)
(* notification shows what is read when it is served.  Only beside the        *)
(* destructor may an event notify without being read.                         *)

CONSTANTS Values, NoValue

VARIABLES
  actual,    \* what the process variable holds
  posted,    \* the event that is arriving, or NoValue
  value,     \* what is read
  slot,      \* events notify
  notice,    \* a notification is queued
  shown,     \* what the last notification showed
  deleting   \* the channel is being deleted, or is gone

vars == <<actual, posted, value, slot, notice, shown, deleting>>

Init ==
  /\ actual \in Values /\ posted = NoValue /\ value = NoValue
  /\ slot = FALSE /\ notice = FALSE /\ shown = NoValue /\ deleting = FALSE

Change ==
  /\ actual' \in Values
  /\ UNCHANGED <<posted, value, slot, notice, shown, deleting>>

Post ==
  /\ posted = NoValue
  /\ posted' = actual
  /\ UNCHANGED <<actual, value, slot, notice, shown, deleting>>

Arrive ==
  /\ posted # NoValue
  /\ posted' = NoValue
  /\ value' = posted \/ (deleting /\ value' = value)
  /\ notice' = (notice \/ slot)
  /\ UNCHANGED <<actual, slot, shown, deleting>>

SetSlot ==
  /\ ~deleting
  /\ slot' \in BOOLEAN
  /\ UNCHANGED <<actual, posted, value, notice, shown, deleting>>

Serve ==
  /\ ~deleting /\ notice
  /\ notice' = FALSE
  /\ shown' = value
  /\ UNCHANGED <<actual, posted, value, slot, deleting>>

Delete ==
  /\ ~deleting
  /\ deleting' = TRUE
  /\ UNCHANGED <<actual, posted, value, slot, notice, shown>>

Next == Change \/ Post \/ Arrive \/ SetSlot \/ Serve \/ Delete

Spec == Init /\ [][Next]_vars
=============================================================================
