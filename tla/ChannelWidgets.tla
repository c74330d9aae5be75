--------------------------- MODULE ChannelWidgets ---------------------------
(* The widgets of an application that track one channel: epicsButton,         *)
(* epicsLed, epicsLabelWithUnits, epicsMeter and epicsSpinbox (which have a   *)
(* label with units inside), epicsTypeNGo, epicsEnumeratedControl; in         *)
(* src/*.tcl.  They share the channel command and one linked variable,        *)
(* ::controlwidget::<channel>, each with a reference of its own.  Displays    *)
(* are updated by write traces of the variable, which Tcl runs from the       *)
(* youngest to the oldest and no further than one that fails.  Controls load  *)
(* what the device is set to when they are made, and retry with a timer until *)
(* they can.                                                                  *)
(*                                                                            *)
(* There is one thread, and each callback is a step.  The command and the     *)
(* link are those of module EpicsCommands, which has their details; the units *)
(* are a second channel that is treated alike, and left out, and so are the   *)
(* Modicon points, which have no SETV to load.  Clicks of a button, which     *)
(* only put, change nothing here but by the channel's next update.  A put     *)
(* without a connection does nothing, and tells nobody.                       *)
(*                                                                            *)
(* A constructor that fails may take references that nobody gives back, or    *)
(* give back some that it has not taken: then a widget that lives has lost    *)
(* its channel or its link, and no more is said of what they all do.          *)
EXTENDS Integers, FiniteSets, Sequences

CONSTANTS
  Widgets,     \* the objects ever made; names are not used again
  KindsOf,     \* what kinds each may be of
  Values,      \* values of the channel
  On, Off,     \* those that are true, and false, to Tcl: numbers, and words
  Booleans,    \* of these, those that "string is boolean -strict" accepts,
               \* which of the numbers are 0 and 1
  Typed,       \* what the user enters
  Malformed,   \* what of that is no Tcl list, and cannot be put
  Settings,    \* what the device may be set to
  NoValue,     \* the empty string
  NotConnected \* the error of get

Kinds == {"button", "led", "label", "meter", "spin", "entry", "radio"}

ASSUME KindsAssumption == KindsOf \in [Widgets -> SUBSET Kinds]
ASSUME ValuesAssumption ==
  /\ On \cup Off \cup Typed \cup Settings \subseteq Values /\ On \cap Off = {}
  /\ Booleans \subseteq On \cup Off /\ Malformed \subseteq Typed
  /\ NoValue \notin Values /\ NotConnected \notin Values \cup {NoValue}
ASSUME WidgetsAssumption == IsFiniteSet(Widgets)

VARIABLES
  refs, links,  \* references of the channel command, and of the linked variable
  connected, value,
  fresh,        \* an event has come since the channel connected
  queued,       \* a change event is in the interpreter's queue
  var,          \* the linked variable
  setv,         \* what <channel>.SETV get returns
  traces,       \* the widgets whose write trace var has, the youngest first
  kind, alive,
  display,      \* what a button or a led looks like; the text of a label; where
                \* the needle of a meter points
  field,        \* what an entry, a spinbox or a radio matrix has for its value
  lastValue,    \* lastValue of an entry
  timer,        \* the widgets with a pending timer
  editing,      \* entries the user has typed in and not committed
  sent,         \* what each entry has last put, or loaded, or been set to
  unsent,       \* entries the last commit of which had no connection
  loaded,       \* controls that have loaded their field
  forced,       \* buttons set by a call of on, off or toggle
  overdrawn     \* a destructor has given back what was not its own

channel == <<refs, links, connected, value, fresh, queued>>
entries == <<lastValue, editing, sent, unsent>>
vars == <<channel, var, setv, traces, kind, alive, display, field, entries,
          timer, loaded, forced, overdrawn>>

Binary  == {"button", "led"}             \* kinds that show on or off
Labels  == {"label", "meter", "spin"}    \* kinds that are or have a label
Loaders == {"entry", "radio", "spin"}    \* kinds that load their field

Init ==
  /\ refs = 0 /\ links = 0 /\ connected = FALSE /\ value = NoValue
  /\ fresh = FALSE /\ queued = FALSE
  /\ var = NoValue /\ setv = NotConnected /\ traces = <<>>
  /\ kind = [w \in Widgets |-> "none"] /\ alive = {}
  /\ display = [w \in Widgets |-> NoValue]
  /\ field = [w \in Widgets |-> NoValue]
  /\ lastValue = [w \in Widgets |-> NoValue]
  /\ sent = [w \in Widgets |-> NoValue]
  /\ timer = {} /\ editing = {} /\ loaded = {} /\ forced = {}
  /\ unsent = {} /\ overdrawn = FALSE

(* Nothing has been given back that was not its owner's, nor is by this step. *)
Sound == ~overdrawn /\ UNCHANGED overdrawn

-----------------------------------------------------------------------------
(* Write traces. *)

(* A button's update is an error if the channel has a value that is neither   *)
(* true nor false; so is the trace of a widget that has been destroyed.       *)
Fails(w) ==
  \/ w \notin alive
  \/ kind[w] = "button" /\ connected /\ value \notin On \cup Off

(* What update shows on a button: what get returns then, not the variable.    *)
ButtonShows(w) ==
  IF ~connected THEN display[w] ELSE IF value \in On THEN "on" ELSE "off"

(* What varTrace shows on a led: what is no boolean is ignored, and that is   *)
(* so of the number 2 as it is of any text.                                   *)
LedShows(w, x) ==
  IF x \notin Booleans THEN display[w] ELSE IF x \in On THEN "on" ELSE "off"

(* The widgets whose traces do their work when the variable is written.       *)
Reached ==
  {traces[i] : i \in {j \in DOMAIN traces :
                        \A k \in 1..j : ~Fails(traces[k])}}

(* What a widget shows when var has become x.                                 *)
Shows(w, x) ==
  CASE kind[w] = "button" -> ButtonShows(w)
    [] kind[w] = "led"    -> LedShows(w, x)
    [] OTHER              -> x

(* Mutant: the traces run before the variable has its new value.              *)
Written_TracesFirst(x) ==
  /\ var' = x
  /\ display' = [w \in Widgets |->
                   IF w \in Reached THEN Shows(w, var) ELSE display[w]]
  /\ forced' = IF connected THEN forced \ Reached ELSE forced

(* The variable is written, and its traces run.                               *)
Written(x) ==
  /\ var' = x
  /\ display' = [w \in Widgets |->
                   IF w \in Reached THEN Shows(w, x) ELSE display[w]]
  /\ forced' = IF connected THEN forced \ Reached ELSE forced

-----------------------------------------------------------------------------
(* The channel. *)

Environment == UNCHANGED <<refs, links, setv, traces, kind, alive, field,
                           entries, timer, loaded>>

ConnectionUp ==
  /\ refs > 0 /\ ~connected /\ connected' = TRUE
  /\ UNCHANGED <<value, fresh, queued, var, display, forced>> /\ Environment

ConnectionDown ==
  /\ connected /\ connected' = FALSE /\ fresh' = FALSE
  /\ UNCHANGED <<value, queued, var, display, forced>> /\ Environment

(* An event: markChange queues a change if there is a variable to update.     *)
Update ==
  /\ connected /\ value' \in Values /\ fresh' = TRUE
  /\ queued' = (queued \/ links > 0)
  /\ UNCHANGED <<connected, var, display, forced>> /\ Environment

(* newEpicsValue gives the variable the value of the channel.                 *)
ServeChange ==
  /\ queued /\ queued' = FALSE
  /\ Written(value)
  /\ UNCHANGED <<connected, value, fresh>> /\ Environment

(* The channel <channel>.SETV connects, disconnects or has an event.          *)
SetvChanges ==
  /\ setv' \in Settings \cup {NoValue, NotConnected}
  /\ UNCHANGED <<channel, var, traces, kind, alive, display, field, entries,
                 timer, loaded, forced>>

-----------------------------------------------------------------------------
(* Constructors and destructors. *)

(* Every constructor makes the channel and links the variable, which the      *)
(* first link gives a value: no widget lives then to trace it.                *)
Takes(w, k) ==
  /\ k \in KindsOf[w] /\ kind[w] = "none"
  /\ refs' = refs + 1
  /\ links' = links + 1
  /\ IF links = 0 THEN var' = value ELSE UNCHANGED var
  /\ kind' = [kind EXCEPT ![w] = k]
  /\ UNCHANGED <<connected, value, fresh, queued, setv, entries, loaded,
                 forced>>

Tracks(w, k) == Takes(w, k) /\ alive' = alive \cup {w}

AddTrace(w) == traces' = <<w>> \o traces
Later(w)    == timer' = timer \cup {w}

(* A button and a led look off until their first update.                      *)
ConstructButton(w) ==
  /\ Tracks(w, "button")
  /\ display' = [display EXCEPT ![w] = "off"]
  /\ AddTrace(w) /\ Later(w) /\ UNCHANGED field

ConstructLed(w) ==
  /\ Tracks(w, "led")
  /\ display' = [display EXCEPT ![w] = "off"]
  /\ AddTrace(w) /\ Later(w) /\ UNCHANGED field

(* A label shows the variable at once.                                        *)
ConstructLabel(w) ==
  /\ Tracks(w, "label")
  /\ display' = [display EXCEPT ![w] = var']
  /\ AddTrace(w) /\ UNCHANGED <<timer, field>>

(* A meter makes a label, and moves its needle.                               *)
ConstructMeter(w) ==
  /\ Tracks(w, "meter")
  /\ display' = [display EXCEPT ![w] = var']
  /\ AddTrace(w) /\ UNCHANGED <<timer, field>>

ConstructSpin(w) ==
  /\ Tracks(w, "spin")
  /\ display' = [display EXCEPT ![w] = var']
  /\ AddTrace(w) /\ Later(w) /\ UNCHANGED field

(* An entry and a radio matrix have a Tk label on the variable, which traces  *)
(* nothing of theirs; the matrix is set to the variable.                      *)
ConstructEntry(w) ==
  /\ Tracks(w, "entry")
  /\ Later(w) /\ UNCHANGED <<traces, display, field>>

ConstructRadio(w) ==
  /\ Tracks(w, "radio")
  /\ field' = [field EXCEPT ![w] = var']
  /\ Later(w) /\ UNCHANGED <<traces, display>>

(* The options of the radio matrix contradict each other: its constructor     *)
(* fails, and so does that of the control, which has no destructor to give    *)
(* back what it has taken.                                                    *)
ConstructRadioFails(w) ==
  /\ Takes(w, "radio")
  /\ UNCHANGED <<alive, traces, display, field, timer>>

(* The traces when that of w has been removed.                                *)
WithoutTrace(w) ==
  LET i == CHOOSE j \in DOMAIN traces : traces[j] = w
  IN  SubSeq(traces, 1, i - 1) \o SubSeq(traces, i + 1, Len(traces))

(* Mutant: the destructor deletes the channel and leaves the link.            *)
DestroyLabel_KeepsLink(w) ==
  /\ traces' = IF kind[w] = "meter" THEN traces
               ELSE WithoutTrace(w)
  /\ refs' = refs - 1
  /\ UNCHANGED <<links, connected, value, fresh, queued>>

(* A link and a reference are given back; with the last one goes the channel. *)
(* (The event it may have queued is that of a destroyed command: module       *)
(* EpicsCommands.)                                                            *)
GiveBack ==
  /\ refs' = refs - 1 /\ links' = links - 1
  /\ IF refs = 1
       THEN /\ connected' = FALSE /\ value' = NoValue
            /\ fresh' = FALSE /\ queued' = FALSE
       ELSE UNCHANGED <<connected, value, fresh, queued>>

(* The destructor of a label, those inside a spinbox and a meter too, removes *)
(* its trace; the trace of a meter's needle stays.                            *)
DestroyLabel(w) ==
  /\ traces' = IF kind[w] = "meter" THEN traces
               ELSE WithoutTrace(w)
  /\ GiveBack

(* A label has been given its channel, and then an option there is not: the   *)
(* constructor fails before it has taken anything, and the destructor runs.   *)
(* It unlinks the variable, if another widget has linked it; and where the    *)
(* channel of the units is there too, as it is with another label, it comes   *)
(* to delete the channels.                                                    *)
ConstructLabelFails(w) ==
  /\ "label" \in KindsOf[w] /\ kind[w] = "none" /\ refs > 0
  /\ ~overdrawn /\ overdrawn' = TRUE
  /\ IF \E v \in alive : kind[v] \in Labels
       THEN GiveBack
       ELSE links' = links - 1
            /\ UNCHANGED <<refs, connected, value, fresh, queued>>
  /\ UNCHANGED <<var, setv, traces, kind, alive, display, field, entries,
                 timer, loaded, forced>>

(* An entry cancels its timer.  The others have no destructor: what they      *)
(* linked, traced and scheduled stays; what they show and remember goes.      *)
Destroy(w) ==
  /\ Sound
  /\ w \in alive /\ alive' = alive \ {w}
  /\ IF kind[w] \in Labels THEN DestroyLabel(w)
     ELSE UNCHANGED <<channel, traces>>
  /\ timer' = IF kind[w] = "entry" THEN timer \ {w} ELSE timer
  /\ display' = [display EXCEPT ![w] = NoValue]
  /\ field' = [field EXCEPT ![w] = NoValue]
  /\ lastValue' = [lastValue EXCEPT ![w] = NoValue]
  /\ sent' = [sent EXCEPT ![w] = NoValue]
  /\ editing' = editing \ {w} /\ unsent' = unsent \ {w}
  /\ loaded' = loaded \ {w} /\ forced' = forced \ {w}
  /\ UNCHANGED <<var, setv, kind>>

-----------------------------------------------------------------------------
(* Timers. *)

TimerUnused == UNCHANGED <<channel, var, setv, traces, kind, alive>>

(* The callback of a widget that is gone is an error, and the last.           *)
LateTimer(w) ==
  /\ w \in timer \ alive
  /\ timer' = timer \ {w}
  /\ TimerUnused /\ UNCHANGED <<display, field, entries, loaded, forced>>

(* The first update of a button or a led.                                     *)
FirstUpdate(w) ==
  /\ w \in timer \cap alive /\ kind[w] \in Binary
  /\ timer' = timer \ {w}
  /\ display' = IF Fails(w) THEN display
                ELSE [display EXCEPT ![w] = Shows(w, var)]
  /\ forced' = IF connected /\ ~Fails(w) THEN forced \ {w} ELSE forced
  /\ TimerUnused /\ UNCHANGED <<field, entries, loaded>>

(* What a control reads for its setting: a spinbox reads the channel.         *)
Reading(w) ==
  IF kind[w] # "spin" THEN setv ELSE IF connected THEN value ELSE NotConnected

Loads(w) ==
  /\ timer' = timer \ {w} /\ loaded' = loaded \cup {w}
  /\ TimerUnused /\ UNCHANGED <<display, forced>>

(* Set of typeNGo, which does not commit.                                     *)
SetEntry(w, x) ==
  /\ field' = [field EXCEPT ![w] = x]
  /\ lastValue' = [lastValue EXCEPT ![w] = x]
  /\ editing' = editing \ {w}

(* An entry gets a value that nobody has typed.                               *)
Given(w, x) ==
  /\ SetEntry(w, x)
  /\ sent' = [sent EXCEPT ![w] = x] /\ unsent' = unsent \ {w}

(* Mutant: an empty setting is taken for one.                                 *)
LoadEntry_TakesEmpty(w) ==
  /\ w \in timer \cap alive /\ kind[w] = "entry"
  /\ setv # NotConnected
  /\ Given(w, setv)
  /\ timer' = timer \ {w}
  /\ loaded' = IF setv \in Values THEN loaded \cup {w} ELSE loaded
  /\ TimerUnused /\ UNCHANGED <<display, forced>>

(* loadEntry: an error or an empty setting changes nothing, and is tried      *)
(* again.                                                                     *)
LoadEntry(w) ==
  /\ w \in timer \cap alive /\ kind[w] = "entry"
  /\ setv \in Values
  /\ Given(w, setv)
  /\ Loads(w)

(* updateRadio: so too.                                                       *)
UpdateRadio(w) ==
  /\ w \in timer \cap alive /\ kind[w] = "radio"
  /\ setv \in Values
  /\ field' = [field EXCEPT ![w] = setv]
  /\ Loads(w) /\ UNCHANGED entries

(* getValue: an empty value is shown, and tried again.                        *)
GetValue(w) ==
  /\ w \in timer \cap alive /\ kind[w] = "spin" /\ connected
  /\ field' = [field EXCEPT ![w] = value]
  /\ IF value # NoValue
       THEN Loads(w)
       ELSE TimerUnused /\ UNCHANGED <<timer, loaded, display, forced>>
  /\ UNCHANGED entries

-----------------------------------------------------------------------------
(* The user, and the program. *)

UserUnused == UNCHANGED <<channel, var, setv, traces, kind, alive, timer,
                          loaded>>

(* on, off and toggle of a button, which do not put.                          *)
SetButton(w, s) ==
  /\ w \in alive /\ kind[w] = "button"
  /\ display' = [display EXCEPT ![w] = s]
  /\ forced' = forced \cup {w}
  /\ UserUnused /\ UNCHANGED <<field, entries>>

(* on and off of a led write 1 and 0 to the variable, whose traces run; that  *)
(* of the link puts.                                                          *)
SetLed(w, x) ==
  /\ w \in alive /\ kind[w] = "led"
  /\ Written(x)
  /\ UNCHANGED <<channel, setv, traces, kind, alive, timer, loaded, field,
                 entries>>

(* A radio button or an arrow has been clicked: Tk sets the field, and stays  *)
(* with it, be it put or not for want of a connection.                        *)
Select(w, x) ==
  /\ w \in alive /\ kind[w] \in {"radio", "spin"}
  /\ field' = [field EXCEPT ![w] = x]
  /\ UserUnused /\ UNCHANGED <<entries, display, forced>>

Type(w, x) ==
  /\ w \in alive /\ kind[w] = "entry"
  /\ field' = [field EXCEPT ![w] = x]
  /\ editing' = editing \cup {w}
  /\ UserUnused /\ UNCHANGED <<lastValue, sent, unsent, display, forced>>

(* A script calls Set of an entry.                                            *)
Set(w, x) ==
  /\ w \in alive /\ kind[w] = "entry"
  /\ Given(w, x)
  /\ UserUnused /\ UNCHANGED <<display, forced>>

(* restoreLast: the focus leaves the entry, or what it has is not valid.      *)
RestoreLast(w) ==
  /\ w \in alive /\ kind[w] = "entry"
  /\ SetEntry(w, lastValue[w])
  /\ UserUnused /\ UNCHANGED <<sent, unsent, display, forced>>

(* What was put went to the device, if there was a connection.                *)
Put(w) ==
  IF connected
    THEN sent' = [sent EXCEPT ![w] = field[w]] /\ unsent' = unsent \ {w}
    ELSE unsent' = unsent \cup {w} /\ UNCHANGED sent

(* Mutant: the value is remembered before it has been put.                    *)
Commit_RemembersFirst(w) ==
  /\ w \in alive /\ kind[w] = "entry"
  /\ lastValue' = [lastValue EXCEPT ![w] = field[w]]
  /\ IF field[w] \in Malformed
       THEN UNCHANGED <<editing, sent, unsent>>
       ELSE editing' = editing \ {w} /\ Put(w)
  /\ UserUnused /\ UNCHANGED <<field, display, forced>>

(* onClick, of something valid: put, and then remembered.  What is no list is *)
(* an error of set, and is not remembered; without a connection set does      *)
(* nothing, says nothing, and the value is remembered all the same.           *)
Commit(w) ==
  /\ w \in alive /\ kind[w] = "entry" /\ field[w] \notin Malformed
  /\ lastValue' = [lastValue EXCEPT ![w] = field[w]]
  /\ editing' = editing \ {w}
  /\ Put(w)
  /\ UserUnused /\ UNCHANGED <<field, display, forced>>

-----------------------------------------------------------------------------
Channel == /\ Sound
           /\ \/ ConnectionUp \/ ConnectionDown \/ Update \/ ServeChange
              \/ SetvChanges
Construct(w) ==
  /\ Sound
  /\ \/ ConstructButton(w) \/ ConstructLed(w) \/ ConstructLabel(w)
     \/ ConstructMeter(w) \/ ConstructSpin(w) \/ ConstructEntry(w)
     \/ ConstructRadio(w) \/ ConstructRadioFails(w)
Timer(w) ==
  /\ Sound
  /\ \/ LateTimer(w) \/ FirstUpdate(w)
     \/ LoadEntry(w) \/ UpdateRadio(w) \/ GetValue(w)
User(w) ==
  /\ Sound
  /\ \/ \E s \in {"on", "off"} : SetButton(w, s)
     \/ \E x \in Booleans : SetLed(w, x)
     \/ \E x \in Typed : Select(w, x) \/ Type(w, x) \/ Set(w, x)
     \/ RestoreLast(w) \/ Commit(w)

Next ==
  \/ Channel
  \/ \E w \in Widgets :
       \/ Construct(w) \/ Destroy(w) \/ Timer(w) \/ User(w)
       \/ ConstructLabelFails(w)

(* Tcl's event loop serves the timers.                                        *)
Spec == Init /\ [][Next]_vars /\ \A w \in Widgets : WF_vars(Timer(w))

-----------------------------------------------------------------------------
(* Who has a reference: each widget that lives, and each that had no          *)
(* destructor to give it back.                                                *)
Holders == {w \in Widgets : w \in alive \/ kind[w] \in Kinds \ Labels}

(* The references are exact: the channel has one, and the variable has one,   *)
(* of each widget that holds them.  So no destructor takes the channel or the *)
(* variable from a widget that still needs them; when all are gone, nothing   *)
(* is left.  The exception is a label that could not be made.                 *)
ReferencesExact ==
  overdrawn \/
    /\ refs = Cardinality(Holders)
    /\ links = refs
    /\ refs = 0 => ~connected /\ ~queued

(* No younger trace has failed, or will, before that of w: none is of a       *)
(* destroyed widget, and none of a button that cannot show the value.         *)
Unobstructed(w) ==
  \E j \in DOMAIN traces :
    /\ traces[j] = w
    /\ \A i \in 1..(j - 1) :
         /\ traces[i] \in alive
         /\ kind[traces[i]] = "button" => value \in On \cup Off

(* When no change is queued the widgets of the channel agree, whatever came   *)
(* and went meanwhile: labels and meters show the variable, leds do if it is  *)
(* a boolean, and buttons show what the channel has sent on this connection.  *)
(* The exceptions are widgets older than one whose trace fails, and buttons   *)
(* that were told to look otherwise.                                          *)
DisplaysAgree ==
  ~queued /\ ~overdrawn =>
    \A w \in alive :
      Unobstructed(w) =>
        CASE kind[w] \in Labels -> display[w] = var
          [] kind[w] = "led"    ->
               var \in Booleans /\ w \notin timer =>
                 display[w] = IF var \in On THEN "on" ELSE "off"
          [] kind[w] = "button" ->
               connected /\ fresh /\ value \in On \cup Off
                   /\ w \notin timer \cup forced
                 => display[w] = ButtonShows(w)

(* An entry that is not being edited shows what it has put, loaded or been    *)
(* set to last: what the user typed and did not commit, what is not valid,    *)
(* and what was no list and could not be put, goes when the focus does.  (A   *)
(* load that comes late replaces what the user has typed or put.)  The        *)
(* exception is an entry whose last commit found no connection.               *)
EntryShowsLastSent ==
  \A w \in alive \ (editing \cup unsent) :
    kind[w] = "entry" => field[w] = sent[w]

(* A control that cannot load its setting at first, because it is not         *)
(* connected or has no value, does when it has both, if it lives so long.     *)
SettingsLoad ==
  \A w \in Widgets :
    <>[](Reading(w) \in Values) =>
      [](w \in alive /\ kind[w] \in Loaders
           => <>(w \in loaded \/ w \notin alive \/ overdrawn))
=============================================================================
