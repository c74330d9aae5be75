---------------------------- MODULE EpicsChannel ----------------------------
(* The CChannel object of src/CChannel.cpp: one EPICS channel shared by the   *)
(* interpreter's thread, which calls its methods and in the end its           *)
(* destructor, and by the Channel Access (CA) callback thread, which runs     *)
(* StateHandler and UpdateHandler.                                            *)
(*                                                                            *)
(* m_Monitor is a recursive mutex.  A method that does all its work under it  *)
(* is one action, guarded by MonitorFree.  What is done in several steps is   *)
(* what another thread can see between them: the handlers, because the        *)
(* destructor, getAllowedValues, size and the vector operator= look at the    *)
(* object without the mutex, and those methods themselves.                    *)
(*                                                                            *)
(* A converter is an address in Converters; heap gives the EPICS type of the  *)
(* converter object that lives there, or Free.  fault records that the        *)
(* program has used an invalid pointer or has let an exception out of the     *)
(* command; nothing is claimed about what it does after that.                 *)

CONSTANTS
  Values,       \* what the process variable can hold
  Types,        \* EPICS field types, hence kinds of converter
  Converters,   \* addresses a converter can be allocated at
  Operations,   \* the methods the interpreter calls
  NULL, Free, NoValue, Garbage

AllOperations ==
  {"connect", "slot", "get", "size", "values", "put", "putVector", "delete"}

ASSUME DistinctAssumption ==
  /\ NULL \notin Converters \cup Types \cup Values
  /\ Free \notin Types
  /\ NoValue \notin Values
  /\ Garbage \notin Values \cup {NoValue}

ASSUME OperationsAssumption == Operations \subseteq AllOperations

VARIABLES
  \* the members of CChannel
  connected,    \* m_fConnected
  converter,    \* m_pConverter
  established,  \* m_fUpdateHandlerEstablished
  value,        \* m_sValue
  vector,       \* m_VectorValue, named by the reading it was made from
  slot,         \* m_pHandler is not null
  alive,        \* the object and its mutex exist
  heap,         \* what is allocated at each address
  \* Channel Access
  chid,         \* "none", "open" (created) or "cleared"
  told,         \* CA's last connection callback was CA_OP_CONN_UP
  ftype,        \* ca_field_type
  subscription, \* the type asked for by the active subscription, or NULL
  fresh,        \* the subscription has an event to deliver
  pv,           \* the process variable in the IOC
  request,      \* a put on its way to the IOC, or NULL
  \* the two threads
  tclPc,        \* where the interpreter's thread is
  saved,        \* the destructor's local variable converter
  caPc,         \* where the CA callback thread is
  event,        \* the event_handler_args of the update being handled
  \* the user of the slot
  notice,       \* the slot function has queued a notification
  shown,        \* what the interpreter last showed on a notification
  fault

chan == <<connected, converter, established, value, vector, slot, alive, heap>>
ca   == <<chid, told, ftype, subscription, fresh, pv, request>>
user == <<notice, shown>>
vars == <<chan, ca, user, tclPc, saved, caPc, event, fault>>

Entering   == {"up_enter", "down_enter", "update_enter"}
InMonitor  == {"up_convert", "up_subscribe", "down_delete", "down_null",
               "update_value", "update_vector", "update_slot"}
InUpdate   == {"update_enter", "update_value", "update_vector"}
Destroying == {"destroy_null", "destroy_clear", "destroy_converter",
               "destroy_mutex", "dead"}
TclPcs     == {"idle", "get_vector", "size_count", "values_deref",
               "put_vector"} \cup Destroying

MonitorFree == caPc \notin InMonitor
Running     == fault = "none"
Idle        == Running /\ tclPc = "idle"
Live        == {a \in Converters : heap[a] # Free}
Wild(p)     == p \notin Live

Events == [type : Types, value : Values, normal : BOOLEAN]

Init ==
  /\ connected = FALSE /\ converter = NULL /\ established = FALSE
  /\ value = NoValue /\ vector = NoValue /\ slot = FALSE /\ alive = TRUE
  /\ heap = [a \in Converters |-> Free]
  /\ chid = "none" /\ told = FALSE /\ ftype \in Types
  /\ subscription = NULL /\ fresh = FALSE /\ pv \in Values /\ request = NULL
  /\ tclPc = "idle" /\ saved = NULL /\ caPc = "idle" /\ event = NULL
  /\ notice = FALSE /\ shown = NoValue /\ fault = "none"

-----------------------------------------------------------------------------
(* Channel Access and the IOC. *)

(* The IOC comes (back) up, perhaps with the record changed to another type,  *)
(* and CA calls StateHandler with CA_OP_CONN_UP.                              *)
ConnectionUp ==
  /\ Running /\ caPc = "idle" /\ chid = "open" /\ ~told
  /\ told' = TRUE
  /\ ftype' \in Types
  /\ caPc' = "up_enter"
  /\ UNCHANGED <<chan, user, chid, subscription, fresh, pv, request, tclPc,
                 saved, event, fault>>

(* The IOC or the network goes away; what is under way is lost and CA calls   *)
(* StateHandler with CA_OP_CONN_DOWN.                                         *)
ConnectionDown ==
  /\ Running /\ caPc = "idle" /\ chid = "open" /\ told
  /\ told' = FALSE
  /\ fresh' = FALSE
  /\ request' = NULL
  /\ caPc' = "down_enter"
  /\ UNCHANGED <<chan, user, chid, ftype, subscription, pv, tclPc, saved,
                 event, fault>>

(* CA calls UpdateHandler, with the posted value or, the status not being     *)
(* ECA_NORMAL, with nothing usable.                                           *)
DeliverUpdate ==
  /\ Running /\ caPc = "idle" /\ chid = "open" /\ told /\ subscription # NULL
  /\ \E normal \in BOOLEAN :
       /\ normal => fresh
       /\ fresh' = (fresh /\ ~normal)
       /\ event' = [type |-> subscription, value |-> pv, normal |-> normal]
  /\ caPc' = "update_enter"
  /\ UNCHANGED <<chan, user, chid, told, ftype, subscription, pv, request,
                 tclPc, saved, fault>>

(* The process variable changes and the subscription gets an event for it.    *)
PvChange ==
  /\ Running
  /\ pv' \in Values \ {pv}
  /\ fresh' = (told /\ subscription # NULL)
  /\ UNCHANGED <<chan, user, chid, told, ftype, subscription, request, tclPc,
                 saved, caPc, event, fault>>

(* The IOC applies a put.                                                     *)
PvPut ==
  /\ Running /\ request # NULL
  /\ pv' = request
  /\ request' = NULL
  /\ fresh' = (told /\ subscription # NULL)
  /\ UNCHANGED <<chan, user, chid, told, ftype, subscription, tclPc, saved,
                 caPc, event, fault>>

-----------------------------------------------------------------------------
(* CChannel::StateHandler, in the CA callback thread. *)

StateHandlerUp ==
  /\ Running /\ alive /\ caPc = "up_enter"
  /\ connected' = TRUE
  /\ caPc' = "up_convert"
  /\ UNCHANGED <<converter, established, value, vector, slot, alive, heap, ca,
                 user, tclPc, saved, event, fault>>

UpConvert ==
  /\ Running /\ alive /\ caPc = "up_convert"
  /\ \/ /\ converter # NULL
        /\ UNCHANGED <<converter, heap>>
     \/ /\ converter = NULL
        /\ converter' \in Converters \ Live
        /\ heap' = [heap EXCEPT ![converter'] = ftype]
  /\ caPc' = "up_subscribe"
  /\ UNCHANGED <<connected, established, value, vector, slot, alive, ca, user,
                 tclPc, saved, event, fault>>

(* requestType() is called through m_pConverter; a subscription on a channel  *)
(* that has been cleared is refused.                                          *)
UpSubscribe ==
  /\ Running /\ alive /\ caPc = "up_subscribe"
  /\ \/ /\ established
        /\ UNCHANGED <<established, subscription, fresh>>
     \/ /\ ~established /\ ~Wild(converter)
        /\ established' = TRUE
        /\ subscription' = IF chid = "open" THEN heap[converter] ELSE NULL
        /\ fresh' = (chid = "open")
  /\ caPc' = "idle"
  /\ UNCHANGED <<connected, converter, value, vector, slot, alive, heap, user,
                 chid, told, ftype, pv, request, tclPc, saved, event, fault>>

(* Mutant: the update handler is still said to be established.                *)
StateHandlerDown_KeepsHandler ==
  /\ Running /\ alive /\ caPc = "down_enter"
  /\ connected' = FALSE
  /\ subscription' = NULL
  /\ caPc' = "down_delete"
  /\ UNCHANGED <<converter, established, value, vector, slot, alive, heap, user, chid, told,
                 ftype, fresh, pv, request, tclPc, saved, event, fault>>

StateHandlerDown ==
  /\ Running /\ alive /\ caPc = "down_enter"
  /\ connected' = FALSE
  /\ subscription' = NULL
  /\ established' = FALSE
  /\ caPc' = "down_delete"
  /\ UNCHANGED <<converter, value, vector, slot, alive, heap, user, chid, told,
                 ftype, fresh, pv, request, tclPc, saved, event, fault>>

(* Mutant: the converter is not deleted.                                      *)
DownDelete_Leaks ==
  /\ Running /\ alive /\ caPc = "down_delete"
  /\ \/ /\ converter = NULL
        /\ UNCHANGED heap
     \/ /\ ~Wild(converter)
        /\ UNCHANGED heap
  /\ caPc' = "down_null"
  /\ UNCHANGED <<connected, converter, established, value, vector, slot, alive,
                 ca, user, tclPc, saved, event, fault>>

DownDelete ==
  /\ Running /\ alive /\ caPc = "down_delete"
  /\ \/ /\ converter = NULL
        /\ UNCHANGED heap
     \/ /\ ~Wild(converter)
        /\ heap' = [heap EXCEPT ![converter] = Free]
  /\ caPc' = "down_null"
  /\ UNCHANGED <<connected, converter, established, value, vector, slot, alive,
                 ca, user, tclPc, saved, event, fault>>

(* Mutant: the pointer to the deleted converter is kept.                      *)
DownNull_Dangles ==
  /\ Running /\ alive /\ caPc = "down_null"
  /\ caPc' = "idle"
  /\ UNCHANGED <<connected, converter, established, value, vector, slot, alive,
                 heap, ca, user, tclPc, saved, event, fault>>

DownNull ==
  /\ Running /\ alive /\ caPc = "down_null"
  /\ converter' = NULL
  /\ caPc' = "idle"
  /\ UNCHANGED <<connected, established, value, vector, slot, alive, heap, ca,
                 user, tclPc, saved, event, fault>>

-----------------------------------------------------------------------------
(* CChannel::UpdateHandler and Update, in the CA callback thread. *)

(* Mutant: the event_handler_args are taken for the data they point to.       *)
Decode_WholeEvent(type, e) ==
  IF type = e.type THEN e ELSE Garbage

(* What a converter makes of an event: it casts the event's data to the       *)
(* structure of its own type, and the data is there only if the status is     *)
(* ECA_NORMAL.                                                                *)
Decode(type, e) ==
  IF type = e.type /\ e.normal THEN e.value ELSE Garbage

(* Mutant: the status of the event is not looked at.                          *)
UpdateHandler_AnyStatus ==
  /\ Running /\ alive /\ caPc = "update_enter"
  /\ caPc' = IF converter # NULL THEN "update_value" ELSE "update_slot"
  /\ UNCHANGED <<chan, ca, user, tclPc, saved, event, fault>>

UpdateHandler ==
  /\ Running /\ alive /\ caPc = "update_enter"
  /\ caPc' = CASE ~event.normal                    -> "idle"
               [] event.normal /\ converter # NULL -> "update_value"
               [] event.normal /\ converter = NULL -> "update_slot"
  /\ UNCHANGED <<chan, ca, user, tclPc, saved, event, fault>>

UpdateValue ==
  /\ Running /\ alive /\ caPc = "update_value" /\ ~Wild(converter)
  /\ value' = Decode(heap[converter], event)
  /\ caPc' = "update_vector"
  /\ UNCHANGED <<connected, converter, established, vector, slot, alive, heap,
                 ca, user, tclPc, saved, event, fault>>

(* Mutant: the vector keeps the reading before.                               *)
UpdateVector_Stale ==
  /\ Running /\ alive /\ caPc = "update_vector" /\ ~Wild(converter)
  /\ UNCHANGED vector
  /\ caPc' = "update_slot"
  /\ UNCHANGED <<connected, converter, established, value, slot, alive, heap,
                 ca, user, tclPc, saved, event, fault>>

UpdateVector ==
  /\ Running /\ alive /\ caPc = "update_vector" /\ ~Wild(converter)
  /\ vector' = Decode(heap[converter], event)
  /\ caPc' = "update_slot"
  /\ UNCHANGED <<connected, converter, established, value, slot, alive, heap,
                 ca, user, tclPc, saved, event, fault>>

(* Mutant: the slot is called on the branch without a converter.              *)
UpdateSlot_InElse ==
  /\ Running /\ alive /\ caPc = "update_slot"
  /\ notice' = (notice \/ (slot /\ converter = NULL))
  /\ caPc' = "idle"
  /\ UNCHANGED <<chan, ca, shown, tclPc, saved, event, fault>>

(* The slot is called with the mutex held, whether there is a converter or    *)
(* not.                                                                       *)
UpdateSlot ==
  /\ Running /\ alive /\ caPc = "update_slot"
  /\ notice' = (notice \/ slot)
  /\ caPc' = "idle"
  /\ UNCHANGED <<chan, ca, shown, tclPc, saved, event, fault>>

-----------------------------------------------------------------------------
(* The methods, in the interpreter's thread. *)

(* The command's constructor connects the channel before anything else.       *)
Called(op) == Idle /\ op \in Operations /\ (chid = "none" => op = "connect")

Connect ==
  /\ Called("connect") /\ MonitorFree /\ chid = "none"
  /\ chid' = "open"
  /\ UNCHANGED <<chan, user, told, ftype, subscription, fresh, pv, request,
                 tclPc, saved, caPc, event, fault>>

(* Mutant: the mutex is not taken.                                            *)
SetSlot_Unlocked ==
  /\ Called("slot")
  /\ slot' \in BOOLEAN
  /\ UNCHANGED <<connected, converter, established, value, vector, alive, heap,
                 ca, user, tclPc, saved, caPc, event, fault>>

SetSlot ==
  /\ Called("slot") /\ MonitorFree
  /\ slot' \in BOOLEAN
  /\ UNCHANGED <<connected, converter, established, value, vector, alive, heap,
                 ca, user, tclPc, saved, caPc, event, fault>>

(* The interpreter serves a notification: it reads getValue().                *)
TakeNotice ==
  /\ Idle /\ MonitorFree /\ notice
  /\ notice' = FALSE
  /\ shown' = value
  /\ UNCHANGED <<chan, ca, tclPc, saved, caPc, event, fault>>

(* The get subcommand: isConnected(), then getVector().                       *)
Get ==
  /\ Called("get") /\ MonitorFree /\ connected
  /\ tclPc' = "get_vector"
  /\ UNCHANGED <<chan, ca, user, saved, caPc, event, fault>>

GetVector ==
  /\ Running /\ tclPc = "get_vector" /\ MonitorFree
  /\ \/ connected /\ tclPc' = "idle" /\ UNCHANGED fault
     \/ ~connected /\ fault' = "escaped" /\ UNCHANGED tclPc
  /\ UNCHANGED <<chan, ca, user, saved, caPc, event>>

(* The size subcommand: isConnected(), then size(), which takes no lock.      *)
Size ==
  /\ Called("size") /\ MonitorFree /\ connected
  /\ tclPc' = "size_count"
  /\ UNCHANGED <<chan, ca, user, saved, caPc, event, fault>>

SizeCount ==
  /\ Running /\ tclPc = "size_count"
  /\ \/ connected /\ tclPc' = "idle" /\ UNCHANGED fault
     \/ ~connected /\ fault' = "escaped" /\ UNCHANGED tclPc
  /\ UNCHANGED <<chan, ca, user, saved, caPc, event>>

(* getAllowedValues takes no lock: it tests m_pConverter, then uses it.       *)
GetAllowedValues ==
  /\ Called("values") /\ converter # NULL
  /\ tclPc' = "values_deref"
  /\ UNCHANGED <<chan, ca, user, saved, caPc, event, fault>>

AllowedValues ==
  /\ Running /\ tclPc = "values_deref" /\ ~Wild(converter)
  /\ tclPc' = "idle"
  /\ UNCHANGED <<chan, ca, user, saved, caPc, event, fault>>

(* ca_put, then ca_flush_io: CA takes the request if it has the channel       *)
(* connected; the status is ignored.  Of the requests on their way only the   *)
(* last is kept: what the others do to the process variable, PvChange does.   *)
CaPut == request' \in IF told THEN Values ELSE {NULL}

(* operator=(string), (int) and (double): the test is under the mutex.        *)
PutScalar ==
  /\ Called("put") /\ MonitorFree /\ connected
  /\ CaPut
  /\ UNCHANGED <<chan, user, chid, told, ftype, subscription, fresh, pv, tclPc,
                 saved, caPc, event, fault>>

(* operator=(vector<...>): the test comes before the mutex is taken.          *)
TestPutVector ==
  /\ Called("putVector") /\ connected
  /\ tclPc' = "put_vector"
  /\ UNCHANGED <<chan, ca, user, saved, caPc, event, fault>>

PutVector ==
  /\ Running /\ tclPc = "put_vector" /\ MonitorFree
  /\ CaPut
  /\ tclPc' = "idle"
  /\ UNCHANGED <<chan, user, chid, told, ftype, subscription, fresh, pv, saved,
                 caPc, event, fault>>

-----------------------------------------------------------------------------
(* CChannel::~CChannel, in the interpreter's thread.  The doEvents(0.1) that  *)
(* lets events run down gives the CA thread time and promises nothing, so it  *)
(* is the wait between destroy_clear and destroy_converter.                   *)

DestroySave ==
  /\ Called("delete")
  /\ saved' = converter
  /\ tclPc' = "destroy_null"
  /\ UNCHANGED <<chan, ca, user, caPc, event, fault>>

DestroyNull ==
  /\ Running /\ tclPc = "destroy_null"
  /\ converter' = NULL
  /\ tclPc' = "destroy_clear"
  /\ UNCHANGED <<connected, established, value, vector, slot, alive, heap, ca,
                 user, saved, caPc, event, fault>>

DestroyClear ==
  /\ Running /\ tclPc = "destroy_clear" /\ MonitorFree
  /\ IF connected \/ established
     THEN subscription' = NULL /\ fresh' = FALSE
     ELSE UNCHANGED <<subscription, fresh>>
  /\ chid' = "cleared"
  /\ tclPc' = "destroy_converter"
  /\ UNCHANGED <<chan, user, told, ftype, pv, request, saved, caPc, event,
                 fault>>

DestroyConverter ==
  /\ Running /\ tclPc = "destroy_converter" /\ MonitorFree
  /\ \/ saved = NULL /\ UNCHANGED heap
     \/ ~Wild(saved) /\ heap' = [heap EXCEPT ![saved] = Free]
  /\ tclPc' = "destroy_mutex"
  /\ UNCHANGED <<connected, converter, established, value, vector, slot, alive,
                 ca, user, saved, caPc, event, fault>>

DestroyMutex ==
  /\ Running /\ tclPc = "destroy_mutex"
  /\ alive' = FALSE
  /\ tclPc' = "dead"
  /\ UNCHANGED <<connected, converter, established, value, vector, slot, heap,
                 ca, user, saved, caPc, event, fault>>

-----------------------------------------------------------------------------
(* A pointer that is used while it is null or while nothing lives behind it:  *)
(* m_pConverter in the handlers and in getAllowedValues, the two deletes, and *)
(* the CChannel itself in a handler.                                          *)
BadAccess ==
  \/ alive /\ caPc = "up_subscribe" /\ ~established /\ Wild(converter)
  \/ alive /\ caPc = "down_delete" /\ converter # NULL /\ Wild(converter)
  \/ alive /\ caPc \in {"update_value", "update_vector"} /\ Wild(converter)
  \/ ~alive /\ caPc # "idle"
  \/ tclPc = "values_deref" /\ Wild(converter)
  \/ tclPc = "destroy_converter" /\ MonitorFree /\ saved # NULL /\ Wild(saved)

Crash ==
  /\ Running /\ BadAccess
  /\ fault' = "memory"
  /\ UNCHANGED <<chan, ca, user, tclPc, saved, caPc, event>>

StateHandler ==
  \/ StateHandlerUp \/ UpConvert \/ UpSubscribe
  \/ StateHandlerDown \/ DownDelete \/ DownNull

Update == UpdateHandler \/ UpdateValue \/ UpdateVector \/ UpdateSlot

Environment ==
  ConnectionUp \/ ConnectionDown \/ DeliverUpdate \/ PvChange \/ PvPut

FinishMethod == GetVector \/ SizeCount \/ AllowedValues \/ PutVector

StartMethod ==
  Connect \/ SetSlot \/ Get \/ Size \/ GetAllowedValues \/ PutScalar
          \/ TestPutVector

Destroy ==
  DestroySave \/ DestroyNull \/ DestroyClear \/ DestroyConverter \/ DestroyMutex

Next ==
  \/ Environment \/ StateHandler \/ Update
  \/ StartMethod \/ FinishMethod \/ TakeNotice \/ Destroy \/ Crash

Spec == Init /\ [][Next]_vars

(* A callback that has been entered runs to its end and a method that has     *)
(* been called returns.  CA delivers a posted value however many events       *)
(* without data it delivers too (strong: each of them keeps the thread busy   *)
(* for a while), and the interpreter serves its queue however many commands   *)
(* it runs (strong: between two commands the queue is looked at, not waited   *)
(* on).  The IOC owes nothing: it may be silent and need not apply a put.     *)
Fairness ==
  /\ WF_vars(StateHandler) /\ WF_vars(Update)
  /\ SF_vars(DeliverUpdate /\ event'.normal)
  /\ WF_vars(FinishMethod)
  /\ SF_vars(TakeNotice)

FairSpec == Spec /\ Fairness
-----------------------------------------------------------------------------
(* Properties. *)

(* Every variable has its type.                                               *)
TypeOK ==
  /\ connected \in BOOLEAN /\ established \in BOOLEAN
  /\ slot \in BOOLEAN /\ alive \in BOOLEAN
  /\ converter \in Converters \cup {NULL} /\ saved \in Converters \cup {NULL}
  /\ heap \in [Converters -> Types \cup {Free}]
  /\ {value, vector, shown} \subseteq Values \cup {NoValue, Garbage}
  /\ chid \in {"none", "open", "cleared"} /\ told \in BOOLEAN
  /\ ftype \in Types /\ subscription \in Types \cup {NULL}
  /\ fresh \in BOOLEAN /\ pv \in Values /\ request \in Values \cup {NULL}
  /\ tclPc \in TclPcs /\ caPc \in Entering \cup InMonitor \cup {"idle"}
  /\ event \in IF caPc \in InUpdate THEN Events ELSE Events \cup {NULL}
  /\ notice \in BOOLEAN
  /\ fault \in {"none", "escaped", "memory"}

(* Whoever takes the mutex before the destructor runs finds the channel       *)
(* either disconnected, without a converter and without a subscription, or    *)
(* connected with a converter of the type its subscription delivers:          *)
(* StateHandler never leaves the three members in disagreement.               *)
ConnectionStateCoherent ==
  MonitorFree /\ tclPc \notin Destroying =>
    IF connected
    THEN established /\ converter \in Live /\ subscription = heap[converter]
    ELSE ~established /\ converter = NULL /\ subscription = NULL

(* Reconnecting does not leak: until the destructor runs, the only converter  *)
(* that exists is the one m_pConverter points to.                             *)
NoConverterLeak == tclPc \notin Destroying => Live \subseteq {converter}

(* getValue and getVector report the same reading: the scalar and the vector  *)
(* differ only inside Update, while the mutex keeps readers out.              *)
ReadingNotTorn == value # vector => caPc = "update_vector"

(* No reading is made from data of another type than the converter's, or from *)
(* an event that carries no data, however often the channel reconnects with   *)
(* its record changed: not in the cached values, not in what a link showed.   *)
ReadingDecoded == Garbage \notin {value, vector, shown}

(* The only code that can meet an invalid pointer is getAllowedValues, which  *)
(* takes no lock, and whatever runs beside the destructor: no history of      *)
(* connections, updates, gets, sizes and puts leads a handler to one.         *)
OnlyUnlockedAccessCrashes ==
  fault = "memory" => tclPc \in {"values_deref"} \cup Destroying

(* What the command sees of a channel is CachedChannel, in which an event is  *)
(* one step: UpdateHandler reads it and calls the slot in several, with       *)
(* setSlot, getValue and the destructor beside it, and none of them can tell. *)
(* An event counts as read when the scalar is, and as having notified then.   *)
Promise ==
  INSTANCE CachedChannel WITH
    actual   <- pv,
    posted   <- IF caPc \in {"update_enter", "update_value"} /\ event.normal
                THEN event.value ELSE NoValue,
    notice   <- notice \/ (slot /\ caPc \in {"update_vector", "update_slot"}),
    deleting <- tclPc \in Destroying
PromiseKept == Promise!Spec

(* If the channel is connected for good and its process variable settles,     *)
(* then the value it has settled at is cached, whatever disconnections and    *)
(* changes of type came before.                                               *)
CacheConverges ==
  \A v \in Values : <>[](told /\ pv = v) => <>[](value = v /\ vector = v)

(* A change posted while the slot is installed is what the interpreter ends   *)
(* up showing if it is the last one: no notification is lost between the      *)
(* threads.                                                                   *)
ShownConverges ==
  \A v \in Values :
    []( fresh /\ [](told /\ slot /\ pv = v) => <>[](shown = v) )

(* The destructor as its comments describe it, "No update handler is now      *)
(* noop" (src/CChannel.cpp:101) and "Let the events run down" (:114): neither *)
(* a handler nor the destructor itself uses an invalid pointer.               *)
DestructionIsQuiet == tclPc \in Destroying => fault # "memory"

(* The size subcommand as its comment describes it, "we won't let the channel *)
(* throw it's exception, but will explicitly check for a connection"          *)
(* (src/CTCLChannelCommand.cpp:569): size() never throws at it.               *)
SizeDoesNotThrow == tclPc = "size_count" => fault # "escaped"
=============================================================================
