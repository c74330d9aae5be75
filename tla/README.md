# A specification of EpicsTcl

EpicsTcl is a Tcl package: it makes EPICS process variables (PVs) into Tcl
commands, links them to Tcl variables, and brings widgets, a poll manager and a
small channel server written on top of that. This directory specifies it in
TLA+. TLC checks small instances; TLAPS proves the main invariants for every
value of the constants.

## The system

### Components

| Component | Source | State | Operations |
|---|---|---|---|
| Channel | `CChannel.cpp` | connection flag, converter, subscription, cached scalar and vector, slot, recursive mutex | `Connect`, `getValue`, `getVector`, `getAllowedValues`, `size`, `setSlot`, six `operator=`, destructor; callbacks `StateHandler`, `UpdateHandler` |
| Converters | `CChannel.cpp` 600-894 | none (an enum converter keeps its strings) | one per EPICS type: request type, scalar, vector, allowed values |
| Epics command | `CTCLEpicsCommand.cpp` | `m_channelInfo`: name to command and reference count | create (or count) a channel, `haveChannel`, `deleteChannel` |
| Channel command | `CTCLChannelCommand.cpp` | its channel, `m_linkedVariables` | `get set size values updatetime link unlink listlinks delete`; `markChange`, `update`, `UpdateLinkedVariable` |
| Linked variable | `CChannelVariable.cpp` | reference count, a write trace | `newEpicsValue`, the trace, `Reference`, `Dereference` |
| Package | `CTCLEpicsPackage.cpp` | the CA context | `Epics_Init` with preemptive callbacks; a thread that polls CA |
| Channel server | `epicsServer.tcl` | monitored channels, values, units, pending requests, tick | connect, request, update, timeout, reply |
| Poll manager | `pollmanager.tcl` | timer id, scripts | start, stop, add, remove, dispatch |
| Histories | `epicsStripChart.tcl`, `epicsgraph.tcl` | paired vectors of times and data | start, stop, sample, trim, clear |
| Control widgets | `epicsButton`, `epicsPullDown`, `epicsEnumeratedControl`, `epicsTypeNGo`, `typeNGo`, `epicsspinbox`, `radioMatrix` | a reference of the channel and of the linked variable, a field, a retry timer, the last value sent | construct, load, put, restore, destroy |
| Display widgets | `epicsLabelWithUnits`, `epicsLed`, `led`, `epicsMeter`, `meter` | the same references, a write trace, what is shown | construct, trace, destroy |
| Socket class | `CSocket.cpp` | descriptor, state | `Connect Bind Listen Accept Read Write Flush Shutdown`, timeouts and other options, destructor |

`CChannelList`, `CBuildChannelData`, `CUnitChannel`, `CLookupVisitor`,
`CApplicationSerializer`, `Main`, `CSocket`, `CStrings` and the exception classes
are in the tree but not in the build (`Makefile.am`). `CSocket` is complete without
the rest, and is modelled all the same. `epicstcl-2.3/` is a copy of the same
sources.

### How they interact

Two threads matter. The *interpreter's* thread runs every Tcl command and serves
the event queue. The *CA callback* thread runs `StateHandler` and
`UpdateHandler`, because `Epics_Init` asks for preemptive callbacks. They share
the members of `CChannel`, guarded (mostly) by `m_Monitor`, and the interpreter's
event queue: `Update` calls the slot `markChange` with the mutex held, which queues
a `ChangeEvent`; the interpreter's thread serves it in `update`, which writes the
linked variables. Writing a linked variable runs its trace, which puts to the
channel; `newEpicsValue` turns the trace off first so that values do not go back.
Sections of one application share channels by name through the reference counts.
Widgets are such sections: each has a reference of its own to the channel's
command and to one variable, `::controlwidget::<channel>`, and follows it with a
write trace or a Tk `-textvariable`. The server, the poll manager and the histories
are callbacks of Tcl's event loop, of one thread: a callback runs to its end, unless
it waits (`gets`, `vwait`) or evaluates a script.

### What is hard

* handlers interleaved with methods that take the mutex late, or never, and with
  the destructor;
* disconnections and reconnections, with another record type;
* change events that outlive their command, and addresses used again;
* the order of reading a value, setting the slot and notifying;
* reference counts of channels and of links over long sequences of commands;
* write traces, that run the application's scripts in the middle of `link` and of
  `UpdateLinkedVariable`, and of which one that fails keeps the older ones from
  running;
* clients of the server that leave at any time, and replies that fail in the middle
  of a loop over the requests of others;
* timers that callbacks stop and start while they run, retries that race with the
  user, and errors that end a timer's chain for good;
* parallel vectors that are appended to, trimmed and cleared one after the other;
* descriptors that are closed and opened again under the same number, partial
  writes, and failures between two of them.

`PROJECT.json` lists each of these at the line where it bites.

### What makes each component correct

* Channel: its connection flag, converter and subscription agree; readings are
  whole and of the right type; nothing leaks; the last value arrives.
* Registry: a name is registered exactly while somebody holds it.
* Links: a variable follows one channel at most, is linked as often as asked, and
  shows the channel's last value; values are never echoed.
* Server: each request is answered once, with data or after its timeout.
* Poll manager: at most one timer; none after `stop`.
* Histories: each time has the data read at it; sampling goes on.
* Values: what is shown is what the process variable has, and labels are its own.
* Widgets: references are exact, displays agree with the channel, an entry shows
  what was sent, and a setting is loaded in the end.
* Sockets: a descriptor has one owner, the state is the kernel's, and `Write` tells
  the truth.

## The modules

| Module | What it is |
|---|---|
| `EpicsChannel` | `CChannel` between the two threads, with CA and the IOC as its environment |
| `CachedChannel` | what a channel promises the command that uses it, each event one step |
| `MCEpicsChannel` | the symmetry for its instances |
| `EpicsChannel_proofs` | its inductive invariant and theorems |
| `ChannelRegistry` | what the package promises its users: counts, links and puts, each command one step |
| `EpicsCommands` | registry, channel commands, linked variables, change events, traces |
| `MCEpicsCommands` | the symmetry for its instances |
| `EpicsCommands_proofs` | its inductive invariants and theorems |
| `EpicsCommandsFlat_proofs` | with no nested commands: links, linked variables, puts, and the refinement of `ChannelRegistry` |
| `EpicsServer`, `MCEpicsServer`, `EpicsServer_proofs` | the channel server and its clients; the requests of its instance; its inductive invariant and theorems |
| `PollManager`, `PollManager_proofs` | poll managers, their inductive invariant and theorems |
| `ChannelValues` | what converters make of the elements of a process variable, and what is put |
| `ChannelHistory`, `MCChannelHistory` | histories, composed with `ChannelValues`, which they sample; the instance's readings |
| `ChannelHistory_proofs` | the inductive invariant and theorems of both: what is read, listed, and kept as points |
| `ChannelWidgets`, `MCChannelWidgets`, `ChannelWidgets_proofs` | seven kinds of widgets on one channel, which kinds the instance's widgets may be of, inductive invariant and theorems |
| `SocketOptions` | the conversions of timeouts and ports |
| `Socket`, `Socket_proofs` | `CSocket` over a process's descriptors, its inductive invariant and theorems, and theorems about the conversions |

### EpicsChannel

The mutex is not a variable: whoever does all its work under it is one action, and
the steps of a handler are separate only because the destructor,
`getAllowedValues`, `size` and the vector assignments look at the object without it.
`caPc` says where in `StateHandler` or `UpdateHandler` the CA thread is, `tclPc`
where in a method the interpreter is. `MonitorFree` is the guard of everything
that takes the mutex.

| State | Code |
|---|---|
| `connected`, `converter`, `established`, `value`, `vector`, `slot` | `m_fConnected`, `m_pConverter`, `m_fUpdateHandlerEstablished`, `m_sValue`, `m_VectorValue`, `m_pHandler != 0` |
| `heap`, `alive` | which converters exist and of which type; whether the object and its mutex do |
| `saved` | the destructor's local `converter` |
| `chid`, `told`, `ftype`, `subscription`, `fresh` | Channel Access: the channel, its last connection callback, its field type, the subscription's request type, an undelivered value |
| `pv`, `request` | the process variable and a put on its way |
| `notice`, `shown` | the slot's user: a queued notification, the value it last read |
| `fault` | the program used an invalid pointer (`memory`) or let an exception out of a command (`escaped`) |

A converter is an address; what a conversion does is abstracted to whether the
event's data is of the converter's type and there at all (`Decode`), anything else
being `Garbage`. Channel Access and the IOC are external: connections come and
go, an event carries the value the PV has when it is delivered or a bad status, a
put is lost with the connection. CA's callbacks are serialised, as CA does.
`doEvents(0.1)` in the destructor promises nothing: the CA thread may or may not
run. A call of `ca_clear_subscription` returns without waiting for a callback under
way.

### CachedChannel

A process variable that changes, events that arrive, a reading, a slot, and a command
that is shown what is read; no connections, types, converters or mutex. `EpicsChannel`
implements it (`PromiseKept`): the steps of `UpdateHandler`, with `setSlot`, the service
of a notification and the destructor beside it, are as one. An event counts as read when
`UpdateValue` assigns the scalar, and as having notified the slot then; one without data
changes nothing. Events are read in the order they were sent, and each notifies if the slot
is set when it is read. Only beside the destructor, which may have taken the
converter away, may an event notify without having been read.

### EpicsCommands

A command is the *address* of a `CTCLChannelCommand`, and an address can be used
again; `name` says which channel the object there is for. `registry` and
`refcount` are `m_channelInfo`; `links` holds the reference counts of
`m_linkedVariables`; `queue` the change events. Each channel is here the cached
value and whether the slot is set: one access to it is one critical section of
`EpicsChannel`, whose `TakeNotice` and `UpdateSlot` are the two ends of the queue.
`stack` is the call stack of the interpreter's thread: `link` between `getValue` and
`setSlot`, `update` inside the loop of `UpdateLinkedVariable`, and `destroy` inside the
destructor, where `doEvents` lets more changes be queued. An operation is on top of
another only if a script that traces a variable runs it; `MaxNesting` bounds that.
`holds` and `linked` are not state of the code: they record what each client has
created and linked, and are what reference counts are compared with. A client
deletes only what it holds and links a variable to a name at most once.
`fault` records that something has been used after its end: a command, or a variable
deleted from its list ("command"), or the node of the registry whose pointer
`deleteChannel` reads after it has erased it ("node"; the memory may still be as it was, so
this is a choice, `CTCLEpicsCommand.cpp:119-120`). An operation on the stack is `gone` when
the object it is inside of is deleted beneath it, whatever is linked again or created at the
same address since: going on from there is the fault `UseDestroyed`. Nothing happens after a
fault, and nothing is claimed.

### ChannelRegistry

Reference counts, links and puts, without addresses, lists, queue or steps.
`EpicsCommands` implements it (`PromiseKept`): `count` is `refcount`, and a variable
`follows` a name if the command registered under it has the variable in its list.

### EpicsServer

`peer` and `text` are the clients; `sock` is a client's socket in the server, "quiet"
once its line has been read, since `readRequest` removes the file event. `known` is
`knownChannels`, the count of updates included; `data` says of each channel's value and
units whether they are absent, blank or there; `pending` is `pendingRequests`, with its
age in ticks. A handler is one step except `readRequest`, which may wait in `gets` for
the rest of a line (`pc = "gets"`, nothing else being served) and links one variable
after the other (`monitor`, `units`), each link tracing an update.

`Complete` is `completeRequest` for all the requests one caller finds due, in any order
(`array names`): the ones answered before one fails, the failing one, and those the
error leaves. What the error ends depends on the caller, as in the code: an update
ignores it, `readRequest` closes its own client's socket whoever's reply failed, and
`processTimeouts` lets it end the server (`pc = "dead"`). A client and a channel are
external: clients may leave at any time, leave a line unfinished or send a blank one.

### PollManager

`afterId` is abstracted to whether it is empty, names a scheduled timer, or one that has
fired; `orphans` counts scheduled timers it does not name. `DispatchScripts` is one
step per script (`todo`, `inside`), and the methods may be called while one is being
evaluated. A script that was removed meanwhile is an error of the loop over `array
names`, and an error ends the dispatch before it schedules the next. `wanted`, `failed`,
`restarted` and `undone` record what the callers did.

### ChannelValues and ChannelHistory

A number stands for the string that shows it. A `dbr_long_t` is a word of base `Base`
and a C++ `long` `LongWords` of them, since the integer converter reads one from the
place of the other (`CChannel.cpp:718`). `%.7g` is rounding to the nearest number of
`Digits` digits in base `Radix`, and of two as near to the even one, as `sprintf` does: the
last digit is worth more the greater the number is (`LastDigit`). An enumeration has an
index and labels, which the converter keeps from the first record that has any. Each
element of an array is taken for a record of its own (`CChannel.cpp:888-891`), of which only
the first was sent: what lies `behind` it is any index and any of `StrayLabels`, and as
long as there are no labels yet each element's are taken in turn (`Allowed`).

`ChannelHistory` extends this module: a channel of it is sampled by `updateData` of a
strip chart or of a graph. The vectors of times hold, for each time, what was read
then, which is what makes `PointsTrue` more than a comparison of lengths. BLT's vectors
are external: appending what is not all numbers, or deleting what is not there, is an
error, which ends the chain of timers since the next is scheduled last.

### ChannelWidgets

`refs` and `links` are the counts of the channel's command and of the linked variable,
whose workings are those of `EpicsCommands`. `traces` is the variable's list of write
traces, the youngest first, as Tcl runs them; `Written` runs them up to one that fails.
`display` is what a button, led, label or needle shows; `field` what a control has for
its value, `lastValue` that of `typeNGo`. `On` and `Off` are the values that are true and
false to `if`, which a button tests; `Booleans` are those that a led takes (`string is
boolean -strict`, `led.tcl:89`). There is one constructor and one destructor per
kind where the code has one; kinds without a destructor leave their links, traces and
timers behind. `loadEntry`, `updateRadio` and `getValue` are the retries. `sent`, `loaded`,
`forced` and `editing` record what the user and the controls have done. A put without a
connection does nothing and returns TCL_OK (`CChannel.cpp:341`, `359`), so `Commit`
remembers the value all the same; `unsent` records that. What a destroyed widget showed and
remembered goes with it, its links, traces and timers do not. What is no Tcl list (`Malformed`) is
an error of `set`, and not remembered.

Two constructors can fail over their options once they have begun. That of an enumerated
control leaves its references behind (`ConstructRadioFails`). That of a label fails before it
takes any, and the destructor that snit then runs gives back those of others
(`ConstructLabelFails`): `overdrawn` records it, and ends what is modelled.

### Socket and SocketOptions

`file` is the kernel's table: what each descriptor is, the bytes that wait, and its
receive timeout; `socket(2)` and `accept(2)` hand out the lowest that is free, so a number
soon belongs to another object. A write that has filled the buffers finds no `room` until
the peer reads: it waits for that (`Blocked`), or is interrupted. `m_Fd` and `m_State` are the members. A method is one
step, except the ones that wait or loop: `Read` may wait for the peer, `Write` takes one
step per `write(2)` and `Flush` one per `poll(2)`. Peers send, close and reset between
them. `OpenSocket` may throw before it asks for a descriptor, because it tests a `pEntry`
that it never sets (`CSocket.cpp:1333`); whether it does is undefined and hence a choice.
`stray` records that an object has kept a number it had closed, after which nothing is
claimed. `SIGPIPE` is assumed to be ignored, as the test for `EPIPE` takes for granted.

`SocketOptions` holds what goes through a conversion: milliseconds to a `timeval` and
back, and the number of a service to a port. `Socket` uses it for receive timeouts.

## The runs

| Run | Instance | What it shows |
|---|---|---|
| `ChannelSafety` | 2 values, 2 types, 2 addresses, all methods | the six invariants of the channel, and that it implements `CachedChannel`, over every interleaving |
| `ChannelLiveness` | the same, without `get`, `size`, `values`, `delete` | the settled value is cached, and shown |
| `ChannelDestruction` | `connect`, `slot`, `delete` | a counterexample: the destructor nulls the converter under a handler (`CChannel.cpp:101`) |
| `ChannelSize` | `connect`, `size` | a counterexample: `size` throws after all (`CTCLChannelCommand.cpp:592`) |
| `CommandsSafety` | 2 clients, names, variables, values and addresses; queue 1; no nesting | counts, links, slots, puts and the refinement |
| `CommandsLiveness` | 1 name, client and address, 2 variables and values; queue 2; 1 command inside another | queued changes are shown |
| `CommandsStaleEvent` | 1 name, 1 variable, 2 addresses | a counterexample: delete, create again, and the old event uses the destroyed command (`CTCLChannelCommand.cpp:676`) |
| `ServerRequests` | 2 clients, 2 channels, requests `v` and `w v`, timeout 1 | requests are answered once, in time, with data; sockets are not lost |
| `PollTimers` | 3 scripts, 2 orphans | which histories leave one timer, none or more |
| `HistorySampling` | 4 types, 2 elements, words of base 2, doubles of 1 digit in base 4, histories of 3 points | readings, labels, and the alignment and life of a history |
| `SocketStates` | 2 objects, descriptors 0 and 3, writes of 2 bytes, 1 byte waiting, timeouts of 0 and 1 | owners, states and counts of bytes; calls return, or wait for their peers |
| `WidgetsShown` | 2 widgets, one of 7 kinds and one of 5, 4 values | references, displays and entries; settings load |

Bounds. Two values tell a stale reading from a current one; two types make a
wrong decoding possible; with two addresses a converter or command can be
allocated while another is being destroyed, or at the address of the last. Two
clients are the least that share a name, two names the least that compete for a
variable, two variables the least that a list is iterated over. `MaxQueue` keeps the
event queue finite: when it is full a channel whose slot is set does not change.
`MaxNesting` is 0 in `CommandsSafety` and 1 in
`CommandsLiveness`; that the registry and the slots are exact under nesting is proved.

Two clients are the least of whom one's failure can harm the other, and a timeout of one
tick lets a request be younger and older than it. Three scripts let one be removed
by another while a third waits. Two elements make an integer's high word come from its
neighbour or from behind it; three points are enough to keep, trim a margin of and clear
one. Descriptor 0 is there because the destructor tests for more than 0; two bytes make
a write partial, and a `Flush` or `Read` can find one that waits or none (`MaxBytes`,
`MaxWaiting`). Two widgets are the least of which one is older; every pair of kinds occurs,
each in both orders, but for two that are both an entry or a spinbox, neither of which ever
leaves a trace that fails. Of the values "0" and "1" are booleans,
"2" is true to a button and nothing to a led, and "{" is neither, and no list; the device is
set to one of them (`Settings`), since a control loads any alike.

`MCEpicsChannel` and `MCEpicsCommands` declare what is interchangeable: model values that
the code only compares. The runs of liveness use no symmetry.

Deadlock is not checked where the system may stop: a deleted channel does nothing any
more, after a fault nothing is claimed, a channel that holds its value owes nothing, a
server that is dead, a destroyed poll manager or history, sockets of a program that
was ended and clients that have all gone have no step left.

Fairness. A callback entered runs to its end and a method called returns: they
are straight-line code, whose mutex is held only for a bounded time (weak). CA
delivers a posted value although events without data may come between, and the
interpreter serves its queue although it runs commands between (strong: the code
of both loops looks at the queue again and again, but is not waiting at it at every
moment). The IOC, the network and the scripts owe nothing.

In the server, the poll manager and the widgets a timer that is due fires, a readable
socket is served and a handler that was entered goes on: Tcl's event loop serves timers
and files in turn (weak, since nothing but the event itself disables it). A script that
a poll manager evaluates comes to its end (strong: it may be entered again before). Clients
of the server owe nothing, not even the end of a line; that the server does not wait for
one for ever is a premise of `RequestsAnswered`. In a socket's call a `poll(2)`, and a `read(2)` or
`write(2)` that need not wait for the peer, return (weak). A peer owes nothing: it need
neither send nor read, so a blocked `write(2)` may never return.

What the properties say that is not obvious:

* `OnlyUnlockedAccessCrashes`: with the finding about the destructor and the
  unlocked `getAllowedValues` set aside, no history leads to an invalid pointer.
* `LinkedVariablesFollow`: the only window in which a linked variable can be behind
  without an event on its way is between `getValue` and `setSlot` of the first link
  (`CTCLChannelCommand.cpp:392` and `400`), which the model names `behind`.
* `OneChannelPerVariable` holds as long as traces run no commands: `Link` tests
  `isLinked` first and enters the variable last, and a trace in between can link it
  elsewhere.
* `PatientClientsServed` claims something only while nobody has left unanswered: after
  that a reply can fail, and `readRequest` then closes the wrong client's socket, or
  `processTimeouts` ends the server (`epicsServer.tcl:211`).
* `EarlyAnswersHaveData` promises the value or the units, not both: two updates of the
  value count as much as one of each (`epicsServer.tcl:281`).
* `OneTimer` and `StopStops` except scripts that restart, and stops that come from a
  script, because `DispatchScripts` schedules the next event whatever they did
  (`pollmanager.tcl:119`). `StartStarts` excepts errors: after one `start` does nothing
  until `stop` is called, since `afterId` keeps the id of the timer that fired.
* `PointsTrue` and `KeepsSampling` hold while every sample is one number. The comment
  says the lengths differ only if the programmer "has been very very dirty"
  (`epicsStripChart.tcl:183`); a waveform of two elements is enough.
* `ReadingsTrue` claims the low half of an integer, and of an array of enumerations the
  first element: the rest is read from elsewhere (`CChannel.cpp:718`, `890`). A double is
  within half of the last digit that is shown of it.
* `ValuesOfThisConnection` excepts arrays of an enumeration that has been without labels:
  they list what lies behind the first element (`CChannel.cpp:848`).
* `DisplaysAgree` excepts widgets that are older than one whose trace fails: a button, a
  led or a meter that is destroyed leaves its trace behind, and a button cannot show a
  value that is neither true nor false. It claims of a led what the led takes; that this is
  less than what its documents name is the code's doing: "the LED is on if the channel is
  nonzero and off otherwise" (`epicsLed.tcl:34`), but `led.tcl:89` takes no number other
  than 0 and 1, and a led whose channel goes to 2 stays as it was. "This allows multiple widgets that track the same
  item to co-exist" (`epicsEnumeratedControl.tcl:53`) is true of the other histories.
  A button's `on` and `off` change what it looks like and put nothing, though the
  comment reads "Turn ourselves on".
* `EntryShowsLastSent` allows a load that comes late to replace what the user put, and
  excepts entries whose last commit found no connection (`unsent`): `typeNGo.tcl:183`
  remembers a value that was put nowhere, although "Committing the value results in setting
  the value of the control channel" (`epicsTypeNGo.xml:30`).
* Once `overdrawn`, the widgets' properties claim nothing: the destructor of a label relies
  on reference counts ("refcounts will make this safe", `epicsLabelWithUnits.tcl:80`), but
  snit also runs it when the constructor failed before it had taken a reference.
* `DescriptorsOwned` and `StateTrue` claim nothing after the stray `pEntry`. `StateTrue`
  excepts an object a read or write of which failed, which is still connected although
  `Disconnected` is "not connected to anything" (`CSocket.cpp:36`). Nothing is claimed of
  descriptor 0 once its owner is gone: the destructor does not close it.
* `CallsReturn` says that a call that does not return waits for its peer for good from some
  moment on: a `Read` without a timeout for one that sends nothing, a `Write` for one that
  does not read ("this member will block as needed", `CSocket.cpp:548`). It excepts a stray
  descriptor, which `Flush` polls for ever.
* `ChangesAreShown` has for a premise that nothing deleted is used: a trace that unlinks the
  variable being written, and be it to link it again, ends what is claimed.

## The proofs

`EpicsChannel_proofs` proves, for every set of values, types and addresses and
every choice of methods, that `IInv` is inductive and implies the six invariants of
`ChannelSafety`. The invariants are not inductive: `ConnectionStateCoherent`
speaks only of moments when the mutex is free, and each step of `StateHandler`
breaks it before the next repairs it. `IInv` therefore adds, in `HandlerState`, what
holds at each position of the handlers up to the destructor; in `Readings`, what
ties the subscription's type to the converter's and the two readings to the event,
which survives the destructor since a converter made beside it belongs to a
connection without a subscription; and `Lifetime`, that the object goes last. There
is one lemma per part and one step per action. The same `IInv` carries `PromiseCorrect`,
the refinement of `CachedChannel`: `Kept` takes every step to an abstract one or to a
stutter. `UpdateKept` needs of it that an event handled before the destructor runs
finds a converter, since the channel is connected, and that the converter is of the
event's type, so that what is read is what was posted; `CommandKept` needs the mutex,
which keeps `setSlot` and the service of a notification from the middle of a handler.

`EpicsCommands_proofs` proves `TypeOK`, `RegistryExact` and `SlotIffLinked` for every
set of names, variables, values and addresses, every finite set of clients (the
counts are cardinalities), every length of the queue and every depth of nesting.
Its `IInv` adds three parts: `StackOK`, that a command is destroyed only by the
operation on top of the stack, its object being there and no name leading to it
(else `Destroyed` could free what the registry still points to);
`LinksOfAllocated`, that only objects that exist have lists (else a new command could
start with one); and `SlotExact`, the slots' exactness inside operations too.
`OneChannelPerVariable` is proved for `MaxNesting = 0` only, because with nesting it is
false. `isLinked` looks at registered commands alone, so the proof needs `Flat`:
there is one operation at most, a command with variables is registered or is being
destroyed by that operation, and a variable whose first link is under way is in no
list.

`EpicsCommandsFlat_proofs` goes on from there, with `MaxNesting = 0`, and adds two
parts. `LinksCounted` is `LinksExact` inside operations: the client for whom a variable is
being linked for the first time is counted ahead of the list, and nobody has links of a
name that is not registered. `Following` is `LinkedVariablesFollow` made inductive: a
variable may also be behind while `UpdateLinkedVariable` has yet to come to it
(`Awaited`); the queued event must name the command as it is named now (`Queued`), else
`DropEvent` could lose it; and a variable that is being linked already shows the value,
or its command is `behind`. From `Flat` and the registry follow `PutsAreWrites`, and the
refinement: `PromiseStep` takes every action to one of `ChannelRegistry` or to a stutter
(`LinkDone`, not `Link`, is the abstract `Link`; a first or last reference changes what
is followed, the others stutter), so the package keeps its promise for every number of
names, variables, clients and events. All four
need `Flat`, so nothing is said of them under nesting.

`EpicsServer_proofs` proves, for any number of clients and channels, any requests and
any timeout, `TypeOK` and the four invariants of `ServerRequests`. Two of these are not
inductive without facts about sockets: that pending requests are of different clients
who have sent their lines (`Queued`), else answering one could close the socket of
another; that a request being read is not pending yet (`Reading`); and that a client
that has gone has left or was answered (`Clientele`), which is why no reply fails while
nobody has left. That early answers have data needs `Counted`, what a count says of the
values and units, and `Linking`, that the channel between its two links has not been
counted. `CompleteKeeps` is the one lemma about `Complete`, for whatever is due and
pending; an update, a new request and a tick each apply it.

`PollManager_proofs` proves `TypeOK` (which no run checks), `OneTimer`, `StopStops` and `StartStarts` for every set
of scripts. `IInv` adds what `afterId` is worth (`IdTellsTimer`: a fired id is kept only
during a dispatch or after an error), that timers nobody names come from a restart
(`TimersOwned`), that a dispatch still running after a stop is one a script stopped, and
what the recorded flags imply of each other.

`Socket_proofs` proves `TypeOK`, `DescriptorsOwned`, `StateTrue` and `WriteTellsTheTruth` for
every set of objects and of descriptors. `IInv` ties objects to calls (a call's object is
there, its counts add up, and a number it does not own is never used) and, until
`stray`, says in `Good` that two objects never have one descriptor and that states are
what the kernel has. The lemma `Change` carries most steps: an object that is not the
call's neither has its descriptor nor gets one. That there is a lowest free
descriptor follows from the order of the natural numbers being well founded. Its last
section is about `SocketOptions`: for every width of an `unsigned`, a timeout in
milliseconds becomes a `timeval` the kernel accepts (`TimevalAccepted`), none but 0 means
none (`OnlyZeroIsNone`), what is read back has lost the rest of the second
(`TimeoutReadBack`: the statement of `CSocket.cpp:876` ends before the microseconds are
added), and a port is taken modulo the ports there are (`PortsWrap`). No run checks
these: they are statements about all numbers.

`ChannelHistory_proofs` proves the five invariants of `HistorySampling` for every set of
labels and texts, any number of elements, points and digits, and words of every width.
`ConverterOK` says that the converter is one for the type the record has in this
connection and its labels are some it had in it; `DecodedOK`, that a vector which no
change has overtaken is what the converter makes of the elements, whatever was read
past them. There is one lemma per converter: the low half of a `long` is right in two's
complement whatever the high half is (`LowWord`), a double moves by half of its last digit at
most (`FloatConverts`), a label that is put finds its own index (`EveryLabelIsFirst`). That no label
is the string of a number (`TextsAssumption`) is needed there: one that is could be taken
for an index. Of a history the three invariants are inductive together, and none alone:
sampling goes on because trimming succeeds, and trimming succeeds because the vectors are
aligned. `ExcessIs` says that an update never clears more points than there are, and
always enough; `ClearedIs`, `TrimmedIs` and `AppendedIs` go through the places where BLT
stops with an error.

`ChannelWidgets_proofs` proves the three invariants of `WidgetsShown` for every finite set
of widgets (references are cardinalities) and any values. `TracesOK` ties the list of
traces to the widgets: only constructed ones are in it, and every label or spinbox that
lives, whose destructor removes its own. `EntriesOK` says that what an entry
would restore is what was sent, also while it is being edited. `AllAgree` is
`DisplaysAgree` kind by kind. A write runs the traces from the youngest to the first that
fails, and what ran shows the new value (`WrittenAgrees`); no step but a constructor, whose
trace goes first, or a destructor, which obstructs only what is older, changes who is
behind a failing trace (`StaysObstructed`). All of it is up to `overdrawn`, after which
there is nothing to keep.

Assumptions are those the modules state of their constants: numbers are natural, the
distinguished values are not members of the sets, requests are not empty.

Every invariant and action property of the passing runs is a theorem, those of
`CommandsSafety` with the restrictions above. Only model-checked: the liveness
properties, which are out of the prover's reach.

## Not modelled

* Of a channel: the lengths of lists, the update time, text other than through `%.7g`,
  `updatetime`, `listlinks`, and errors of argument counts, which return before any
  state changes.
* The waiting of CA's calls for callbacks under way: it depends on CA's version.
* Of widgets: drawing and layout; `epicsPullDown`, whose variables are its own;
  `epicsCommandButton` and the clicks of a button, which only put; `bcmMeter`; `epicsLabel`,
  which only names a variable to Tk; points given as Modicon addresses; constructors that
  fail before they have begun, or for want of Tk's memory; what happens after a label's has
  taken what is not its own.
* Of histories: `updateperiod`; an error of the first sample, in the constructor.
* Of the poll manager: scripts that enter the event loop.
* Of linking: a trace of the variable being linked that links it to the same command, which
  then has it in its list twice (`BeingLinked` keeps it out).
* Of sockets: send timeouts, whose effect on a blocked `Write` is that of a signal; the
  other options (`setSndLowWaterMark` builds its exception without
  throwing it, `CSocket.cpp:795`), `getPeer`, and the names of states, which are never
  stocked as the test in `StockStateMap` is inverted. `Write` does not test the state,
  though its comment promises an exception; the kernel's error is modelled in its place.
* The legacy channel list (`CChannelList`, `CBuildChannelData`, `CUnitChannel`,
  `CLookupVisitor`, `CApplicationSerializer`): not built, and the class it belongs to,
  `CApplication`, has no source here.
* Strings and exceptions: utilities without state of their own.
* `epicstcl-2.3/`: identical sources of an earlier release; tests and examples. They,
  and the comments in every file, are why the definitions stand for a modest share of
  the tree's lines.

## Plan

What is left: a channel server composed with `EpicsCommands`, whose events the updates
are.
