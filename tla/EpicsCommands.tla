--------------------------- MODULE EpicsCommands ---------------------------
(* The commands of the epics package (src/CTCLEpicsCommand.cpp,               *)
(* src/CTCLChannelCommand.cpp, src/CChannelVariable.cpp): the registry of     *)
(* reference-counted channel commands, the variables linked to each of them,  *)
(* and the change events that the CA callback thread queues to the            *)
(* interpreter's thread.                                                      *)
(*                                                                            *)
(* A command is the address of a CTCLChannelCommand object; an address can be *)
(* used again.  Its channel (module EpicsChannel) is here its cached value    *)
(* and whether its slot is set: each call of a CChannel method is one access  *)
(* under the channel's mutex.  The interpreter's thread is a stack of the     *)
(* operations it is inside of.  It is in at most one, unless a script that    *)
(* traces a variable runs commands of its own while an operation writes it;   *)
(* MaxNesting says how deep.                                                  *)
EXTENDS Integers, FiniteSets, Sequences

CONSTANTS
  Names,       \* names of channels
  Vars,        \* Tcl variables
  Values,      \* values of channels and variables
  Commands,    \* addresses of command objects
  Clients,     \* sections of the application that share the package
  MaxQueue,    \* bound on the change events in the interpreter's queue
  MaxNesting,  \* bound on commands run from within write traces
  NULL, NoValue

ASSUME BoundsAssumption == MaxQueue \in Nat \ {0} /\ MaxNesting \in Nat

ASSUME ClientsAssumption == IsFiniteSet(Clients)

ASSUME NullAssumption ==
  /\ NULL \notin Names \cup Vars \cup Commands
  /\ NoValue \notin Values

VARIABLES
  registry,  \* m_channelInfo: the command of each name, or NULL
  refcount,  \* s_refcount
  name,      \* the name of the command object at each address, NULL if none
  links,     \* m_linkedVariables: how often each variable is linked, by command
  value,     \* m_sValue of the command's channel
  slot,      \* the commands whose channel has markChange as its slot
  queue,     \* ChangeEvents in the interpreter's event queue
  stack,     \* the operations the interpreter's thread is inside of
  var,       \* the Tcl variables
  written,   \* variables written by a script since a channel last set them
  put,       \* the last put a variable's trace has made
  holds,     \* what the clients hold: <<client, name>>
  linked,    \* what they have linked: <<client, name, variable>>
  behind,    \* commands whose channel changed while a first link was being made
  fault      \* what has been used after its end: nothing yet ("none"), a
             \* "command" or a variable of its list, or a "node" of the registry

reg    == <<registry, refcount, name>>
client == <<holds, linked>>
vars   == <<reg, links, value, slot, queue, stack, var, written, put, client,
            behind, fault>>

(* An operation: what it is, its command, the variable it has written and     *)
(* whose traces run, the variables it has been through, and whether the       *)
(* object it is inside of (the command, or the variable of the command's      *)
(* list) has been deleted since.                                              *)
Frames ==
  [op : {"link", "update", "destroy"}, cmd : Commands, v : Vars \cup {NULL},
   done : SUBSET Vars, gone : BOOLEAN]

Allocated(c) == name[c] # NULL
LinkedVars(c) == {v \in Vars : links[c][v] > 0}
Top == Head(stack)

(* The variable the operation on top of the stack has just written: the       *)
(* scripts that trace it are running.                                         *)
InTrace == stack # <<>> /\ Top.op \in {"link", "update"} /\ Top.v # NULL

(* Nothing is said of what the program does once it has used what was gone.   *)
Sound == fault = "none"

(* The interpreter can run a command or serve an event.                       *)
Ready ==
  /\ Sound
  /\ stack # <<>> => InTrace /\ Len(stack) <= MaxNesting

Push(op, c, v) ==
  stack' = <<[op |-> op, cmd |-> c, v |-> v, done |-> {}, gone |-> FALSE]>>
             \o stack

Init ==
  /\ registry = [n \in Names |-> NULL]
  /\ refcount = [n \in Names |-> 0]
  /\ name = [c \in Commands |-> NULL]
  /\ links = [c \in Commands |-> [v \in Vars |-> 0]]
  /\ value = [c \in Commands |-> NoValue]
  /\ slot = {} /\ queue = <<>> /\ stack = <<>>
  /\ var = [v \in Vars |-> NoValue] /\ written = {} /\ put = NULL
  /\ holds = {} /\ linked = {} /\ behind = {} /\ fault = "none"

-----------------------------------------------------------------------------
(* The epicschannel command. *)

(* Mutant: a channel that exists is not counted again.                        *)
CreateChannel_NoCount(cl, n) ==
  /\ Ready /\ <<cl, n>> \notin holds
  /\ holds' = holds \cup {<<cl, n>>}
  /\ \/ /\ registry[n] # NULL
        /\ UNCHANGED <<registry, name>>
     \/ /\ registry[n] = NULL
        /\ \E c \in Commands :
             /\ ~Allocated(c)
             /\ name' = [name EXCEPT ![c] = n]
             /\ registry' = [registry EXCEPT ![n] = c]
  /\ refcount' = [refcount EXCEPT ![n] = IF registry[n] = NULL THEN 1 ELSE @]
  /\ UNCHANGED <<links, value, slot, queue, stack, var, written, put, linked,
                 behind, fault>>

CreateChannel(cl, n) ==
  /\ Ready /\ <<cl, n>> \notin holds
  /\ holds' = holds \cup {<<cl, n>>}
  /\ \/ /\ registry[n] # NULL
        /\ UNCHANGED <<registry, name>>
     \/ /\ registry[n] = NULL
        /\ \E c \in Commands :
             /\ ~Allocated(c)
             /\ name' = [name EXCEPT ![c] = n]
             /\ registry' = [registry EXCEPT ![n] = c]
  /\ refcount' = [refcount EXCEPT ![n] = @ + 1]
  /\ UNCHANGED <<links, value, slot, queue, stack, var, written, put, linked,
                 behind, fault>>

(* Mutant: the map entry of the deleted command is left behind.               *)
DeleteChannel_KeepsEntry(cl, n) ==
  /\ Ready /\ <<cl, n>> \in holds
  /\ holds' = holds \ {<<cl, n>>}
  /\ refcount' = [refcount EXCEPT ![n] = @ - 1]
  /\ \/ /\ refcount[n] > 1
        /\ UNCHANGED <<registry, stack, linked, fault>>
     \/ /\ refcount[n] = 1
        /\ UNCHANGED registry
        /\ linked' = {l \in linked : l[2] # n}
        /\ Push("destroy", registry[n], NULL)
        /\ fault' \in {fault, "node"}
  /\ UNCHANGED <<name, links, value, slot, queue, var, written, put, behind>>

(* The delete subcommand.  The last one takes the command out of the registry *)
(* and starts to destroy it; the channel goes first and lets its events run   *)
(* down, which still queues changes.  The pointer to the command is read from *)
(* the node of the registry that has just been erased: it is still there, or  *)
(* another thread has been given the memory.                                  *)
DeleteChannel(cl, n) ==
  /\ Ready /\ <<cl, n>> \in holds
  /\ holds' = holds \ {<<cl, n>>}
  /\ refcount' = [refcount EXCEPT ![n] = @ - 1]
  /\ \/ /\ refcount[n] > 1
        /\ UNCHANGED <<registry, stack, linked, fault>>
     \/ /\ refcount[n] = 1
        /\ registry' = [registry EXCEPT ![n] = NULL]
        /\ linked' = {l \in linked : l[2] # n}
        /\ Push("destroy", registry[n], NULL)
        /\ fault' \in {fault, "node"}
  /\ UNCHANGED <<name, links, value, slot, queue, var, written, put, behind>>

(* An operation, once command c has been deleted...                           *)
Orphan(f, c) == IF f.cmd = c THEN [f EXCEPT !.gone = TRUE] ELSE f

(* The rest of the destructor: the channel, the linked variables with their   *)
(* traces, the object.                                                        *)
Destroyed ==
  /\ Sound /\ stack # <<>> /\ Top.op = "destroy"
  /\ name' = [name EXCEPT ![Top.cmd] = NULL]
  /\ links' = [links EXCEPT ![Top.cmd] = [v \in Vars |-> 0]]
  /\ value' = [value EXCEPT ![Top.cmd] = NoValue]
  /\ slot' = slot \ {Top.cmd}
  /\ behind' = behind \ {Top.cmd}
  /\ stack' = [i \in 1 .. Len(stack) - 1 |-> Orphan(stack[i + 1], Top.cmd)]
  /\ UNCHANGED <<registry, refcount, queue, var, written, put, client, fault>>

-----------------------------------------------------------------------------
(* The link and unlink subcommands. *)

(* Mutant: the comparison with this command is the wrong way round.           *)
LinkedElsewhere_Swapped(c, v) ==
  \E n \in Names : registry[n] = c /\ v \in LinkedVars(registry[n])

(* isLinked: another registered command has the variable.                     *)
LinkedElsewhere(c, v) ==
  \E n \in Names : registry[n] \notin {NULL, c} /\ v \in LinkedVars(registry[n])

(* Mutant: the trace is not disabled around the setting of the variable.      *)
NewEpicsValue_Traced(v, c) ==
  /\ var' = [var EXCEPT ![v] = value[c]]
  /\ written' = written \ {v}
  /\ put' = IF v \in LinkedVars(c)
            THEN [name |-> name[c], value |-> value[c]] ELSE put

(* A channel gives a variable a value with the variable's trace disabled.     *)
NewEpicsValue(v, c) ==
  /\ var' = [var EXCEPT ![v] = value[c]]
  /\ written' = written \ {v}
  /\ UNCHANGED put

(* Mutant: the variable gets no further reference.                            *)
LinkAgain_NoReference(cl, n, v) ==
  LET c == registry[n] IN
  /\ Ready /\ <<cl, n>> \in holds /\ <<cl, n, v>> \notin linked
  /\ ~LinkedElsewhere(c, v) /\ v \in LinkedVars(c)
  /\ slot' = slot \cup {c}
  /\ linked' = linked \cup {<<cl, n, v>>}
  /\ UNCHANGED <<reg, links, value, queue, stack, var, written, put, holds, behind,
                 fault>>

(* A variable that is linked already gets one more reference.                 *)
LinkAgain(cl, n, v) ==
  LET c == registry[n] IN
  /\ Ready /\ <<cl, n>> \in holds /\ <<cl, n, v>> \notin linked
  /\ ~LinkedElsewhere(c, v) /\ v \in LinkedVars(c)
  /\ links' = [links EXCEPT ![c][v] = @ + 1]
  /\ slot' = slot \cup {c}
  /\ linked' = linked \cup {<<cl, n, v>>}
  /\ UNCHANGED <<reg, value, queue, stack, var, written, put, holds, behind,
                 fault>>

(* The command is at it already.                                              *)
BeingLinked(c, v) ==
  \E i \in DOMAIN stack : /\ stack[i].op = "link" /\ ~stack[i].gone
                          /\ stack[i].cmd = c /\ stack[i].v = v

(* A variable that is not gets the channel's value, then a place in the list, *)
(* and the slot is set.  (Linked to the same command by its own traces        *)
(* meanwhile, it would be in the list twice: this is left out.)               *)
Link(cl, n, v) ==
  LET c == registry[n] IN
  /\ Ready /\ <<cl, n>> \in holds /\ <<cl, n, v>> \notin linked
  /\ ~LinkedElsewhere(c, v) /\ v \notin LinkedVars(c) /\ ~BeingLinked(c, v)
  /\ NewEpicsValue(v, c)
  /\ Push("link", c, v)
  /\ linked' = linked \cup {<<cl, n, v>>}
  /\ UNCHANGED <<reg, links, value, slot, queue, holds, behind, fault>>

LinkDone ==
  /\ Sound /\ stack # <<>> /\ Top.op = "link" /\ ~Top.gone
  /\ links' = [links EXCEPT ![Top.cmd][Top.v] = @ + 1]
  /\ slot' = slot \cup {Top.cmd}
  /\ stack' = Tail(stack)
  /\ UNCHANGED <<reg, value, queue, var, written, put, client, behind, fault>>

(* ... and once variable v of its list has been.                              *)
Unlisted(f, c, v) ==
  IF f.cmd # c THEN f
  ELSE [f EXCEPT !.done = @ \ {v},
                 !.gone = @ \/ (f.op = "update" /\ f.v = v)]

(* Mutant: the slot stays set when the last variable is gone.                 *)
Unlink_KeepsSlot(cl, n, v) ==
  LET c == registry[n]
      last == LinkedVars(c) = {v} /\ links[c][v] = 1
  IN
  /\ Ready /\ <<cl, n>> \in holds /\ <<cl, n, v>> \in linked
  /\ v \in LinkedVars(c)
  /\ links' = [links EXCEPT ![c][v] = @ - 1]
  /\ UNCHANGED slot
  /\ linked' = linked \ {<<cl, n, v>>}
  /\ stack' = [i \in DOMAIN stack |->
                 IF links[c][v] = 1 THEN Unlisted(stack[i], c, v) ELSE stack[i]]
  /\ UNCHANGED <<reg, value, queue, var, written, put, holds, behind, fault>>

Unlink(cl, n, v) ==
  LET c == registry[n]
      last == LinkedVars(c) = {v} /\ links[c][v] = 1
  IN
  /\ Ready /\ <<cl, n>> \in holds /\ <<cl, n, v>> \in linked
  /\ v \in LinkedVars(c)
  /\ links' = [links EXCEPT ![c][v] = @ - 1]
  /\ slot' = IF last THEN slot \ {c} ELSE slot
  /\ linked' = linked \ {<<cl, n, v>>}
  /\ stack' = [i \in DOMAIN stack |->
                 IF links[c][v] = 1 THEN Unlisted(stack[i], c, v) ELSE stack[i]]
  /\ UNCHANGED <<reg, value, queue, var, written, put, holds, behind, fault>>

-----------------------------------------------------------------------------
(* Changes of the channel, and of the variable. *)

(* Mutant: the event is queued without a copy of the name.                    *)
ChannelUpdate_NoName(c, x) ==
  /\ Sound /\ Allocated(c) /\ x # value[c]
  /\ value' = [value EXCEPT ![c] = x]
  /\ \/ /\ c \in slot /\ Len(queue) < MaxQueue
        /\ queue' = Append(queue, [cmd |-> c, name |-> NULL])
        /\ behind' = behind \ {c}
     \/ /\ c \notin slot
        /\ behind' = IF \E i \in DOMAIN stack :
                           stack[i].op = "link" /\ stack[i].cmd = c
                     THEN behind \cup {c} ELSE behind
        /\ UNCHANGED queue
  /\ UNCHANGED <<reg, links, slot, stack, var, written, put, client, fault>>

(* CChannel::Update in the CA callback thread, with markChange as its slot.   *)
ChannelUpdate(c, x) ==
  /\ Sound /\ Allocated(c) /\ x # value[c]
  /\ value' = [value EXCEPT ![c] = x]
  /\ \/ /\ c \in slot /\ Len(queue) < MaxQueue
        /\ queue' = Append(queue, [cmd |-> c, name |-> name[c]])
        /\ behind' = behind \ {c}
     \/ /\ c \notin slot
        /\ behind' = IF \E i \in DOMAIN stack :
                           stack[i].op = "link" /\ stack[i].cmd = c
                     THEN behind \cup {c} ELSE behind
        /\ UNCHANGED queue
  /\ UNCHANGED <<reg, links, slot, stack, var, written, put, client, fault>>

(* Mutant: an event can be dropped although its name is registered.           *)
DropEvent_Registered ==
  /\ Ready /\ queue # <<>>
  /\ queue' = Tail(queue)
  /\ UNCHANGED <<reg, links, value, slot, stack, var, written, put, client,
                 behind, fault>>

(* CTCLChannelCommand::update: the event names its command twice, by name and *)
(* by address.  If the name is not registered it is dropped; if it is, the    *)
(* address is used.                                                           *)
DropEvent ==
  /\ Ready /\ queue # <<>> /\ registry[Head(queue).name] = NULL
  /\ queue' = Tail(queue)
  /\ UNCHANGED <<reg, links, value, slot, stack, var, written, put, client,
                 behind, fault>>

ServeEvent ==
  /\ Ready /\ queue # <<>> /\ registry[Head(queue).name] # NULL
  /\ Allocated(Head(queue).cmd)
  /\ queue' = Tail(queue)
  /\ Push("update", Head(queue).cmd, NULL)
  /\ UNCHANGED <<reg, links, value, slot, var, written, put, client, behind,
                 fault>>

(* UpdateLinkedVariable gives each variable in turn the value that the        *)
(* channel then has...                                                        *)
UpdateVariable(v) ==
  /\ Sound /\ stack # <<>> /\ Top.op = "update" /\ Top.v = NULL
  /\ v \in LinkedVars(Top.cmd) \ Top.done
  /\ NewEpicsValue(v, Top.cmd)
  /\ stack' = [stack EXCEPT ![1].v = v]
  /\ UNCHANGED <<reg, links, value, slot, queue, client, behind, fault>>

(* ... then enables the variable's trace again and goes to the next in the    *)
(* list.                                                                      *)
NextVariable ==
  /\ Sound /\ stack # <<>> /\ Top.op = "update" /\ Top.v # NULL /\ ~Top.gone
  /\ stack' = [stack EXCEPT ![1].v = NULL, ![1].done = @ \cup {Top.v}]
  /\ UNCHANGED <<reg, links, value, slot, queue, var, written, put, client,
                 behind, fault>>

(* Mutant: only the first variable of the list is updated.                    *)
UpdateDone_AfterOne ==
  /\ Sound /\ stack # <<>> /\ Top.op = "update" /\ Top.v = NULL
  /\ Top.done # {} \/ LinkedVars(Top.cmd) = {}
  /\ stack' = Tail(stack)
  /\ UNCHANGED <<reg, links, value, slot, queue, var, written, put, client,
                 behind, fault>>

UpdateDone ==
  /\ Sound /\ stack # <<>> /\ Top.op = "update" /\ Top.v = NULL
  /\ LinkedVars(Top.cmd) \subseteq Top.done
  /\ stack' = Tail(stack)
  /\ UNCHANGED <<reg, links, value, slot, queue, var, written, put, client,
                 behind, fault>>

(* The command object, or the variable in its list, is used after it has been *)
(* deleted: by an event that is served, or by an operation that goes on after *)
(* a trace (another object may be at the same address by then, or the         *)
(* variable be in the list again).                                            *)
UseDestroyed ==
  /\ Sound
  /\ \/ /\ Ready /\ queue # <<>> /\ registry[Head(queue).name] # NULL
        /\ ~Allocated(Head(queue).cmd)
     \/ InTrace /\ Top.gone
  /\ fault' = "command"
  /\ UNCHANGED <<reg, links, value, slot, queue, stack, var, written, put,
                 client, behind>>

(* A linked variable is traced, but Tcl runs no trace of a variable from      *)
(* within another trace of that variable.                                     *)
Traced(c, v) ==
  v \in LinkedVars(c) /\ \A i \in DOMAIN stack : stack[i].v # v

(* A script writes a variable, and its trace sets the channel.                *)
ScriptWrite(v, x) ==
  /\ Ready
  /\ var' = [var EXCEPT ![v] = x]
  /\ written' = written \cup {v}
  /\ \/ /\ \A c \in Commands : ~Traced(c, v)
        /\ UNCHANGED put
     \/ \E c \in Commands :
          /\ Traced(c, v)
          /\ put' = [name |-> name[c], value |-> x]
  /\ UNCHANGED <<reg, links, value, slot, queue, stack, client, behind, fault>>

-----------------------------------------------------------------------------
Continue ==
  \/ Destroyed \/ LinkDone \/ NextVariable \/ UpdateDone
  \/ \E v \in Vars : UpdateVariable(v)

Serve == DropEvent \/ ServeEvent

Script ==
  \/ \E cl \in Clients, n \in Names :
       \/ CreateChannel(cl, n) \/ DeleteChannel(cl, n)
       \/ \E v \in Vars : Link(cl, n, v) \/ LinkAgain(cl, n, v) \/ Unlink(cl, n, v)
  \/ \E v \in Vars, x \in Values : ScriptWrite(v, x)

Next ==
  \/ Script \/ Serve \/ Continue \/ UseDestroyed
  \/ \E c \in Commands, x \in Values : ChannelUpdate(c, x)

Spec == Init /\ [][Next]_vars

(* An operation that has begun goes on, and the interpreter serves its queue  *)
(* however many commands it runs in between (strong: between two commands the *)
(* queue is looked at, not waited on).  Channels and scripts owe nothing.     *)
FairSpec == Spec /\ WF_vars(Continue) /\ SF_vars(Serve \/ UseDestroyed)
-----------------------------------------------------------------------------
(* Properties. *)

(* Every variable has its type.                                               *)
TypeOK ==
  /\ registry \in [Names -> Commands \cup {NULL}]
  /\ refcount \in [Names -> Nat]
  /\ name \in [Commands -> Names \cup {NULL}]
  /\ links \in [Commands -> [Vars -> Nat]]
  /\ value \in [Commands -> Values \cup {NoValue}]
  /\ slot \subseteq Commands /\ behind \subseteq Commands
  /\ queue \in Seq([cmd : Commands, name : Names])
  /\ stack \in Seq(Frames)
  /\ var \in [Vars -> Values \cup {NoValue}] /\ written \subseteq Vars
  /\ put \in [name : Names, value : Values] \cup {NULL}
  /\ holds \subseteq Clients \X Names
  /\ linked \subseteq Clients \X Names \X Vars
  /\ fault \in {"none", "command", "node"}

(* The registry is exact: a name is registered, with a command object of that *)
(* name, exactly while some client holds it, and counts its holders; so no    *)
(* section of the application destroys what another one still uses, and none  *)
(* can keep a command alive by mistake.                                       *)
RegistryExact ==
  \A n \in Names :
    /\ refcount[n] = Cardinality({cl \in Clients : <<cl, n>> \in holds})
    /\ IF refcount[n] = 0 THEN registry[n] = NULL
       ELSE registry[n] # NULL /\ name[registry[n]] = n

(* A command has a variable in its list as many times as clients have linked  *)
(* it and not unlinked it, since the command was created.                     *)
LinksExact ==
  stack = <<>> =>
    \A n \in Names, v \in Vars : registry[n] # NULL =>
      links[registry[n]][v]
        = Cardinality({cl \in Clients : <<cl, n, v>> \in linked})

(* No two commands have the same variable, destroyed ones and ones not        *)
(* registered included, whatever is linked, unlinked, deleted and recreated.  *)
OneChannelPerVariable ==
  \A v \in Vars, c, d \in Commands :
    v \in LinkedVars(c) /\ v \in LinkedVars(d) => c = d

(* A channel notifies its command exactly while the command has variables to  *)
(* update, so a change is neither missed nor signalled for nothing.           *)
SlotIffLinked ==
  stack = <<>> => \A c \in Commands : c \in slot <=> LinkedVars(c) # {}

(* Between two commands, a linked variable shows its channel's value unless a *)
(* script has written it since, a change event for the command is in the      *)
(* queue, or the channel changed between the reading of its value and the     *)
(* setting of the slot when the command's first variable was linked.          *)
Shows(c, v) ==
  \/ var[v] = value[c]
  \/ v \in written
  \/ \E i \in DOMAIN queue : queue[i].cmd = c
  \/ c \in behind

LinkedVariablesFollow ==
  stack = <<>> =>
    \A c \in Commands : \A v \in LinkedVars(c) : Shows(c, v)

(* What a channel gives its variables is never sent back to a channel: a put  *)
(* is made by a script's write, and goes to the one channel the variable is   *)
(* linked to.                                                                 *)
PutsAreWrites ==
  [][put' # put =>
       \E v \in Vars : /\ v \in written' /\ var'[v] = put'.value
                       /\ v \in LinkedVars(registry[put'.name])
                       /\ UNCHANGED <<queue, stack, value>>]_vars

(* The package keeps the promise of ChannelRegistry: reference counts, links  *)
(* and puts behave as if every command were one step.                         *)
Follows == {f \in Vars \X Names :
              registry[f[2]] # NULL /\ f[1] \in LinkedVars(registry[f[2]])}

Promise == INSTANCE ChannelRegistry WITH count <- refcount, follows <- Follows

PromiseKept == Promise!Spec

(* A change that is queued is shown if it is the last one: as long as the     *)
(* variable stays linked, no script writes it and nothing deleted is used, it *)
(* ends up with the value the channel has settled at.                         *)
ChangesAreShown ==
  \A c \in Commands, v \in Vars, x \in Values :
    []( (\E i \in DOMAIN queue : queue[i].cmd = c)
          /\ [](value[c] = x /\ v \in LinkedVars(c) \ written /\ Sound)
        => <>[](var[v] = x) )

(* "Don't allow channel command update handlers to run on channel commands    *)
(* that were destroyed" (src/CHANGELOG), and the comment on the test in       *)
(* update, "then it was deleted between the event being queued to us and      *)
(* dispatched to us.. so we just ignore the event"                            *)
(* (src/CTCLChannelCommand.cpp:670): no destroyed command is used.            *)
DestroyedCommandsStayQuiet == fault # "command"
=============================================================================
