---------------------- MODULE EpicsCommandsFlat_proofs ----------------------
(* Proofs about EpicsCommands when no commands are run from within write      *)
(* traces (MaxNesting = 0), for every set of names, variables, values and     *)
(* addresses, every finite set of clients and every length of the queue.      *)
EXTENDS EpicsCommands_proofs

-----------------------------------------------------------------------------
(* The inductive invariants.                                                  *)

(* Whoever links a variable is counted, the one for whom it is just being     *)
(* linked for the first time included; nobody has links of a name that is not *)
(* registered.                                                                *)
Linkers(n, v) == {cl \in Clients : <<cl, n, v>> \in linked}

Linking(c, v) ==
  stack # <<>> /\ Top.op = "link" /\ Top.cmd = c /\ Top.v = v

Counted(n, v) ==
  IF registry[n] = NULL THEN Linkers(n, v) = {}
  ELSE Cardinality(Linkers(n, v))
         = links[registry[n]][v] + (IF Linking(registry[n], v) THEN 1 ELSE 0)

LinksCounted == \A n \in Names, v \in Vars : Counted(n, v)

(* A change of the command's channel is queued that will be served, since it  *)
(* names the command as it is now.                                            *)
Queued(c) ==
  \E i \in 1 .. Len(queue) : queue[i].cmd = c /\ queue[i].name = name[c]

Showing(c, v) ==
  var[v] = value[c] \/ v \in written \/ Queued(c) \/ c \in behind

(* UpdateLinkedVariable has yet to come to the variable.                      *)
Awaited(c, v) ==
  /\ stack # <<>> /\ Top.op = "update" /\ Top.cmd = c
  /\ v \notin Top.done /\ v # Top.v

(* What LinkedVariablesFollow needs within operations: the variable is still  *)
(* to be updated, and one that is being linked shows its value already.       *)
Following ==
  /\ \A c \in Commands : \A v \in LinkedVars(c) : Showing(c, v) \/ Awaited(c, v)
  /\ stack # <<>> /\ Top.op = "link" => Showing(Top.cmd, Top.v)

-----------------------------------------------------------------------------
(* Lemmas. *)

(* A command is registered under one name, its own.                           *)
LEMMA OneName ==
  ASSUME TypeOK, RegistryExact, NEW n \in Names, registry[n] # NULL
  PROVE  /\ registry[n] \in Commands /\ name[registry[n]] = n
         /\ \A m \in Names : registry[m] = registry[n] => m = n
<1>1. registry \in [Names -> Commands \cup {NULL}]
  BY DEF TypeOK
<1>2. \A m \in Names : registry[m] # NULL => name[registry[m]] = m
  BY DEF RegistryExact
<1> QED
  BY ONLY <1>1, <1>2, registry[n] # NULL, n \in Names

(* Between two operations nothing is being linked or updated.                 *)
LEMMA Idle ==
  ASSUME MaxNesting = 0, FlatInv, Ready
  PROVE  /\ stack = <<>>
         /\ \A c, v : ~Linking(c, v) /\ ~Awaited(c, v)
<1>1. stack = <<>>
  BY ReadyFlat DEF FlatInv, IInv
<1> QED
  BY <1>1 DEF Linking, Awaited

(* A loop that goes on to another variable remembers those it has done.       *)
LEMMA TopMoves ==
  ASSUME TypeOK, stack # <<>>,
         NEW w \in Vars \cup {NULL}, NEW d \in SUBSET Vars,
         stack' = [stack EXCEPT ![1].v = w, ![1].done = @ \cup d]
  PROVE  /\ stack' \in Seq(Frames) /\ Len(stack') = Len(stack)
         /\ stack'[1].op = stack[1].op /\ stack'[1].cmd = stack[1].cmd
         /\ stack'[1].v = w /\ stack'[1].done = stack[1].done \cup d
<1>1. stack \in Seq(Frames)
  BY DEF TypeOK
<1>2. stack' \in Seq(Frames)
  BY <1>1, SetTop
<1>6. Len(stack') = Len(stack)
  BY <1>1, SetTop
<1>3. stack'[1].op = stack[1].op /\ stack'[1].cmd = stack[1].cmd
  BY <1>1, SetTop
<1>4. stack'[1].v = w
  BY <1>1, SetTop
<1>5. stack'[1].done = stack[1].done \cup d
  BY <1>1, SetTop
<1> QED
  BY <1>2, <1>3, <1>4, <1>5, <1>6

(* What the steps of the loop over the variables leave on top of the stack.   *)
LEMMA OnTop ==
  ASSUME TypeOK, Flat
  PROVE  /\ stack # <<>> => Top \in Frames /\ Top = stack[1]
         /\ \A v \in Vars : UpdateVariable(v) =>
              /\ stack # <<>> /\ stack' # <<>> /\ Top'.op = "update"
              /\ Top'.cmd = Top.cmd /\ Top'.v = v /\ Top'.done = Top.done
         /\ NextVariable =>
              /\ stack # <<>> /\ stack' # <<>> /\ Top'.op = "update"
              /\ Top'.cmd = Top.cmd /\ Top'.v = NULL
              /\ Top'.done = Top.done \cup {Top.v}
         /\ UpdateDone => stack' = <<>>
         /\ stack = <<>> /\ ServeEvent =>
              /\ stack' # <<>> /\ Top'.op = "update" /\ Top'.done = {}
              /\ Top'.cmd = Head(queue).cmd /\ Top'.v = NULL
<1>1. stack \in Seq(Frames)
  BY DEF TypeOK
<1>2. stack # <<>> => Top \in Frames /\ Top = stack[1]
  BY <1>1, PopStack DEF Top
<1>3. ASSUME NEW s \in Seq(Frames), Len(s) = Len(stack), stack # <<>>
      PROVE  s # <<>> /\ Head(s) = s[1]
  <2>1. s # <<>>
    BY <1>1, <1>3
  <2> QED
    BY <2>1, PopStack
<1>4. ASSUME NEW v \in Vars, UpdateVariable(v)
      PROVE  /\ stack # <<>> /\ stack' # <<>> /\ Top'.op = "update"
             /\ Top'.cmd = Top.cmd /\ Top'.v = v /\ Top'.done = Top.done
  <2>1. PICK w \in Vars \cup {NULL}, d \in SUBSET Vars : w = v /\ d = {}
    OBVIOUS
  <2>2. PICK t : t = [stack EXCEPT ![1].v = w]
    OBVIOUS
  <2>3. stack # <<>> /\ Top.op = "update" /\ stack' = t
    BY <1>4, <2>1, <2>2 DEF UpdateVariable
  <2>4. /\ t \in Seq(Frames) /\ Len(t) = Len(stack)
        /\ t[1].op = stack[1].op /\ t[1].cmd = stack[1].cmd /\ t[1].v = w
        /\ t[1].done = stack[1].done
    BY <1>1, <2>2, <2>3, SetTop
  <2>5. t # <<>> /\ Head(t) = t[1]
    BY <1>3, <2>3, <2>4
  <2>6. Top' = t[1]
    BY <2>3, <2>5 DEF Top
  <2> QED
    BY <1>2, <2>1, <2>3, <2>4, <2>5, <2>6
<1>5. ASSUME NextVariable
      PROVE  /\ stack # <<>> /\ stack' # <<>> /\ Top'.op = "update"
             /\ Top'.cmd = Top.cmd /\ Top'.v = NULL
             /\ Top'.done = Top.done \cup {Top.v}
  <2>1. PICK w \in Vars \cup {NULL}, d \in SUBSET Vars :
          w = NULL /\ d = {Top.v}
    BY <1>2, <1>5 DEF NextVariable, Frames
  <2>2. stack' = [stack EXCEPT ![1].v = w, ![1].done = @ \cup d]
    BY <1>5, <2>1 DEF NextVariable
  <2>3. stack # <<>> /\ Top.op = "update"
    BY <1>5 DEF NextVariable
  <2>4. /\ stack' \in Seq(Frames) /\ Len(stack') = Len(stack)
        /\ stack'[1].op = stack[1].op /\ stack'[1].cmd = stack[1].cmd
        /\ stack'[1].v = w /\ stack'[1].done = stack[1].done \cup d
    <3>1. stack # <<>>
      BY <2>3
    <3> QED
      BY <2>2, <3>1, TopMoves
  <2>5. stack' # <<>> /\ Head(stack') = stack'[1]
    BY <1>3, <2>3, <2>4
  <2>6. Top' = stack'[1]
    BY <2>3, <2>5 DEF Top
  <2> QED
    BY <1>2, <2>1, <2>3, <2>4, <2>5, <2>6
<1>6. UpdateDone => stack' = <<>>
  BY OneFrame DEF UpdateDone
<1>7. stack = <<>> /\ ServeEvent =>
        /\ stack' # <<>> /\ Top'.op = "update" /\ Top'.done = {}
        /\ Top'.cmd = Head(queue).cmd /\ Top'.v = NULL
  BY OneFrame DEF ServeEvent
<1> QED
  BY <1>2, <1>4, <1>5, <1>6, <1>7

LEMMA LinkersAreFinite ==
  ASSUME NEW n, NEW v
  PROVE  IsFiniteSet(Linkers(n, v)) /\ Cardinality(Linkers(n, v)) \in Nat
<1>1. Linkers(n, v) \subseteq Clients
  BY DEF Linkers
<1> QED
  BY <1>1, ClientsAssumption, FS_Subset, FS_CardinalityType

LEMMA LinkerAdded ==
  ASSUME NEW cl \in Clients, NEW n \in Names, NEW v \in Vars,
         <<cl, n, v>> \notin linked, linked' = linked \cup {<<cl, n, v>>}
  PROVE  /\ Cardinality(Linkers(n, v)') = Cardinality(Linkers(n, v)) + 1
         /\ \A m \in Names, w \in Vars :
              m # n \/ w # v => Linkers(m, w)' = Linkers(m, w)
<1>1. Linkers(n, v)' = Linkers(n, v) \cup {cl} /\ cl \notin Linkers(n, v)
  BY DEF Linkers
<1>2. \A m \in Names, w \in Vars :
        m # n \/ w # v => Linkers(m, w)' = Linkers(m, w)
  BY DEF Linkers
<1>3. Cardinality(Linkers(n, v) \cup {cl}) = Cardinality(Linkers(n, v)) + 1
  BY <1>1, LinkersAreFinite, FS_AddElement
<1> QED
  BY <1>1, <1>2, <1>3

LEMMA LinkerRemoved ==
  ASSUME NEW cl \in Clients, NEW n \in Names, NEW v \in Vars,
         <<cl, n, v>> \in linked, linked' = linked \ {<<cl, n, v>>}
  PROVE  /\ Cardinality(Linkers(n, v)') = Cardinality(Linkers(n, v)) - 1
         /\ \A m \in Names, w \in Vars :
              m # n \/ w # v => Linkers(m, w)' = Linkers(m, w)
<1>1. Linkers(n, v)' = Linkers(n, v) \ {cl} /\ cl \in Linkers(n, v)
  BY DEF Linkers
<1>2. \A m \in Names, w \in Vars :
        m # n \/ w # v => Linkers(m, w)' = Linkers(m, w)
  BY DEF Linkers
<1>3. Cardinality(Linkers(n, v) \ {cl}) = Cardinality(Linkers(n, v)) - 1
  BY <1>1, LinkersAreFinite, FS_RemoveElement
<1> QED
  BY <1>1, <1>2, <1>3

-----------------------------------------------------------------------------
(* Links are counted. *)

LEMMA CountedStep ==
  ASSUME MaxNesting = 0, FlatInv, LinksCounted, [Next]_vars
  PROVE  LinksCounted'
<1> USE DEF reg, client
<1>0. /\ TypeOK /\ RegistryExact /\ StackOK /\ LinksOfAllocated /\ Flat
      /\ registry \in [Names -> Commands \cup {NULL}]
      /\ links \in [Commands -> [Vars -> Nat]]
      /\ stack \in Seq(Frames)
  BY DEF FlatInv, IInv, TypeOK
<1>c. \A n \in Names, v \in Vars : Counted(n, v)
  BY DEF LinksCounted
<1>q. ASSUME UNCHANGED <<registry, links, linked>>,
             \A c \in Commands, v \in Vars : Linking(c, v)' <=> Linking(c, v)
      PROVE  LinksCounted'
  BY <1>0, <1>c, <1>q DEF LinksCounted, Counted, Linkers
<1>1. ASSUME NEW cl \in Clients, NEW n \in Names, CreateChannel(cl, n)
      PROVE  LinksCounted'
  <2>1. /\ stack = <<>> /\ UNCHANGED <<links, linked, stack>>
        /\ \A c, v : ~Linking(c, v)
    BY <1>1, Idle DEF CreateChannel
  <2>2. CASE UNCHANGED registry
    BY <1>q, <2>1, <2>2 DEF Linking, Top
  <2>3. ASSUME registry[n] = NULL, NEW c \in Commands, ~Allocated(c),
               registry' = [registry EXCEPT ![n] = c]
        PROVE  LinksCounted'
    <3>1. LinkedVars(c) = {}
      BY <1>0, <2>3 DEF LinksOfAllocated
    <3>2. ASSUME NEW m \in Names, NEW v \in Vars PROVE Counted(m, v)'
      <4>1. Linkers(m, v)' = Linkers(m, v) /\ ~Linking(registry[m], v)'
        BY <2>1 DEF Linkers, Linking
      <4>2. CASE m = n
        <5>1. links[c][v] = 0
          BY <1>0, <3>1 DEF LinkedVars
        <5>2. Linkers(n, v) = {} /\ Cardinality({}) = 0
          BY <1>c, <2>3, FS_EmptySet DEF Counted
        <5>3. registry'[m] = c /\ c # NULL
          BY <1>0, <2>3, <4>2, NullAssumption
        <5> QED
          BY <2>1, <4>1, <4>2, <5>1, <5>2, <5>3 DEF Counted
      <4>3. CASE m # n
        <5>1. registry'[m] = registry[m]
          BY <1>0, <2>3, <4>3
        <5>2. Counted(m, v)
          BY <1>c
        <5> QED
          BY <2>1, <4>1, <5>1, <5>2 DEF Counted
      <4> QED
        BY <4>2, <4>3
    <3> QED
      BY <3>2 DEF LinksCounted
  <2> QED
    BY <1>1, <2>2, <2>3 DEF CreateChannel
<1>2. ASSUME NEW cl \in Clients, NEW n \in Names, DeleteChannel(cl, n)
      PROVE  LinksCounted'
  <2>1. /\ stack = <<>> /\ UNCHANGED links
        /\ \A c, v : ~Linking(c, v)
    BY <1>2, Idle DEF DeleteChannel
  <2>2. CASE UNCHANGED <<registry, stack, linked>>
    BY <1>q, <2>1, <2>2 DEF Linking, Top
  <2>3. CASE /\ registry' = [registry EXCEPT ![n] = NULL]
             /\ linked' = {l \in linked : l[2] # n}
             /\ Push("destroy", registry[n], NULL)
    <3>1. Top'.op = "destroy"
      BY <1>0, <2>1, <2>3, OneFrame
    <3>2. ASSUME NEW m \in Names, NEW v \in Vars PROVE Counted(m, v)'
      <4>1. ~Linking(registry[m], v)'
        BY <3>1 DEF Linking
      <4>2. CASE m = n
        <5>1. registry'[m] = NULL /\ Linkers(m, v)' = {}
          BY <1>0, <2>3, <4>2 DEF Linkers
        <5> QED
          BY <5>1 DEF Counted
      <4>3. CASE m # n
        <5>1. registry'[m] = registry[m] /\ Linkers(m, v)' = Linkers(m, v)
          BY <1>0, <2>3, <4>3 DEF Linkers
        <5>2. Counted(m, v)
          BY <1>c
        <5> QED
          BY <2>1, <4>1, <5>1, <5>2 DEF Counted
      <4> QED
        BY <4>2, <4>3
    <3> QED
      BY <3>2 DEF LinksCounted
  <2> QED
    BY <1>2, <2>2, <2>3 DEF DeleteChannel
<1>3. ASSUME Destroyed
      PROVE  LinksCounted'
  <2>1. PICK c : c = Top.cmd
    OBVIOUS
  <2>2. /\ stack # <<>> /\ Top.op = "destroy" /\ UNCHANGED <<registry, linked>>
        /\ links' = [links EXCEPT ![c] = [v \in Vars |-> 0]]
        /\ stack' = <<>>
    BY <1>0, <1>3, <2>1, OneFrame DEF Destroyed
  <2>3. ~Registered(c)
    <3>1. Top = stack[1] /\ Len(stack) \in Nat /\ Len(stack) # 0
      BY <1>0, <2>2, PopStack DEF Top
    <3> QED
      BY <1>0, <2>1, <2>2, <3>1 DEF StackOK, FrameOK
  <2>4. ASSUME NEW m \in Names, NEW v \in Vars PROVE Counted(m, v)'
    <3>1. /\ Linkers(m, v)' = Linkers(m, v) /\ ~Linking(registry[m], v)'
          /\ ~Linking(registry[m], v)
      BY <2>2 DEF Linkers, Linking
    <3>2. registry[m] # NULL => links'[registry[m]] = links[registry[m]]
      BY <1>0, <2>2, <2>3 DEF Registered
    <3>3. Counted(m, v)
      BY <1>c
    <3> QED
      BY <2>2, <3>1, <3>2, <3>3 DEF Counted
  <2> QED
    BY <2>4 DEF LinksCounted
<1>4. ASSUME NEW cl \in Clients, NEW n \in Names, NEW v \in Vars,
             Link(cl, n, v)
      PROVE  LinksCounted'
  <2>1. /\ stack = <<>> /\ UNCHANGED <<registry, links>>
        /\ \A c, w : ~Linking(c, w)
        /\ <<cl, n, v>> \notin linked /\ linked' = linked \cup {<<cl, n, v>>}
        /\ Push("link", registry[n], v) /\ <<cl, n>> \in holds
    BY <1>4, Idle DEF Link
  <2>2. registry[n] # NULL
    BY <1>0, <2>1, HeldIsRegistered, NullAssumption
  <2>3. /\ stack' # <<>>
        /\ Top' = [op |-> "link", cmd |-> registry[n], v |-> v, done |-> {},
                   gone |-> FALSE]
    BY <1>0, <2>1, OneFrame
  <2>4. ASSUME NEW m \in Names, NEW w \in Vars PROVE Counted(m, w)'
    <3>1. Counted(m, w) /\ ~Linking(registry[m], w)
      BY <1>c, <2>1
    <3>2. CASE m = n /\ w = v
      <4>1. Linking(registry[m], w)'
        BY <2>1, <2>3, <3>2 DEF Linking
      <4>2. Cardinality(Linkers(m, w)') = Cardinality(Linkers(m, w)) + 1
        BY <2>1, <3>2, LinkerAdded
      <4>3. links[registry[m]][w] \in Nat
        BY <1>0, <2>2, <3>2
      <4> QED
        BY <2>1, <2>2, <3>1, <3>2, <4>1, <4>2, <4>3 DEF Counted
    <3>3. CASE m # n \/ w # v
      <4>1. registry[m] # NULL => ~Linking(registry[m], w)'
        BY <1>0, <2>1, <2>2, <2>3, <3>3, OneName DEF Linking
      <4>2. Linkers(m, w)' = Linkers(m, w)
        BY <2>1, <3>3, LinkerAdded
      <4> QED
        BY <2>1, <3>1, <4>1, <4>2 DEF Counted
    <3> QED
      BY <3>2, <3>3
  <2> QED
    BY <2>4 DEF LinksCounted
<1>5. ASSUME LinkDone
      PROVE  LinksCounted'
  <2>1. PICK c, v : c = Top.cmd /\ v = Top.v
    OBVIOUS
  <2>2. /\ stack # <<>> /\ Top.op = "link" /\ UNCHANGED <<registry, linked>>
        /\ links' = [links EXCEPT ![c][v] = @ + 1]
        /\ stack' = <<>>
    BY <1>0, <1>5, <2>1, OneFrame DEF LinkDone
  <2>3. c \in Commands /\ v \in Vars
    <3>1. Top = stack[1] /\ Top \in Frames /\ Len(stack) \in Nat /\ Len(stack) # 0
      BY <1>0, <2>2, PopStack DEF Top
    <3> QED
      BY <1>0, <2>1, <2>2, <3>1 DEF StackOK, FrameOK, Frames
  <2>4. ASSUME NEW m \in Names, NEW w \in Vars PROVE Counted(m, w)'
    <3>1. /\ Counted(m, w) /\ Linkers(m, w)' = Linkers(m, w)
          /\ ~Linking(registry[m], w)'
      BY <1>c, <2>2 DEF Linkers, Linking
    <3>2. CASE registry[m] = c /\ w = v
      <4>1. Linking(registry[m], w)
        BY <2>1, <2>2, <3>2 DEF Linking
      <4>2. links'[registry[m]][w] = links[registry[m]][w] + 1
        BY <1>0, <2>2, <2>3, <3>2
      <4>3. links[registry[m]][w] \in Nat
        BY <1>0, <2>3, <3>2
      <4> QED
        BY <2>2, <3>1, <4>1, <4>2, <4>3 DEF Counted
    <3>3. CASE registry[m] # c \/ w # v
      <4>1. ~Linking(registry[m], w)
        BY <2>1, <3>3 DEF Linking
      <4>2. registry[m] # NULL => links'[registry[m]][w] = links[registry[m]][w]
        BY <1>0, <2>2, <2>3, <3>3
      <4> QED
        BY <2>2, <3>1, <4>1, <4>2 DEF Counted
    <3> QED
      BY <3>2, <3>3
  <2> QED
    BY <2>4 DEF LinksCounted
<1>6. ASSUME NEW cl \in Clients, NEW n \in Names, NEW v \in Vars,
             LinkAgain(cl, n, v) \/ Unlink(cl, n, v)
      PROVE  LinksCounted'
  <2>1. /\ stack = <<>> /\ stack' = <<>> /\ UNCHANGED registry
        /\ \A c, w : ~Linking(c, w)
    BY <1>6, Idle DEF LinkAgain, Unlink
  <2>2. registry[n] \in Commands
    BY <1>0, <1>6, HeldIsRegistered DEF LinkAgain, Unlink
  <2>3. links[registry[n]][v] \in Nat /\ links[registry[n]][v] > 0
    BY <1>0, <1>6, <2>2 DEF LinkAgain, Unlink, LinkedVars
  <2>4. PICK k \in {-1, 1} :
          /\ links' = [links EXCEPT ![registry[n]][v] = @ + k]
          /\ Cardinality(Linkers(n, v)') = Cardinality(Linkers(n, v)) + k
          /\ \A m \in Names, w \in Vars :
               m # n \/ w # v => Linkers(m, w)' = Linkers(m, w)
    <3>1. CASE LinkAgain(cl, n, v)
      BY <3>1, LinkerAdded DEF LinkAgain
    <3>2. CASE Unlink(cl, n, v)
      <4>1. /\ <<cl, n, v>> \in linked /\ linked' = linked \ {<<cl, n, v>>}
            /\ links' = [links EXCEPT ![registry[n]][v] = @ - 1]
        BY <3>2 DEF Unlink
      <4>2. links' = [links EXCEPT ![registry[n]][v] = @ + (-1)]
        BY <1>0, <2>2, <2>3, <4>1
      <4>3. Cardinality(Linkers(n, v)') = Cardinality(Linkers(n, v)) + (-1)
        BY <4>1, LinkerRemoved, LinkersAreFinite
      <4> QED
        BY <4>1, <4>2, <4>3, LinkerRemoved
    <3> QED
      BY <1>6, <3>1, <3>2
  <2>5. ASSUME NEW m \in Names, NEW w \in Vars PROVE Counted(m, w)'
    <3>1. Counted(m, w) /\ ~Linking(registry[m], w) /\ ~Linking(registry[m], w)'
      BY <1>c, <2>1 DEF Linking
    <3>2. CASE m = n /\ w = v
      <4>1. links'[registry[m]][w] = links[registry[m]][w] + k
        BY <1>0, <2>2, <2>4, <3>2
      <4>2. registry[m] # NULL
        BY <2>2, <3>2, NullAssumption
      <4> QED
        BY <2>1, <2>3, <2>4, <3>1, <3>2, <4>1, <4>2 DEF Counted
    <3>3. CASE m # n \/ w # v
      <4>1. registry[m] # NULL => links'[registry[m]][w] = links[registry[m]][w]
        <5>1. registry[m] # NULL => registry[m] # registry[n] \/ w # v
          BY <1>0, <2>2, <3>3, OneName
        <5> QED
          BY <1>0, <2>2, <2>4, <5>1
      <4> QED
        BY <2>1, <2>4, <3>1, <3>3, <4>1 DEF Counted
    <3> QED
      BY <3>2, <3>3
  <2> QED
    BY <2>5 DEF LinksCounted
<1>7. ASSUME \/ ServeEvent \/ NextVariable \/ UpdateDone
             \/ \E v \in Vars : UpdateVariable(v)
      PROVE  LinksCounted'
  <2>1. UNCHANGED <<registry, links, linked>>
    BY <1>7 DEF ServeEvent, NextVariable, UpdateDone, UpdateVariable
  <2>2. \A c, v : ~Linking(c, v)
    BY <1>7, Idle DEF ServeEvent, NextVariable, UpdateDone, UpdateVariable,
                      Linking
  <2>3. \A c, v : ~Linking(c, v)'
    BY <1>0, <1>7, OnTop, Idle DEF Linking, ServeEvent
  <2> QED
    BY <1>q, <2>1, <2>2, <2>3
<1>8. ASSUME \/ \E v \in Vars, x \in Values : ScriptWrite(v, x)
             \/ DropEvent \/ UseDestroyed
             \/ \E c \in Commands, x \in Values : ChannelUpdate(c, x)
             \/ UNCHANGED vars
      PROVE  LinksCounted'
  <2>1. UNCHANGED <<registry, links, linked, stack>>
    BY <1>8 DEF ScriptWrite, DropEvent, UseDestroyed, ChannelUpdate, vars
  <2> QED
    <3>1. ASSUME NEW c, NEW v PROVE Linking(c, v)' <=> Linking(c, v)
      BY <2>1 DEF Linking, Top
    <3> QED
      BY <1>q, <2>1, <3>1
<1> QED
  BY <1>1, <1>2, <1>3, <1>4, <1>5, <1>6, <1>7, <1>8
  DEF Next, Script, Serve, Continue

-----------------------------------------------------------------------------
(* Linked variables follow. *)

(* An event that is served or dropped, or one that is added, leaves the       *)
(* others in the queue.                                                       *)
LEMMA QueueStep ==
  ASSUME TypeOK, NEW c \in Commands, Queued(c), name'[c] = name[c]
  PROVE  /\ queue # <<>> /\ queue' = Tail(queue) =>
              \/ Queued(c)'
              \/ Head(queue).cmd = c /\ Head(queue).name = name[c]
         /\ \A e \in [cmd : Commands, name : Names] :
              queue' = Append(queue, e) => Queued(c)'
<1> DEFINE E == [cmd : Commands, name : Names]
<1>1. queue \in Seq(E) /\ Len(queue) \in Nat
  BY DEF TypeOK
<1>2. PICK i \in 1 .. Len(queue) : queue[i].cmd = c /\ queue[i].name = name[c]
  BY DEF Queued
<1> HIDE DEF E
<1>3. ASSUME queue # <<>>, queue' = Tail(queue), i # 1
      PROVE  Queued(c)'
  <2>1. /\ Len(queue') = Len(queue) - 1
        /\ \A j \in 1 .. Len(queue) - 1 : queue'[j] = queue[j + 1]
    BY <1>1, <1>3, HeadTailProperties
  <2>2. i - 1 \in 1 .. Len(queue) - 1 /\ (i - 1) + 1 = i
    BY <1>1, <1>3
  <2>3. queue'[i - 1] = queue[i] /\ i - 1 \in 1 .. Len(queue')
    BY <2>1, <2>2
  <2> QED
    BY <1>2, <2>3 DEF Queued
<1>4. ASSUME queue # <<>>, i = 1
      PROVE  Head(queue).cmd = c /\ Head(queue).name = name[c]
  BY <1>1, <1>2, <1>4
<1>5. ASSUME NEW e \in E, queue' = Append(queue, e)
      PROVE  Queued(c)'
  <2>1. Len(queue') = Len(queue) + 1 /\ queue'[i] = queue[i]
    BY <1>1, <1>5, AppendProperties
  <2>2. i \in 1 .. Len(queue')
    BY <1>1, <2>1
  <2> QED
    BY <1>2, <2>1, <2>2 DEF Queued
<1> QED
  BY <1>3, <1>4, <1>5 DEF E

LEMMA FollowingStep ==
  ASSUME MaxNesting = 0, FlatInv, Following, [Next]_vars
  PROVE  Following'
<1> USE DEF reg, client
<1>0. /\ TypeOK /\ RegistryExact /\ StackOK /\ LinksOfAllocated /\ SlotExact
      /\ Flat /\ OneChannelPerVariable /\ IInv
      /\ Flat' /\ OneChannelPerVariable' /\ TypeOK' /\ RegistryExact'
  BY FlatStep, NextIInv DEF FlatInv, IInv
<1>t. /\ var \in [Vars -> Values \cup {NoValue}]
      /\ value \in [Commands -> Values \cup {NoValue}]
      /\ stack \in Seq(Frames) /\ queue \in Seq([cmd : Commands, name : Names])
      /\ name \in [Commands -> Names \cup {NULL}]
  BY <1>0 DEF TypeOK
<1>f. \A c \in Commands : \A v \in LinkedVars(c) : Showing(c, v) \/ Awaited(c, v)
  BY DEF Following
<1>g. ASSUME ~LinkDone
      PROVE  \A c \in Commands : LinkedVars(c)' \subseteq LinkedVars(c)
  BY <1>0, <1>g, ListsGrow
<1>v. \A c \in Commands : LinkedVars(c) \subseteq Vars
  BY DEF LinkedVars
<1>q. ASSUME ~LinkDone, UNCHANGED <<var, value, queue>>,
             written \subseteq written',
             \A c \in Commands : LinkedVars(c)' # {} =>
               name'[c] = name[c] /\ (c \in behind => c \in behind'),
             \A c \in Commands : \A v \in LinkedVars(c) :
               Awaited(c, v) => Awaited(c, v)',
             stack' # <<>> => Top'.op # "link"
      PROVE  Following'
  <2>1. ASSUME NEW c \in Commands, NEW v \in LinkedVars(c)'
        PROVE  Showing(c, v)' \/ Awaited(c, v)'
    <3>1. v \in LinkedVars(c) /\ LinkedVars(c)' # {}
      BY <1>g, <1>q
    <3>2. Showing(c, v) => Showing(c, v)'
      BY <1>q, <3>1 DEF Showing, Queued
    <3> QED
      BY <1>f, <1>q, <3>1, <3>2
  <2> QED
    BY <1>q, <2>1 DEF Following
<1>1. ASSUME NEW cl \in Clients, NEW n \in Names, CreateChannel(cl, n)
      PROVE  Following'
  <2>1. /\ stack = <<>> /\ \A c, v : ~Awaited(c, v)
        /\ UNCHANGED <<stack, var, value, queue, written, behind>>
    BY <1>1, Idle DEF CreateChannel
  <2>2. ~LinkDone
    BY <2>1 DEF LinkDone
  <2>3. ASSUME NEW c \in Commands, LinkedVars(c)' # {} PROVE name'[c] = name[c]
    <3>1. Allocated(c)
      BY <1>0, <1>g, <2>2, <2>3 DEF LinksOfAllocated
    <3> QED
      BY <1>1, <1>t, <3>1 DEF CreateChannel
  <2> QED
    BY <1>q, <2>1, <2>2, <2>3
<1>2. ASSUME NEW cl \in Clients, NEW n \in Names, DeleteChannel(cl, n)
      PROVE  Following'
  <2>1. /\ stack = <<>> /\ \A c, v : ~Awaited(c, v)
        /\ UNCHANGED <<name, var, value, queue, written, behind>>
    BY <1>2, Idle DEF DeleteChannel
  <2>2. ~LinkDone
    BY <2>1 DEF LinkDone
  <2>3. stack' # <<>> => Top'.op = "destroy"
    BY <1>0, <1>2, <2>1, OneFrame DEF DeleteChannel
  <2> QED
    BY <1>q, <2>1, <2>2, <2>3
<1>3. ASSUME Destroyed
      PROVE  Following'
  <2>1. PICK c \in Commands : Empties(c)
    BY <1>0, <1>3, ListsStep
  <2>2. /\ stack # <<>> /\ Top.op = "destroy" /\ c = Top.cmd /\ stack' = <<>>
        /\ UNCHANGED <<var, queue, written>>
    BY <1>0, <1>3, <2>1, OneFrame DEF Destroyed, Empties
  <2>3. ~LinkDone /\ \A d, v : ~Awaited(d, v)
    BY <2>2 DEF LinkDone, Awaited
  <2>4. ASSUME NEW d \in Commands, d # c
        PROVE  name'[d] = name[d] /\ value'[d] = value[d]
               /\ (d \in behind => d \in behind')
    BY <1>3, <1>t, <2>2, <2>4 DEF Destroyed
  <2>5. ASSUME NEW d \in Commands, NEW v \in LinkedVars(d)'
        PROVE  Showing(d, v)'
    <3>1. d # c
      BY <2>1, <2>5 DEF Empties
    <3>2. Showing(d, v)
      BY <1>f, <1>g, <2>3
    <3> QED
      BY <2>2, <2>4, <3>1, <3>2 DEF Showing, Queued
  <2> QED
    BY <2>2, <2>5 DEF Following
<1>4. ASSUME NEW cl \in Clients, NEW n \in Names, NEW v \in Vars,
             Link(cl, n, v)
      PROVE  Following'
  <2>1. PICK c : c = registry[n]
    OBVIOUS
  <2>2. /\ stack = <<>> /\ \A d, w : ~Awaited(d, w)
        /\ UNCHANGED <<name, value, queue, behind>> /\ written' = written \ {v}
        /\ var' = [var EXCEPT ![v] = value[c]] /\ Push("link", c, v)
    BY <1>4, <2>1, Idle DEF Link, NewEpicsValue
  <2>3. ~LinkDone
    BY <2>2 DEF LinkDone
  <2>4. stack' # <<>> /\ Top'.op = "link" /\ Top'.cmd = c /\ Top'.v = v
    BY <1>0, <2>2, OneFrame
  <2>5. \A d \in Commands : v \notin LinkedVars(d)'
    BY <1>0, <2>4 DEF Flat
  <2>6. ASSUME NEW d \in Commands, NEW w \in LinkedVars(d)'
        PROVE  Showing(d, w)'
    <3>1. w # v /\ w \in LinkedVars(d) /\ w \in Vars
      BY <1>g, <1>v, <2>3, <2>5
    <3>2. Showing(d, w)
      BY <1>f, <2>2, <3>1
    <3>3. var'[w] = var[w] /\ (w \in written => w \in written')
      BY <1>t, <2>2, <3>1
    <3> QED
      BY <2>2, <3>2, <3>3 DEF Showing, Queued
  <2>7. Showing(c, v)'
    <3>1. var'[v] = value'[c]
      BY <1>t, <2>2
    <3> QED
      BY <3>1 DEF Showing
  <2> QED
    BY <2>4, <2>6, <2>7 DEF Following
<1>5. ASSUME LinkDone
      PROVE  Following'
  <2>1. PICK c \in Commands, v \in Vars : Adds(c, v) /\ c = Top.cmd /\ v = Top.v
    BY <1>0, <1>5, ListsStep
  <2>2. /\ stack # <<>> /\ Top.op = "link" /\ stack' = <<>>
        /\ UNCHANGED <<name, value, queue, var, written, behind>>
    BY <1>0, <1>5, OneFrame DEF LinkDone
  <2>3. \A d, w : ~Awaited(d, w)
    BY <2>2 DEF Awaited
  <2>4. ASSUME NEW d \in Commands, NEW w \in LinkedVars(d)'
        PROVE  Showing(d, w)
    <3>1. w \in LinkedVars(d) \/ (d = c /\ w = v)
      BY <2>1 DEF Adds, OnlyOf
    <3> QED
      BY <1>f, <2>1, <2>2, <2>3, <3>1 DEF Following
  <2>5. ASSUME NEW d \in Commands, NEW w \in LinkedVars(d)'
        PROVE  Showing(d, w)'
    BY <2>2, <2>4 DEF Showing, Queued
  <2> QED
    BY <2>2, <2>5 DEF Following
<1>6. ASSUME NEW cl \in Clients, NEW n \in Names, NEW v \in Vars,
             LinkAgain(cl, n, v) \/ Unlink(cl, n, v)
      PROVE  Following'
  <2>1. /\ stack = <<>> /\ stack' = <<>> /\ \A d, w : ~Awaited(d, w)
        /\ UNCHANGED <<name, value, queue, var, written, behind>>
    BY <1>6, Idle DEF LinkAgain, Unlink
  <2>2. ~LinkDone
    BY <2>1 DEF LinkDone
  <2> QED
    BY <1>q, <2>1, <2>2
<1>7. ASSUME ServeEvent \/ DropEvent
      PROVE  Following'
  <2>1. /\ stack = <<>> /\ \A d, w : ~Awaited(d, w)
        /\ UNCHANGED <<name, value, var, written, behind, registry>>
        /\ queue # <<>> /\ queue' = Tail(queue)
    BY <1>7, Idle DEF ServeEvent, DropEvent
  <2>2. ~LinkDone
    BY <2>1 DEF LinkDone
  <2>3. stack' # <<>> => Top'.op # "link"
    BY <1>0, <1>7, <2>1, OnTop DEF DropEvent
  <2>4. ASSUME NEW c \in Commands, NEW v \in LinkedVars(c)'
        PROVE  Showing(c, v)' \/ Awaited(c, v)'
    <3>1. v \in LinkedVars(c) /\ v \in Vars /\ LinkedVars(c) # {}
      BY <1>g, <1>v, <2>2
    <3>2. Showing(c, v)
      BY <1>f, <2>1, <3>1
    <3>3. PICK n \in Names : registry[n] = c
      BY <1>0, <2>1, <3>1 DEF Flat, Registered, BeingDestroyed
    <3>4. c # NULL /\ name[c] = n /\ registry[name[c]] # NULL
      BY <1>0, <3>3, NullAssumption, OneName
    <3>5. CASE Queued(c)
      <4>1. \/ Queued(c)'
            \/ Head(queue).cmd = c /\ Head(queue).name = name[c]
        BY <1>0, <2>1, <3>5, QueueStep
      <4>2. CASE Queued(c)'
        BY <4>2 DEF Showing
      <4>3. CASE Head(queue).cmd = c /\ Head(queue).name = name[c]
        <5>1. ServeEvent
          BY <1>7, <3>4, <4>3 DEF DropEvent
        <5>2. /\ stack' # <<>> /\ Top'.op = "update" /\ Top'.done = {}
              /\ Top'.cmd = c /\ Top'.v = NULL
          BY <1>0, <2>1, <4>3, <5>1, OnTop
        <5>3. v # NULL
          BY <3>1, NullAssumption
        <5> QED
          BY <5>2, <5>3 DEF Awaited
      <4> QED
        BY <4>1, <4>2, <4>3
    <3>6. CASE ~Queued(c)
      BY <2>1, <3>2, <3>6 DEF Showing
    <3> QED
      BY <3>5, <3>6
  <2> QED
    BY <2>3, <2>4 DEF Following
<1>8. ASSUME NEW v \in Vars, UpdateVariable(v)
      PROVE  Following'
  <2>1. PICK c \in Commands : c = Top.cmd
    BY <1>0, <1>8, OnTop DEF UpdateVariable, Frames
  <2>2. /\ stack # <<>> /\ Top.op = "update" /\ Top.v = NULL
        /\ v \in LinkedVars(c)
        /\ UNCHANGED <<name, value, queue, links, behind>>
        /\ written' = written \ {v}
        /\ var' = [var EXCEPT ![v] = value[c]]
    BY <1>8, <2>1 DEF UpdateVariable, NewEpicsValue
  <2>3. /\ stack' # <<>> /\ Top'.op = "update" /\ Top'.cmd = c /\ Top'.v = v
        /\ Top'.done = Top.done
    BY <1>0, <1>8, <2>1, OnTop
  <2>4. ASSUME NEW d \in Commands, NEW w \in LinkedVars(d)'
        PROVE  Showing(d, w)' \/ Awaited(d, w)'
    <3>1. w \in LinkedVars(d) /\ w \in Vars
      BY <1>v, <2>2, <2>4 DEF LinkedVars
    <3>2. CASE w = v
      <4>1. d = c
        BY <1>0, <2>2, <3>1, <3>2 DEF OneChannelPerVariable
      <4>2. var'[w] = value'[d]
        BY <1>t, <2>2, <3>2, <4>1
      <4> QED
        BY <4>2 DEF Showing
    <3>3. CASE w # v
      <4>1. var'[w] = var[w] /\ (w \in written => w \in written')
        BY <1>t, <2>2, <3>1, <3>3
      <4>2. Showing(d, w) => Showing(d, w)'
        BY <2>2, <4>1 DEF Showing, Queued
      <4>3. Awaited(d, w) => Awaited(d, w)'
        BY <2>1, <2>3, <3>3 DEF Awaited
      <4> QED
        BY <1>f, <3>1, <4>2, <4>3
    <3> QED
      BY <3>2, <3>3
  <2> QED
    BY <2>3, <2>4 DEF Following
<1>9. ASSUME NextVariable
      PROVE  Following'
  <2>1. /\ stack # <<>> /\ Top.op = "update"
        /\ UNCHANGED <<name, value, queue, var, written, behind>>
    BY <1>9 DEF NextVariable
  <2>2. ~LinkDone
    BY <2>1 DEF LinkDone
  <2>3. /\ stack' # <<>> /\ Top'.op = "update" /\ Top'.cmd = Top.cmd
        /\ Top'.v = NULL /\ Top'.done = Top.done \cup {Top.v}
    BY <1>0, <1>9, OnTop
  <2>4. ASSUME NEW c \in Commands, NEW v \in LinkedVars(c), Awaited(c, v)
        PROVE  Awaited(c, v)'
    <3>1. v # NULL
      BY <1>v, NullAssumption
    <3> QED
      BY <2>3, <2>4, <3>1 DEF Awaited
  <2> QED
    BY <1>q, <2>1, <2>2, <2>3, <2>4
<1>10. ASSUME UpdateDone
       PROVE  Following'
  <2>1. /\ stack # <<>> /\ Top.op = "update" /\ stack' = <<>>
        /\ LinkedVars(Top.cmd) \subseteq Top.done
        /\ UNCHANGED <<name, value, queue, var, written, behind>>
    BY <1>0, <1>10, OneFrame DEF UpdateDone
  <2>2. ~LinkDone
    BY <2>1 DEF LinkDone
  <2>3. ASSUME NEW c \in Commands, NEW v \in LinkedVars(c)
        PROVE  ~Awaited(c, v)
    BY <2>1 DEF Awaited
  <2> QED
    BY <1>q, <2>1, <2>2, <2>3
<1>11. ASSUME NEW c \in Commands, NEW x \in Values, ChannelUpdate(c, x)
       PROVE  Following'
  <2>1. /\ Allocated(c) /\ UNCHANGED <<name, stack, var, written, links>>
        /\ value' = [value EXCEPT ![c] = x]
    BY <1>11 DEF ChannelUpdate
  <2>2. \A d \in Commands : d # c => value'[d] = value[d]
    BY <1>t, <2>1
  <2>3. \A d \in Commands : LinkedVars(d)' = LinkedVars(d)
    BY <2>1 DEF LinkedVars
  <2>4. ASSUME NEW d \in Commands, NEW w, Awaited(d, w)
        PROVE  Awaited(d, w)'
    BY <2>1, <2>4 DEF Awaited, Top
  <2>5. CASE c \in slot
    <3>1. PICK e \in [cmd : Commands, name : Names] :
            e.cmd = c /\ e.name = name[c] /\ queue' = Append(queue, e)
      <4>1. [cmd |-> c, name |-> name[c]] \in [cmd : Commands, name : Names]
        BY <1>t, <2>1 DEF Allocated
      <4> QED
        BY <1>11, <2>5, <4>1 DEF ChannelUpdate
    <3>2. behind' = behind \ {c}
      BY <1>11, <2>5 DEF ChannelUpdate
    <3>3. Queued(c)'
      <4>1. /\ Len(queue') = Len(queue) + 1 /\ queue'[Len(queue) + 1] = e
            /\ Len(queue) \in Nat
        BY <1>t, <3>1, AppendProperties
      <4>2. Len(queue) + 1 \in 1 .. Len(queue')
        BY <4>1
      <4> QED
        BY <2>1, <3>1, <4>1, <4>2 DEF Queued
    <3>4. ASSUME NEW d \in Commands, NEW w, Showing(d, w)
          PROVE  Showing(d, w)'
      <4>1. CASE d = c
        BY <3>3, <4>1 DEF Showing
      <4>2. CASE d # c
        <5>1. Queued(d) => Queued(d)'
          BY <1>0, <2>1, <3>1, QueueStep
        <5> QED
          BY <2>1, <2>2, <3>2, <3>4, <4>2, <5>1 DEF Showing
      <4> QED
        BY <4>1, <4>2
    <3>5. stack # <<>> => Top.cmd \in Commands /\ Top' = Top
      BY <1>0, <2>1, OnTop DEF Frames, Top
    <3> QED
      BY <1>f, <2>1, <2>3, <2>4, <3>4, <3>5 DEF Following
  <2>6. CASE c \notin slot
    <3>1. /\ UNCHANGED queue
          /\ behind' = IF \E i \in DOMAIN stack :
                              stack[i].op = "link" /\ stack[i].cmd = c
                       THEN behind \cup {c} ELSE behind
      BY <1>11, <2>6 DEF ChannelUpdate
    <3>2. LinkedVars(c) = {}
      BY <1>0, <2>6 DEF SlotExact
    <3>3. ASSUME NEW d \in Commands, NEW w, d # c, Showing(d, w)
          PROVE  Showing(d, w)'
      BY <2>1, <2>2, <3>1, <3>3 DEF Showing, Queued
    <3>4. stack # <<>> => /\ Top.cmd \in Commands /\ Top' = Top /\ Top = stack[1]
                          /\ 1 \in DOMAIN stack
      BY <1>0, <1>t, <2>1, OnTop DEF Frames, Top
    <3>5. ASSUME NEW d, NEW w, stack # <<>>, Top.op = "link",
                 d = Top.cmd, w = Top.v
          PROVE  Showing(d, w)'
      <4>1. CASE d = c
        <5>1. c \in behind'
          BY <3>1, <3>4, <3>5, <4>1
        <5> QED
          BY <4>1, <5>1 DEF Showing
      <4>2. CASE d # c
        <5>1. d \in Commands /\ Showing(d, w)
          BY <3>4, <3>5 DEF Following
        <5> QED
          BY <3>3, <4>2, <5>1
      <4> QED
        BY <4>1, <4>2
    <3>6. stack' # <<>> /\ Top'.op = "link" => Showing(Top.cmd, Top.v)'
      <4> SUFFICES ASSUME stack' # <<>>, Top'.op = "link"
                   PROVE  Showing(Top.cmd, Top.v)'
        OBVIOUS
      <4>1. stack # <<>> /\ Top.op = "link" /\ Top' = Top
        BY <2>1, <3>4
      <4>2. PICK d, w : d = Top'.cmd /\ w = Top'.v
        OBVIOUS
      <4>3. d = Top.cmd /\ w = Top.v
        BY <4>1, <4>2
      <4>4. Showing(d, w)'
        BY <3>5, <4>1, <4>3
      <4> QED
        BY <4>2, <4>4
    <3> QED
      BY <1>f, <2>1, <2>3, <2>4, <3>2, <3>3, <3>6 DEF Following
  <2> QED
    BY <2>5, <2>6
<1>12. ASSUME NEW v \in Vars, NEW x \in Values, ScriptWrite(v, x)
       PROVE  Following'
  <2>1. /\ stack = <<>> /\ stack' = <<>> /\ \A d, w : ~Awaited(d, w)
        /\ UNCHANGED <<name, value, queue, links, behind>>
        /\ var' = [var EXCEPT ![v] = x] /\ written' = written \cup {v}
    BY <1>12, Idle DEF ScriptWrite
  <2>2. ASSUME NEW d \in Commands, NEW w \in LinkedVars(d)'
        PROVE  Showing(d, w)'
    <3>1. w \in LinkedVars(d) /\ w \in Vars
      BY <1>v, <2>1, <2>2 DEF LinkedVars
    <3>2. Showing(d, w)
      BY <1>f, <2>1, <3>1
    <3>3. w = v \/ var'[w] = var[w]
      BY <1>t, <2>1, <3>1
    <3> QED
      BY <2>1, <3>2, <3>3 DEF Showing, Queued
  <2> QED
    BY <2>1, <2>2 DEF Following
<1>13. ASSUME UseDestroyed \/ UNCHANGED vars
       PROVE  Following'
  <2>1. UNCHANGED <<name, value, queue, links, behind, var, written, stack>>
    BY <1>13 DEF UseDestroyed, vars
  <2> QED
    BY <2>1 DEF Following, Showing, Queued, Awaited, LinkedVars, Top
<1> QED
  BY <1>1, <1>2, <1>3, <1>4, <1>5, <1>6, <1>7, <1>8, <1>9, <1>10, <1>11,
     <1>12, <1>13
  DEF Next, Script, Serve, Continue

-----------------------------------------------------------------------------
(* The theorems. *)

(* The inductive invariant of both theorems. *)
LinkedInv == FlatInv /\ LinksCounted /\ Following

LEMMA LinkedInvHolds ==
  ASSUME MaxNesting = 0
  PROVE  Spec => []LinkedInv
<1>1. Init => LinkedInv
  <2> SUFFICES ASSUME Init PROVE LinkedInv
    OBVIOUS
  <2>1. IInv
    BY InitIInv
  <2>2. \A c \in Commands : LinkedVars(c) = {}
    BY DEF Init, LinkedVars
  <2>3. FlatInv
    BY <2>1, <2>2 DEF FlatInv, Init, Flat, OneChannelPerVariable
  <2>4. LinksCounted
    BY DEF Init, LinksCounted, Counted, Linkers
  <2>5. Following
    BY <2>2 DEF Init, Following
  <2> QED
    BY <2>3, <2>4, <2>5 DEF LinkedInv
<1>2. LinkedInv /\ [Next]_vars => LinkedInv'
  <2> SUFFICES ASSUME LinkedInv, [Next]_vars PROVE LinkedInv'
    OBVIOUS
  <2>1. FlatInv'
    BY NextIInv, FlatStep DEF FlatInv, LinkedInv
  <2>2. LinksCounted'
    BY CountedStep DEF LinkedInv
  <2>3. Following'
    BY FollowingStep DEF LinkedInv
  <2> QED
    BY <2>1, <2>2, <2>3 DEF LinkedInv
<1> QED
  BY <1>1, <1>2, PTL DEF Spec

(* With no commands run from within traces, the count of the links of each    *)
(* channel is exactly the number of the clients that linked a variable to it. *)
THEOREM LinksCorrect == MaxNesting = 0 => (Spec => []LinksExact)
<1> SUFFICES ASSUME MaxNesting = 0 PROVE Spec => []LinksExact
  OBVIOUS
<1>1. LinkedInv => LinksExact
  <2> SUFFICES ASSUME LinkedInv, stack = <<>>,
                      NEW n \in Names, NEW v \in Vars, registry[n] # NULL
               PROVE  links[registry[n]][v]
                        = Cardinality({cl \in Clients : <<cl, n, v>> \in linked})
    BY DEF LinksExact
  <2>1. registry[n] \in Commands /\ links[registry[n]][v] \in Nat
    BY NullAssumption DEF LinkedInv, FlatInv, IInv, TypeOK
  <2>2. Cardinality(Linkers(n, v)) = links[registry[n]][v] + 0
    BY DEF LinkedInv, LinksCounted, Counted, Linking
  <2> QED
    BY <2>1, <2>2 DEF Linkers
<1> QED
  BY <1>1, LinkedInvHolds, PTL

(* With no commands run from within traces, a linked variable shows the value *)
(* of its channel, unless a script wrote it or a change is queued that will   *)
(* be served.                                                                 *)
THEOREM VariablesFollow ==
  MaxNesting = 0 => (Spec => []LinkedVariablesFollow)
<1> SUFFICES ASSUME MaxNesting = 0 PROVE Spec => []LinkedVariablesFollow
  OBVIOUS
<1>1. LinkedInv => LinkedVariablesFollow
  <2> SUFFICES ASSUME LinkedInv, stack = <<>>,
                      NEW c \in Commands, NEW v \in LinkedVars(c)
               PROVE  Shows(c, v)
    BY DEF LinkedVariablesFollow
  <2>1. Showing(c, v)
    BY DEF LinkedInv, Following, Awaited
  <2>2. DOMAIN queue = 1 .. Len(queue)
    BY DEF LinkedInv, FlatInv, IInv, TypeOK
  <2> QED
    BY <2>1, <2>2 DEF Showing, Queued, Shows
<1> QED
  BY <1>1, LinkedInvHolds, PTL

-----------------------------------------------------------------------------
(* The refinement of ChannelRegistry. *)

(* What is followed, by commands.                                             *)
Followed ==
  {f \in Vars \X Names :
     \E c \in Commands : registry[f[2]] = c /\ f[1] \in LinkedVars(c)}

LEMMA FollowsIsFollowed ==
  ASSUME TypeOK, TypeOK'
  PROVE  Follows = Followed /\ Follows' = Followed'
<1>1. Follows = Followed
  BY NullAssumption DEF TypeOK, Follows, Followed
<1>2. Follows' = Followed'
  BY NullAssumption DEF TypeOK, Follows, Followed, LinkedVars
<1> QED
  BY <1>1, <1>2

(* A put is made by the write of a linked variable, whose channel is          *)
(* registered.                                                                *)
LEMMA WriteStep ==
  ASSUME MaxNesting = 0, FlatInv, NEW v \in Vars, NEW x \in Values,
         ScriptWrite(v, x), put' # put
  PROVE  /\ v \in written' /\ var'[v] = x
         /\ UNCHANGED <<queue, stack, value, registry, refcount, links>>
         /\ \E n \in Names : /\ put' = [name |-> n, value |-> x]
                             /\ registry[n] # NULL
                             /\ v \in LinkedVars(registry[n])
<1>0. TypeOK /\ RegistryExact /\ Flat /\ stack = <<>>
  BY Idle DEF FlatInv, IInv, ScriptWrite
<1>1. PICK c \in Commands :
        v \in LinkedVars(c) /\ put' = [name |-> name[c], value |-> x]
  BY DEF ScriptWrite, Traced
<1>2. PICK n \in Names : registry[n] = c
  BY <1>0, <1>1 DEF Flat, Registered, BeingDestroyed
<1>3. c # NULL /\ name[c] = n
  BY <1>0, <1>2, NullAssumption, OneName
<1>4. var'[v] = x /\ v \in written'
  BY <1>0 DEF ScriptWrite, TypeOK
<1>5. UNCHANGED <<queue, stack, value, registry, refcount, links>>
  BY DEF ScriptWrite, reg
<1> QED
  BY <1>1, <1>2, <1>3, <1>4, <1>5

(* Every other step leaves the put alone.                                     *)
LEMMA PutStep ==
  ASSUME [Next]_vars, put' # put
  PROVE  \E v \in Vars, x \in Values : ScriptWrite(v, x)
<1>1. ASSUME UNCHANGED vars
      PROVE  UNCHANGED put
  BY <1>1 DEF vars
<1>2. ASSUME NEW cl \in Clients, NEW n \in Names,
             CreateChannel(cl, n) \/ DeleteChannel(cl, n)
      PROVE  UNCHANGED put
  BY <1>2 DEF CreateChannel, DeleteChannel
<1>3. ASSUME NEW cl \in Clients, NEW n \in Names, NEW v \in Vars,
             Link(cl, n, v) \/ LinkAgain(cl, n, v) \/ Unlink(cl, n, v)
      PROVE  UNCHANGED put
  BY <1>3 DEF Link, LinkAgain, Unlink, NewEpicsValue
<1>4. ASSUME Serve \/ Continue \/ UseDestroyed
      PROVE  UNCHANGED put
  BY <1>4
  DEF Serve, ServeEvent, DropEvent, Continue, Destroyed, LinkDone,
      UpdateVariable, NewEpicsValue, NextVariable, UpdateDone, UseDestroyed
<1>5. ASSUME NEW c \in Commands, NEW x \in Values, ChannelUpdate(c, x)
      PROVE  UNCHANGED put
  BY <1>5 DEF ChannelUpdate
<1> QED
  BY <1>1, <1>2, <1>3, <1>4, <1>5 DEF Next, Script

Kept == Promise!Next \/ UNCHANGED <<refcount, Follows, put>>

LEMMA PromiseStep ==
  ASSUME MaxNesting = 0, FlatInv, [Next]_vars
  PROVE  Kept
<1> USE DEF reg, client
<1>0. /\ TypeOK /\ RegistryExact /\ StackOK /\ LinksOfAllocated /\ Flat
      /\ OneChannelPerVariable /\ IInv /\ TypeOK'
  BY NextIInv DEF FlatInv, IInv
<1>t. /\ registry \in [Names -> Commands \cup {NULL}]
      /\ refcount \in [Names -> Nat] /\ stack \in Seq(Frames)
      /\ links \in [Commands -> [Vars -> Nat]]
  BY <1>0 DEF TypeOK
<1>f. Follows = Followed /\ Follows' = Followed'
  BY <1>0, FollowsIsFollowed
<1>r. \A n \in Names : registry[n] # NULL => refcount[n] > 0
  <2> SUFFICES ASSUME NEW n \in Names, registry[n] # NULL
               PROVE  refcount[n] > 0
    OBVIOUS
  <2>1. refcount[n] # 0
    BY <1>0 DEF RegistryExact
  <2> QED
    BY <1>t, <2>1
<1>p. ASSUME NEW n \in Names, Promise!Acquire(n) \/ Promise!Release(n)
      PROVE  Kept
  BY <1>p DEF Kept, Promise!Next
<1>l. ASSUME NEW n \in Names, NEW v \in Vars,
             Promise!Link(v, n) \/ Promise!Unlink(v, n)
      PROVE  Kept
  BY <1>l DEF Kept, Promise!Next
<1>s. ASSUME UNCHANGED <<registry, refcount, put>>,
             \A c \in Commands : Registered(c) => LinkedVars(c)' = LinkedVars(c)
      PROVE  Kept
  <2>1. Followed' = Followed
    BY <1>s DEF Followed, Registered
  <2> QED
    BY <1>f, <1>s, <2>1 DEF Kept
<1>u. ASSUME UNCHANGED <<registry, refcount, put, links>>
      PROVE  Kept
  BY <1>s, <1>u DEF LinkedVars
<1>1. ASSUME NEW cl \in Clients, NEW n \in Names, CreateChannel(cl, n)
      PROVE  Kept
  <2>1. /\ UNCHANGED <<put, links>>
        /\ refcount' = [refcount EXCEPT ![n] = @ + 1]
    BY <1>1 DEF CreateChannel
  <2>2. \A c \in Commands : LinkedVars(c)' = LinkedVars(c)
    BY <2>1 DEF LinkedVars
  <2>3. \/ UNCHANGED registry
        \/ registry[n] = NULL /\ \E c \in Commands :
             LinkedVars(c) = {} /\ registry' = [registry EXCEPT ![n] = c]
    BY <1>0, <1>1 DEF CreateChannel, LinksOfAllocated
  <2>4. Followed' = Followed
    <3>1. CASE UNCHANGED registry
      BY <2>2, <3>1 DEF Followed
    <3>2. ASSUME NEW c \in Commands, registry[n] = NULL, LinkedVars(c) = {},
                 registry' = [registry EXCEPT ![n] = c]
          PROVE  Followed' = Followed
      <4>1. registry'[n] = c /\ \A m \in Names \ {n} : registry'[m] = registry[m]
        BY <1>t, <3>2
      <4>2. ASSUME NEW m \in Names, NEW v \in Vars
            PROVE  (\E d \in Commands : registry'[m] = d /\ v \in LinkedVars(d)')
                     <=> (\E d \in Commands : registry[m] = d /\ v \in LinkedVars(d))
        <5>1. CASE m = n
          BY <2>2, <3>2, <4>1, <5>1, NullAssumption
        <5>2. CASE m # n
          BY <2>2, <4>1, <5>2
        <5> QED
          BY <5>1, <5>2
      <4> QED
        BY <4>2 DEF Followed
    <3> QED
      BY <2>3, <3>1, <3>2
  <2>5. Promise!Acquire(n)
    BY <1>f, <2>1, <2>4 DEF Promise!Acquire
  <2> QED
    BY <1>p, <2>5
<1>2. ASSUME NEW cl \in Clients, NEW n \in Names, DeleteChannel(cl, n)
      PROVE  Kept
  <2>1. /\ UNCHANGED <<put, links>>
        /\ refcount' = [refcount EXCEPT ![n] = @ - 1]
    BY <1>2 DEF DeleteChannel
  <2>2. \A c \in Commands : LinkedVars(c)' = LinkedVars(c)
    BY <2>1 DEF LinkedVars
  <2>3. CASE refcount[n] > 1
    <3>1. UNCHANGED registry /\ refcount[n] # 1
      BY <1>2, <1>t, <2>3 DEF DeleteChannel
    <3>2. Followed' = Followed
      BY <2>2, <3>1 DEF Followed
    <3>3. Promise!Release(n)
      BY <1>f, <1>t, <2>1, <2>3, <3>1, <3>2 DEF Promise!Release
    <3> QED
      BY <1>p, <3>3
  <2>4. CASE refcount[n] = 1
    <3>1. registry' = [registry EXCEPT ![n] = NULL]
      BY <1>2, <2>4 DEF DeleteChannel
    <3>2. registry'[n] = NULL /\ \A m \in Names \ {n} : registry'[m] = registry[m]
      BY <1>t, <3>1
    <3>3. Followed' = {f \in Followed : f[2] # n}
      BY <2>2, <3>2, NullAssumption DEF Followed
    <3>4. Promise!Release(n)
      BY <1>f, <2>1, <2>4, <3>3 DEF Promise!Release
    <3> QED
      BY <1>p, <3>4
  <2> QED
    BY <1>2, <2>3, <2>4 DEF DeleteChannel
<1>3. ASSUME Destroyed
      PROVE  Kept
  <2>1. PICK c \in Commands : Empties(c)
    BY <1>0, <1>3, ListsStep
  <2>2. UNCHANGED <<registry, refcount, put>>
    BY <1>3 DEF Destroyed
  <2>3. stack # <<>> /\ Top.op = "destroy" /\ c = Top.cmd
    BY <1>3, <2>1 DEF Destroyed, Empties
  <2>4. ~Registered(c)
    <3>1. Top = stack[1] /\ 1 \in 1 .. Len(stack)
      BY <1>t, <2>3, PopStack DEF Top
    <3> QED
      BY <1>0, <2>3, <3>1 DEF StackOK, FrameOK
  <2> QED
    BY <1>s, <2>1, <2>2, <2>4 DEF Empties
<1>5. ASSUME LinkDone
      PROVE  Kept
  <2>1. PICK c \in Commands, v \in Vars : Adds(c, v) /\ c = Top.cmd /\ v = Top.v
    BY <1>0, <1>5, ListsStep
  <2>2. /\ stack # <<>> /\ Top.op = "link"
        /\ UNCHANGED <<registry, refcount, put>>
    BY <1>5 DEF LinkDone
  <2>3. Registered(c) /\ \A d \in Commands : v \notin LinkedVars(d)
    BY <1>0, <2>1, <2>2 DEF Flat
  <2>4. PICK n \in Names : registry[n] = c
    BY <2>3 DEF Registered
  <2>5. \A m \in Names : registry[m] = c <=> m = n
    BY <1>0, <2>4, OneName, NullAssumption
  <2>6. /\ LinkedVars(c)' = LinkedVars(c) \cup {v}
        /\ \A d \in Commands \ {c} : LinkedVars(d)' = LinkedVars(d)
    BY <2>1 DEF Adds, OnlyOf
  <2>7. Followed' = Followed \cup {<<v, n>>}
    BY <2>2, <2>4, <2>5, <2>6 DEF Followed
  <2>8. \A m \in Names : <<v, m>> \notin Followed
    BY <2>3 DEF Followed
  <2>9. refcount[n] > 0
    BY <1>r, <2>4, NullAssumption
  <2>10. Promise!Link(v, n)
    BY <1>f, <2>2, <2>7, <2>8, <2>9 DEF Promise!Link
  <2> QED
    BY <1>l, <2>10
<1>6. ASSUME NEW cl \in Clients, NEW n \in Names, NEW v \in Vars,
             LinkAgain(cl, n, v) \/ Unlink(cl, n, v)
      PROVE  Kept
  <2>1. PICK c : c = registry[n]
    OBVIOUS
  <2>2. <<cl, n>> \in holds /\ v \in LinkedVars(c)
        /\ UNCHANGED <<registry, refcount, put>>
    BY <1>6, <2>1 DEF LinkAgain, Unlink
  <2>3. c \in Commands
    BY <1>0, <1>t, <2>1, <2>2, HeldIsRegistered
  <2>4. \A d \in Commands \ {c} : links'[d] = links[d]
    BY <1>6, <1>t, <2>1 DEF LinkAgain, Unlink
  <2>5. \A w \in Vars \ {v} : links'[c][w] = links[c][w]
    BY <1>6, <1>t, <2>1, <2>3 DEF LinkAgain, Unlink
  <2>6. \A d \in Commands \ {c} : LinkedVars(d)' = LinkedVars(d)
    BY <2>4 DEF LinkedVars
  <2>7. ASSUME links'[c][v] > 0
        PROVE  Kept
    <3>1. LinkedVars(c)' = LinkedVars(c)
      BY <2>2, <2>5, <2>7 DEF LinkedVars
    <3> QED
      BY <1>s, <2>2, <2>6, <3>1
  <2>8. ASSUME ~(links'[c][v] > 0)
        PROVE  Kept
    <3>1. LinkedVars(c)' = LinkedVars(c) \ {v}
      BY <2>5, <2>8 DEF LinkedVars
    <3>2. \A m \in Names : registry[m] = c <=> m = n
      BY <1>0, <2>1, <2>3, OneName, NullAssumption
    <3>3. Followed' = Followed \ {<<v, n>>}
      BY <2>2, <2>6, <3>1, <3>2 DEF Followed
    <3>4. <<v, n>> \in Followed
      BY <2>1, <2>2, <2>3 DEF Followed
    <3>5. Promise!Unlink(v, n)
      BY <1>f, <2>2, <3>3, <3>4 DEF Promise!Unlink
    <3> QED
      BY <1>l, <3>5
  <2> QED
    BY <2>7, <2>8
<1>7. ASSUME NEW v \in Vars, NEW x \in Values, ScriptWrite(v, x)
      PROVE  Kept
  <2>1. UNCHANGED <<registry, refcount, links>>
    BY <1>7 DEF ScriptWrite
  <2>2. ASSUME put' # put
        PROVE  Kept
    <3>1. PICK n \in Names : /\ put' = [name |-> n, value |-> x]
                             /\ registry[n] # NULL
                             /\ v \in LinkedVars(registry[n])
      BY <1>7, <2>2, WriteStep
    <3>2. <<v, n>> \in Follows
      BY <3>1 DEF Follows
    <3>3. Followed' = Followed
      BY <2>1 DEF Followed, LinkedVars
    <3>4. Promise!Write(v, n, x)
      BY <1>f, <2>1, <3>1, <3>2, <3>3 DEF Promise!Write
    <3> QED
      BY <3>4 DEF Kept, Promise!Next
  <2> QED
    BY <1>u, <2>1, <2>2
<1>8. ASSUME \/ \E cl \in Clients, n \in Names, v \in Vars : Link(cl, n, v)
             \/ ServeEvent \/ DropEvent \/ NextVariable \/ UpdateDone
             \/ \E v \in Vars : UpdateVariable(v)
             \/ \E c \in Commands, x \in Values : ChannelUpdate(c, x)
             \/ UseDestroyed \/ UNCHANGED vars
      PROVE  Kept
  <2>1. UNCHANGED <<registry, refcount, put, links>>
    BY <1>8
    DEF Link, NewEpicsValue, ServeEvent, DropEvent, NextVariable, UpdateDone,
        UpdateVariable, ChannelUpdate, UseDestroyed, vars
  <2> QED
    BY <1>u, <2>1
<1> QED
  BY <1>1, <1>2, <1>3, <1>5, <1>6, <1>7, <1>8
  DEF Next, Script, Serve, Continue

(* With no commands run from within traces, a put is made only by a script's  *)
(* write, with the value written, and on the channel the variable is linked   *)
(* to.                                                                        *)
THEOREM PutsCorrect == MaxNesting = 0 => (Spec => PutsAreWrites)
<1> SUFFICES ASSUME MaxNesting = 0 PROVE Spec => PutsAreWrites
  OBVIOUS
<1>1. LinkedInv /\ [Next]_vars =>
        [put' # put =>
           \E v \in Vars : /\ v \in written' /\ var'[v] = put'.value
                           /\ v \in LinkedVars(registry[put'.name])
                           /\ UNCHANGED <<queue, stack, value>>]_vars
  <2> SUFFICES ASSUME LinkedInv, [Next]_vars, put' # put
               PROVE  \E v \in Vars :
                        /\ v \in written' /\ var'[v] = put'.value
                        /\ v \in LinkedVars(registry[put'.name])
                        /\ UNCHANGED <<queue, stack, value>>
    OBVIOUS
  <2>1. PICK v \in Vars, x \in Values : ScriptWrite(v, x)
    BY PutStep
  <2> QED
    BY <2>1, WriteStep DEF LinkedInv
<1> QED
  BY <1>1, LinkedInvHolds, PTL DEF Spec, PutsAreWrites

(* With no commands run from within traces, the package implements            *)
(* ChannelRegistry: it behaves as if every command were one step.             *)
THEOREM PromiseCorrect == MaxNesting = 0 => (Spec => PromiseKept)
<1> SUFFICES ASSUME MaxNesting = 0 PROVE Spec => PromiseKept
  OBVIOUS
<1>1. Init => Promise!Init
  BY DEF Init, Promise!Init, Follows
<1>2. LinkedInv /\ [Next]_vars => [Promise!Next]_(Promise!vars)
  BY PromiseStep DEF LinkedInv, Kept, Promise!vars
<1> QED
  BY <1>1, <1>2, LinkedInvHolds, PTL DEF Spec, PromiseKept, Promise!Spec
=============================================================================
