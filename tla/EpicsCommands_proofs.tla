----------------------- MODULE EpicsCommands_proofs -----------------------
(* Proofs about EpicsCommands, for every set of names, variables, values and  *)
(* addresses, every finite set of clients, every length of the queue and,     *)
(* but for the last theorem, every depth of nested traces.                    *)
EXTENDS EpicsCommands, FiniteSetTheorems, SequenceTheorems, TLAPS

-----------------------------------------------------------------------------
(* The inductive invariant. *)

(* A link frame knows its variable, and whether its command is still there.   *)
(* A command is destroyed by the operation on top of the stack, while its     *)
(* object is there and no name leads to it.                                   *)
Registered(c) == \E n \in Names : registry[n] = c

FrameOK(i) ==
  /\ stack[i].op = "link" =>
       stack[i].v # NULL /\ (stack[i].gone \/ Allocated(stack[i].cmd))
  /\ stack[i].op = "destroy" =>
       i = 1 /\ Allocated(stack[i].cmd) /\ ~Registered(stack[i].cmd)

StackOK == \A i \in 1 .. Len(stack) : FrameOK(i)

(* Only a command object that exists has linked variables.                    *)
LinksOfAllocated ==
  \A c \in Commands : ~Allocated(c) => LinkedVars(c) = {}

(* The slot is set exactly for commands with variables, within operations     *)
(* too.                                                                       *)
SlotExact == \A c \in Commands : c \in slot <=> LinkedVars(c) # {}

IInv ==
  /\ TypeOK /\ RegistryExact /\ StackOK /\ LinksOfAllocated /\ SlotExact

-----------------------------------------------------------------------------
(* Lemmas about the stack. *)

(* An operation that begins is on top of the ones that were there.            *)
LEMMA PushStack ==
  ASSUME NEW f \in Frames, NEW s \in Seq(Frames)
  PROVE  /\ <<f>> \o s \in Seq(Frames)
         /\ Len(<<f>> \o s) = Len(s) + 1
         /\ (<<f>> \o s)[1] = f
         /\ \A i \in 2 .. Len(s) + 1 : (<<f>> \o s)[i] = s[i - 1]
<1>1. <<f>> \in Seq(Frames) /\ Len(<<f>>) = 1 /\ <<f>>[1] = f
  OBVIOUS
<1> HIDE DEF Frames
<1>2. /\ <<f>> \o s \in Seq(Frames)
      /\ Len(<<f>> \o s) = Len(<<f>>) + Len(s)
      /\ \A i \in 1 .. Len(<<f>>) + Len(s) :
           (<<f>> \o s)[i] = IF i <= Len(<<f>>) THEN <<f>>[i]
                             ELSE s[i - Len(<<f>>)]
  BY <1>1, ConcatProperties
<1>3. Len(s) \in Nat
  OBVIOUS
<1> QED
  BY <1>1, <1>2, <1>3

(* An operation that ends leaves the others.                                  *)
LEMMA PopStack ==
  ASSUME NEW s \in Seq(Frames), s # <<>>
  PROVE  /\ Head(s) = s[1] /\ s[1] \in Frames
         /\ Tail(s) \in Seq(Frames)
         /\ Len(Tail(s)) = Len(s) - 1
         /\ \A i \in 1 .. Len(s) - 1 : Tail(s)[i] = s[i + 1]
<1>1. Head(s) = s[1]
  OBVIOUS
<1> QED
  BY <1>1, HeadTailProperties

(* What happens to the operation on top of the stack.                         *)
LEMMA ReplaceTop ==
  ASSUME NEW f \in Frames, NEW s \in Seq(Frames), s # <<>>
  PROVE  /\ [s EXCEPT ![1] = f] \in Seq(Frames)
         /\ Len([s EXCEPT ![1] = f]) = Len(s)
         /\ [s EXCEPT ![1] = f][1] = f
         /\ \A i \in 2 .. Len(s) : [s EXCEPT ![1] = f][i] = s[i]
<1> HIDE DEF Frames
<1>1. 1 \in DOMAIN s
  OBVIOUS
<1> QED
  BY <1>1

(* An operation goes on to another variable.                                  *)
LEMMA SetTop ==
  ASSUME NEW s \in Seq(Frames), s # <<>>, NEW w \in Vars \cup {NULL},
         NEW d \in SUBSET Vars
  PROVE  LET t == [s EXCEPT ![1].v = w]
             u == [s EXCEPT ![1].v = w, ![1].done = @ \cup d]
         IN  /\ t \in Seq(Frames) /\ u \in Seq(Frames)
             /\ Len(t) = Len(s) /\ Len(u) = Len(s)
             /\ t[1].op = s[1].op /\ t[1].cmd = s[1].cmd /\ t[1].v = w
             /\ u[1].op = s[1].op /\ u[1].cmd = s[1].cmd /\ u[1].v = w
             /\ t[1].done = s[1].done /\ u[1].done = s[1].done \cup d
             /\ \A i \in 2 .. Len(s) : t[i] = s[i] /\ u[i] = s[i]
<1>1. s[1] \in Frames /\ 1 \in DOMAIN s
  OBVIOUS
<1>2. /\ [s[1] EXCEPT !.v = w] \in Frames
      /\ [[s[1] EXCEPT !.v = w] EXCEPT !.done = @ \cup d] \in Frames
  BY <1>1 DEF Frames
<1> DEFINE f == [s[1] EXCEPT !.v = w]
           g == [f EXCEPT !.done = @ \cup d]
<1>3. /\ f.op = s[1].op /\ f.cmd = s[1].cmd /\ f.v = w
      /\ g.op = s[1].op /\ g.cmd = s[1].cmd /\ g.v = w
      /\ f.done = s[1].done /\ g.done = s[1].done \cup d
  BY <1>1 DEF Frames
<1>4. /\ [s EXCEPT ![1].v = w] = [s EXCEPT ![1] = f]
      /\ [s EXCEPT ![1].v = w, ![1].done = @ \cup d] = [s EXCEPT ![1] = g]
  BY <1>1, <1>2
<1>5. f \in Frames /\ g \in Frames
  BY <1>2
<1> HIDE DEF f, g, Frames
<1>6. ASSUME NEW h \in {f, g}
      PROVE  /\ [s EXCEPT ![1] = h] \in Seq(Frames)
             /\ Len([s EXCEPT ![1] = h]) = Len(s)
             /\ [s EXCEPT ![1] = h][1] = h
             /\ \A i \in 2 .. Len(s) : [s EXCEPT ![1] = h][i] = s[i]
  BY <1>5, ReplaceTop
<1> QED
  BY <1>3, <1>4, <1>6

(* An operation whose command is deleted, or a variable of whose list is,     *)
(* stays what it is; it knows if it was inside of that command.               *)
LEMMA FrameKept ==
  ASSUME NEW f \in Frames, NEW c, NEW w
  PROVE  /\ Orphan(f, c) \in Frames /\ Unlisted(f, c, w) \in Frames
         /\ Orphan(f, c).op = f.op /\ Unlisted(f, c, w).op = f.op
         /\ Orphan(f, c).cmd = f.cmd /\ Unlisted(f, c, w).cmd = f.cmd
         /\ Orphan(f, c).v = f.v /\ Unlisted(f, c, w).v = f.v
         /\ f.gone => Orphan(f, c).gone /\ Unlisted(f, c, w).gone
         /\ f.cmd = c => Orphan(f, c).gone
<1>1. /\ [f EXCEPT !.gone = TRUE] \in Frames
      /\ [f EXCEPT !.gone = TRUE].op = f.op
      /\ [f EXCEPT !.gone = TRUE].cmd = f.cmd
      /\ [f EXCEPT !.gone = TRUE].v = f.v
      /\ [f EXCEPT !.gone = TRUE].gone
  BY DEF Frames
<1> DEFINE b == f.op = "update" /\ f.v = w
           g == [f EXCEPT !.done = @ \ {w}, !.gone = @ \/ b]
<1>2. b \in BOOLEAN
  OBVIOUS
<1>3. g \in Frames /\ g.op = f.op /\ g.cmd = f.cmd /\ g.v = f.v /\ (f.gone => g.gone)
  <2> HIDE DEF b
  <2> QED
    BY <1>2 DEF Frames
<1>4. Unlisted(f, c, w) = IF f.cmd # c THEN f ELSE g
  BY DEF Unlisted
<1>5. Orphan(f, c) = IF f.cmd = c THEN [f EXCEPT !.gone = TRUE] ELSE f
  BY DEF Orphan
<1> HIDE DEF g, Frames
<1>6. /\ Orphan(f, c) \in Frames /\ Orphan(f, c).op = f.op
      /\ Orphan(f, c).cmd = f.cmd /\ Orphan(f, c).v = f.v
      /\ f.gone => Orphan(f, c).gone
      /\ f.cmd = c => Orphan(f, c).gone
  <2>1. CASE f.cmd = c
    BY <1>1, <1>5, <2>1
  <2>2. CASE f.cmd # c
    BY <1>5, <2>2
  <2> QED
    BY <2>1, <2>2
<1>7. /\ Unlisted(f, c, w) \in Frames /\ Unlisted(f, c, w).op = f.op
      /\ Unlisted(f, c, w).cmd = f.cmd /\ Unlisted(f, c, w).v = f.v
      /\ f.gone => Unlisted(f, c, w).gone
  <2>1. CASE f.cmd = c
    BY <1>3, <1>4, <2>1
  <2>2. CASE f.cmd # c
    BY <1>4, <2>2
  <2> QED
    BY <2>1, <2>2
<1> QED
  BY <1>6, <1>7

(* What is left of the stack when a command has been destroyed.               *)
LEMMA Orphans ==
  ASSUME TypeOK, Destroyed
  PROVE  /\ stack' \in Seq(Frames) /\ Len(stack') = Len(stack) - 1
         /\ Len(stack) \in Nat \ {0}
         /\ \A i \in 1 .. Len(stack) - 1 :
              stack[i + 1] \in Frames /\ stack'[i] = Orphan(stack[i + 1], Top.cmd)
<1>1. stack \in Seq(Frames) /\ stack # <<>>
  BY DEF TypeOK, Destroyed
<1>2. stack' = [i \in 1 .. Len(stack) - 1 |-> Orphan(stack[i + 1], Top.cmd)]
  BY DEF Destroyed
<1> HIDE DEF Frames
<1>3. Len(stack) \in Nat \ {0}
  BY <1>1
<1>4. ASSUME NEW i \in 1 .. Len(stack) - 1
      PROVE  stack[i + 1] \in Frames /\ Orphan(stack[i + 1], Top.cmd) \in Frames
  <2>1. stack[i + 1] \in Frames
    BY <1>1, <1>3
  <2> QED
    BY <2>1, FrameKept
<1>5. stack' \in [1 .. Len(stack) - 1 -> Frames]
  BY <1>2, <1>4
<1>6. Len(stack) - 1 \in Nat
  BY <1>3
<1>7. stack' \in Seq(Frames) /\ Len(stack') = Len(stack) - 1
  <2> DEFINE k == Len(stack) - 1
  <2>1. k \in Nat /\ stack' \in [1 .. k -> Frames]
    BY <1>5, <1>6
  <2> HIDE DEF k
  <2>2. stack' \in Seq(Frames) /\ Len(stack') = k
    BY <2>1
  <2> QED
    BY <2>2 DEF k
<1> QED
  BY <1>2, <1>3, <1>4, <1>7

(* A command that can run finds no command being destroyed.                   *)
LEMMA ReadyStack ==
  ASSUME TypeOK, StackOK, Ready
  PROVE  \A i \in 1 .. Len(stack) : stack[i].op # "destroy"
<1> SUFFICES ASSUME NEW i \in 1 .. Len(stack), stack[i].op = "destroy"
             PROVE  FALSE
  OBVIOUS
<1>1. i = 1
  BY DEF StackOK, FrameOK
<1>2. stack # <<>> /\ stack \in Seq(Frames)
  BY DEF TypeOK
<1>3. Head(stack) = stack[1]
  BY <1>2, PopStack
<1> QED
  BY <1>1, <1>2, <1>3 DEF Ready, InTrace, Top

(* The command a client holds is registered, and is an object of that name.   *)
LEMMA HeldIsRegistered ==
  ASSUME TypeOK, RegistryExact, NEW cl \in Clients, NEW n \in Names,
         <<cl, n>> \in holds
  PROVE  registry[n] \in Commands /\ name[registry[n]] = n
<1> DEFINE H == {k \in Clients : <<k, n>> \in holds}
<1>1. IsFiniteSet(H)
  BY ClientsAssumption, FS_Subset
<1>2. Cardinality(H) # 0
  BY <1>1, FS_EmptySet
<1> QED
  BY <1>2 DEF RegistryExact, TypeOK

-----------------------------------------------------------------------------
(* Every step keeps the types.                                                *)
LEMMA TypeStep ==
  IInv /\ [Next]_vars => TypeOK'
<1> SUFFICES ASSUME IInv, [Next]_vars PROVE TypeOK'
  OBVIOUS
<1> USE DEF IInv, reg, client
<1>0. /\ registry \in [Names -> Commands \cup {NULL}]
      /\ refcount \in [Names -> Nat]
      /\ name \in [Commands -> Names \cup {NULL}]
      /\ links \in [Commands -> [Vars -> Nat]]
      /\ value \in [Commands -> Values \cup {NoValue}]
      /\ stack \in Seq(Frames) /\ queue \in Seq([cmd : Commands, name : Names])
      /\ var \in [Vars -> Values \cup {NoValue}]
  BY DEF TypeOK
<1>a. ASSUME stack # <<>>
      PROVE  /\ Top \in Frames /\ Top = stack[1] /\ Top.cmd \in Commands
             /\ Tail(stack) \in Seq(Frames)
  <2>1. Head(stack) = stack[1] /\ stack[1] \in Frames /\ Tail(stack) \in Seq(Frames)
    BY <1>a, <1>0, PopStack
  <2> QED
    BY <2>1 DEF Top, Frames
<1>b. ASSUME NEW op \in {"link", "update", "destroy"}, NEW c \in Commands,
             NEW v \in Vars \cup {NULL}, Push(op, c, v)
      PROVE  stack' \in Seq(Frames)
  <2>1. [op |-> op, cmd |-> c, v |-> v, done |-> {}, gone |-> FALSE] \in Frames
    BY DEF Frames
  <2> QED
    BY <1>0, <1>b, <2>1, PushStack DEF Push
<1>1. ASSUME NEW cl \in Clients, NEW n \in Names, CreateChannel(cl, n)
      PROVE  TypeOK'
  <2>1. refcount' \in [Names -> Nat]
    BY <1>1, <1>0 DEF CreateChannel
  <2>2. /\ registry' \in [Names -> Commands \cup {NULL}]
        /\ name' \in [Commands -> Names \cup {NULL}]
    BY <1>1, <1>0 DEF CreateChannel
  <2>3. holds' \subseteq Clients \X Names
    BY <1>1 DEF CreateChannel, TypeOK
  <2> QED
    BY <1>1, <2>1, <2>2, <2>3 DEF CreateChannel, TypeOK
<1>2. ASSUME NEW cl \in Clients, NEW n \in Names, DeleteChannel(cl, n)
      PROVE  TypeOK'
  <2>1. registry[n] \in Commands
    BY <1>2, HeldIsRegistered DEF DeleteChannel
  <2>2. refcount[n] - 1 \in Nat
    BY <1>2, <1>0 DEF DeleteChannel
  <2>3. stack' \in Seq(Frames)
    BY <1>2, <1>b, <1>0, <2>1 DEF DeleteChannel
  <2>4. linked' \subseteq linked /\ holds' \subseteq holds
    BY <1>2 DEF DeleteChannel
  <2>5. fault' \in {"none", "command", "node"}
    BY <1>2 DEF DeleteChannel, TypeOK
  <2> QED
    BY <1>2, <2>2, <2>3, <2>4, <2>5 DEF DeleteChannel, TypeOK
<1>3. CASE Destroyed
  <2>1. stack # <<>>
    BY <1>3 DEF Destroyed
  <2>2. stack' \in Seq(Frames)
    BY <1>3, Orphans
  <2> QED
    BY <1>3, <1>a, <2>1, <2>2 DEF Destroyed, TypeOK
<1>4. ASSUME NEW cl \in Clients, NEW n \in Names, NEW v \in Vars, Link(cl, n, v)
      PROVE  TypeOK'
  <2>1. registry[n] \in Commands
    BY <1>4, HeldIsRegistered DEF Link
  <2>2. stack' \in Seq(Frames)
    BY <1>4, <1>b, <2>1 DEF Link
  <2>3. linked' \subseteq Clients \X Names \X Vars
    BY <1>4 DEF Link, TypeOK
  <2>4. var' \in [Vars -> Values \cup {NoValue}] /\ written' \subseteq Vars
    BY <1>4, <1>0, <2>1 DEF Link, NewEpicsValue, TypeOK
  <2>5. /\ UNCHANGED <<registry, refcount, name, links, value, slot, queue, put>>
        /\ UNCHANGED <<holds, behind, fault>>
    BY <1>4 DEF Link, NewEpicsValue
  <2> QED
    BY <2>2, <2>3, <2>4, <2>5 DEF TypeOK
<1>5. CASE LinkDone
  <2>1. Top.cmd \in Commands /\ Top.v \in Vars
    <3>1. stack # <<>> /\ Top = stack[1] /\ Top \in Frames /\ 1 \in 1 .. Len(stack)
      BY <1>5, <1>0, <1>a DEF LinkDone
    <3>2. Top.v # NULL
      BY <1>5, <3>1 DEF LinkDone, StackOK, FrameOK
    <3> QED
      BY <3>1, <3>2 DEF Frames
  <2>2. links' \in [Commands -> [Vars -> Nat]]
    BY <1>5, <1>0, <2>1 DEF LinkDone
  <2> QED
    BY <1>5, <1>a, <2>1, <2>2 DEF LinkDone, TypeOK
<1>6. ASSUME NEW cl \in Clients, NEW n \in Names, NEW v \in Vars,
             LinkAgain(cl, n, v)
      PROVE  TypeOK'
  <2>1. registry[n] \in Commands
    BY <1>6, HeldIsRegistered DEF LinkAgain
  <2>2. links' \in [Commands -> [Vars -> Nat]]
    BY <1>6, <1>0, <2>1 DEF LinkAgain
  <2> QED
    BY <1>6, <2>1, <2>2 DEF LinkAgain, TypeOK
<1>7. ASSUME NEW cl \in Clients, NEW n \in Names, NEW v \in Vars, Unlink(cl, n, v)
      PROVE  TypeOK'
  <2>1. registry[n] \in Commands
    BY <1>7, HeldIsRegistered DEF Unlink
  <2>2. links[registry[n]][v] - 1 \in Nat
    BY <1>7, <1>0, <2>1 DEF Unlink, LinkedVars
  <2>3. links' \in [Commands -> [Vars -> Nat]]
    BY <1>7, <1>0, <2>1, <2>2 DEF Unlink
  <2>4. stack' \in Seq(Frames)
    <3>1. ASSUME NEW i \in 1 .. Len(stack)
          PROVE  Unlisted(stack[i], registry[n], v) \in Frames /\ stack[i] \in Frames
      <4>1. stack[i] \in Frames
        BY <1>0
      <4> QED
        BY <4>1, FrameKept
    <3>2. DOMAIN stack = 1 .. Len(stack) /\ Len(stack) \in Nat
      BY <1>0
    <3> HIDE DEF Frames
    <3>3. stack' \in [1 .. Len(stack) -> Frames]
      BY <1>7, <3>1, <3>2 DEF Unlink
    <3> QED
      BY <3>2, <3>3
  <2>5. linked' \subseteq linked /\ slot' \subseteq slot
    BY <1>7 DEF Unlink
  <2> QED
    BY <1>7, <2>3, <2>4, <2>5 DEF Unlink, TypeOK
<1>8. ASSUME NEW c \in Commands, NEW x \in Values, ChannelUpdate(c, x)
      PROVE  TypeOK'
  <2>1. name[c] \in Names
    BY <1>8, <1>0 DEF ChannelUpdate, Allocated
  <2>2. [cmd |-> c, name |-> name[c]] \in [cmd : Commands, name : Names]
    BY <2>1
  <2>3. Append(queue, [cmd |-> c, name |-> name[c]])
          \in Seq([cmd : Commands, name : Names])
    BY <1>0, <2>2, AppendProperties
  <2>4. queue' \in Seq([cmd : Commands, name : Names])
    BY <1>8, <1>0, <2>3, Zenon DEF ChannelUpdate
  <2> QED
    BY <1>8, <2>4 DEF ChannelUpdate, TypeOK
<1>9. CASE DropEvent
  BY <1>9, <1>0 DEF DropEvent, TypeOK
<1>10. CASE ServeEvent
  <2>1. Head(queue) \in [cmd : Commands, name : Names]
    BY <1>10, <1>0, HeadTailProperties DEF ServeEvent
  <2>2. stack' \in Seq(Frames)
    BY <1>10, <1>b, <2>1 DEF ServeEvent
  <2>3. queue' \in Seq([cmd : Commands, name : Names])
    BY <1>10, <1>0 DEF ServeEvent
  <2> QED
    BY <1>10, <2>2, <2>3 DEF ServeEvent, TypeOK
<1>11. ASSUME NEW v \in Vars, UpdateVariable(v)
       PROVE  TypeOK'
  <2>1. stack # <<>> /\ Top = stack[1] /\ Top \in Frames /\ Top.cmd \in Commands
    BY <1>11, <1>a DEF UpdateVariable
  <2>2. stack' \in Seq(Frames)
    BY <1>11, <1>0, SetTop DEF UpdateVariable
  <2>3. var' \in [Vars -> Values \cup {NoValue}] /\ written' \subseteq Vars
    BY <1>11, <1>0, <2>1 DEF UpdateVariable, NewEpicsValue, TypeOK
  <2> QED
    BY <1>11, <2>2, <2>3 DEF UpdateVariable, NewEpicsValue, TypeOK
<1>12. CASE NextVariable
  <2>1. stack # <<>> /\ Top = stack[1] /\ Top \in Frames /\ Top.cmd \in Commands
    BY <1>12, <1>a DEF NextVariable
  <2>2. Top.v \in Vars
    BY <1>12, <2>1 DEF NextVariable, Frames
  <2>3. stack' \in Seq(Frames)
    <3>1. stack' = [stack EXCEPT ![1].v = NULL, ![1].done = @ \cup {Top.v}]
      BY <1>12 DEF NextVariable
    <3>2. {Top.v} \in SUBSET Vars
      BY <2>2
    <3> QED
      BY <1>0, <2>1, <3>1, <3>2, SetTop
  <2> QED
    BY <1>12, <2>3 DEF NextVariable, TypeOK
<1>13. CASE UpdateDone
  BY <1>13, <1>a DEF UpdateDone, TypeOK
<1>14. CASE UseDestroyed
  BY <1>14 DEF UseDestroyed, TypeOK
<1>15. ASSUME NEW v \in Vars, NEW x \in Values, ScriptWrite(v, x)
       PROVE  TypeOK'
  <2>1. ASSUME NEW c \in Commands, Traced(c, v) PROVE name[c] \in Names
    BY <2>1, <1>0 DEF Traced, LinksOfAllocated, Allocated
  <2>2. put' \in [name : Names, value : Values] \cup {NULL}
    BY <1>15, <2>1 DEF ScriptWrite, TypeOK
  <2>3. var' \in [Vars -> Values \cup {NoValue}] /\ written' \subseteq Vars
    BY <1>15, <1>0 DEF ScriptWrite, TypeOK
  <2> QED
    BY <1>15, <2>2, <2>3 DEF ScriptWrite, TypeOK
<1>16. CASE UNCHANGED vars
  BY <1>16 DEF vars, TypeOK
<1> QED
  BY <1>1, <1>2, <1>3, <1>4, <1>5, <1>6, <1>7, <1>8, <1>9, <1>10, <1>11,
      <1>12, <1>13, <1>14, <1>15, <1>16
  DEF Next, Script, Serve, Continue

-----------------------------------------------------------------------------
(* The count of a name follows its holders.                                   *)
LEMMA HolderAdded ==
  ASSUME RegistryExact, NEW cl \in Clients, NEW n \in Names,
         <<cl, n>> \notin holds, holds' = holds \cup {<<cl, n>>},
         refcount \in [Names -> Nat], refcount' = [refcount EXCEPT ![n] = @ + 1]
  PROVE  \A m \in Names :
           /\ refcount'[m] = Cardinality({k \in Clients : <<k, m>> \in holds'})
           /\ refcount'[n] # 0
           /\ m # n => refcount'[m] = refcount[m]
<1> DEFINE H(m) == {k \in Clients : <<k, m>> \in holds}
           G(m) == {k \in Clients : <<k, m>> \in holds'}
<1>1. G(n) = H(n) \cup {cl} /\ cl \notin H(n)
  OBVIOUS
<1>2. \A m \in Names \ {n} : G(m) = H(m)
  OBVIOUS
<1>3. IsFiniteSet(H(n))
  BY ClientsAssumption, FS_Subset
<1>4. \A m \in Names : refcount[m] = Cardinality(H(m))
  BY DEF RegistryExact
<1> HIDE DEF H, G
<1>5. Cardinality(G(n)) = Cardinality(H(n)) + 1
  BY <1>1, <1>3, FS_AddElement
<1>6. \A m \in Names : refcount'[m] = Cardinality(G(m))
  BY <1>2, <1>4, <1>5
<1> QED
  BY <1>6 DEF G

LEMMA HolderRemoved ==
  ASSUME RegistryExact, NEW cl \in Clients, NEW n \in Names,
         <<cl, n>> \in holds, holds' = holds \ {<<cl, n>>},
         refcount \in [Names -> Nat], refcount' = [refcount EXCEPT ![n] = @ - 1]
  PROVE  \A m \in Names :
           /\ refcount'[m] = Cardinality({k \in Clients : <<k, m>> \in holds'})
           /\ m # n => refcount'[m] = refcount[m]
<1> DEFINE H(m) == {k \in Clients : <<k, m>> \in holds}
           G(m) == {k \in Clients : <<k, m>> \in holds'}
<1>1. G(n) = H(n) \ {cl} /\ cl \in H(n)
  OBVIOUS
<1>2. \A m \in Names \ {n} : G(m) = H(m)
  OBVIOUS
<1>3. IsFiniteSet(H(n))
  BY ClientsAssumption, FS_Subset
<1>4. \A m \in Names : refcount[m] = Cardinality(H(m))
  BY DEF RegistryExact
<1> HIDE DEF H, G
<1>5. Cardinality(G(n)) = Cardinality(H(n)) - 1
  BY <1>1, <1>3, FS_RemoveElement
<1>6. \A m \in Names : refcount'[m] = Cardinality(G(m))
  BY <1>2, <1>4, <1>5
<1> QED
  BY <1>6 DEF G

(* Every step keeps the registry exact: a channel is created, counted,        *)
(* released and destroyed, and nothing else touches it.                       *)
LEMMA RegistryStep ==
  IInv /\ [Next]_vars => RegistryExact'
<1> SUFFICES ASSUME IInv, [Next]_vars PROVE RegistryExact'
  OBVIOUS
<1> USE DEF IInv, reg, client
<1>0. /\ registry \in [Names -> Commands \cup {NULL}]
      /\ refcount \in [Names -> Nat]
      /\ name \in [Commands -> Names \cup {NULL}]
      /\ stack \in Seq(Frames)
  BY DEF TypeOK
<1>u. ASSUME UNCHANGED <<registry, refcount, name, holds>>
      PROVE  RegistryExact'
  BY <1>u DEF RegistryExact
<1>1. ASSUME NEW cl \in Clients, NEW n \in Names, CreateChannel(cl, n)
      PROVE  RegistryExact'
  <2>1. \A m \in Names :
           /\ refcount'[m] = Cardinality({k \in Clients : <<k, m>> \in holds'})
           /\ refcount'[n] # 0
           /\ m # n => refcount'[m] = refcount[m]
    BY <1>0, <1>1, HolderAdded DEF CreateChannel
  <2>2. CASE registry[n] # NULL
    <3>1. UNCHANGED <<registry, name>>
      BY <1>1, <2>2 DEF CreateChannel
    <3>2. refcount[n] # 0
      BY <2>2 DEF RegistryExact
    <3> QED
      BY <2>1, <2>2, <3>1, <3>2 DEF RegistryExact
  <2>3. CASE registry[n] = NULL
    <3>1. PICK c \in Commands : /\ ~Allocated(c)
                                /\ name' = [name EXCEPT ![c] = n]
                                /\ registry' = [registry EXCEPT ![n] = c]
      BY <1>1, <2>3 DEF CreateChannel
    <3>2. ASSUME NEW m \in Names, m # n, registry[m] # NULL
          PROVE  name'[registry[m]] = name[registry[m]] /\ name[registry[m]] = m
      <4>1. name[registry[m]] = m /\ registry[m] \in Commands
        BY <1>0, <3>2 DEF RegistryExact
      <4>2. registry[m] # c
        BY <3>1, <4>1, NullAssumption DEF Allocated
      <4> QED
        BY <1>0, <3>1, <4>1, <4>2
    <3>3. registry'[n] = c /\ name'[c] = n /\ c # NULL
      BY <1>0, <3>1, NullAssumption
    <3>4. \A m \in Names : m # n => registry'[m] = registry[m]
      BY <1>0, <3>1
    <3> QED
      BY <2>1, <3>2, <3>3, <3>4 DEF RegistryExact
  <2> QED
    BY <2>2, <2>3
<1>2. ASSUME NEW cl \in Clients, NEW n \in Names, DeleteChannel(cl, n)
      PROVE  RegistryExact'
  <2>1. \A m \in Names :
           /\ refcount'[m] = Cardinality({k \in Clients : <<k, m>> \in holds'})
           /\ m # n => refcount'[m] = refcount[m]
    BY <1>0, <1>2, HolderRemoved DEF DeleteChannel
  <2>2. refcount'[n] = refcount[n] - 1 /\ name' = name
    BY <1>0, <1>2 DEF DeleteChannel
  <2>3. \A m \in Names :
          IF refcount[m] = 0 THEN registry[m] = NULL
          ELSE registry[m] # NULL /\ name[registry[m]] = m
    BY DEF RegistryExact
  <2>4. ASSUME NEW m \in Names
        PROVE  IF refcount'[m] = 0 THEN registry'[m] = NULL
               ELSE registry'[m] # NULL /\ name'[registry'[m]] = m
    <3>1. CASE m # n
      <4>1. refcount'[m] = refcount[m]
        BY <2>1, <3>1
      <4>2. registry'[m] = registry[m]
        BY <1>0, <1>2, <3>1 DEF DeleteChannel
      <4> QED
        BY <2>2, <2>3, <4>1, <4>2
    <3>2. CASE m = n /\ refcount[n] > 1 /\ UNCHANGED registry
      <4>1. refcount'[n] # 0 /\ refcount[n] # 0
        BY <1>0, <2>2, <3>2
      <4> QED
        BY <2>2, <2>3, <3>2, <4>1
    <3>3. CASE m = n /\ refcount[n] = 1 /\ registry' = [registry EXCEPT ![n] = NULL]
      BY <1>0, <2>2, <3>3
    <3> QED
      BY <1>2, <3>1, <3>2, <3>3 DEF DeleteChannel
  <2> QED
    BY <2>1, <2>4 DEF RegistryExact
<1>3. CASE Destroyed
  <2>1. Top = stack[1] /\ 1 \in 1 .. Len(stack)
    BY <1>0, <1>3, PopStack DEF Destroyed, Top
  <2>2. ~Registered(Top.cmd)
    BY <1>3, <2>1 DEF Destroyed, StackOK, FrameOK
  <2>3. \A m \in Names : name'[registry[m]] = name[registry[m]]
    BY <1>0, <1>3, <2>2 DEF Destroyed, Registered
  <2> QED
    BY <1>3, <2>3 DEF Destroyed, RegistryExact
<1>4. ASSUME NEW cl \in Clients, NEW n \in Names, NEW v \in Vars,
             Link(cl, n, v) \/ LinkAgain(cl, n, v) \/ Unlink(cl, n, v)
      PROVE  RegistryExact'
  BY <1>4, <1>u DEF Link, LinkAgain, Unlink
<1>5. CASE LinkDone \/ NextVariable \/ UpdateDone \/ UseDestroyed \/ Serve
  BY <1>5, <1>u
  DEF LinkDone, NextVariable, UpdateDone, UseDestroyed, Serve, DropEvent,
      ServeEvent
<1>6. ASSUME NEW c \in Commands, NEW x \in Values, ChannelUpdate(c, x)
      PROVE  RegistryExact'
  BY <1>6, <1>u DEF ChannelUpdate
<1>7. ASSUME NEW v \in Vars, UpdateVariable(v)
      PROVE  RegistryExact'
  BY <1>7, <1>u DEF UpdateVariable
<1>8. ASSUME NEW v \in Vars, NEW x \in Values, ScriptWrite(v, x)
      PROVE  RegistryExact'
  BY <1>8, <1>u DEF ScriptWrite
<1>9. CASE UNCHANGED vars
  BY <1>9, <1>u DEF vars
<1> QED
  BY <1>1, <1>2, <1>3, <1>4, <1>5, <1>6, <1>7, <1>8, <1>9
  DEF Next, Script, Continue

-----------------------------------------------------------------------------
(* An operation that begins, or ends, leaves the stack in order.              *)
LEMMA PushStep ==
  ASSUME TypeOK, StackOK, Ready, TypeOK',
         NEW op \in {"link", "update", "destroy"}, NEW c \in Commands,
         NEW v \in Vars \cup {NULL}, Push(op, c, v),
         op = "link" => v # NULL /\ Allocated(c)',
         op = "destroy" => Allocated(c)' /\ ~Registered(c)',
         UNCHANGED name
  PROVE  StackOK'
<1> DEFINE f == [op |-> op, cmd |-> c, v |-> v, done |-> {}, gone |-> FALSE]
<1>1. f \in Frames /\ stack \in Seq(Frames) /\ stack' = <<f>> \o stack
  BY DEF Frames, Push, TypeOK
<1>2. f.op = op /\ f.cmd = c /\ f.v = v
  OBVIOUS
<1> HIDE DEF f
<1>3. /\ Len(stack') = Len(stack) + 1 /\ stack'[1] = f
      /\ \A i \in 2 .. Len(stack) + 1 : stack'[i] = stack[i - 1]
  BY <1>1, PushStack
<1>4. Len(stack) \in Nat
  BY <1>1
<1> SUFFICES ASSUME NEW i \in 1 .. Len(stack) + 1 PROVE FrameOK(i)'
  BY <1>3 DEF StackOK
<1>5. CASE i = 1
  BY <1>2, <1>3, <1>5 DEF FrameOK, Allocated, Registered
<1>6. CASE i # 1
  <2>1. stack'[i] = stack[i - 1] /\ i - 1 \in 1 .. Len(stack)
    BY <1>3, <1>4, <1>6
  <2>2. stack[i - 1].op # "destroy"
    BY <2>1, ReadyStack
  <2>3. stack[i - 1].op = "link" =>
          /\ stack[i - 1].v # NULL
          /\ stack[i - 1].gone \/ Allocated(stack[i - 1].cmd)
    BY <2>1 DEF StackOK, FrameOK
  <2> QED
    BY <2>1, <2>2, <2>3 DEF FrameOK, Allocated
<1> QED
  BY <1>5, <1>6

LEMMA PopStep ==
  ASSUME TypeOK, StackOK, stack # <<>>, stack' = Tail(stack), UNCHANGED name
  PROVE  StackOK'
<1>1. stack \in Seq(Frames) /\ Len(stack) \in Nat
  BY DEF TypeOK
<1>2. /\ Len(stack') = Len(stack) - 1
      /\ \A i \in 1 .. Len(stack) - 1 : stack'[i] = stack[i + 1]
  BY <1>1, PopStack
<1> SUFFICES ASSUME NEW i \in 1 .. Len(stack) - 1 PROVE FrameOK(i)'
  BY <1>2 DEF StackOK
<1>3. i + 1 \in 1 .. Len(stack) /\ i + 1 # 1 /\ stack'[i] = stack[i + 1]
  BY <1>1, <1>2
<1>4. /\ stack[i + 1].op # "destroy"
      /\ stack[i + 1].op = "link" =>
           /\ stack[i + 1].v # NULL
           /\ stack[i + 1].gone \/ Allocated(stack[i + 1].cmd)
  BY <1>3 DEF StackOK, FrameOK
<1> QED
  BY <1>3, <1>4 DEF FrameOK, Allocated

(* A command that is deleted leaves the operations inside of it without it.   *)
LEMMA DestroyedStep ==
  ASSUME TypeOK, StackOK, Destroyed
  PROVE  StackOK'
<1>1. /\ Len(stack') = Len(stack) - 1 /\ Len(stack) \in Nat \ {0}
      /\ \A i \in 1 .. Len(stack) - 1 :
           stack[i + 1] \in Frames /\ stack'[i] = Orphan(stack[i + 1], Top.cmd)
  BY Orphans
<1> SUFFICES ASSUME NEW i \in 1 .. Len(stack) - 1 PROVE FrameOK(i)'
  BY <1>1 DEF StackOK
<1> DEFINE f == stack[i + 1]
<1>2. f \in Frames /\ i + 1 \in 1 .. Len(stack) /\ i + 1 # 1
  BY <1>1
<1>3. f.op # "destroy" /\ (f.op = "link" => f.v # NULL /\ (f.gone \/ Allocated(f.cmd)))
  BY <1>2 DEF StackOK, FrameOK
<1>4. stack'[i] = Orphan(f, Top.cmd)
  BY <1>1
<1> HIDE DEF f, Frames
<1>5. /\ stack'[i].op = f.op /\ stack'[i].cmd = f.cmd /\ stack'[i].v = f.v
      /\ f.gone => stack'[i].gone
      /\ f.cmd = Top.cmd => stack'[i].gone
  BY <1>2, <1>4, FrameKept
<1>6. f.cmd \in Commands
  BY <1>2 DEF Frames
<1>7. f.cmd # Top.cmd /\ name[f.cmd] # NULL => name'[f.cmd] # NULL
  BY <1>6 DEF Destroyed, TypeOK
<1>8. stack'[i].op # "destroy"
  BY <1>3, <1>5
<1>9. stack'[i].op = "link" =>
        stack'[i].v # NULL /\ (stack'[i].gone \/ name'[stack'[i].cmd] # NULL)
  BY <1>3, <1>5, <1>7 DEF Allocated
<1> QED
  BY <1>8, <1>9 DEF FrameOK, Allocated

(* An update that goes on stays where it is.                                  *)
LEMMA TopStays ==
  ASSUME TypeOK, stack # <<>>, stack[1].op = "update",
         NEW w \in Vars \cup {NULL}, NEW d \in SUBSET Vars,
         \/ stack' = [stack EXCEPT ![1].v = w]
         \/ stack' = [stack EXCEPT ![1].v = w, ![1].done = @ \cup d]
  PROVE  /\ Len(stack') = Len(stack) /\ stack'[1].op = "update"
         /\ \A i \in 2 .. Len(stack) : stack'[i] = stack[i]
<1>1. stack \in Seq(Frames)
  BY DEF TypeOK
<1>2. CASE stack' = [stack EXCEPT ![1].v = w]
  BY <1>1, <1>2, SetTop
<1>3. CASE stack' = [stack EXCEPT ![1].v = w, ![1].done = @ \cup d]
  BY <1>1, <1>3, SetTop
<1> QED
  BY <1>2, <1>3

(* It keeps the order of the stack.                                           *)
LEMMA TopStep ==
  ASSUME TypeOK, StackOK, stack # <<>>, stack[1].op = "update",
         NEW w \in Vars \cup {NULL}, NEW d \in SUBSET Vars,
         \/ stack' = [stack EXCEPT ![1].v = w]
         \/ stack' = [stack EXCEPT ![1].v = w, ![1].done = @ \cup d],
         UNCHANGED name
  PROVE  StackOK'
<1>1. stack \in Seq(Frames) /\ Len(stack) \in Nat
  BY DEF TypeOK
<1>2. /\ Len(stack') = Len(stack) /\ stack'[1].op = "update"
      /\ \A i \in 2 .. Len(stack) : stack'[i] = stack[i]
  BY TopStays
<1>3. ASSUME NEW i \in 2 .. Len(stack)
      PROVE  /\ stack[i].op # "destroy"
             /\ stack[i].op = "link" =>
                  stack[i].v # NULL /\ (stack[i].gone \/ Allocated(stack[i].cmd))
  BY <1>1 DEF StackOK, FrameOK
<1>4. ASSUME NEW i \in 1 .. Len(stack)
      PROVE  FrameOK(i)'
  BY <1>1, <1>2, <1>3 DEF FrameOK, Allocated
<1> QED
  BY <1>2, <1>4 DEF StackOK

(* Every step keeps the stack in order.                                       *)
LEMMA StackStep ==
  IInv /\ [Next]_vars => StackOK'
<1> SUFFICES ASSUME IInv, [Next]_vars PROVE StackOK'
  OBVIOUS
<1> USE DEF IInv, reg, client
<1>0. /\ registry \in [Names -> Commands \cup {NULL}]
      /\ name \in [Commands -> Names \cup {NULL}]
      /\ stack \in Seq(Frames) /\ Len(stack) \in Nat
  BY DEF TypeOK
<1>t. TypeOK'
  BY TypeStep
<1>u. ASSUME UNCHANGED <<registry, name, stack>>
      PROVE  StackOK'
  BY <1>u DEF StackOK, FrameOK, Allocated, Registered
<1>s. ASSUME \A i \in 1 .. Len(stack) : stack[i].op # "destroy", UNCHANGED stack,
             \A c \in Commands : Allocated(c) => Allocated(c)'
      PROVE  StackOK'
  <2>1. ASSUME NEW i \in 1 .. Len(stack) PROVE stack[i].cmd \in Commands
    <3>1. stack[i] \in Frames
      BY <1>0
    <3> QED
      BY <3>1 DEF Frames
  <2> QED
    BY <1>s, <2>1 DEF StackOK, FrameOK
<1>1. ASSUME NEW cl \in Clients, NEW n \in Names, CreateChannel(cl, n)
      PROVE  StackOK'
  <2>1. \A c \in Commands : Allocated(c) => Allocated(c)'
    BY <1>0, <1>1, NullAssumption DEF CreateChannel, Allocated
  <2> QED
    BY <1>1, <1>s, <2>1, ReadyStack DEF CreateChannel
<1>2. ASSUME NEW cl \in Clients, NEW n \in Names, DeleteChannel(cl, n)
      PROVE  StackOK'
  <2>1. registry[n] \in Commands /\ name[registry[n]] = n
    BY <1>2, HeldIsRegistered DEF DeleteChannel
  <2>2. CASE UNCHANGED stack
    BY <1>2, <1>s, <2>2, ReadyStack DEF DeleteChannel, Allocated
  <2>3. CASE /\ registry' = [registry EXCEPT ![n] = NULL]
             /\ Push("destroy", registry[n], NULL)
    <3>1. name'[registry[n]] # NULL
      BY <1>2, <2>1, NullAssumption DEF DeleteChannel
    <3>2. ASSUME NEW m \in Names, registry'[m] = registry[n]
          PROVE  FALSE
      <4>1. m # n
        BY <1>0, <2>1, <2>3, <3>2, NullAssumption
      <4>2. registry[m] = registry[n]
        BY <1>0, <2>3, <3>2, <4>1
      <4>3. name[registry[m]] = m
        BY <2>1, <4>2, NullAssumption DEF RegistryExact
      <4> QED
        BY <2>1, <4>1, <4>2, <4>3
    <3>3. Ready /\ UNCHANGED name
      BY <1>2 DEF DeleteChannel
    <3>4. ~\E m \in Names : registry'[m] = registry[n]
      BY <3>2
    <3> DEFINE c == registry[n]
    <3>5. /\ c \in Commands /\ name'[c] # NULL /\ Push("destroy", c, NULL)
          /\ ~\E m \in Names : registry'[m] = c
      BY <2>1, <2>3, <3>1, <3>4
    <3> QED
      BY <3>3, <3>5, <1>t, PushStep DEF Allocated, Registered
  <2> QED
    BY <1>2, <2>2, <2>3 DEF DeleteChannel
<1>3. CASE Destroyed \/ LinkDone \/ UpdateDone
  BY <1>3, DestroyedStep, PopStep DEF LinkDone, UpdateDone
<1>4. ASSUME NEW cl \in Clients, NEW n \in Names, NEW v \in Vars, Link(cl, n, v)
      PROVE  StackOK'
  <2>1. PICK c \in Commands : c = registry[n] /\ Allocated(c)
    BY <1>4, HeldIsRegistered, NullAssumption DEF Link, Allocated
  <2>2. /\ Ready /\ Push("link", c, v) /\ v # NULL
        /\ UNCHANGED name /\ Allocated(c)'
    BY <1>4, <2>1, NullAssumption DEF Link, Allocated
  <2> QED
    BY <2>1, <2>2, <1>t, PushStep
<1>5. ASSUME NEW cl \in Clients, NEW n \in Names, NEW v \in Vars,
             LinkAgain(cl, n, v)
      PROVE  StackOK'
  BY <1>5, <1>u DEF LinkAgain
<1>6. ASSUME NEW cl \in Clients, NEW n \in Names, NEW v \in Vars, Unlink(cl, n, v)
      PROVE  StackOK'
  <2>1. DOMAIN stack' = DOMAIN stack /\ UNCHANGED <<registry, name>>
    BY <1>6 DEF Unlink
  <2>2. DOMAIN stack = 1 .. Len(stack) /\ stack' \in Seq(Frames)
    BY <1>0, <1>t DEF TypeOK
  <2>3. DOMAIN stack' = 1 .. Len(stack') /\ Len(stack') \in Nat
    BY <2>2
  <2>4. Len(stack') = Len(stack)
    BY <1>0, <2>1, <2>2, <2>3
  <2>5. ASSUME NEW i \in 1 .. Len(stack)
        PROVE  /\ stack'[i].op = stack[i].op /\ stack'[i].cmd = stack[i].cmd
               /\ stack'[i].v = stack[i].v
               /\ stack[i].gone => stack'[i].gone
    <3>1. stack[i] \in Frames
      BY <1>0
    <3>2. stack'[i] \in {stack[i], Unlisted(stack[i], registry[n], v)}
      BY <1>6, <2>2 DEF Unlink
    <3>3. CASE stack'[i] = stack[i]
      BY <3>3
    <3>4. CASE stack'[i] = Unlisted(stack[i], registry[n], v)
      BY <3>1, <3>4, FrameKept
    <3> QED
      BY <3>2, <3>3, <3>4
  <2> QED
    BY <2>1, <2>4, <2>5 DEF StackOK, FrameOK, Allocated, Registered
<1>7. ASSUME NEW c \in Commands, NEW x \in Values, ChannelUpdate(c, x)
      PROVE  StackOK'
  BY <1>7, <1>u DEF ChannelUpdate
<1>8. CASE DropEvent \/ UseDestroyed
  BY <1>8, <1>u DEF DropEvent, UseDestroyed
<1>9. CASE ServeEvent
  <2>1. Head(queue) \in [cmd : Commands, name : Names]
    BY <1>9, HeadTailProperties DEF ServeEvent, TypeOK
  <2>2. /\ Ready /\ Push("update", Head(queue).cmd, NULL)
        /\ Head(queue).cmd \in Commands /\ UNCHANGED name
    BY <1>9, <2>1 DEF ServeEvent
  <2> QED
    BY <2>2, <1>t, PushStep
<1>10. ASSUME NEW v \in Vars, UpdateVariable(v)
       PROVE  StackOK'
  <2>1. stack # <<>> /\ Top = stack[1] /\ Top.op = "update"
    BY <1>0, <1>10, PopStack DEF UpdateVariable, Top
  <2>2. stack' = [stack EXCEPT ![1].v = v] /\ UNCHANGED <<registry, name>>
    BY <1>10 DEF UpdateVariable
  <2>3. {} \in SUBSET Vars
    OBVIOUS
  <2> QED
    BY <2>1, <2>2, <2>3, TopStep
<1>11. CASE NextVariable
  <2>1. stack # <<>> /\ Top = stack[1] /\ Top.op = "update"
    BY <1>0, <1>11, PopStack DEF NextVariable, Top
  <2>2. /\ stack' = [stack EXCEPT ![1].v = NULL, ![1].done = @ \cup {Top.v}]
        /\ Top.v \in Vars /\ UNCHANGED <<registry, name>>
    <3>1. Top \in Frames
      BY <1>0, <1>11, PopStack DEF NextVariable, Top
    <3> QED
      BY <1>11, <3>1 DEF NextVariable, Frames
  <2>3. {Top.v} \in SUBSET Vars
    BY <2>2
  <2> QED
    BY <2>1, <2>2, <2>3, TopStep
<1>12. ASSUME NEW v \in Vars, NEW x \in Values, ScriptWrite(v, x)
       PROVE  StackOK'
  BY <1>12, <1>u DEF ScriptWrite
<1>13. CASE UNCHANGED vars
  BY <1>13, <1>u DEF vars
<1> QED
  BY <1>1, <1>2, <1>3, <1>4, <1>5, <1>6, <1>7, <1>8, <1>9, <1>10, <1>11,
      <1>12, <1>13
  DEF Next, Script, Serve, Continue

-----------------------------------------------------------------------------
(* What a step does to the list of variables of one command.                  *)
OnlyOf(c) ==
  /\ Allocated(c) /\ UNCHANGED name
  /\ \A d \in Commands \ {c} : LinkedVars(d)' = LinkedVars(d)

Adds(c, v) ==
  /\ OnlyOf(c)
  /\ LinkedVars(c)' = LinkedVars(c) \cup {v} /\ slot' = slot \cup {c}

Keeps(c) ==
  /\ OnlyOf(c) /\ LinkedVars(c)' = LinkedVars(c) /\ LinkedVars(c) # {}
  /\ UNCHANGED slot

Drops(c, v) ==
  /\ OnlyOf(c) /\ v \in LinkedVars(c) /\ LinkedVars(c)' = LinkedVars(c) \ {v}
  /\ slot' = IF LinkedVars(c) = {v} THEN slot \ {c} ELSE slot

Empties(c) ==
  /\ Destroyed /\ c = Top.cmd /\ LinkedVars(c)' = {}
  /\ \A d \in Commands \ {c} : LinkedVars(d)' = LinkedVars(d)

NoList ==
  /\ UNCHANGED <<links, slot>>
  /\ \A c \in Commands : Allocated(c) => Allocated(c)'

(* Each step touches the list of one command at most: LinkDone and LinkAgain  *)
(* add to it, Unlink drops from it if the last reference goes, Destroyed      *)
(* empties it.                                                                *)
LEMMA ListsStep ==
  ASSUME IInv, [Next]_vars
  PROVE  /\ \/ NoList
            \/ \E c \in Commands : Empties(c)
            \/ \E c \in Commands, v \in Vars :
                 \/ Adds(c, v) /\ LinkDone
                 \/ Adds(c, v) /\ v \in LinkedVars(c)
                 \/ Keeps(c)
                 \/ Drops(c, v)
         /\ Destroyed => \E c \in Commands : Empties(c)
         /\ LinkDone => \E c \in Commands, v \in Vars :
                          Adds(c, v) /\ c = Top.cmd /\ v = Top.v
<1> USE DEF IInv, reg, client
<1>0. /\ name \in [Commands -> Names \cup {NULL}]
      /\ links \in [Commands -> [Vars -> Nat]]
      /\ stack \in Seq(Frames)
  BY DEF TypeOK
<1>u. ASSUME UNCHANGED <<links, slot, name>>
      PROVE  NoList
  BY <1>u DEF NoList, Allocated
<1>a. ASSUME stack # <<>>
      PROVE  Top = stack[1] /\ Top \in Frames /\ Top.cmd \in Commands
  BY <1>0, <1>a, PopStack DEF Top, Frames
<1>1. ASSUME NEW cl \in Clients, NEW n \in Names, CreateChannel(cl, n)
      PROVE  NoList
  <2>1. CASE UNCHANGED name
    BY <1>1, <1>u, <2>1 DEF CreateChannel
  <2>2. CASE \E c \in Commands : ~Allocated(c) /\ name' = [name EXCEPT ![c] = n]
    BY <1>0, <1>1, <2>2, NullAssumption DEF CreateChannel, NoList, Allocated
  <2> QED
    BY <1>1, <2>1, <2>2 DEF CreateChannel
<1>2. ASSUME Destroyed
      PROVE  \E c \in Commands : Empties(c)
  <2>1. PICK c \in Commands : c = Top.cmd
    BY <1>2, <1>a DEF Destroyed
  <2>2. links' = [links EXCEPT ![c] = [v \in Vars |-> 0]]
    BY <1>2, <2>1 DEF Destroyed
  <2>3. links'[c] = [v \in Vars |-> 0]
    BY <1>0, <2>2
  <2>4. \A d \in Commands \ {c} : links'[d] = links[d]
    BY <1>0, <2>2
  <2>5. LinkedVars(c)' = {}
    BY <2>3 DEF LinkedVars
  <2> QED
    BY <1>2, <2>1, <2>4, <2>5 DEF Empties, LinkedVars
<1>3. ASSUME LinkDone
      PROVE  \E c \in Commands, v \in Vars :
               Adds(c, v) /\ c = Top.cmd /\ v = Top.v
  <2>1. Top = stack[1] /\ Top \in Frames /\ Top.cmd \in Commands /\ 1 \in 1 .. Len(stack)
    BY <1>0, <1>3, <1>a DEF LinkDone
  <2>2. Top.v # NULL /\ Allocated(Top.cmd)
    BY <1>3, <2>1 DEF LinkDone, StackOK, FrameOK
  <2>3. PICK c \in Commands, v \in Vars : c = Top.cmd /\ v = Top.v
    BY <2>1, <2>2 DEF Frames
  <2>4. /\ links' = [links EXCEPT ![c][v] = @ + 1] /\ Allocated(c)
        /\ UNCHANGED name /\ slot' = slot \cup {c}
    BY <1>3, <2>2, <2>3 DEF LinkDone
  <2>5. /\ \A d \in Commands \ {c} : links'[d] = links[d]
        /\ links'[c] = [links[c] EXCEPT ![v] = @ + 1]
    BY <1>0, <2>4
  <2>6. \A w \in Vars : links'[c][w] > 0 <=> links[c][w] > 0 \/ w = v
    BY <1>0, <2>5
  <2>7. Adds(c, v)
    BY <2>4, <2>5, <2>6 DEF Adds, OnlyOf, LinkedVars
  <2> QED
    BY <2>3, <2>7
<1>4. ASSUME NEW cl \in Clients, NEW n \in Names, NEW v \in Vars,
             LinkAgain(cl, n, v)
      PROVE  \E c \in Commands : Adds(c, v) /\ v \in LinkedVars(c)
  <2>1. PICK c \in Commands : c = registry[n] /\ Allocated(c)
    BY <1>4, HeldIsRegistered, NullAssumption DEF LinkAgain, Allocated
  <2>2. /\ links' = [links EXCEPT ![c][v] = @ + 1] /\ v \in LinkedVars(c)
        /\ UNCHANGED name /\ slot' = slot \cup {c}
    BY <1>4, <2>1 DEF LinkAgain
  <2>3. /\ \A d \in Commands \ {c} : links'[d] = links[d]
        /\ links'[c] = [links[c] EXCEPT ![v] = @ + 1]
    BY <1>0, <2>2
  <2>4. \A w \in Vars : links'[c][w] > 0 <=> links[c][w] > 0 \/ w = v
    BY <1>0, <2>3
  <2>5. Adds(c, v)
    BY <2>1, <2>2, <2>3, <2>4 DEF Adds, OnlyOf, LinkedVars
  <2> QED
    BY <2>2, <2>5
<1>5. ASSUME NEW cl \in Clients, NEW n \in Names, NEW v \in Vars,
             Unlink(cl, n, v)
      PROVE  \E c \in Commands : Keeps(c) \/ Drops(c, v)
  <2>1. PICK c \in Commands : c = registry[n] /\ Allocated(c)
    BY <1>5, HeldIsRegistered, NullAssumption DEF Unlink, Allocated
  <2>2. /\ links' = [links EXCEPT ![c][v] = @ - 1] /\ v \in LinkedVars(c)
        /\ UNCHANGED name
        /\ slot' = IF LinkedVars(c) = {v} /\ links[c][v] = 1
                   THEN slot \ {c} ELSE slot
    BY <1>5, <2>1 DEF Unlink
  <2>3. /\ \A d \in Commands \ {c} : links'[d] = links[d]
        /\ links'[c] = [links[c] EXCEPT ![v] = @ - 1]
    BY <1>0, <2>2
  <2>4. OnlyOf(c)
    BY <2>1, <2>2, <2>3 DEF OnlyOf, LinkedVars
  <2>5. CASE links[c][v] = 1
    <3>1. \A w \in Vars : links'[c][w] > 0 <=> links[c][w] > 0 /\ w # v
      BY <1>0, <2>3, <2>5
    <3> QED
      BY <2>2, <2>4, <2>5, <3>1 DEF Drops, LinkedVars
  <2>6. CASE links[c][v] # 1
    <3>1. \A w \in Vars : links'[c][w] > 0 <=> links[c][w] > 0
      BY <1>0, <2>2, <2>3, <2>6 DEF LinkedVars
    <3> QED
      BY <2>2, <2>4, <2>6, <3>1 DEF Keeps, LinkedVars
  <2> QED
    BY <2>5, <2>6
<1>6. ASSUME \/ \E cl \in Clients, n \in Names :
                  DeleteChannel(cl, n) \/ \E v \in Vars : Link(cl, n, v)
             \/ \E v \in Vars, x \in Values : ScriptWrite(v, x)
             \/ \E v \in Vars : UpdateVariable(v)
             \/ NextVariable \/ UpdateDone \/ UseDestroyed \/ Serve
             \/ \E c \in Commands, x \in Values : ChannelUpdate(c, x)
             \/ UNCHANGED vars
      PROVE  UNCHANGED <<links, slot, name>>
  BY <1>6
  DEF DeleteChannel, Link, ScriptWrite, UpdateVariable, NextVariable, UpdateDone,
      UseDestroyed, Serve, DropEvent, ServeEvent, ChannelUpdate, vars
<1> QED
  BY <1>u, <1>1, <1>2, <1>3, <1>4, <1>5, <1>6 DEF Next, Script, Continue

-----------------------------------------------------------------------------
(* Every step leaves the lists to commands that exist (CreateChannel, Link,   *)
(* Destroyed).                                                                *)
LEMMA AllocatedStep ==
  IInv /\ [Next]_vars => LinksOfAllocated'
<1> SUFFICES ASSUME IInv, [Next]_vars, NEW d \in Commands, ~Allocated(d)'
             PROVE  LinkedVars(d)' = {}
  BY DEF LinksOfAllocated
<1>0. ~Allocated(d) => LinkedVars(d) = {}
  BY DEF IInv, LinksOfAllocated
<1>1. CASE NoList
  BY <1>0, <1>1 DEF NoList, LinkedVars
<1>2. ASSUME NEW c \in Commands, Empties(c)
      PROVE  LinkedVars(d)' = {}
  <2>1. d # c => name'[d] = name[d]
    BY <1>2 DEF Empties, Destroyed, IInv, TypeOK
  <2> QED
    BY <1>0, <1>2, <2>1 DEF Empties, Allocated
<1>3. ASSUME NEW c \in Commands, OnlyOf(c)
      PROVE  LinkedVars(d)' = {}
  <2>1. ~Allocated(d) /\ d # c
    BY <1>3 DEF OnlyOf, Allocated
  <2> QED
    BY <1>0, <1>3, <2>1 DEF OnlyOf
<1> QED
  BY <1>1, <1>2, <1>3, ListsStep DEF Adds, Keeps, Drops

(* Every step sets and clears slots with the first and last variable of the   *)
(* list (Link, Unlink, Destroyed).                                            *)
LEMMA SlotStep ==
  IInv /\ [Next]_vars => SlotExact'
<1> SUFFICES ASSUME IInv, [Next]_vars, NEW d \in Commands
             PROVE  d \in slot' <=> LinkedVars(d)' # {}
  BY DEF SlotExact
<1>0. d \in slot <=> LinkedVars(d) # {}
  BY DEF IInv, SlotExact
<1>1. CASE NoList
  BY <1>0, <1>1 DEF NoList, LinkedVars
<1>2. ASSUME NEW c \in Commands, Empties(c)
      PROVE  d \in slot' <=> LinkedVars(d)' # {}
  <2>1. slot' = slot \ {c}
    BY <1>2 DEF Empties, Destroyed
  <2> QED
    BY <1>0, <1>2, <2>1 DEF Empties
<1>3. ASSUME NEW c \in Commands, NEW v \in Vars, Adds(c, v) \/ Keeps(c) \/ Drops(c, v)
      PROVE  d \in slot' <=> LinkedVars(d)' # {}
  <2>1. CASE d = c
    BY <1>0, <1>3, <2>1 DEF Adds, Keeps, Drops
  <2>2. CASE d # c
    BY <1>0, <1>3, <2>2 DEF Adds, Keeps, Drops, OnlyOf
  <2> QED
    BY <2>1, <2>2
<1> QED
  BY <1>1, <1>2, <1>3, ListsStep

-----------------------------------------------------------------------------
(* The invariant holds in every state of every behaviour. *)

LEMMA InitIInv == Init => IInv
<1> SUFFICES ASSUME Init PROVE IInv
  OBVIOUS
<1>1. TypeOK
  <2>1. fault \in {"none", "command", "node"}
    BY DEF Init
  <2>2. /\ links \in [Commands -> [Vars -> Nat]]
        /\ registry \in [Names -> Commands \cup {NULL}]
        /\ refcount \in [Names -> Nat]
        /\ name \in [Commands -> Names \cup {NULL}]
        /\ value \in [Commands -> Values \cup {NoValue}]
        /\ var \in [Vars -> Values \cup {NoValue}]
    BY DEF Init
  <2>3. queue \in Seq([cmd : Commands, name : Names]) /\ stack \in Seq(Frames)
    BY DEF Init
  <2> QED
    BY <2>1, <2>2, <2>3 DEF Init, TypeOK
<1>2. RegistryExact
  <2>1. \A n \in Names : {cl \in Clients : <<cl, n>> \in holds} = {}
    BY DEF Init
  <2> QED
    BY <2>1, FS_EmptySet DEF Init, RegistryExact
<1>3. \A c \in Commands : LinkedVars(c) = {}
  BY DEF Init, LinkedVars
<1> QED
  BY <1>1, <1>2, <1>3
  DEF Init, IInv, StackOK, LinksOfAllocated, SlotExact

(* Every step keeps the invariant.                                            *)
LEMMA NextIInv == IInv /\ [Next]_vars => IInv'
  BY TypeStep, RegistryStep, StackStep, AllocatedStep, SlotStep DEF IInv

(* The inductive invariant holds.                                             *)
THEOREM Invariance == Spec => []IInv
  BY InitIInv, NextIInv, PTL DEF Spec

(* The types of the package's state.                                          *)
THEOREM TypeCorrect == Spec => []TypeOK
<1>1. IInv => TypeOK
  BY DEF IInv
<1> QED
  BY <1>1, Invariance, PTL

(* A name is registered, and counted, exactly while clients hold it, with     *)
(* commands run from within traces too (CTCLEpicsCommand).                    *)
THEOREM RegistryCorrect == Spec => []RegistryExact
<1>1. IInv => RegistryExact
  BY DEF IInv
<1> QED
  BY <1>1, Invariance, PTL

(* A channel notifies exactly the commands that have variables, with commands *)
(* run from within traces too (Link, Unlink).                                 *)
THEOREM SlotsCorrect == Spec => []SlotIffLinked
<1>1. IInv => SlotIffLinked
  BY DEF IInv, SlotExact, SlotIffLinked
<1> QED
  BY <1>1, Invariance, PTL

-----------------------------------------------------------------------------
(* Without commands run from within traces, a variable has one channel.       *)

BeingDestroyed(c) == stack # <<>> /\ Top.op = "destroy" /\ Top.cmd = c

(* The thread is in one operation at most.  A command with variables has a    *)
(* name that leads to it or is being destroyed, and a variable that is being  *)
(* linked for the first time is in no list: this is what isLinked, which      *)
(* looks at registered commands only, needs to know of the others.            *)
Flat ==
  /\ Len(stack) <= 1
  /\ \A c \in Commands : LinkedVars(c) # {} => Registered(c) \/ BeingDestroyed(c)
  /\ stack # <<>> /\ Top.op = "link" =>
       Registered(Top.cmd) /\ \A c \in Commands : Top.v \notin LinkedVars(c)

FlatInv == IInv /\ Flat /\ OneChannelPerVariable

(* Commands run, and events are served, between two operations.               *)
LEMMA ReadyFlat ==
  ASSUME MaxNesting = 0, TypeOK, Flat, Ready
  PROVE  stack = <<>>
BY DEF TypeOK, Ready, Flat, InTrace

(* An operation that begins is alone, and one that ends leaves nothing.       *)
LEMMA OneFrame ==
  ASSUME TypeOK, Flat
  PROVE  /\ stack # <<>> => Tail(stack) = <<>>
         /\ stack = <<>> =>
              \A op, c, v : Push(op, c, v) =>
                /\ stack' # <<>> /\ Len(stack') = 1
                /\ Top' = [op |-> op, cmd |-> c, v |-> v, done |-> {},
                           gone |-> FALSE]
         /\ Destroyed => stack' = <<>>
<1>1. stack \in Seq(Frames)
  BY DEF TypeOK
<1>2. ASSUME stack # <<>> PROVE Tail(stack) = <<>>
  <2>1. Tail(stack) \in Seq(Frames) /\ Len(Tail(stack)) = Len(stack) - 1
    BY <1>1, <1>2, PopStack
  <2> HIDE DEF Frames
  <2>2. Len(stack) \in Nat /\ Len(Tail(stack)) \in Nat
    BY <1>1, <2>1, LenProperties
  <2>3. Len(Tail(stack)) = 0
    BY <2>1, <2>2 DEF Flat
  <2> QED
    BY <2>1, <2>3, EmptySeq
<1>3. ASSUME stack = <<>>, NEW op, NEW c, NEW v, Push(op, c, v)
      PROVE  stack' = <<[op |-> op, cmd |-> c, v |-> v, done |-> {},
                         gone |-> FALSE]>>
  BY <1>3 DEF Push
<1>4. ASSUME Destroyed PROVE stack' = <<>>
  <2>1. /\ stack' \in Seq(Frames) /\ Len(stack') = Len(stack) - 1
        /\ Len(stack) \in Nat \ {0}
    BY <1>4, Orphans
  <2> HIDE DEF Frames
  <2>2. Len(stack') = 0
    BY <2>1 DEF Flat
  <2> QED
    BY <2>1, <2>2, EmptySeq
<1> QED
  BY <1>2, <1>3, <1>4 DEF Top

(* Lists grow only when a first link is made.                                 *)
LEMMA ListsGrow ==
  ASSUME IInv, [Next]_vars, ~LinkDone
  PROVE  \A c \in Commands : LinkedVars(c)' \subseteq LinkedVars(c)
<1> SUFFICES ASSUME NEW d \in Commands
             PROVE  LinkedVars(d)' \subseteq LinkedVars(d)
  OBVIOUS
<1>1. CASE NoList
  BY <1>1 DEF NoList, LinkedVars
<1>2. ASSUME NEW c \in Commands, Empties(c)
      PROVE  LinkedVars(d)' \subseteq LinkedVars(d)
  BY <1>2 DEF Empties
<1>3. ASSUME NEW c \in Commands, NEW v \in Vars,
             (Adds(c, v) /\ v \in LinkedVars(c)) \/ Keeps(c) \/ Drops(c, v)
      PROVE  LinkedVars(d)' \subseteq LinkedVars(d)
  BY <1>3 DEF Adds, Keeps, Drops, OnlyOf
<1> QED
  BY <1>1, <1>2, <1>3, ListsStep

LEMMA FlatStep ==
  ASSUME MaxNesting = 0, FlatInv, [Next]_vars
  PROVE  Flat' /\ OneChannelPerVariable'
<1> USE DEF FlatInv, IInv, reg, client
<1>0. /\ registry \in [Names -> Commands \cup {NULL}]
      /\ stack \in Seq(Frames)
  BY DEF TypeOK
<1>g. ASSUME ~LinkDone
      PROVE  /\ \A c \in Commands : LinkedVars(c)' \subseteq LinkedVars(c)
             /\ OneChannelPerVariable'
  BY <1>g, ListsGrow DEF OneChannelPerVariable
<1>h. ASSUME NEW c \in Commands, LinkedVars(c) # {}
      PROVE  Registered(c) \/ BeingDestroyed(c)
  BY <1>h DEF Flat
<1>e. ASSUME stack' = <<>>, UNCHANGED registry, ~LinkDone,
             \A c \in Commands : LinkedVars(c)' # {} => ~BeingDestroyed(c)
      PROVE  Flat' /\ OneChannelPerVariable'
  BY <1>e, <1>g, <1>h DEF Flat, Registered
<1>u. ASSUME UNCHANGED <<stack, registry>>
      PROVE  Flat' /\ OneChannelPerVariable'
  <2>1. ~LinkDone
    BY <1>0, <1>u, PopStack DEF LinkDone
  <2> QED
    BY <1>u, <1>g, <2>1 DEF Flat, Registered, BeingDestroyed, Top
<1>r. ASSUME Ready
      PROVE  /\ stack = <<>> /\ ~LinkDone
             /\ \A c \in Commands : ~BeingDestroyed(c)
  BY <1>r, ReadyFlat DEF LinkDone, BeingDestroyed
<1>1. ASSUME NEW cl \in Clients, NEW n \in Names, CreateChannel(cl, n)
      PROVE  Flat' /\ OneChannelPerVariable'
  <2>1. stack = <<>> /\ stack' = <<>> /\ ~LinkDone
    BY <1>1, <1>r DEF CreateChannel
  <2>2. ASSUME NEW c \in Commands, Registered(c) PROVE Registered(c)'
    <3>1. \A m \in Names : registry[m] # NULL => registry'[m] = registry[m]
      BY <1>0, <1>1 DEF CreateChannel
    <3> QED
      BY <2>2, <3>1, NullAssumption DEF Registered
  <2> QED
    BY <1>g, <1>h, <1>1, <1>r, <2>1, <2>2 DEF Flat, CreateChannel
<1>2. ASSUME NEW cl \in Clients, NEW n \in Names, DeleteChannel(cl, n)
      PROVE  Flat' /\ OneChannelPerVariable'
  <2>1. stack = <<>> /\ ~LinkDone /\ \A c \in Commands : ~BeingDestroyed(c)
    BY <1>2, <1>r DEF DeleteChannel
  <2>2. CASE UNCHANGED <<registry, stack>>
    BY <1>u, <2>1, <2>2
  <2>3. CASE /\ registry' = [registry EXCEPT ![n] = NULL]
             /\ Push("destroy", registry[n], NULL)
    <3>1. /\ stack' # <<>> /\ Len(stack') = 1
          /\ Top' = [op |-> "destroy", cmd |-> registry[n], v |-> NULL,
                     done |-> {}, gone |-> FALSE]
      BY <2>1, <2>3, OneFrame
    <3>2. ASSUME NEW c \in Commands, LinkedVars(c)' # {}
          PROVE  Registered(c)' \/ BeingDestroyed(c)'
      <4>1. PICK m \in Names : registry[m] = c
        BY <1>g, <1>h, <2>1, <3>2 DEF Registered
      <4>2. CASE m = n
        BY <3>1, <4>1, <4>2 DEF BeingDestroyed
      <4>3. CASE m # n
        BY <1>0, <2>3, <4>1, <4>3 DEF Registered
      <4> QED
        BY <4>2, <4>3
    <3> QED
      BY <1>g, <2>1, <3>1, <3>2 DEF Flat
  <2> QED
    BY <1>2, <2>2, <2>3 DEF DeleteChannel
<1>3. CASE Destroyed
  <2>1. PICK c \in Commands : Empties(c)
    BY <1>3, ListsStep
  <2>2. stack' = <<>> /\ UNCHANGED registry /\ Top.op = "destroy" /\ Top.cmd = c
    BY <1>3, <2>1, OneFrame DEF Destroyed, Empties
  <2>3. ~LinkDone
    BY <2>2 DEF LinkDone
  <2> QED
    BY <1>e, <2>1, <2>2, <2>3 DEF BeingDestroyed, Empties
<1>4. ASSUME NEW cl \in Clients, NEW n \in Names, NEW v \in Vars, Link(cl, n, v)
      PROVE  Flat' /\ OneChannelPerVariable'
  <2>1. stack = <<>> /\ ~LinkDone /\ \A c \in Commands : ~BeingDestroyed(c)
    BY <1>4, <1>r DEF Link
  <2>2. /\ stack' # <<>> /\ Len(stack') = 1
        /\ Top' = [op |-> "link", cmd |-> registry[n], v |-> v, done |-> {},
                   gone |-> FALSE]
    BY <1>4, <2>1, OneFrame DEF Link
  <2>3. UNCHANGED <<registry, links>>
    BY <1>4 DEF Link
  <2>4. ASSUME NEW c \in Commands PROVE v \notin LinkedVars(c)
    <3>1. SUFFICES ASSUME v \in LinkedVars(c) PROVE FALSE
      OBVIOUS
    <3>2. PICK m \in Names : registry[m] = c
      BY <1>h, <2>1, <3>1 DEF Registered
    <3> QED
      BY <1>4, <3>1, <3>2, NullAssumption DEF Link, LinkedElsewhere
  <2>5. Registered(registry[n])
    BY DEF Registered
  <2> QED
    BY <1>g, <1>h, <2>1, <2>2, <2>3, <2>4, <2>5
    DEF Flat, Registered, LinkedVars
<1>5. CASE LinkDone
  <2>1. PICK c \in Commands, v \in Vars : Adds(c, v) /\ c = Top.cmd /\ v = Top.v
    BY <1>5, ListsStep
  <2>2. /\ stack # <<>> /\ Top.op = "link" /\ stack' = <<>> /\ UNCHANGED registry
    BY <1>5, OneFrame DEF LinkDone
  <2>3. Registered(c) /\ \A d \in Commands : v \notin LinkedVars(d)
    BY <2>1, <2>2 DEF Flat
  <2>4. ASSUME NEW d \in Commands, LinkedVars(d)' # {} PROVE Registered(d)'
    <3>1. CASE d = c
      BY <2>2, <2>3, <3>1 DEF Registered
    <3>2. CASE d # c
      BY <1>h, <2>1, <2>2, <2>4, <3>2 DEF Adds, OnlyOf, BeingDestroyed, Registered
    <3> QED
      BY <3>1, <3>2
  <2>5. OneChannelPerVariable'
    BY <2>1, <2>3 DEF OneChannelPerVariable, Adds, OnlyOf
  <2> QED
    BY <2>2, <2>4, <2>5 DEF Flat
<1>6. ASSUME NEW cl \in Clients, NEW n \in Names, NEW v \in Vars,
             LinkAgain(cl, n, v) \/ Unlink(cl, n, v)
      PROVE  Flat' /\ OneChannelPerVariable'
  <2>1. stack = <<>> /\ ~LinkDone /\ \A c \in Commands : ~BeingDestroyed(c)
    BY <1>6, <1>r DEF LinkAgain, Unlink
  <2>2. stack' = <<>> /\ UNCHANGED registry
    BY <1>6, <2>1 DEF LinkAgain, Unlink
  <2> QED
    BY <1>e, <2>1, <2>2
<1>7. CASE ServeEvent
  <2>1. stack = <<>> /\ ~LinkDone /\ \A c \in Commands : ~BeingDestroyed(c)
    BY <1>7, <1>r DEF ServeEvent
  <2>2. stack' # <<>> /\ Len(stack') = 1 /\ Top'.op = "update"
    BY <1>7, <2>1, OneFrame DEF ServeEvent
  <2>3. UNCHANGED registry
    BY <1>7 DEF ServeEvent
  <2> QED
    BY <1>g, <1>h, <2>1, <2>2, <2>3 DEF Flat, Registered
<1>8. ASSUME \/ \E v \in Vars : UpdateVariable(v)
             \/ NextVariable
      PROVE  Flat' /\ OneChannelPerVariable'
  <2>1. stack # <<>> /\ Top.op = "update" /\ UNCHANGED registry /\ Top = stack[1]
    BY <1>0, <1>8, PopStack DEF UpdateVariable, NextVariable, Top
  <2>2. stack' # <<>> /\ Len(stack') = Len(stack) /\ Top'.op = "update"
    <3>0. stack' \in Seq(Frames)
      BY NextIInv DEF TypeOK
    <3>1. Len(stack') = Len(stack) /\ stack'[1].op = "update"
      <4>0. stack[1].op = "update" /\ stack # <<>>
        BY <2>1
      <4>1. ASSUME NEW v \in Vars, UpdateVariable(v)
            PROVE  Len(stack') = Len(stack) /\ stack'[1].op = "update"
        <5>1. PICK d \in SUBSET Vars : d = {}
          OBVIOUS
        <5>2. stack' = [stack EXCEPT ![1].v = v]
          BY <4>1 DEF UpdateVariable
        <5> QED
          BY <4>0, <5>2, TopStays
      <4>2. CASE NextVariable
        <5>1. PICK w \in Vars \cup {NULL}, d \in SUBSET Vars :
                w = NULL /\ d = {Top.v}
          <6>1. Top \in Frames
            BY <1>0, <4>2, PopStack DEF NextVariable, Top
          <6> QED
            BY <4>2, <6>1 DEF NextVariable, Frames
        <5>2. stack' = [stack EXCEPT ![1].v = w, ![1].done = @ \cup d]
          BY <4>2, <5>1 DEF NextVariable
        <5> QED
          BY <4>0, <5>2, TopStays
      <4> QED
        BY <1>8, <4>1, <4>2
    <3>2. stack' # <<>>
      BY <1>0, <2>1, <3>0, <3>1
    <3>3. Head(stack') = stack'[1]
      BY <3>0, <3>2, PopStack
    <3> QED
      BY <3>1, <3>2, <3>3 DEF Top
  <2>3. ~LinkDone /\ \A c \in Commands : ~BeingDestroyed(c)
    BY <2>1 DEF LinkDone, BeingDestroyed
  <2> QED
    BY <1>g, <1>h, <2>1, <2>2, <2>3 DEF Flat, Registered
<1>9. CASE UpdateDone
  <2>1. Top.op = "update" /\ stack' = <<>> /\ UNCHANGED registry
    BY <1>9, OneFrame DEF UpdateDone
  <2> QED
    BY <1>e, <2>1 DEF LinkDone, BeingDestroyed
<1>10. ASSUME \/ \E v \in Vars, x \in Values : ScriptWrite(v, x)
              \/ DropEvent \/ UseDestroyed
              \/ \E c \in Commands, x \in Values : ChannelUpdate(c, x)
              \/ UNCHANGED vars
       PROVE  UNCHANGED <<stack, registry>>
  BY <1>10 DEF ScriptWrite, DropEvent, UseDestroyed, ChannelUpdate, vars
<1> QED
  BY <1>u, <1>1, <1>2, <1>3, <1>4, <1>5, <1>6, <1>7, <1>8, <1>9, <1>10
  DEF Next, Script, Serve, Continue

(* Without nesting, no two commands have the same variable, destroyed ones    *)
(* included (Link, isLinked).                                                 *)
THEOREM OneChannelCorrect == MaxNesting = 0 => (Spec => []OneChannelPerVariable)
<1> SUFFICES ASSUME MaxNesting = 0 PROVE Spec => []OneChannelPerVariable
  OBVIOUS
<1>1. Init => FlatInv
  <2>1. Init => IInv
    BY InitIInv
  <2>2. Init => \A c \in Commands : LinkedVars(c) = {}
    BY DEF Init, LinkedVars
  <2> QED
    BY <2>1, <2>2 DEF FlatInv, Init, Flat, OneChannelPerVariable
<1>2. FlatInv /\ [Next]_vars => FlatInv'
  BY NextIInv, FlatStep DEF FlatInv
<1>3. FlatInv => OneChannelPerVariable
  BY DEF FlatInv
<1> QED
  BY <1>1, <1>2, <1>3, PTL DEF Spec

=============================================================================
