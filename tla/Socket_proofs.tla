---------------------------- MODULE Socket_proofs ----------------------------
(* Proofs about the sockets of module Socket, for any number of them and any  *)
(* set of descriptors: what they own, what their states say, and what a Write *)
(* tells its caller; and about the conversions of timeouts and ports.         *)
EXTENDS Socket, WellFoundedInduction, TLAPS

Fd    == Descriptors \cup {NoFd}
File  == [kind : Kinds, waiting : 0..MaxWaiting, timed : BOOLEAN, room : BOOLEAN]
Files == [Descriptors -> File]

-----------------------------------------------------------------------------
(* What the system calls return.                                              *)

LEMMA ClosedIsFile == Closed \in File /\ Fresh \in File
BY MaxWaitingAssumption, SMT DEF Closed, Fresh, File, Kinds

LEMMA NoFdIsNone == NoFd \notin Descriptors
BY DescriptorsAssumption, SMT DEF NoFd

(* Sets of descriptors have a lowest one.                                     *)
LEMMA LowestIn ==
  ASSUME NEW D \in SUBSET Descriptors, D # {}
  PROVE  Lowest(D) \in D
<1>1. IsWellFoundedOn(OpToRel(<, Nat), Nat)
  BY NatLessThanWellFounded
<1>2. D \subseteq Nat
  BY DescriptorsAssumption
<1>3. PICK d \in D : \A e \in D : <<e, d>> \notin OpToRel(<, Nat)
  BY <1>1, <1>2, WFMin
<1>4. ASSUME NEW e \in D, e < d PROVE FALSE
  <2>1. <<e, d>> \in {ss \in Nat \X Nat : ss[1] < ss[2]}
    BY <1>2, <1>4, SMT
  <2> QED
    BY <1>3, <2>1, Zenon DEF OpToRel
<1>5. \A e \in D : d <= e
  BY <1>2, <1>4, SMT
<1> QED
  BY <1>5, Zenon DEF Lowest

LEMMA CloseInIs ==
  ASSUME NEW f \in Files, NEW d \in Fd
  PROVE  /\ CloseIn(f, d) \in Files
         /\ d \in Descriptors => CloseIn(f, d)[d] = Closed
         /\ \A e \in Descriptors : e # d => CloseIn(f, d)[e] = f[e]
BY ClosedIsFile, Zenon DEF CloseIn, Files

LEMMA OpenedIs ==
  ASSUME NEW f \in Files, NEW r \in Opened(f)
  PROVE  \/ r.file = f /\ r.fd = NoFd
         \/ /\ r.fd \in Descriptors /\ f[r.fd].kind = "closed"
            /\ r.file = [f EXCEPT ![r.fd] = Fresh]
<1>1. CASE r = [file |-> f, fd |-> NoFd]
  BY <1>1
<1>2. ASSUME NEW e \in Free(f),
             r = [file |-> [f EXCEPT ![Lowest(Free(f))] = Fresh],
                  fd |-> Lowest(Free(f))]
      PROVE  /\ r.fd \in Descriptors /\ f[r.fd].kind = "closed"
             /\ r.file = [f EXCEPT ![r.fd] = Fresh]
  <2>1. Lowest(Free(f)) \in Free(f)
    BY LowestIn DEF Free
  <2> QED
    BY <1>2, <2>1 DEF Free
<1> QED
  BY <1>1, <1>2 DEF Opened

LEMMA OpenSocketIs ==
  ASSUME NEW f \in Files, NEW fd \in Fd, NEW r \in OpenSocket(f, fd)
  PROVE  \/ r.file = f /\ r.threw /\ r.fd \in {fd, NoFd}
         \/ /\ r.fd \in Descriptors /\ f[r.fd].kind = "closed" /\ ~r.threw
            /\ r.file = [f EXCEPT ![r.fd] = Fresh]
<1>1. CASE r = [file |-> f, fd |-> fd, threw |-> TRUE]
  BY <1>1
<1>2. ASSUME NEW q \in Opened(f),
             r = [file |-> q.file, fd |-> q.fd, threw |-> q.fd = NoFd]
      PROVE  \/ r.file = f /\ r.threw /\ r.fd = NoFd
             \/ /\ r.fd \in Descriptors /\ f[r.fd].kind = "closed" /\ ~r.threw
                /\ r.file = [f EXCEPT ![r.fd] = Fresh]
  <2>1. r.file = q.file /\ r.fd = q.fd /\ (r.threw <=> q.fd = NoFd)
    BY <1>2
  <2> QED
    BY <2>1, OpenedIs, NoFdIsNone
<1> QED
  BY <1>1, <1>2 DEF OpenSocket

LEMMA OpenSocketTypes ==
  ASSUME NEW f \in Files, NEW fd \in Fd, NEW r \in OpenSocket(f, fd)
  PROVE  r.file \in Files /\ r.fd \in Fd
<1>1. \A d \in Descriptors : [f EXCEPT ![d] = Fresh] \in Files
  BY ClosedIsFile, Zenon DEF Files
<1>2. CASE r.file = f /\ r.fd \in {fd, NoFd}
  BY <1>2 DEF Fd
<1>3. CASE /\ r.fd \in Descriptors
           /\ r.file = [f EXCEPT ![r.fd] = Fresh]
  BY <1>1, <1>3 DEF Fd
<1> QED
  BY <1>2, <1>3, OpenSocketIs, Zenon

-----------------------------------------------------------------------------
(* Types, and the counts of bytes.                                            *)

(* While a Write lasts, what has been counted and what is left make up what   *)
(* it was asked to write, and all that has been counted has been taken.       *)
Honest ==
  /\ told.bytes = told.taken
  /\ call # NULL /\ call.op = "Write" =>
       /\ call.nWritten = call.taken
       /\ call.nWritten + call.resid <= MaxBytes

Objects ==
  /\ file \in Files /\ m_Fd \in [Sockets -> Fd]
  /\ m_State \in [Sockets -> States \cup {"gone"}] /\ failed \subseteq Sockets
  /\ stray \in BOOLEAN

Progress ==
  /\ call \in Calls \cup {NULL}
  /\ told \in [bytes : 0..MaxBytes, taken : 0..MaxBytes]
  /\ running \in BOOLEAN

CallersLive == call # NULL => m_State[call.sock] # "gone"

LEMMA Types == TypeOK <=> Objects /\ Progress /\ CallersLive
BY Zenon DEF TypeOK, Objects, Progress, CallersLive, Files, File, Fd

LEMMA CallsAre ==
  ASSUME NEW c \in Calls
  PROVE  /\ c.sock \in Sockets /\ c.op \in {"Read", "Write", "Flush"}
         /\ c.op = "Write" => c \in [op : {"Write"}, sock : Sockets,
              resid : 1..MaxBytes, nWritten : 0..MaxBytes, taken : 0..MaxBytes]
         /\ c.op = "Flush" => c.fd \in Fd
BY SMT DEF Calls, Fd

LEMMA NewFiles ==
  ASSUME NEW f \in Files, NEW d \in Descriptors
  PROVE  /\ \A k \in Kinds : [f EXCEPT ![d].kind = k] \in Files
         /\ \A b \in BOOLEAN : [f EXCEPT ![d].timed = b] \in Files
         /\ \A b \in BOOLEAN : [f EXCEPT ![d].room = b] \in Files
         /\ \A n \in 0..MaxWaiting : [f EXCEPT ![d].waiting = n] \in Files
BY SMT DEF Files, File

LEMMA OpenKind ==
  ASSUME Objects, NEW d \in Fd, Kind(d) # "closed"
  PROVE  d \in Descriptors /\ Kind(d) = file[d].kind
BY NoFdIsNone DEF Kind, Fd

(* The methods that open, connect and close.                                  *)
LEMMA ConstructTypes ==
  ASSUME Objects, NEW s \in Sockets, Construct(s) PROVE Objects'
<1>1. PICK r \in OpenSocket(file, NoFd) :
        file' = r.file /\ m_Fd' = [m_Fd EXCEPT ![s] = r.fd]
  BY DEF Construct
<1>2. r.file \in Files /\ r.fd \in Fd
  BY OpenSocketTypes, Zenon DEF Objects, Fd
<1> QED
  BY <1>1, <1>2 DEF Construct, Objects, Quiet, States

LEMMA ShutdownResultsTypes ==
  ASSUME Objects, NEW s \in Sockets, NEW r \in ShutdownResults(s)
  PROVE  r.file \in Files /\ r.fd \in Fd
<1>1. m_Fd[s] \in Fd /\ NoFd \in Fd
  BY DEF Objects, Fd
<1>2. CloseIn(file, m_Fd[s]) \in Files
  BY <1>1, CloseInIs DEF Objects
<1> QED
  BY <1>1, <1>2, OpenSocketTypes, Zenon DEF ShutdownResults

LEMMA ShutdownTypes ==
  ASSUME Objects, NEW s \in Sockets, Shutdown(s) PROVE Objects'
<1>1. PICK r \in ShutdownResults(s) :
        file' = r.file /\ m_Fd' = [m_Fd EXCEPT ![s] = r.fd]
  BY DEF Shutdown
<1>2. r.file \in Files /\ r.fd \in Fd
  BY ShutdownResultsTypes
<1> QED
  BY <1>1, <1>2 DEF Shutdown, Objects, Quiet, States

LEMMA DestroyedTypes ==
  ASSUME Objects, NEW s \in Sockets, NEW f \in Files, NEW fd \in Fd,
         Destroyed(s, f, fd), UNCHANGED stray
  PROVE  Objects'
<1>1. CloseIn(f, IF fd > 0 THEN fd ELSE NoFd) \in Files
  BY CloseInIs DEF Fd
<1> QED
  BY <1>1 DEF Destroyed, Objects, Fd

LEMMA DestructTypes ==
  ASSUME Objects, NEW s \in Sockets, Destruct(s)
  PROVE  Objects'
<1>s. UNCHANGED stray
  BY DEF Destruct
<1>1. CASE Destroyed(s, file, m_Fd[s])
  BY <1>1, <1>s, DestroyedTypes DEF Objects
<1>2. ASSUME NEW r \in ShutdownResults(s), Destroyed(s, r.file, r.fd)
      PROVE  Objects'
  BY <1>2, <1>s, ShutdownResultsTypes, DestroyedTypes
<1>3. CASE Terminated
  BY <1>3, <1>s DEF Terminated, Objects
<1> QED
  BY <1>1, <1>2, <1>3, Zenon DEF Destruct

LEMMA SetUpTypes ==
  ASSUME Objects, NEW s \in Sockets, Connect(s) \/ Bind(s) \/ Listen(s)
  PROVE  Objects'
<1>1. m_Fd[s] \in Descriptors
  BY OpenKind DEF Objects, Connect, Bind, Listen
<1>2. PICK k \in Kinds : file' = [file EXCEPT ![m_Fd[s]].kind = k]
  BY DEF Connect, Bind, Listen, Kinds
<1>3. file' \in Files
  BY <1>1, <1>2, NewFiles DEF Objects
<1> QED
  BY <1>3 DEF Objects, Connect, Bind, Listen, Quiet, States

LEMMA AcceptTypes ==
  ASSUME Objects, NEW s \in Sockets, NEW t \in Sockets, Accept(s, t)
  PROVE  Objects'
<1>1. PICK r \in Opened(file) :
        /\ r.fd # NoFd
        /\ file' = [r.file EXCEPT ![r.fd].kind = "linked"]
        /\ m_Fd' = [m_Fd EXCEPT ![t] = r.fd]
  BY DEF Accept
<1>2. r.fd \in Descriptors /\ r.file = [file EXCEPT ![r.fd] = Fresh]
  BY <1>1, OpenedIs DEF Objects
<1>3. r.file \in Files
  BY <1>2, ClosedIsFile, Zenon DEF Objects, Files
<1>4. "linked" \in Kinds
  BY DEF Kinds
<1>5. file' \in Files
  BY <1>1, <1>2, <1>3, <1>4, NewFiles
<1> QED
  BY <1>1, <1>2, <1>5 DEF Accept, Objects, Quiet, States, Fd

LEMMA SetRcvTimeoutTypes ==
  ASSUME Objects, NEW s \in Sockets, SetRcvTimeout(s) PROVE Objects'
<1>1. m_Fd[s] \in Descriptors
  BY OpenKind DEF Objects, SetRcvTimeout
<1>2. PICK b \in BOOLEAN : file' = [file EXCEPT ![m_Fd[s]].timed = b]
  BY DEF SetRcvTimeout
<1>3. file' \in Files
  BY <1>1, <1>2, NewFiles DEF Objects
<1> QED
  BY <1>3 DEF Objects, SetRcvTimeout, Quiet

-----------------------------------------------------------------------------
(* The parts of a read and a write.                                           *)

LEMMA LostTypes ==
  ASSUME Objects, NEW s \in Sockets, Lost(s) PROVE Objects'
<1>1. PICK r \in OpenSocket(CloseIn(file, m_Fd[s]), m_Fd[s]) :
        /\ file' = r.file
        /\ m_Fd' = [m_Fd EXCEPT ![s] = r.fd]
        /\ stray' = (stray \/ (r.threw /\ r.fd # NoFd))
  BY DEF Lost
<1>2. m_Fd[s] \in Fd /\ CloseIn(file, m_Fd[s]) \in Files
  BY CloseInIs DEF Objects
<1>3. r.file \in Files /\ r.fd \in Fd
  BY <1>2, OpenSocketTypes, Zenon
<1> QED
  BY <1>1, <1>3 DEF Lost, Objects, States

LEMMA FailedTypes ==
  ASSUME Objects, NEW s \in Sockets, Failed(s) PROVE Objects'
BY DEF Failed, Objects, States

LEMMA TakenTypes ==
  ASSUME Objects, NEW s \in Sockets, NEW n \in Nat,
         0 < n, n <= Waiting(s), Taken(s, n)
  PROVE  Objects'
<1>1. m_Fd[s] \in Descriptors /\ n <= file[m_Fd[s]].waiting
  BY OpenKind, SMT DEF Objects, Waiting
<1>2. file[m_Fd[s]].waiting \in 0..MaxWaiting
  BY <1>1 DEF Objects, Files, File
<1>3. file[m_Fd[s]].waiting - n \in 0..MaxWaiting
  BY <1>1, <1>2, MaxWaitingAssumption, SMT
<1>4. file' = [file EXCEPT ![m_Fd[s]].waiting = file[m_Fd[s]].waiting - n]
  BY DEF Taken
<1>5. file' \in Files
  BY <1>1, <1>3, <1>4, NewFiles DEF Objects
<1> QED
  BY <1>5 DEF Taken, Objects

LEMMA ReadOnceTypes ==
  ASSUME Objects, NEW s \in Sockets, NEW size \in Nat, ReadOnce(s, size)
  PROVE  Objects'
<1>1. CASE \E n \in 1..size : n <= Waiting(s) /\ Taken(s, n)
  BY <1>1, TakenTypes
<1> QED
  BY <1>1, LostTypes, FailedTypes DEF ReadOnce

-----------------------------------------------------------------------------
(* The calls.                                                                 *)

CallInv == Progress /\ CallersLive /\ Honest

(* What CallInv says is about these, and whether an object has gone.          *)
LEMMA SameCall ==
  ASSUME CallInv, UNCHANGED <<call, told>>, running' \in BOOLEAN,
         call = NULL \/ UNCHANGED m_State
  PROVE  CallInv'
BY DEF CallInv, Progress, CallersLive, Honest

LEMMA CallReturns ==
  ASSUME CallInv, call' = NULL, UNCHANGED <<told, running>>
  PROVE  CallInv'
BY DEF CallInv, Progress, CallersLive, Honest

LEMMA Starts ==
  ASSUME Objects, CallInv, NEW s \in Sockets, Read(s) \/ Write(s) \/ Flush(s)
  PROVE  Objects' /\ CallInv'
<1>1. Objects'
  BY DEF Objects, Read, Write, Flush
<1>2. CASE Read(s)
  <2>1. call' = [op |-> "Read", sock |-> s]
    BY <1>2 DEF Read
  <2>2. call' \in Calls /\ call'.op = "Read" /\ call'.sock = s
    BY <2>1, SMT DEF Calls
  <2> QED
    BY <1>1, <1>2, <2>2 DEF Read, Alive, CallInv, Progress, CallersLive, Honest
<1>3. CASE Flush(s)
  <2>1. call' = [op |-> "Flush", sock |-> s, fd |-> m_Fd[s]] /\ m_Fd[s] \in Fd
    BY <1>3 DEF Flush, Objects
  <2>2. call' \in Calls /\ call'.op = "Flush" /\ call'.sock = s
    BY <2>1, SMT DEF Calls, Fd
  <2> QED
    BY <1>1, <1>3, <2>2 DEF Flush, Alive, CallInv, Progress, CallersLive,
      Honest
<1>4. CASE Write(s)
  <2>1. PICK nBytes \in 1..MaxBytes :
          call' = [op |-> "Write", sock |-> s, resid |-> nBytes,
                   nWritten |-> 0, taken |-> 0]
    BY <1>4 DEF Write
  <2>2. /\ call' \in Calls /\ call'.sock = s
        /\ call'.nWritten = 0 /\ call'.taken = 0 /\ call'.resid = nBytes
    BY <2>1, MaxBytesAssumption, SMT DEF Calls
  <2>3. call'.nWritten + call'.resid <= MaxBytes
    BY <2>2, MaxBytesAssumption, SMT
  <2> QED
    BY <1>1, <1>4, <2>2, <2>3 DEF Write, Alive, CallInv, Progress, CallersLive,
      Honest
<1> QED
  BY <1>2, <1>3, <1>4

LEMMA ReadSteps ==
  ASSUME Objects, CallInv, ReadStep \/ Interrupt
  PROVE  Objects' /\ CallInv'
<1>1. call.sock \in Sockets
  BY CallsAre DEF CallInv, Progress, ReadStep, Interrupt
<1>2. Objects'
  BY <1>1, ReadOnceTypes, FailedTypes, MaxWaitingAssumption
  DEF ReadStep, Interrupt, TimesOut
<1>3. CallInv'
  BY CallReturns DEF ReadStep, Interrupt, TimesOut
<1> QED
  BY <1>2, <1>3

(* What write(2) takes changes nothing but the room that is left.             *)
LEMMA WriteTakesFiles ==
  ASSUME Objects, call.sock \in Sockets, WriteTakes
  PROVE  /\ file' \in Files
         /\ \A d \in Descriptors : file'[d].kind = file[d].kind
<1>1. m_Fd[call.sock] \in Descriptors
  BY OpenKind DEF Objects, WriteTakes
<1>2. PICK room \in BOOLEAN :
        file' = [file EXCEPT ![m_Fd[call.sock]].room = room]
  BY DEF WriteTakes
<1>3. file' \in Files
  BY <1>1, <1>2, NewFiles DEF Objects
<1>4. \A d \in Descriptors : file'[d].kind = file[d].kind
  BY <1>1, <1>2 DEF Objects, Files, File
<1> QED
  BY <1>3, <1>4

LEMMA WriteSteps ==
  ASSUME Objects, CallInv, WriteStep \/ InterruptWrite
  PROVE  Objects' /\ CallInv'
<1>1. /\ call \in [op : {"Write"}, sock : Sockets, resid : 1..MaxBytes,
                   nWritten : 0..MaxBytes, taken : 0..MaxBytes]
      /\ call # NULL /\ call.op = "Write"
      /\ running' = running
  BY CallsAre DEF CallInv, Progress, WriteStep, InterruptWrite
<1>2. /\ call.sock \in Sockets /\ call.resid \in 1..MaxBytes
      /\ call.nWritten \in 0..MaxBytes /\ call.taken = call.nWritten
      /\ call.nWritten + call.resid <= MaxBytes
  BY <1>1 DEF CallInv, Honest
<1>3. CASE WriteFails
  <2>1. Objects'
    BY <1>2, <1>3, LostTypes, FailedTypes DEF WriteFails, Objects
  <2>2. call' = NULL /\ told' = [bytes |-> call.taken, taken |-> call.taken]
    BY <1>2, <1>3 DEF WriteFails, Returns
  <2> QED
    BY <1>1, <1>2, <2>1, <2>2, SMT DEF CallInv, Progress, CallersLive, Honest
<1>4. CASE WriteTakes
  <2>1. Objects' /\ UNCHANGED m_State
    BY <1>2, <1>4, WriteTakesFiles, Zenon DEF WriteTakes, Objects
  <2>2. PICK n \in 1..call.resid :
          IF n = call.resid
            THEN call' = NULL
                 /\ told' = [bytes |-> call.nWritten + n,
                             taken |-> call.taken + n]
            ELSE call' = [call EXCEPT !.resid = @ - n, !.nWritten = @ + n,
                                      !.taken = @ + n]
                 /\ UNCHANGED told
    BY <1>4 DEF WriteTakes
  <2>3. /\ call.nWritten + n \in 0..MaxBytes
        /\ n # call.resid => call.resid - n \in 1..MaxBytes
        /\ call.nWritten + n + (call.resid - n) <= MaxBytes
    BY <1>2, MaxBytesAssumption, SMT
  <2>4. CASE n = call.resid
    <3>1. call' = NULL /\ told' = [bytes |-> call.nWritten + n,
                                   taken |-> call.nWritten + n]
      BY <1>2, <2>2, <2>4
    <3> QED
      BY <1>1, <2>1, <2>3, <3>1, SMT DEF CallInv, Progress, CallersLive, Honest
  <2>5. CASE n # call.resid
    <3>1. call' = [call EXCEPT !.resid = call.resid - n,
                               !.nWritten = call.nWritten + n,
                               !.taken = call.nWritten + n]
          /\ UNCHANGED told
      BY <1>2, <2>2, <2>5
    <3>a. call.resid - n \in 1..MaxBytes /\ call.nWritten + n \in 0..MaxBytes
      BY <2>3, <2>5
    <3>2. /\ call' \in [op : {"Write"}, sock : Sockets, resid : 1..MaxBytes,
                        nWritten : 0..MaxBytes, taken : 0..MaxBytes]
          /\ call'.sock = call.sock /\ call'.nWritten = call.nWritten + n
          /\ call'.taken = call.nWritten + n
          /\ call'.resid = call.resid - n
      BY <1>1, <3>a, <3>1, Zenon
    <3>3. call' \in Calls /\ call'.nWritten + call'.resid <= MaxBytes
      BY <2>3, <3>2 DEF Calls
    <3> QED
      BY <1>1, <2>1, <3>1, <3>2, <3>3 DEF CallInv, Progress, CallersLive, Honest
  <2> QED
    BY <2>4, <2>5
<1> QED
  BY <1>3, <1>4 DEF WriteStep, InterruptWrite

LEMMA FlushSteps ==
  ASSUME Objects, CallInv, FlushStep
  PROVE  Objects' /\ CallInv'
<1>1. call.sock \in Sockets /\ call # NULL /\ call.op = "Flush"
  BY CallsAre DEF CallInv, Progress, FlushStep
<1>2. CASE FlushReads
  <2>1. Objects'
    BY <1>1, <1>2, ReadOnceTypes DEF FlushReads
  <2>2. /\ call' = NULL \/ (call' = call /\ m_State'[call.sock] = "Connected")
        /\ UNCHANGED <<told, running>>
    BY <1>2 DEF FlushReads, FlushStep
  <2> QED
    BY <1>1, <2>1, <2>2, CallReturns DEF CallInv, Progress, CallersLive, Honest
<1>3. CASE FlushEnds
  BY <1>3, CallReturns DEF FlushEnds, FlushStep, Objects
<1> QED
  BY <1>2, <1>3 DEF FlushStep

LEMMA PeerTypes ==
  ASSUME Objects, NEW d \in Descriptors,
         PeerSends(d) \/ PeerReads(d) \/ PeerGoes(d)
  PROVE  Objects'
<1>1. CASE PeerSends(d)
  <2>1. file[d].waiting + 1 \in 0..MaxWaiting
    BY <1>1, MaxWaitingAssumption, SMT DEF PeerSends, Objects, Files, File
  <2>2. file' = [file EXCEPT ![d].waiting = file[d].waiting + 1]
    BY <1>1 DEF PeerSends
  <2>3. file' \in Files
    BY <2>1, <2>2, NewFiles DEF Objects
  <2> QED
    BY <1>1, <2>3 DEF PeerSends, Objects
<1>2. CASE PeerGoes(d)
  <2>1. CASE file' = [file EXCEPT ![d].kind = "finished"]
    <3>1. file' \in Files
      BY <2>1, NewFiles DEF Objects, Kinds
    <3> QED
      BY <1>2, <3>1 DEF PeerGoes, Objects
  <2>2. CASE file' = [file EXCEPT ![d].kind = "reset", ![d].room = TRUE]
    <3> DEFINE f == [file EXCEPT ![d].kind = "reset"]
    <3>1. f \in Files
      BY NewFiles DEF Objects, Kinds
    <3>2. [f EXCEPT ![d].room = TRUE] \in Files
      <4> HIDE DEF f
      <4> QED
        BY <3>1, NewFiles
    <3>3. file' = [f EXCEPT ![d].room = TRUE]
      BY <2>2 DEF Objects, Files, File
    <3>4. file' \in Files
      BY <3>2, <3>3, Zenon
    <3> QED
      BY <1>2, <3>4 DEF PeerGoes, Objects
  <2> QED
    BY <1>2, <2>1, <2>2 DEF PeerGoes
<1>3. CASE PeerReads(d)
  <2>1. file' \in Files
    BY <1>3, NewFiles DEF Objects, PeerReads
  <2> QED
    BY <1>3, <2>1 DEF PeerReads, Objects
<1> QED
  BY <1>1, <1>2, <1>3

LEMMA InitTypes == Init => Objects /\ CallInv
<1> SUFFICES ASSUME Init PROVE Objects /\ CallInv
  OBVIOUS
<1>1. Objects
  BY ClosedIsFile, Zenon DEF Init, Objects, Files, Fd
<1>2. CallInv
  BY MaxBytesAssumption, SMT DEF Init, CallInv, Progress, CallersLive, Honest
<1> QED
  BY <1>1, <1>2

LEMMA NextTypes ==
  ASSUME Objects, CallInv, [Next]_vars
  PROVE  Objects' /\ CallInv'
<1>1. ASSUME NEW s \in Sockets,
             \/ Construct(s) \/ Shutdown(s) \/ Connect(s) \/ Bind(s)
             \/ Listen(s) \/ SetRcvTimeout(s) \/ Destruct(s)
             \/ \E t \in Sockets : Accept(s, t)
      PROVE  Objects' /\ CallInv'
  <2>1. Objects'
    BY <1>1, ConstructTypes, ShutdownTypes, SetUpTypes, SetRcvTimeoutTypes,
      AcceptTypes, DestructTypes
  <2>2. call = NULL /\ UNCHANGED <<call, told>>
    BY <1>1, Zenon DEF Construct, Shutdown, Connect, Bind, Listen,
      SetRcvTimeout, Destruct, Accept, Quiet
  <2>3. UNCHANGED running \/ running' = FALSE
    BY <1>1, Zenon DEF Construct, Shutdown, Connect, Bind, Listen,
      SetRcvTimeout, Destruct, Destroyed, Terminated, Accept, Quiet
  <2>4. running' \in BOOLEAN
    BY <2>3, Zenon DEF CallInv, Progress
  <2> QED
    BY <2>1, <2>2, <2>4, SameCall
<1>2. ASSUME NEW s \in Sockets, Read(s) \/ Write(s) \/ Flush(s)
      PROVE  Objects' /\ CallInv'
  BY <1>2, Starts
<1>3. ASSUME NEW d \in Descriptors,
             PeerSends(d) \/ PeerReads(d) \/ PeerGoes(d)
      PROVE  Objects' /\ CallInv'
  <2>1. UNCHANGED <<call, told, running, m_State>>
    BY <1>3 DEF PeerSends, PeerReads, PeerGoes
  <2>2. running' \in BOOLEAN
    BY <2>1, Zenon DEF CallInv, Progress
  <2> QED
    BY <1>3, <2>1, <2>2, PeerTypes, SameCall
<1>4. CASE UNCHANGED vars
  <2>1. UNCHANGED <<call, told, running, m_State>> /\ running' \in BOOLEAN
    BY <1>4, Zenon DEF vars, CallInv, Progress
  <2> QED
    BY <1>4, <2>1, SameCall DEF vars, Objects
<1> QED
  BY <1>1, <1>2, <1>3, <1>4, ReadSteps, WriteSteps, FlushSteps, Zenon DEF Next

-----------------------------------------------------------------------------
(* Who owns which descriptor, and what the states of the objects say, of the  *)
(* files f, the objects' numbers m and states st, and those that failed, fl.  *)

Owned(f, m) ==
  /\ \A d \in Descriptors \ {0} :
       f[d].kind # "closed" => \E s \in Sockets : m[s] = d
  /\ \A s \in Sockets : m[s] # NoFd => f[m[s]].kind # "closed"
  /\ \A s, t \in Sockets : m[s] = m[t] /\ m[s] # NoFd => s = t

Agrees(f, m, st, fl, s) ==
  /\ st[s] = "Bound" => m[s] # NoFd /\ f[m[s]].kind = "bound"
  /\ st[s] = "Listening" => m[s] # NoFd /\ f[m[s]].kind = "listening"
  /\ st[s] = "Connected" =>
       m[s] # NoFd /\ f[m[s]].kind \in {"linked", "finished", "reset"}
  /\ st[s] = "Disconnected" =>
       m[s] = NoFd \/ f[m[s]].kind = "fresh" \/ s \in fl
  /\ st[s] = "gone" => m[s] = NoFd

Good(f, m, st, fl) ==
  Owned(f, m) /\ \A s \in Sockets : Agrees(f, m, st, fl, s)

(* What an object does to itself: the others neither have nor get one of the  *)
(* descriptors it has had and has then.  All that is left is to look at it.   *)
LEMMA Change ==
  ASSUME NEW f, NEW m \in [Sockets -> Fd], NEW st, NEW fl,
         Good(f, m, st, fl),
         NEW f2, NEW m2 \in [Sockets -> Fd], NEW st2, NEW fl2,
         NEW s \in Sockets,
         \A t \in Sockets : t # s =>
           m2[t] = m[t] /\ st2[t] = st[t] /\ (t \in fl2 <=> t \in fl),
         \A d \in Descriptors : d # m[s] /\ d # m2[s] => f2[d] = f[d],
         m2[s] # m[s] /\ m2[s] # NoFd => f[m2[s]].kind = "closed",
         m2[s] # m[s] /\ m[s] \in Descriptors \ {0} =>
           f2[m[s]].kind = "closed",
         m2[s] # NoFd => f2[m2[s]].kind # "closed",
         Agrees(f2, m2, st2, fl2, s)
  PROVE  Good(f2, m2, st2, fl2)
<1>1. ASSUME NEW t \in Sockets, t # s, m[t] # NoFd
      PROVE  m[t] \in Descriptors /\ m[t] # m[s] /\ m[t] # m2[s]
  <2>1. m[t] \in Descriptors /\ m[t] # m[s] /\ f[m[t]].kind # "closed"
    BY <1>1 DEF Good, Owned, Fd
  <2> QED
    BY <1>1, <2>1
<1>2. \A t \in Sockets : t # s /\ m[t] # NoFd => f2[m[t]] = f[m[t]]
  BY <1>1
<1>3. \A d \in Descriptors \ {0} :
        f2[d].kind # "closed" => \E t \in Sockets : m2[t] = d
  <2> SUFFICES ASSUME NEW d \in Descriptors \ {0}, f2[d].kind # "closed",
                      d # m2[s]
               PROVE  \E t \in Sockets : m2[t] = d
    OBVIOUS
  <2>1. d # m[s]
    OBVIOUS
  <2>2. f[d].kind # "closed"
    BY <2>1
  <2>3. PICK t \in Sockets : m[t] = d
    BY <2>2 DEF Good, Owned
  <2> QED
    BY <2>1, <2>3
<1>4. \A t \in Sockets : m2[t] # NoFd => f2[m2[t]].kind # "closed"
  BY <1>2 DEF Good, Owned
<1>5. \A t, u \in Sockets : m2[t] = m2[u] /\ m2[t] # NoFd => t = u
  BY <1>1 DEF Good, Owned
<1>6. ASSUME NEW t \in Sockets, t # s PROVE Agrees(f2, m2, st2, fl2, t)
  <2>1. m2[t] = m[t] /\ st2[t] = st[t] /\ (t \in fl2 <=> t \in fl)
    BY <1>6
  <2>2. m[t] = NoFd \/ f2[m[t]] = f[m[t]]
    BY <1>2, <1>6
  <2>3. Agrees(f, m, st, fl, t)
    BY DEF Good
  <2> QED
    BY <2>1, <2>2, <2>3 DEF Agrees
<1> QED
  BY <1>3, <1>4, <1>5, <1>6 DEF Good, Owned

(* Peers change what is connected, and leave it connected.                    *)
LEMMA PeerChange ==
  ASSUME NEW f, NEW m \in [Sockets -> Fd], NEW st, NEW fl,
         Good(f, m, st, fl), NEW f2,
         \A d \in Descriptors :
           \/ f2[d].kind = f[d].kind
           \/ {f[d].kind, f2[d].kind} \subseteq {"linked", "finished", "reset"}
  PROVE  Good(f2, m, st, fl)
<1>1. \A d \in Descriptors : f2[d].kind = "closed" <=> f[d].kind = "closed"
  OBVIOUS
<1>2. Owned(f2, m)
  BY <1>1 DEF Good, Owned, Fd
<1>3. ASSUME NEW s \in Sockets PROVE Agrees(f2, m, st, fl, s)
  <2>1. Agrees(f, m, st, fl, s) /\ (m[s] # NoFd => m[s] \in Descriptors)
    BY DEF Good, Fd
  <2> QED
    BY <2>1 DEF Agrees
<1> QED
  BY <1>2, <1>3 DEF Good

(* Closing a descriptor d, then opening one: it is new, or d's number again.  *)
LEMMA Reopen ==
  ASSUME NEW f \in Files, NEW d \in Fd, NEW fd \in {d, NoFd},
         NEW r \in OpenSocket(CloseIn(f, d), fd),
         ~(r.threw /\ r.fd # NoFd)
  PROVE  /\ r.file \in Files /\ r.fd \in Fd
         /\ \A e \in Descriptors : e # d /\ e # r.fd => r.file[e] = f[e]
         /\ r.fd # d /\ r.fd # NoFd => f[r.fd].kind = "closed"
         /\ r.fd # d /\ d \in Descriptors => r.file[d].kind = "closed"
         /\ r.fd # NoFd => r.file[r.fd].kind = "fresh"
<1> DEFINE g == CloseIn(f, d)
<1>1. /\ g \in Files /\ (d \in Descriptors => g[d] = Closed)
      /\ \A e \in Descriptors : e # d => g[e] = f[e]
  BY CloseInIs
<1>2. fd \in Fd
  BY DEF Fd
<1>3. Closed.kind = "closed" /\ Fresh.kind = "fresh"
  BY DEF Closed, Fresh
<1> HIDE DEF g
<1>4. r \in OpenSocket(g, fd)
  BY DEF g
<1>5. r.file \in Files /\ r.fd \in Fd
  BY <1>1, <1>2, <1>4, OpenSocketTypes, Zenon
<1>6. CASE r.file = g /\ r.fd = NoFd
  BY <1>1, <1>3, <1>5, <1>6, NoFdIsNone
<1>7. CASE /\ r.fd \in Descriptors /\ g[r.fd].kind = "closed"
           /\ r.file = [g EXCEPT ![r.fd] = Fresh]
  <2>1. /\ r.file[r.fd] = Fresh
        /\ \A e \in Descriptors : e # r.fd => r.file[e] = g[e]
    BY <1>1, <1>7, Zenon DEF Files
  <2> QED
    BY <1>1, <1>3, <1>5, <1>7, <2>1, NoFdIsNone
<1> QED
  BY <1>1, <1>2, <1>4, <1>6, <1>7, OpenSocketIs

-----------------------------------------------------------------------------
(* The objects as they are, and what each method makes of them.               *)

GoodNow == Good(file, m_Fd, m_State, failed)

LEMMA Fates ==
  ASSUME Objects, GoodNow, NEW s \in Sockets
  PROVE  /\ m_Fd[s] \in Fd /\ m_State[s] \in States \cup {"gone"}
         /\ m_Fd[s] # NoFd =>
              m_Fd[s] \in Descriptors /\ file[m_Fd[s]].kind # "closed"
         /\ Agrees(file, m_Fd, m_State, failed, s)
BY DEF Objects, GoodNow, Good, Owned, Fd

(* A method that leaves the object its descriptor, with at most another kind. *)
LEMMA Stays ==
  ASSUME Objects, GoodNow, Objects', NEW s \in Sockets, UNCHANGED m_Fd,
         \A t \in Sockets : t # s =>
           m_State'[t] = m_State[t] /\ (t \in failed' <=> t \in failed),
         \A d \in Descriptors : d # m_Fd[s] => file'[d] = file[d],
         m_Fd[s] # NoFd => file'[m_Fd[s]].kind # "closed",
         Agrees(file', m_Fd, m_State', failed', s)
  PROVE  GoodNow'
<1>1. Good(file', m_Fd, m_State', failed')
  BY Change DEF Objects, GoodNow
<1> QED
  BY <1>1 DEF GoodNow

LEMMA ConstructGood ==
  ASSUME Objects, GoodNow, NEW s \in Sockets, Construct(s) PROVE GoodNow'
<1>1. PICK r \in OpenSocket(file, NoFd) :
        ~r.threw /\ file' = r.file /\ m_Fd' = [m_Fd EXCEPT ![s] = r.fd]
  BY DEF Construct
<1>2. r.fd \in Descriptors /\ file[r.fd].kind = "closed"
      /\ file' = [file EXCEPT ![r.fd] = Fresh]
  BY <1>1, OpenSocketIs DEF Objects, Fd
<1>3. m_Fd[s] = NoFd
  BY Fates DEF Construct, Alive, Agrees
<1>4. Objects'
  BY ConstructTypes
<1>5. /\ m_Fd'[s] = r.fd /\ \A t \in Sockets : t # s => m_Fd'[t] = m_Fd[t]
      /\ m_State'[s] = "Disconnected"
      /\ \A t \in Sockets : t # s =>
           m_State'[t] = m_State[t] /\ (t \in failed' <=> t \in failed)
  BY <1>1 DEF Construct, Objects
<1>6. /\ file'[r.fd].kind = "fresh"
      /\ \A d \in Descriptors : d # r.fd => file'[d] = file[d]
  BY <1>2, Zenon DEF Objects, Files, Fresh
<1>7. Agrees(file', m_Fd', m_State', failed', s)
  BY <1>5, <1>6 DEF Agrees
<1>8. m_Fd \in [Sockets -> Fd] /\ m_Fd' \in [Sockets -> Fd]
  BY <1>4 DEF Objects
<1>9. /\ \A d \in Descriptors : d # m_Fd[s] /\ d # m_Fd'[s] =>
           file'[d] = file[d]
      /\ file[m_Fd'[s]].kind = "closed" /\ m_Fd[s] \notin Descriptors
      /\ file'[m_Fd'[s]].kind # "closed"
  BY <1>2, <1>3, <1>5, <1>6, NoFdIsNone
<1>10. Good(file', m_Fd', m_State', failed')
  BY <1>5, <1>7, <1>8, <1>9, Change DEF GoodNow
<1> QED
  BY <1>10 DEF GoodNow

(* Shutdown, and what the destructor does first: good objects, if it were to  *)
(* stop there.                                                                *)
LEMMA ShutdownGood ==
  ASSUME Objects, GoodNow, NEW s \in Sockets, NEW r \in ShutdownResults(s),
         ~r.threw \/ r.fd = NoFd
  PROVE  Good(r.file, [m_Fd EXCEPT ![s] = r.fd],
              [m_State EXCEPT ![s] = "Disconnected"], failed \ {s})
<1> DEFINE m2  == [m_Fd EXCEPT ![s] = r.fd]
           st2 == [m_State EXCEPT ![s] = "Disconnected"]
<1>1. m_Fd[s] \in Fd /\ NoFd \in {m_Fd[s], NoFd}
  BY DEF Objects
<1>2. /\ r.file \in Files /\ r.fd \in Fd
      /\ \A e \in Descriptors : e # m_Fd[s] /\ e # r.fd => r.file[e] = file[e]
      /\ r.fd # m_Fd[s] /\ r.fd # NoFd => file[r.fd].kind = "closed"
      /\ r.fd # m_Fd[s] /\ m_Fd[s] \in Descriptors =>
           r.file[m_Fd[s]].kind = "closed"
      /\ r.fd # NoFd => r.file[r.fd].kind = "fresh"
  <2>1. r \in OpenSocket(CloseIn(file, m_Fd[s]), NoFd)
    BY DEF ShutdownResults
  <2>2. file \in Files /\ ~(r.threw /\ r.fd # NoFd)
    BY DEF Objects
  <2> QED
    BY <1>1, <2>1, <2>2, Reopen
<1>3. /\ m2 \in [Sockets -> Fd] /\ m2[s] = r.fd /\ st2[s] = "Disconnected"
      /\ \A t \in Sockets : t # s => m2[t] = m_Fd[t] /\ st2[t] = m_State[t]
      /\ \A t \in Sockets : t # s => (t \in failed \ {s} <=> t \in failed)
  BY <1>2 DEF Objects
<1> HIDE DEF m2, st2
<1>4. Agrees(r.file, m2, st2, failed \ {s}, s)
  BY <1>2, <1>3 DEF Agrees
<1>5. Good(r.file, m2, st2, failed \ {s})
  BY <1>2, <1>3, <1>4, Change DEF Objects, GoodNow
<1> QED
  BY <1>5 DEF m2, st2

LEMMA ShutdownKeeps ==
  ASSUME Objects, GoodNow, NEW s \in Sockets, Shutdown(s) PROVE GoodNow'
<1>1. PICK r \in ShutdownResults(s) :
        file' = r.file /\ m_Fd' = [m_Fd EXCEPT ![s] = r.fd]
  BY DEF Shutdown
<1>2. ~r.threw \/ r.fd = NoFd
  <2>1. CloseIn(file, m_Fd[s]) \in Files /\ NoFd \in Fd
    BY CloseInIs DEF Objects, Fd
  <2> QED
    BY <2>1, OpenSocketIs DEF ShutdownResults
<1> QED
  BY <1>1, <1>2, ShutdownGood DEF Shutdown, GoodNow

(* The end of a good object with number fd, of the files f.                   *)
LEMMA DestroyedGood ==
  ASSUME NEW f \in Files, NEW m \in [Sockets -> Fd], NEW st, NEW fl,
         Good(f, m, st, fl), NEW s \in Sockets,
         NEW m2 \in [Sockets -> Fd], m2[s] = NoFd,
         \A t \in Sockets : t # s => m2[t] = m[t],
         NEW st2, st2[s] = "gone",
         \A t \in Sockets : t # s => st2[t] = st[t],
         NEW fl2, \A t \in Sockets : t # s => (t \in fl2 <=> t \in fl)
  PROVE  Good(CloseIn(f, IF m[s] > 0 THEN m[s] ELSE NoFd), m2, st2, fl2)
<1> DEFINE d  == IF m[s] > 0 THEN m[s] ELSE NoFd
           f2 == CloseIn(f, d)
<1>1. m[s] \in Fd /\ d \in Fd
  BY DEF Fd
<1>2. ASSUME m[s] \in Descriptors \ {0} PROVE d = m[s]
  <2>1. m[s] \in Nat /\ m[s] # 0
    BY <1>2, DescriptorsAssumption
  <2>2. m[s] > 0
    BY <2>1, SMT
  <2> QED
    BY <2>2
<1>3. d = m[s] \/ d = NoFd
  OBVIOUS
<1> HIDE DEF d
<1>4. /\ \A e \in Descriptors : e # m[s] => f2[e] = f[e]
      /\ m[s] \in Descriptors \ {0} => f2[m[s]] = Closed
  BY <1>1, <1>2, <1>3, CloseInIs, NoFdIsNone
<1>5. Agrees(f2, m2, st2, fl2, s)
  BY DEF Agrees
<1> HIDE DEF f2
<1>6. /\ \A t \in Sockets : t # s =>
           m2[t] = m[t] /\ st2[t] = st[t] /\ (t \in fl2 <=> t \in fl)
      /\ \A e \in Descriptors : e # m[s] /\ e # m2[s] => f2[e] = f[e]
      /\ m[s] \in Descriptors \ {0} => f2[m[s]].kind = "closed"
  BY <1>4 DEF Closed
<1>7. Good(f2, m2, st2, fl2)
  BY <1>5, <1>6, Change
<1> QED
  BY <1>7 DEF f2, d

LEMMA DestructGood ==
  ASSUME Objects, GoodNow, NEW s \in Sockets, Destruct(s) PROVE GoodNow'
<1>1. CASE Destroyed(s, file, m_Fd[s])
  <2>1. /\ file' = CloseIn(file, IF m_Fd[s] > 0 THEN m_Fd[s] ELSE NoFd)
        /\ m_Fd' \in [Sockets -> Fd] /\ m_Fd'[s] = NoFd
        /\ \A t \in Sockets : t # s => m_Fd'[t] = m_Fd[t]
        /\ m_State'[s] = "gone"
        /\ \A t \in Sockets : t # s => m_State'[t] = m_State[t]
        /\ \A t \in Sockets : t # s => (t \in failed' <=> t \in failed)
    BY <1>1 DEF Destroyed, Objects, Fd
  <2>2. file \in Files /\ m_Fd \in [Sockets -> Fd]
    BY DEF Objects
  <2> QED
    BY <2>1, <2>2, DestroyedGood DEF GoodNow
<1>2. ASSUME NEW r \in ShutdownResults(s), ~r.threw,
             Destroyed(s, r.file, r.fd)
      PROVE  GoodNow'
  <2> DEFINE m  == [m_Fd EXCEPT ![s] = r.fd]
             st == [m_State EXCEPT ![s] = "Disconnected"]
  <2>1. Good(r.file, m, st, failed \ {s})
    BY <1>2, ShutdownGood
  <2>2. r.file \in Files /\ r.fd \in Fd
    BY ShutdownResultsTypes
  <2>3. m \in [Sockets -> Fd] /\ m[s] = r.fd
    BY <2>2 DEF Objects
  <2>4. /\ file' = CloseIn(r.file, IF m[s] > 0 THEN m[s] ELSE NoFd)
        /\ m_Fd' \in [Sockets -> Fd] /\ m_Fd'[s] = NoFd
        /\ \A t \in Sockets : t # s => m_Fd'[t] = m[t]
        /\ m_State'[s] = "gone"
        /\ \A t \in Sockets : t # s => m_State'[t] = st[t]
        /\ \A t \in Sockets : t # s =>
             (t \in failed' <=> t \in failed \ {s})
    BY <1>2, <2>3 DEF Destroyed, Objects, Fd
  <2> HIDE DEF m, st
  <2> QED
    BY <2>1, <2>2, <2>3, <2>4, DestroyedGood DEF GoodNow
<1>3. CASE Terminated
  BY <1>3 DEF Terminated, GoodNow
<1> QED
  BY <1>1, <1>2, <1>3, Zenon DEF Destruct

LEMMA SetUpGood ==
  ASSUME Objects, GoodNow, NEW s \in Sockets, Connect(s) \/ Bind(s) \/ Listen(s)
  PROVE  GoodNow'
<1> DEFINE d == m_Fd[s]
<1>1. d \in Descriptors
  BY OpenKind DEF Objects, Connect, Bind, Listen
<1>2. PICK k \in {"linked", "bound", "listening"} :
        /\ file' = [file EXCEPT ![d].kind = k]
        /\ m_State' = [m_State EXCEPT ![s] =
             IF k = "linked" THEN "Connected"
             ELSE IF k = "bound" THEN "Bound" ELSE "Listening"]
  BY DEF Connect, Bind, Listen
<1>3. Objects' /\ UNCHANGED <<m_Fd, failed>>
  BY SetUpTypes DEF Connect, Bind, Listen
<1>4. file'[d].kind = k /\ \A e \in Descriptors : e # d => file'[e] = file[e]
  BY <1>1, <1>2 DEF Objects, Files, File
<1>5. /\ m_State'[s] = IF k = "linked" THEN "Connected"
                       ELSE IF k = "bound" THEN "Bound" ELSE "Listening"
      /\ \A t \in Sockets : t # s => m_State'[t] = m_State[t]
  BY <1>2 DEF Objects
<1>6. Agrees(file', m_Fd, m_State', failed', s)
  BY <1>1, <1>4, <1>5, NoFdIsNone DEF Agrees
<1> QED
  BY <1>3, <1>4, <1>5, <1>6, Stays

LEMMA AcceptGood ==
  ASSUME Objects, GoodNow, NEW s \in Sockets, NEW t \in Sockets, Accept(s, t)
  PROVE  GoodNow'
<1>1. PICK r \in Opened(file) :
        /\ r.fd # NoFd
        /\ file' = [r.file EXCEPT ![r.fd].kind = "linked"]
        /\ m_Fd' = [m_Fd EXCEPT ![t] = r.fd]
  BY DEF Accept
<1>2. /\ r.fd \in Descriptors /\ file[r.fd].kind = "closed"
      /\ r.file = [file EXCEPT ![r.fd] = Fresh]
  BY <1>1, OpenedIs DEF Objects
<1>3. /\ r.file \in Files /\ r.file[r.fd] \in File
      /\ \A e \in Descriptors : e # r.fd => r.file[e] = file[e]
  BY <1>2, ClosedIsFile, Zenon DEF Objects, Files
<1>4. /\ file'[r.fd].kind = "linked"
      /\ \A e \in Descriptors : e # r.fd => file'[e] = file[e]
  BY <1>1, <1>2, <1>3 DEF Files, File
<1>5. m_Fd[t] = NoFd
  BY Fates DEF Accept, Alive, Agrees
<1>6. m_Fd \in [Sockets -> Fd] /\ m_Fd' \in [Sockets -> Fd]
  BY AcceptTypes DEF Objects
<1>7. /\ \A u \in Sockets : u # t =>
           /\ m_Fd'[u] = m_Fd[u] /\ m_State'[u] = m_State[u]
           /\ u \in failed' <=> u \in failed
      /\ m_Fd'[t] = r.fd /\ m_State'[t] = "Connected"
  BY <1>1 DEF Accept, Objects
<1>8. /\ \A d \in Descriptors : d # m_Fd[t] /\ d # m_Fd'[t] =>
           file'[d] = file[d]
      /\ file[m_Fd'[t]].kind = "closed" /\ m_Fd[t] \notin Descriptors
      /\ file'[m_Fd'[t]].kind # "closed"
  BY <1>2, <1>4, <1>5, <1>7, NoFdIsNone
<1>9. Agrees(file', m_Fd', m_State', failed', t)
  BY <1>1, <1>4, <1>7 DEF Agrees
<1>10. Good(file', m_Fd', m_State', failed')
  BY <1>6, <1>7, <1>8, <1>9, Change DEF GoodNow
<1> QED
  BY <1>10 DEF GoodNow

LEMMA SetRcvTimeoutGood ==
  ASSUME Objects, GoodNow, NEW s \in Sockets, SetRcvTimeout(s) PROVE GoodNow'
<1> DEFINE d == m_Fd[s]
<1>1. d \in Descriptors
  BY OpenKind DEF Objects, SetRcvTimeout
<1>2. PICK b \in BOOLEAN : file' = [file EXCEPT ![d].timed = b]
  BY DEF SetRcvTimeout
<1>3. Objects' /\ UNCHANGED <<m_Fd, m_State, failed>>
  BY SetRcvTimeoutTypes DEF SetRcvTimeout
<1>4. /\ file'[d].kind = file[d].kind
      /\ \A e \in Descriptors : e # d => file'[e] = file[e]
  BY <1>1, <1>2 DEF Objects, Files, File
<1>5. Agrees(file', m_Fd, m_State', failed', s)
  BY <1>3, <1>4, Fates DEF Agrees
<1>6. file'[d].kind # "closed"
  BY <1>1, <1>4, Fates, NoFdIsNone
<1> QED
  BY <1>3, <1>4, <1>5, <1>6, Stays

(* A lost connection: unless the object goes astray, its number is that of a  *)
(* new descriptor, or none.                                                   *)
LEMMA LostGood ==
  ASSUME Objects, GoodNow, NEW s \in Sockets, Lost(s), ~stray'
  PROVE  GoodNow'
<1>1. PICK r \in OpenSocket(CloseIn(file, m_Fd[s]), m_Fd[s]) :
        /\ file' = r.file /\ m_Fd' = [m_Fd EXCEPT ![s] = r.fd]
        /\ stray' = (stray \/ (r.threw /\ r.fd # NoFd))
  BY DEF Lost
<1>2. ~(r.threw /\ r.fd # NoFd)
  BY <1>1
<1>3. file \in Files /\ m_Fd[s] \in Fd
  BY DEF Objects
<1>4. /\ \A e \in Descriptors : e # m_Fd[s] /\ e # r.fd => r.file[e] = file[e]
      /\ r.fd # m_Fd[s] /\ r.fd # NoFd => file[r.fd].kind = "closed"
      /\ r.fd # m_Fd[s] /\ m_Fd[s] \in Descriptors =>
           r.file[m_Fd[s]].kind = "closed"
      /\ r.fd # NoFd => r.file[r.fd].kind = "fresh"
  BY <1>2, <1>3, Reopen
<1>5. m_Fd \in [Sockets -> Fd] /\ m_Fd' \in [Sockets -> Fd]
  BY LostTypes DEF Objects
<1>6. /\ m_Fd'[s] = r.fd /\ m_State'[s] = "Disconnected"
      /\ \A t \in Sockets : t # s =>
           /\ m_Fd'[t] = m_Fd[t] /\ m_State'[t] = m_State[t]
           /\ t \in failed' <=> t \in failed
  BY <1>1 DEF Lost, Objects
<1>7. Agrees(file', m_Fd', m_State', failed', s)
  BY <1>1, <1>4, <1>6 DEF Agrees
<1>8. /\ \A d \in Descriptors : d # m_Fd[s] /\ d # m_Fd'[s] =>
           file'[d] = file[d]
      /\ m_Fd'[s] # m_Fd[s] /\ m_Fd'[s] # NoFd =>
           file[m_Fd'[s]].kind = "closed"
      /\ m_Fd'[s] # m_Fd[s] /\ m_Fd[s] \in Descriptors \ {0} =>
           file'[m_Fd[s]].kind = "closed"
      /\ m_Fd'[s] # NoFd => file'[m_Fd'[s]].kind # "closed"
  BY <1>1, <1>4, <1>6
<1>9. Good(file', m_Fd', m_State', failed')
  BY <1>5, <1>6, <1>7, <1>8, Change DEF GoodNow
<1> QED
  BY <1>9 DEF GoodNow

LEMMA FailedGood ==
  ASSUME Objects, GoodNow, NEW s \in Sockets, Failed(s)
  PROVE  GoodNow'
<1>1. Objects' /\ UNCHANGED <<file, m_Fd>>
  BY FailedTypes DEF Failed
<1>2. /\ m_State'[s] = "Disconnected" /\ s \in failed'
      /\ \A t \in Sockets : t # s =>
           m_State'[t] = m_State[t] /\ (t \in failed' <=> t \in failed)
  BY DEF Failed, Objects
<1>3. Agrees(file', m_Fd, m_State', failed', s)
  BY <1>2 DEF Agrees
<1> QED
  BY <1>1, <1>2, <1>3, Fates, Stays

LEMMA TakenGood ==
  ASSUME Objects, GoodNow, NEW s \in Sockets, NEW n \in Nat,
         0 < n, n <= Waiting(s), Taken(s, n)
  PROVE  GoodNow'
<1> DEFINE d == m_Fd[s]
<1>1. d \in Descriptors
  BY OpenKind, SMT DEF Objects, Waiting
<1>2. Objects' /\ UNCHANGED <<m_Fd, m_State, failed>>
  BY TakenTypes DEF Taken
<1>3. /\ file'[d].kind = file[d].kind
      /\ \A e \in Descriptors : e # d => file'[e] = file[e]
  BY <1>1 DEF Taken, Objects, Files, File
<1>4. Agrees(file', m_Fd, m_State', failed', s)
  BY <1>2, <1>3, Fates DEF Agrees
<1>5. file'[d].kind # "closed"
  BY <1>1, <1>3, Fates, NoFdIsNone
<1> QED
  BY <1>2, <1>3, <1>4, <1>5, Stays

LEMMA ReadOnceGood ==
  ASSUME Objects, GoodNow, NEW s \in Sockets, NEW size \in Nat,
         ReadOnce(s, size), ~stray'
  PROVE  GoodNow'
<1>1. CASE \E n \in 1..size : n <= Waiting(s) /\ Taken(s, n)
  BY <1>1, TakenGood
<1> QED
  BY <1>1, LostGood, FailedGood DEF ReadOnce

(* The steps that leave all objects as they are.                              *)
LEMMA SameGood ==
  ASSUME GoodNow, UNCHANGED <<file, m_Fd, m_State, failed>>
  PROVE  GoodNow'
BY DEF GoodNow

LEMMA CallsGood ==
  ASSUME Objects, CallInv, GoodNow, ~stray',
         \/ ReadStep \/ Interrupt \/ WriteStep \/ InterruptWrite
         \/ FlushStep
  PROVE  GoodNow'
<1>1. call.sock \in Sockets
  BY CallsAre
  DEF CallInv, Progress, ReadStep, Interrupt, WriteStep, InterruptWrite,
    FlushStep
<1>2. CASE ReadStep \/ Interrupt
  BY <1>1, <1>2, ReadOnceGood, FailedGood, MaxWaitingAssumption
  DEF ReadStep, Interrupt, TimesOut
<1>3. CASE WriteStep \/ InterruptWrite
  <2>1. CASE WriteFails
    BY <1>1, <2>1, LostGood, FailedGood, SameGood DEF WriteFails
  <2>2. CASE WriteTakes
    <3>1. /\ UNCHANGED <<m_Fd, m_State, failed>>
          /\ \A d \in Descriptors : file'[d].kind = file[d].kind
      BY <1>1, <2>2, WriteTakesFiles DEF WriteTakes
    <3>2. m_Fd \in [Sockets -> Fd]
      BY DEF Objects
    <3> QED
      BY <3>1, <3>2, PeerChange DEF GoodNow
  <2> QED
    BY <1>3, <2>1, <2>2 DEF WriteStep, InterruptWrite
<1>4. CASE FlushStep
  BY <1>1, <1>4, ReadOnceGood, SameGood DEF FlushStep, FlushReads, FlushEnds
<1> QED
  BY <1>2, <1>3, <1>4

LEMMA PeersGood ==
  ASSUME Objects, GoodNow, NEW d \in Descriptors,
         PeerSends(d) \/ PeerReads(d) \/ PeerGoes(d)
  PROVE  GoodNow'
<1>1. \A e \in Descriptors :
        \/ file'[e].kind = file[e].kind
        \/ {file[e].kind, file'[e].kind}
             \subseteq {"linked", "finished", "reset"}
  <2>1. CASE PeerSends(d)
    BY <2>1 DEF PeerSends, Objects, Files, File
  <2>2. CASE PeerGoes(d)
    BY <2>2 DEF PeerGoes, Objects, Files, File
  <2>3. CASE PeerReads(d)
    BY <2>3 DEF PeerReads, Objects, Files, File
  <2> QED
    BY <2>1, <2>2, <2>3
<1>2. UNCHANGED <<m_Fd, m_State, failed>> /\ m_Fd \in [Sockets -> Fd]
  BY DEF PeerSends, PeerReads, PeerGoes, Objects
<1>3. Good(file', m_Fd, m_State, failed)
  BY <1>1, <1>2, PeerChange DEF GoodNow
<1> QED
  BY <1>2, <1>3 DEF GoodNow

-----------------------------------------------------------------------------
(* The theorems.                                                              *)

IInv == Objects /\ CallInv /\ (stray \/ GoodNow)

LEMMA InitIInv == Init => IInv
<1> SUFFICES ASSUME Init PROVE IInv
  OBVIOUS
<1>1. GoodNow
  BY NoFdIsNone DEF Init, GoodNow, Good, Owned, Agrees, Closed
<1> QED
  BY <1>1, InitTypes DEF IInv

LEMMA StrayForGood == ASSUME stray, [Next]_vars PROVE stray'
BY DEF Next, vars, Construct, Destruct, Shutdown, Connect, Bind, Listen,
  SetRcvTimeout, Read, Write, Flush, Accept, ReadStep, Interrupt, WriteStep,
  InterruptWrite, FlushStep, FlushReads, FlushEnds, ReadOnce, Taken, Lost, Failed, TimesOut,
  WriteTakes, WriteFails, PeerSends, PeerReads, PeerGoes

LEMMA NextKeeps == IInv /\ [Next]_vars => IInv'
<1> SUFFICES ASSUME IInv, [Next]_vars, ~stray' PROVE GoodNow'
  BY NextTypes DEF IInv
<1>1. Objects /\ CallInv /\ GoodNow
  BY StrayForGood DEF IInv
<1>2. ASSUME NEW s \in Sockets,
             \/ Construct(s) \/ Shutdown(s) \/ Connect(s) \/ Bind(s)
             \/ Listen(s) \/ SetRcvTimeout(s) \/ Destruct(s)
             \/ \E t \in Sockets : Accept(s, t)
      PROVE  GoodNow'
  BY <1>1, <1>2, ConstructGood, ShutdownKeeps, SetUpGood, SetRcvTimeoutGood,
    DestructGood, AcceptGood, Zenon
<1>3. ASSUME NEW s \in Sockets, Read(s) \/ Write(s) \/ Flush(s)
      PROVE  GoodNow'
  BY <1>1, <1>3, SameGood DEF Read, Write, Flush
<1>4. ASSUME NEW d \in Descriptors,
             PeerSends(d) \/ PeerReads(d) \/ PeerGoes(d)
      PROVE  GoodNow'
  BY <1>1, <1>4, PeersGood
<1>5. CASE \/ ReadStep \/ Interrupt \/ WriteStep \/ InterruptWrite
           \/ FlushStep
  BY <1>1, <1>5, CallsGood
<1>6. CASE UNCHANGED vars
  BY <1>1, <1>6, SameGood DEF vars
<1> QED
  BY <1>2, <1>3, <1>4, <1>5, <1>6, Zenon DEF Next

LEMMA Invariance == Spec => []IInv
BY InitIInv, NextKeeps, PTL DEF Spec

(* Every variable keeps its type; a call in progress is one of an object that *)
(* is there (the destructor runs between calls).                              *)
THEOREM TypeCorrect == Spec => []TypeOK
<1>1. IInv => TypeOK
  BY Types DEF IInv, CallInv
<1> QED
  BY <1>1, Invariance, PTL

(* Through every close and reopening (CSocket.cpp: Shutdown, Read and Write   *)
(* at the end of a connection, Accept, the destructor) every open descriptor  *)
(* but 0 is that of one object, and no object has the number of a closed one, *)
(* until OpenSocket throws under Read or Write (CSocket.cpp:1333).            *)
THEOREM DescriptorsAreOwned == Spec => []DescriptorsOwned
<1>1. IInv => DescriptorsOwned
  BY Zenon DEF IInv, GoodNow, Good, Owned, DescriptorsOwned
<1> QED
  BY <1>1, Invariance, PTL

(* m_State tells the truth about the kernel's socket, but for objects a read  *)
(* or write of which failed.                                                  *)
THEOREM StatesAreTrue == Spec => []StateTrue
<1>1. ASSUME IInv, ~stray, NEW s \in Sockets
      PROVE  CASE m_State[s] = "Bound"     -> Kind(m_Fd[s]) = "bound"
               [] m_State[s] = "Listening" -> Kind(m_Fd[s]) = "listening"
               [] m_State[s] = "Connected" ->
                    Kind(m_Fd[s]) \in {"linked", "finished", "reset"}
               [] m_State[s] = "Disconnected" ->
                    m_Fd[s] = NoFd \/ Kind(m_Fd[s]) = "fresh" \/ s \in failed
               [] OTHER -> m_Fd[s] = NoFd
  <2>1. /\ m_State[s] \in States \cup {"gone"}
        /\ Agrees(file, m_Fd, m_State, failed, s)
    BY <1>1, Fates DEF IInv
  <2> QED
    BY <2>1 DEF Agrees, Kind, States
<1>2. IInv => StateTrue
  BY <1>1, Zenon DEF StateTrue
<1> QED
  BY <1>2, Invariance, PTL

(* What Write returns is what the kernel has taken of it, whatever failed     *)
(* between two of its calls to write(2) (CSocket.cpp: Write).                 *)
THEOREM WritesAreCounted == Spec => []WriteTellsTheTruth
<1>1. IInv => WriteTellsTheTruth
  BY DEF IInv, CallInv, Honest, WriteTellsTheTruth
<1> QED
  BY <1>1, Invariance, PTL
-----------------------------------------------------------------------------
(* The conversions of SocketOptions, for every argument and every width.      *)

LEMMA Division ==
  ASSUME NEW nMs \in UnsignedInt
  PROVE  /\ nMs \in Nat
         /\ nMs \div 1000 \in Nat
         /\ nMs % 1000 \in Nat /\ nMs % 1000 < 1000
         /\ nMs = 1000 * (nMs \div 1000) + (nMs % 1000)
BY UnsignedAssumption, SMT DEF UnsignedInt

(* Every timeout makes a timeval that the kernel accepts: it refuses one of   *)
(* which the microseconds are a second or more.                               *)
THEOREM TimevalAccepted == \A nMs \in UnsignedInt : Timeval(nMs) \in Timevals
<1> SUFFICES ASSUME NEW nMs \in UnsignedInt
             PROVE  Timeval(nMs) \in Timevals
    OBVIOUS
<1> DEFINE rest == nMs % 1000
<1>1. nMs \div 1000 \in Nat /\ rest \in Nat /\ rest < 1000
      BY Division
<1>2. rest * 1000 \in Nat /\ rest * 1000 < 1000000
  <2> HIDE DEF rest
  <2> QED BY <1>1, SMT
<1>3. QED BY <1>1, <1>2, SMT DEF Timeval, Timevals

(* To set 0 milliseconds, and nothing else, turns the timeout off: however    *)
(* short another is, it does not become "wait for ever" on its way.           *)
THEOREM OnlyZeroIsNone ==
  \A nMs \in UnsignedInt : Timeval(nMs) = NoTimeout <=> nMs = 0
<1> SUFFICES ASSUME NEW nMs \in UnsignedInt
             PROVE  Timeval(nMs) = NoTimeout <=> nMs = 0
    OBVIOUS
<1>1. ASSUME Timeval(nMs) = NoTimeout PROVE nMs = 0
  <2>1. nMs \div 1000 = 0 /\ (nMs % 1000) * 1000 = 0
        BY <1>1, SMT DEF Timeval, NoTimeout
  <2>2. QED BY <2>1, Division, SMT
<1>2. ASSUME nMs = 0 PROVE Timeval(nMs) = NoTimeout
      BY <1>2, SMT DEF Timeval, NoTimeout
<1>3. QED BY <1>1, <1>2

(* The timeout that is read back is the one that was set only up to the       *)
(* second: what is left of a second is lost, and a timeout of less than one   *)
(* reads as none.                                                             *)
THEOREM TimeoutReadBack ==
  \A nMs \in UnsignedInt : Milliseconds(Timeval(nMs)) = nMs - (nMs % 1000)
<1> SUFFICES ASSUME NEW nMs \in UnsignedInt
             PROVE  Milliseconds(Timeval(nMs)) = nMs - (nMs % 1000)
    OBVIOUS
<1> DEFINE ms == (nMs \div 1000) * 1000
<1>1. ms = nMs - (nMs % 1000)
      BY Division, SMT
<1>2. ms \in Nat /\ ms < UnsignedRange
      BY Division, UnsignedAssumption, SMT DEF UnsignedInt
<1>3. ms % UnsignedRange = ms
  <2> HIDE DEF ms
  <2> QED BY <1>2, UnsignedAssumption, SMT
<1>4. Milliseconds(Timeval(nMs)) = ms % UnsignedRange
      BY SMT DEF Milliseconds, Timeval
<1>5. QED BY <1>1, <1>3, <1>4

(* A number that is no port is taken for one: those that differ by 65536 are  *)
(* the same port.                                                             *)
THEOREM PortsWrap ==
  \A nport \in Nat :
    /\ Port(nport) \in Nat /\ Port(nport) < 65536
    /\ Port(nport + 65536) = Port(nport)
BY SMT DEF Port
=============================================================================
