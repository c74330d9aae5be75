------------------------------- MODULE Socket -------------------------------
(* The TCP sockets of the feed to a Tcl server (src/CSocket.cpp): objects     *)
(* that wrap a descriptor, in one process of one thread.  The descriptors are *)
(* the kernel's, and it hands out the lowest one that is free, so the number  *)
(* of a socket that was closed soon belongs to another.                       *)
(*                                                                            *)
(* A peer that goes makes an object close its descriptor and open another one *)
(* in its place.  Opening may throw before it has asked for a descriptor: it  *)
(* tests a pEntry that is never set, for the one that getprotobyname sets is  *)
(* another variable, of an inner scope.  Read and Write then leave the object *)
(* with the number of a descriptor that is not its own any more.              *)
(*                                                                            *)
(* A method is one step, except Read, which may have to wait, and those with  *)
(* a loop: Write and Flush take one step for every write(2) and poll(2).      *)
(* Peers come and go meanwhile.  A call that throws and changes nothing is no *)
(* step.  SIGPIPE is ignored, as the test for EPIPE takes for granted, and a  *)
(* write of nothing is left out.  A descriptor blocks: a read waits for the   *)
(* peer to send, and a write for the peer to read, for as long as that takes. *)
EXTENDS SocketOptions

CONSTANTS
  Sockets,      \* the names CSocket objects can have
  Descriptors,  \* the descriptors the process may open
  MaxBytes,     \* bound: the bytes of a Write
  MaxWaiting,   \* bound: the bytes that wait in a descriptor to be read
  Timeouts,     \* milliseconds for which the program asks
  NULL

ASSUME DescriptorsAssumption == Descriptors \subseteq Nat
ASSUME MaxBytesAssumption == MaxBytes \in Nat \ {0}
ASSUME MaxWaitingAssumption == MaxWaiting \in Nat \ {0}
ASSUME TimeoutsAssumption == Timeouts \subseteq UnsignedInt
ASSUME NullAssumption == NULL \notin Sockets

VARIABLES
  file,     \* what each descriptor is, the bytes that wait to be read,
            \* whether it has a receive timeout, and whether the kernel has
            \* room for more bytes to its peer
  m_Fd, m_State,
  call,     \* the Read, Write or Flush in progress
  told,     \* of the last Write: bytes it told its caller of, and bytes taken
  running,  \* the process has not been ended by an exception of a destructor
  failed,   \* objects a read or write of which failed since they were opened
  stray     \* an object has kept a descriptor that it had closed

vars == <<file, m_Fd, m_State, call, told, running, failed, stray>>

Kinds  == {"closed", "fresh", "bound", "listening", "linked", "finished",
           "reset"}
States == {"Disconnected", "Bound", "Listening", "Connected"}
NoFd   == -1
Closed == [kind |-> "closed", waiting |-> 0, timed |-> FALSE, room |-> TRUE]
Fresh  == [kind |-> "fresh", waiting |-> 0, timed |-> FALSE, room |-> TRUE]

Calls == [op : {"Write"}, sock : Sockets, resid : 1..MaxBytes,
          nWritten : 0..MaxBytes, taken : 0..MaxBytes]
           \cup [op : {"Read"}, sock : Sockets]
           \cup [op : {"Flush"}, sock : Sockets, fd : Descriptors \cup {NoFd}]

TypeOK ==
  /\ file \in [Descriptors -> [kind : Kinds, waiting : 0..MaxWaiting,
                              timed : BOOLEAN, room : BOOLEAN]]
  /\ m_Fd \in [Sockets -> Descriptors \cup {NoFd}]
  /\ m_State \in [Sockets -> States \cup {"gone"}]
  /\ call \in Calls \cup {NULL}
  /\ call # NULL => m_State[call.sock] # "gone"
  /\ told \in [bytes : 0..MaxBytes, taken : 0..MaxBytes]
  /\ running \in BOOLEAN /\ failed \subseteq Sockets /\ stray \in BOOLEAN

Init ==
  /\ file = [d \in Descriptors |-> Closed]
  /\ m_Fd = [s \in Sockets |-> NoFd]
  /\ m_State = [s \in Sockets |-> "gone"]
  /\ call = NULL
  /\ told = [bytes |-> 0, taken |-> 0]
  /\ running = TRUE /\ failed = {} /\ stray = FALSE

-----------------------------------------------------------------------------
Alive(s) == m_State[s] # "gone"

(* What an object's descriptor is in the kernel: the number may be none, and  *)
(* it may have been closed.                                                   *)
Kind(d) == IF d = NoFd THEN "closed" ELSE file[d].kind

Free(f) == {d \in Descriptors : f[d].kind = "closed"}
Lowest(D) == CHOOSE d \in D : \A e \in D : d <= e
CloseIn(f, d) == IF d \in Descriptors THEN [f EXCEPT ![d] = Closed] ELSE f

(* socket(2): the descriptor it returns, with the files there are then.       *)
Opened(f) ==
  {[file |-> f, fd |-> NoFd]}
    \cup {[file |-> [f EXCEPT ![d] = Fresh], fd |-> d] :
            d \in {Lowest(Free(f)) : e \in Free(f)}}

(* OpenSocket, with an object whose m_Fd is fd and the files f: it throws at  *)
(* the pEntry that was never set, with m_Fd unchanged, or if it gets no       *)
(* descriptor.                                                                *)
OpenSocket(f, fd) ==
  {[file |-> f, fd |-> fd, threw |-> TRUE]}
    \cup {[file |-> r.file, fd |-> r.fd, threw |-> r.fd = NoFd] :
            r \in Opened(f)}

(* shutdown(2) fails on a connection that its peer has reset.                 *)
CanShutDown(d) == Kind(d) \in {"linked", "finished"}

-----------------------------------------------------------------------------
Quiet == UNCHANGED <<call, told, running>>

(* The constructor: there is no object if it throws.                          *)
Construct(s) ==
  /\ running /\ call = NULL /\ ~Alive(s)
  /\ \E r \in OpenSocket(file, NoFd) :
       /\ ~r.threw
       /\ file' = r.file
       /\ m_Fd' = [m_Fd EXCEPT ![s] = r.fd]
       /\ m_State' = [m_State EXCEPT ![s] = "Disconnected"]
  /\ Quiet /\ UNCHANGED <<failed, stray>>

(* Mutant: m_Fd is not reset before the socket is opened again.               *)
ShutdownResults_KeepsFd(s) == OpenSocket(CloseIn(file, m_Fd[s]), m_Fd[s])

(* What Shutdown leaves, on an object whose descriptor can be shut down.      *)
ShutdownResults(s) == OpenSocket(CloseIn(file, m_Fd[s]), NoFd)

Shutdown(s) ==
  /\ running /\ call = NULL
  /\ m_State[s] = "Connected" /\ CanShutDown(m_Fd[s])
  /\ \E r \in ShutdownResults(s) :
       file' = r.file /\ m_Fd' = [m_Fd EXCEPT ![s] = r.fd]
  /\ m_State' = [m_State EXCEPT ![s] = "Disconnected"]
  /\ failed' = failed \ {s}
  /\ Quiet /\ UNCHANGED stray

(* The destructor closes what has not the number 0.  It throws where Shutdown *)
(* does, and an exception that leaves a destructor ends the program.          *)
Destroyed(s, f, fd) ==
  /\ file' = CloseIn(f, IF fd > 0 THEN fd ELSE NoFd)
  /\ m_Fd' = [m_Fd EXCEPT ![s] = NoFd]
  /\ m_State' = [m_State EXCEPT ![s] = "gone"]
  /\ failed' = failed \ {s}
  /\ UNCHANGED running

Terminated == running' = FALSE /\ UNCHANGED <<file, m_Fd, m_State, failed>>

Destruct(s) ==
  /\ running /\ call = NULL /\ Alive(s)
  /\ \/ m_State[s] # "Connected" /\ Destroyed(s, file, m_Fd[s])
     \/ /\ m_State[s] = "Connected" /\ CanShutDown(m_Fd[s])
        /\ \E r \in ShutdownResults(s) :
             IF r.threw THEN Terminated ELSE Destroyed(s, r.file, r.fd)
     \/ m_State[s] = "Connected" /\ ~CanShutDown(m_Fd[s]) /\ Terminated
  /\ UNCHANGED <<call, told, stray>>

-----------------------------------------------------------------------------
(* Mutant: the object is connected, whatever connect(2) returned.             *)
Connect_Anyway(s) ==
  /\ running /\ call = NULL /\ m_State[s] = "Disconnected"
  /\ \/ /\ Kind(m_Fd[s]) \in {"fresh", "bound"}
        /\ file' = [file EXCEPT ![m_Fd[s]].kind = "linked"]
     \/ UNCHANGED file
  /\ m_State' = [m_State EXCEPT ![s] = "Connected"]
  /\ Quiet /\ UNCHANGED <<m_Fd, failed, stray>>

(* Connect: connect(2) succeeds or is refused, and a refusal is thrown with   *)
(* nothing changed.  A descriptor that is connected already refuses.          *)
Connect(s) ==
  /\ running /\ call = NULL
  /\ m_State[s] = "Disconnected" /\ Kind(m_Fd[s]) \in {"fresh", "bound"}
  /\ file' = [file EXCEPT ![m_Fd[s]].kind = "linked"]
  /\ m_State' = [m_State EXCEPT ![s] = "Connected"]
  /\ Quiet /\ UNCHANGED <<m_Fd, failed, stray>>

Bind(s) ==
  /\ running /\ call = NULL
  /\ m_State[s] = "Disconnected" /\ Kind(m_Fd[s]) = "fresh"
  /\ file' = [file EXCEPT ![m_Fd[s]].kind = "bound"]
  /\ m_State' = [m_State EXCEPT ![s] = "Bound"]
  /\ Quiet /\ UNCHANGED <<m_Fd, failed, stray>>

Listen(s) ==
  /\ running /\ call = NULL
  /\ m_State[s] = "Bound"
  /\ Kind(m_Fd[s]) \in {"fresh", "bound", "listening"}
  /\ file' = [file EXCEPT ![m_Fd[s]].kind = "listening"]
  /\ m_State' = [m_State EXCEPT ![s] = "Listening"]
  /\ Quiet /\ UNCHANGED <<m_Fd, failed, stray>>

(* Accept: a client has connected to s, and t is the new object for it.       *)
Accept(s, t) ==
  /\ running /\ call = NULL /\ ~Alive(t)
  /\ m_State[s] = "Listening" /\ Kind(m_Fd[s]) = "listening"
  /\ \E r \in Opened(file) :
       /\ r.fd # NoFd
       /\ file' = [r.file EXCEPT ![r.fd].kind = "linked"]
       /\ m_Fd' = [m_Fd EXCEPT ![t] = r.fd]
  /\ m_State' = [m_State EXCEPT ![t] = "Connected"]
  /\ Quiet /\ UNCHANGED <<failed, stray>>

-----------------------------------------------------------------------------
(* The connection is lost: Read at its end, and Write at EPIPE.               *)
Lost(s) ==
  /\ \E r \in OpenSocket(CloseIn(file, m_Fd[s]), m_Fd[s]) :
       /\ file' = r.file
       /\ m_Fd' = [m_Fd EXCEPT ![s] = r.fd]
       /\ stray' = (stray \/ (r.threw /\ r.fd # NoFd))
  /\ m_State' = [m_State EXCEPT ![s] = "Disconnected"]
  /\ failed' = failed \ {s}

(* Any other error: the descriptor is kept, connected as it may be.           *)
Failed(s) ==
  /\ m_State' = [m_State EXCEPT ![s] = "Disconnected"]
  /\ failed' = failed \cup {s}
  /\ UNCHANGED <<file, m_Fd, stray>>

Taken(s, n) ==
  /\ file' = [file EXCEPT ![m_Fd[s]].waiting = @ - n]
  /\ UNCHANGED <<m_Fd, m_State, failed, stray>>

Waiting(s) == IF Kind(m_Fd[s]) = "closed" THEN 0 ELSE file[m_Fd[s]].waiting

(* setRcvTimeout.  The timeout is the descriptor's, and not the object's.     *)
SetRcvTimeout(s) ==
  /\ running /\ call = NULL /\ Alive(s) /\ Kind(m_Fd[s]) # "closed"
  /\ \E nMs \in Timeouts :
       file' = [file EXCEPT ![m_Fd[s]].timed = Timeval(nMs) # NoTimeout]
  /\ Quiet /\ UNCHANGED <<m_Fd, m_State, failed, stray>>

(* read(2) of at most size bytes, when it need not wait: what has come, the   *)
(* end of file, an error.                                                     *)
ReadOnce(s, size) ==
  \/ \E n \in 1..size : n <= Waiting(s) /\ Taken(s, n)
  \/ /\ Kind(m_Fd[s]) \in {"finished", "reset"} /\ Waiting(s) = 0
     /\ Lost(s)
  \/ /\ Kind(m_Fd[s]) \notin {"linked", "finished"} /\ Waiting(s) = 0
     /\ Failed(s)

Read(s) ==
  /\ running /\ call = NULL /\ m_State[s] = "Connected"
  /\ call' = [op |-> "Read", sock |-> s]
  /\ UNCHANGED <<file, m_Fd, m_State, told, running, failed, stray>>

CanWait(s) == Kind(m_Fd[s]) = "linked" /\ Waiting(s) = 0

(* The wait has lasted as long as the timeout, which is an error.             *)
TimesOut == call' = NULL /\ Failed(call.sock)

ReadStep ==
  /\ running /\ call # NULL /\ call.op = "Read"
  /\ \/ ReadOnce(call.sock, MaxWaiting) /\ call' = NULL
     \/ CanWait(call.sock) /\ file[m_Fd[call.sock]].timed /\ TimesOut
  /\ UNCHANGED <<told, running>>

(* A signal interrupts the wait, which is an error too.                       *)
Interrupt ==
  /\ running /\ call # NULL /\ call.op = "Read" /\ CanWait(call.sock)
  /\ call' = NULL /\ Failed(call.sock)
  /\ UNCHANGED <<told, running>>

-----------------------------------------------------------------------------
(* Write does not look at the state of the object.                            *)
Write(s) ==
  /\ running /\ call = NULL /\ Alive(s)
  /\ \E nBytes \in 1..MaxBytes :
       call' = [op |-> "Write", sock |-> s, resid |-> nBytes,
                nWritten |-> 0, taken |-> 0]
  /\ UNCHANGED <<file, m_Fd, m_State, told, running, failed, stray>>

Returns(n) == call' = NULL /\ told' = [bytes |-> n, taken |-> call.taken]

(* The peer does not read what it has been sent: write(2) does not return.    *)
Blocked(s) == /\ Kind(m_Fd[s]) \in {"linked", "finished"}
              /\ ~file[m_Fd[s]].room

(* Mutant: resid is not reduced by what has been taken.                       *)
WriteTakes_KeepsResid ==
  /\ Kind(m_Fd[call.sock]) \in {"linked", "finished"}
  /\ \E n \in 1..call.resid :
       call' = [call EXCEPT !.nWritten = @ + n, !.taken = @ + n]
  /\ UNCHANGED <<told, file, m_Fd, m_State, failed, stray>>

(* write(2) takes some of the rest, which may leave no room for more; all of  *)
(* it ends the loop.                                                          *)
WriteTakes ==
  /\ Kind(m_Fd[call.sock]) \in {"linked", "finished"}
  /\ \E room \in BOOLEAN : file' = [file EXCEPT ![m_Fd[call.sock]].room = room]
  /\ \E n \in 1..call.resid :
       IF n = call.resid
         THEN call' = NULL
              /\ told' = [bytes |-> call.nWritten + n,
                          taken |-> call.taken + n]
         ELSE call' = [call EXCEPT !.resid = @ - n, !.nWritten = @ + n,
                                   !.taken = @ + n]
              /\ UNCHANGED told
  /\ UNCHANGED <<m_Fd, m_State, failed, stray>>

(* What write(2) can say when it does not take any: EPIPE on a socket that is *)
(* not connected or has been reset, or another error.                         *)
Pipe(s)  == Kind(m_Fd[s]) \in {"fresh", "bound", "listening", "reset"}
Other(s) == Kind(m_Fd[s]) \in {"closed", "linked", "finished", "reset"}

(* Mutant: an error is thrown although a part has been written.               *)
WriteFails_Throws ==
  \/ Pipe(call.sock) /\ Lost(call.sock) /\ Returns(0)
  \/ Other(call.sock) /\ Failed(call.sock) /\ Returns(0)

(* Mutant: a write that fails after a part has been written is tried again.   *)
WriteFails_TriesAgain ==
  \/ /\ call.nWritten > 0
     /\ Pipe(call.sock) \/ Other(call.sock)
     /\ UNCHANGED <<call, told, file, m_Fd, m_State, failed, stray>>
  \/ call.nWritten = 0 /\ WriteFails_Throws

(* After a part has been taken, Write returns how much; else it throws.       *)
WriteFails ==
  \/ /\ call.nWritten > 0
     /\ Pipe(call.sock) \/ Other(call.sock)
     /\ Returns(call.nWritten)
     /\ UNCHANGED <<file, m_Fd, m_State, failed, stray>>
  \/ call.nWritten = 0 /\ Pipe(call.sock) /\ Lost(call.sock) /\ Returns(0)
  \/ call.nWritten = 0 /\ Other(call.sock) /\ Failed(call.sock) /\ Returns(0)

WriteStep ==
  /\ running /\ call # NULL /\ call.op = "Write" /\ ~Blocked(call.sock)
  /\ WriteTakes \/ WriteFails
  /\ UNCHANGED running

(* A signal interrupts a write that waits for its peer.                       *)
InterruptWrite ==
  /\ running /\ call # NULL /\ call.op = "Write" /\ Blocked(call.sock)
  /\ WriteFails
  /\ UNCHANGED running

-----------------------------------------------------------------------------
(* Flush polls the descriptor that the object had when the call began.        *)
Flush(s) ==
  /\ running /\ call = NULL /\ Alive(s)
  /\ call' = [op |-> "Flush", sock |-> s, fd |-> m_Fd[s]]
  /\ UNCHANGED <<file, m_Fd, m_State, told, running, failed, stray>>

(* poll(2) says POLLNVAL of a number that is not open, and that is neither    *)
(* readable nor hung up: the loop goes on.  A negative one is passed over.    *)
PollsForEver == call.fd # NoFd /\ Kind(call.fd) = "closed"

(* There is something to read, an end of file and an error included.          *)
Readable(d) == \/ Kind(d) \in {"finished", "reset"}
               \/ Kind(d) = "linked" /\ file[d].waiting > 0

(* One byte is read; the loop ends where Read throws, and at a hang-up.       *)
FlushReads ==
  /\ Readable(call.fd) /\ m_State[call.sock] = "Connected"
  /\ ReadOnce(call.sock, 1)
  /\ call' = IF m_State'[call.sock] # "Connected" \/ Kind(call.fd) = "reset"
               THEN NULL ELSE call

(* Nothing to read, a hang-up, an error of poll(2), a read that is refused.   *)
FlushEnds ==
  /\ ~PollsForEver
  /\ call' = NULL
  /\ UNCHANGED <<file, m_Fd, m_State, failed, stray>>

FlushStep ==
  /\ running /\ call # NULL /\ call.op = "Flush"
  /\ \/ FlushReads
     \/ /\ ~Readable(call.fd) \/ m_State[call.sock] # "Connected"
        /\ FlushEnds
  /\ UNCHANGED <<told, running>>

-----------------------------------------------------------------------------
(* The peers, at any time: one sends a byte, reads, closes its side, resets.  *)
PeerSends(d) ==
  /\ running /\ file[d].kind = "linked" /\ file[d].waiting < MaxWaiting
  /\ file' = [file EXCEPT ![d].waiting = @ + 1]
  /\ UNCHANGED <<m_Fd, m_State, call, told, running, failed, stray>>

PeerReads(d) ==
  /\ running /\ file[d].kind \in {"linked", "finished"} /\ ~file[d].room
  /\ file' = [file EXCEPT ![d].room = TRUE]
  /\ UNCHANGED <<m_Fd, m_State, call, told, running, failed, stray>>

PeerGoes(d) ==
  /\ running
  /\ \/ file[d].kind = "linked"
        /\ file' = [file EXCEPT ![d].kind = "finished"]
     \/ file[d].kind \in {"linked", "finished"}
        /\ file' = [file EXCEPT ![d].kind = "reset", ![d].room = TRUE]
  /\ UNCHANGED <<m_Fd, m_State, call, told, running, failed, stray>>

Next ==
  \/ \E s \in Sockets :
       \/ Construct(s) \/ Destruct(s) \/ Shutdown(s)
       \/ Connect(s) \/ Bind(s) \/ Listen(s)
       \/ SetRcvTimeout(s) \/ Read(s) \/ Write(s) \/ Flush(s)
       \/ \E t \in Sockets : Accept(s, t)
  \/ ReadStep \/ Interrupt \/ WriteStep \/ InterruptWrite \/ FlushStep
  \/ \E d \in Descriptors : PeerSends(d) \/ PeerReads(d) \/ PeerGoes(d)

(* A call that can go on does.  One that waits for its peer is not such a     *)
(* call, and no peer ever has to do anything.                                 *)
Spec == /\ Init /\ [][Next]_vars
        /\ WF_vars(ReadStep) /\ WF_vars(WriteStep) /\ WF_vars(FlushStep)

-----------------------------------------------------------------------------
(* Every open descriptor is that of exactly one object, and every object that *)
(* has a number has an open descriptor, through every close and reopening.    *)
(* The number 0, which the destructor does not close, may be nobody's; and    *)
(* all is lost once an object has kept the number of one it closed.           *)
DescriptorsOwned ==
  stray \/
    /\ \A d \in Descriptors \ {0} :
         file[d].kind # "closed" => \E s \in Sockets : m_Fd[s] = d
    /\ \A s \in Sockets : m_Fd[s] # NoFd => file[m_Fd[s]].kind # "closed"
    /\ \A s, t \in Sockets : m_Fd[s] = m_Fd[t] /\ m_Fd[s] # NoFd => s = t

(* m_State says what the kernel's socket is, as the enumeration promises: a   *)
(* Disconnected one is connected to nothing.  The exception is an object of   *)
(* which a read or a write failed: it is still connected to its peer, and all *)
(* its methods but Write, Flush and the destructor refuse it.                 *)
StateTrue ==
  stray \/ \A s \in Sockets :
    CASE m_State[s] = "Bound"     -> Kind(m_Fd[s]) = "bound"
      [] m_State[s] = "Listening" -> Kind(m_Fd[s]) = "listening"
      [] m_State[s] = "Connected" ->
           Kind(m_Fd[s]) \in {"linked", "finished", "reset"}
      [] m_State[s] = "Disconnected" ->
           m_Fd[s] = NoFd \/ Kind(m_Fd[s]) = "fresh" \/ s \in failed
      [] OTHER -> m_Fd[s] = NoFd

(* The bytes that Write says it has written are those the kernel has taken,   *)
(* and a Write that throws has written none, whatever failed between two of   *)
(* its calls to write(2): a caller can send the rest again.                   *)
WriteTellsTheTruth == told.bytes = told.taken

(* A call returns, whatever becomes of its connection meanwhile, or it waits  *)
(* for ever for a peer: a Read without a receive timeout for one that sends   *)
(* nothing, a Write for one that does not read.  A Write whose peer reads, or *)
(* goes, ends, and a Flush does if the peer does not keep sending.            *)
Waits ==
  /\ call # NULL
  /\ \/ /\ call.op = "Read" /\ CanWait(call.sock)
        /\ ~file[m_Fd[call.sock]].timed
     \/ call.op = "Write" /\ Blocked(call.sock)
CallsReturn ==
  <>[][\A d \in Descriptors : ~PeerSends(d)]_vars
    => (call # NULL ~> call = NULL \/ []Waits \/ stray \/ ~running)
=============================================================================
