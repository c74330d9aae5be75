---------------------------- MODULE EpicsServer ----------------------------
(* The channel server (src/epicsServer.tcl).  A client connects, sends one    *)
(* line that names channels, and gets one line back, with the value and the   *)
(* units of each, as soon as the server has counted enough updates of all of  *)
(* them or when its request has waited longer than Timeout ticks.             *)
(*                                                                            *)
(* The server is one thread: an event handler runs to its end, except that    *)
(* reading a line waits for the rest of it, and that nothing else is served   *)
(* then.  A handler that links channels or answers several requests is more   *)
(* than one step here, since clients come and go meanwhile; pc is where it    *)
(* is.  An answer can fail, once its client has gone or its socket is closed, *)
(* and what the failure ends depends on who called completeRequest.           *)
EXTENDS Integers, Sequences

CONSTANTS
  Clients,   \* each with the one socket of its connection
  Channels,
  Requests,  \* the lines that name channels, split
  Timeout,   \* ticks a request may wait
  NULL

ASSUME RequestsAssumption == Requests \subseteq Seq(Channels) \ {<<>>}
ASSUME TimeoutAssumption == Timeout \in Nat

(* What is known of a channel, and what a client may be sent.                 *)
Cells   == {"absent", "blank", "data"}
Pair    == [values : Cells, units : Cells]
Replies == [early : BOOLEAN, fields : Seq(Pair)]

ASSUME NullAssumption == NULL \notin Clients /\ NULL \notin Replies

VARIABLES
  peer,     \* what each client has done: "idle", "connected", "partial" (sent
            \* a part of a line), "sent", "gone"
  text,     \* what it has sent, split; <<>> if nothing, or a blank line
  sock,     \* its socket in the server: "none", "listening" (read when
            \* readable), "quiet" (open, but not read any more), "closed"
  pc,       \* "loop", "gets", "monitor", "units" or "dead"
  who, rest,\* the socket readRequest is for; the channels left to monitor
  known,    \* knownChannels; "unknown" if it has no element
  data,     \* values and units: each "absent", "blank" or "data"
  pending,  \* pendingRequests; age is the ticks since startTick
  reply,    \* what has been sent to each client, and whether before its time
  left      \* clients that left before they were answered

request == <<pc, who, rest>>
clients == <<peer, text, left>>
vars    == <<clients, sock, request, known, data, pending, reply>>

Pending == [sock : Clients, age : 0..(Timeout + 1), chans : Requests]

TypeOK ==
  /\ peer \in [Clients -> {"idle", "connected", "partial", "sent", "gone"}]
  /\ text \in [Clients -> Requests \cup {<<>>}]
  /\ sock \in [Clients -> {"none", "listening", "quiet", "closed"}]
  /\ pc \in {"loop", "gets", "monitor", "units", "dead"}
  /\ who \in Clients \cup {NULL} /\ rest \in Seq(Channels)
  /\ pc \in {"gets", "monitor", "units"} <=> who # NULL
  /\ known \in [Channels -> {"unknown", "", "1", "2", "connected"}]
  /\ data \in [Channels -> Pair]
  /\ pending \subseteq Pending
  /\ reply \in [Clients -> Replies \cup {NULL}]
  /\ left \subseteq Clients

Init ==
  /\ peer = [c \in Clients |-> "idle"] /\ text = [c \in Clients |-> <<>>]
  /\ sock = [c \in Clients |-> "none"]
  /\ pc = "loop" /\ who = NULL /\ rest = <<>>
  /\ known = [ch \in Channels |-> "unknown"]
  /\ data = [ch \in Channels |-> [values |-> "absent", units |-> "absent"]]
  /\ pending = {} /\ reply = [c \in Clients |-> NULL] /\ left = {}

-----------------------------------------------------------------------------
(* The clients. *)

Connect(c) ==
  /\ peer[c] = "idle"
  /\ peer' = [peer EXCEPT ![c] = "connected"]
  /\ UNCHANGED <<text, left, sock, request, known, data, pending, reply>>

(* A part of a line, or all of it.  A line may be blank.                      *)
Send(c) ==
  /\ \E r \in Requests \cup {<<>>} :
       /\ text' = [text EXCEPT ![c] = r]
       /\ \/ /\ peer[c] = "connected" /\ r # <<>>
             /\ peer' = [peer EXCEPT ![c] = "partial"]
          \/ /\ peer[c] = "connected" \/ (peer[c] = "partial" /\ r # <<>>)
             /\ peer' = [peer EXCEPT ![c] = "sent"]
  /\ UNCHANGED <<left, sock, request, known, data, pending, reply>>

Leave(c) ==
  /\ peer[c] \notin {"idle", "gone"}
  /\ peer' = [peer EXCEPT ![c] = "gone"]
  /\ left' = IF sock[c] = "closed" THEN left ELSE left \cup {c}
  /\ UNCHANGED <<text, sock, request, known, data, pending, reply>>

-----------------------------------------------------------------------------
(* Answers. *)

Present(pair) == pair.values # "absent" /\ pair.units # "absent"

(* A field of the line: data that is not there is blank.                      *)
Field(pair) ==
  IF Present(pair) THEN pair ELSE [values |-> "blank", units |-> "blank"]

(* The requests of pend that satisfyRequests completes.                       *)
Satisfied(pend, kn, dt) ==
  {r \in pend : \A i \in DOMAIN r.chans :
                  Present(dt[r.chans[i]]) /\ kn[r.chans[i]] = "connected"}

(* Mutant: completeRequest leaves the request in pendingRequests.             *)
Without_KeepsRequest(pend, answered) == pend

Without(pend, answered) == pend \ answered

(* completeRequest of all the requests that are due, among those pending, in  *)
(* the order of array names, which is any.  ok: each could be sent.  If not,  *)
(* the first failure is an error, which ends the loop; the failed request has *)
(* been taken from pendingRequests, and its socket stays open.  What is sent  *)
(* to a client that has gone may seem to succeed.  closing: sockets the       *)
(* caller closes besides.                                                     *)
Complete(pend, dt, due, early, ok, closing) ==
  \E done \in SUBSET due :
    /\ \A r \in done : sock[r.sock] # "closed"
    /\ \/ ok /\ done = due /\ pending' = Without(pend, due)
       \/ ~ok /\ \E r \in due \ done :
                   /\ sock[r.sock] = "closed" \/ peer[r.sock] = "gone"
                   /\ pending' = Without(pend, done \cup {r})
    /\ sock' = [c \in Clients |->
                  IF c \in closing \cup {r.sock : r \in done} THEN "closed"
                  ELSE sock[c]]
    /\ reply' = [c \in Clients |->
                   IF c \notin {r.sock : r \in done} THEN reply[c]
                   ELSE LET r == CHOOSE r \in done : r.sock = c
                        IN  [early |-> early,
                             fields |-> [i \in DOMAIN r.chans |->
                                           Field(dt[r.chans[i]])]]]

-----------------------------------------------------------------------------
(* Channels. *)

(* Mutant: one update is enough, the one that linking makes included.         *)
Count_AtOnce(k) == "connected"

(* How epicsUpdate counts: linking has caused one of the updates itself.      *)
Count(k) == IF k = "" THEN "1" ELSE IF k = "1" THEN "2" ELSE "connected"

(* A value or units are written, kn being knownChannels: the trace counts the *)
(* update and tries the pending requests.  The error of a reply that fails    *)
(* goes to the command that writes the variable, which ignores it.            *)
EpicsUpdate(kn, ch, part, cell) ==
  /\ data' = [data EXCEPT ![ch][part] = cell]
  /\ known' = [kn EXCEPT ![ch] = IF Present(data'[ch]) THEN Count(@) ELSE @]
  /\ \E ok \in BOOLEAN :
       Complete(pending, data', Satisfied(pending, known', data'), TRUE, ok,
                {})

(* A change of a linked channel is served: of its value, or its units.        *)
ChannelChanges(ch) ==
  /\ pc = "loop" /\ Present(data[ch])
  /\ \E part \in {"values", "units"} : EpicsUpdate(known, ch, part, "data")
  /\ UNCHANGED <<clients, request>>

-----------------------------------------------------------------------------
(* Connections and requests. *)

(* processConnection. *)
ProcessConnection(c) ==
  /\ pc = "loop" /\ peer[c] # "idle" /\ sock[c] = "none"
  /\ sock' = [sock EXCEPT ![c] = "listening"]
  /\ UNCHANGED <<clients, request, known, data, pending, reply>>

(* Mutant: the socket of a client that did not ask is not closed.             *)
GotLine_KeepsBlank(c) ==
  /\ sock' = [sock EXCEPT ![c] = "quiet"]
  /\ \/ text[c] = <<>> /\ pc' = "loop" /\ who' = NULL /\ rest' = <<>>
     \/ text[c] # <<>> /\ pc' = "monitor" /\ who' = c /\ rest' = text[c]

(* readRequest has its line.  Nothing in it: the client did not ask.          *)
GotLine(c) ==
  \/ /\ text[c] = <<>>
     /\ sock' = [sock EXCEPT ![c] = "closed"]
     /\ pc' = "loop" /\ who' = NULL /\ rest' = <<>>
  \/ /\ text[c] # <<>>
     /\ sock' = [sock EXCEPT ![c] = "quiet"]
     /\ pc' = "monitor" /\ who' = c /\ rest' = text[c]

(* A socket is readable: readRequest starts.  A line that is not complete is  *)
(* waited for.  A client that has gone can be an error of gets, on which the  *)
(* event handler is deleted and the socket stays as it is.                    *)
ReadRequest(c) ==
  /\ pc = "loop" /\ sock[c] = "listening"
  /\ \/ /\ peer[c] = "partial"
        /\ pc' = "gets" /\ who' = c
        /\ UNCHANGED <<sock, rest>>
     \/ peer[c] \in {"sent", "gone"} /\ GotLine(c)
     \/ /\ peer[c] = "gone"
        /\ sock' = [sock EXCEPT ![c] = "quiet"]
        /\ UNCHANGED request
  /\ UNCHANGED <<clients, known, data, pending, reply>>

GetRest ==
  /\ pc = "gets" /\ peer[who] \in {"sent", "gone"}
  /\ GotLine(who)
  /\ UNCHANGED <<clients, known, data, pending, reply>>

(* monitorChannels: a channel that is known is passed over, ...               *)
PassOver ==
  /\ pc = "monitor" /\ rest # <<>> /\ known[Head(rest)] # "unknown"
  /\ rest' = Tail(rest)
  /\ UNCHANGED <<clients, sock, pc, who, known, data, pending, reply>>

(* ... another is created, and its value linked, ...                          *)
LinkValues ==
  /\ pc = "monitor" /\ rest # <<>> /\ known[Head(rest)] = "unknown"
  /\ \E cell \in {"blank", "data"} :
       EpicsUpdate([known EXCEPT ![Head(rest)] = ""], Head(rest), "values",
                   cell)
  /\ pc' = "units"
  /\ UNCHANGED <<clients, who, rest>>

(* ... and then its units.                                                    *)
LinkUnits ==
  /\ pc = "units"
  /\ \E cell \in {"blank", "data"} :
       EpicsUpdate(known, Head(rest), "units", cell)
  /\ pc' = "monitor" /\ rest' = Tail(rest)
  /\ UNCHANGED <<clients, who>>

(* The request is queued, and all that can be satisfied are.  On an error,    *)
(* whoever's reply failed, it is this request's socket that is closed.        *)
QueueRequest ==
  /\ pc = "monitor" /\ rest = <<>>
  /\ LET pend == pending \cup {[sock |-> who, age |-> 0, chans |-> text[who]]}
     IN  \E ok \in BOOLEAN :
           Complete(pend, data, Satisfied(pend, known, data), TRUE, ok,
                    IF ok THEN {} ELSE {who})
  /\ pc' = "loop" /\ who' = NULL
  /\ UNCHANGED <<clients, rest, known, data>>

-----------------------------------------------------------------------------
(* Time. *)

(* Mutant: the oldest request of all is never given up.                       *)
Expired_ButOne(pend) ==
  {r \in pend : r.age > Timeout /\ \E q \in pend : q # r /\ q.age >= r.age}

(* The requests among pend that processTimeouts completes.                    *)
Expired(pend) == {r \in pend : r.age > Timeout}

(* The ticker ticks, vwait returns and processTimeouts runs.  Nothing catches *)
(* the error of a reply that fails: it ends the main loop and the server.     *)
Tick ==
  /\ pc = "loop"
  /\ LET aged == {[r EXCEPT !.age = @ + 1] : r \in pending}
     IN  \E ok \in BOOLEAN :
           /\ Complete(aged, data, Expired(aged), FALSE, ok, {})
           /\ pc' = IF ok THEN "loop" ELSE "dead"
  /\ UNCHANGED <<clients, who, rest, known, data>>

-----------------------------------------------------------------------------
ClientStep(c) == Connect(c) \/ Send(c) \/ Leave(c)
Request == GetRest \/ PassOver \/ LinkValues \/ LinkUnits \/ QueueRequest

Next ==
  \/ \E c \in Clients : ClientStep(c) \/ ProcessConnection(c) \/ ReadRequest(c)
  \/ \E ch \in Channels : ChannelChanges(ch)
  \/ Request
  \/ Tick

(* Tcl's event loop serves timers and files in turn, and a handler that has   *)
(* started goes on.  Nothing is assumed of the clients, who may leave a line  *)
(* unfinished, nor of the channels.                                           *)
Fairness ==
  /\ WF_vars(Request)
  /\ WF_vars(Tick /\ vars' # vars)
  /\ \A c \in Clients : WF_vars(ProcessConnection(c)) /\ WF_vars(ReadRequest(c))

Spec == Init /\ [][Next]_vars /\ Fairness

-----------------------------------------------------------------------------
(* While no client has left before it was answered, the server runs, the      *)
(* socket of every pending request is open, and only that of a request that   *)
(* has been answered is closed: no request is completed twice, and none pays  *)
(* for what another client did.                                               *)
PatientClientsServed ==
  left = {} => /\ pc # "dead"
               /\ \A r \in pending : sock[r.sock] = "quiet"
               /\ \A c \in Clients :
                    sock[c] = "closed" => text[c] = <<>> \/ reply[c] # NULL

(* A socket that is not read any more is open only while its request is being *)
(* read or is pending, or if its client has left: sockets are not lost.       *)
NoSocketLost ==
  \A c \in Clients :
    sock[c] = "quiet" =>
      c \in left \cup {who} \cup {r.sock : r \in pending}

(* What is sent before a request's time has a value or units of each of its   *)
(* channels: a channel is not taken for connected by the two writes that      *)
(* linking makes.  (Both need not be there: two updates of the value count as *)
(* much as one of each.)                                                      *)
EarlyAnswersHaveData ==
  \A c \in Clients :
    reply[c] # NULL /\ reply[c].early =>
      \A i \in DOMAIN reply[c].fields :
        "data" \in {reply[c].fields[i].values, reply[c].fields[i].units}

(* No request waits longer than the timeout, whoever else's time is up.       *)
NoRequestOverdue == pc # "dead" => \A r \in pending : r.age <= Timeout

(* If the server never waits for good for the end of a client's line, every   *)
(* line that has been sent is dealt with: its socket is closed, unless the    *)
(* client leaves or the server dies.                                          *)
RequestsAnswered ==
  []<>(pc # "gets") =>
    \A c \in Clients :
      peer[c] = "sent" ~> sock[c] = "closed" \/ c \in left \/ pc = "dead"
=============================================================================
