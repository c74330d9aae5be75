------------------------- MODULE EpicsServer_proofs -------------------------
(* Proofs about the channel server, for any number of clients and channels,   *)
(* any requests and any timeout.                                              *)
EXTENDS EpicsServer, TLAPS

SockStates == {"none", "listening", "quiet", "closed"}
Counts     == {"unknown", "", "1", "2", "connected"}

-----------------------------------------------------------------------------
(* What a reply is, and what completeRequest leaves.                          *)

Answer(r, dt, early) ==
  [early |-> early, fields |-> [i \in DOMAIN r.chans |-> Field(dt[r.chans[i]])]]

LEMMA RequestIs ==
  ASSUME NEW r \in Requests
  PROVE  /\ r \in Seq(Channels) /\ r # <<>> /\ Len(r) \in Nat
         /\ DOMAIN r = 1..Len(r)
         /\ \A i \in DOMAIN r : r[i] \in Channels
BY RequestsAssumption

LEMMA HeadTail ==
  ASSUME NEW s \in Seq(Channels), s # <<>>
  PROVE  Head(s) \in Channels /\ Tail(s) \in Seq(Channels)
<1>1. Len(s) \in Nat /\ Len(s) # 0 /\ s \in [1..Len(s) -> Channels]
  OBVIOUS
<1>2. 1 \in 1..Len(s) /\ Head(s) = s[1]
  BY <1>1
<1> QED
  BY <1>1, <1>2

LEMMA FieldIsPair ==
  ASSUME NEW pair \in Pair
  PROVE  Field(pair) \in Pair /\ (Present(pair) => Field(pair) = pair)
BY DEF Field, Pair, Cells

LEMMA AnswerIsReply ==
  ASSUME NEW r \in Pending, NEW dt \in [Channels -> Pair], NEW early \in BOOLEAN
  PROVE  Answer(r, dt, early) \in Replies
<1> DEFINE fs == [i \in DOMAIN r.chans |-> Field(dt[r.chans[i]])]
<1>1. r.chans \in Requests
  BY DEF Pending
<1>2. fs \in [1..Len(r.chans) -> Pair] /\ Len(r.chans) \in Nat
  BY <1>1, RequestIs, FieldIsPair
<1>3. fs \in Seq(Pair)
  BY <1>2
<1> QED
  BY <1>3 DEF Answer, Replies
-----------------------------------------------------------------------------
(* The inductive invariant.                                                   *)

None == [values |-> "absent", units |-> "absent"]

HasData(pair) == "data" \in {pair.values, pair.units}

(* A channel that nobody has asked for has nothing, and one that has been     *)
(* counted twice, or is connected, has been changed since it was linked.      *)
Counted(kn, dt) ==
  \A ch \in Channels : /\ kn[ch] = "unknown" => dt[ch] = None
                       /\ kn[ch] \in {"2", "connected"} => HasData(dt[ch])

(* The channel whose units are to be linked has not been counted.             *)
Linking == pc = "units" => rest # <<>> /\ known[Head(rest)] = ""

(* The requests of pend are of different clients, who have sent their lines.  *)
Queued(pend) ==
  /\ \A r \in pend : sock[r.sock] \in {"quiet", "closed"}
  /\ \A r, q \in pend : r.sock = q.sock => r = q

(* The request being read is not pending yet.                                 *)
Reading ==
  /\ pc = "gets" => sock[who] = "listening"
  /\ pc \in {"monitor", "units"} => /\ sock[who] = "quiet"
                                    /\ text[who] # <<>>
                                    /\ \A r \in pending : r.sock # who

(* A socket is not read any more only if its client has sent all it will, and *)
(* a client that has gone without an answer is known to have left.            *)
Clientele ==
  /\ \A c \in Clients : sock[c] \in {"quiet", "closed"} =>
                          peer[c] \in {"sent", "gone"}
  /\ \A c \in Clients : peer[c] = "gone" => c \in left \/ sock[c] = "closed"

(* NoSocketLost, with whom a handler is concerned with, and what is pending.  *)
Kept(whom, pend) ==
  \A c \in Clients : sock[c] = "quiet" =>
                       c \in left \/ c \in whom \/ \E r \in pend : r.sock = c

(* PatientClientsServed, but for the server's death.                          *)
Served(pend) ==
  left = {} => /\ \A r \in pend : sock[r.sock] = "quiet"
               /\ \A c \in Clients :
                    sock[c] = "closed" => text[c] = <<>> \/ reply[c] # NULL

Alive == left = {} => pc # "dead"

IInv ==
  /\ TypeOK
  /\ Counted(known, data)
  /\ Linking
  /\ Queued(pending)
  /\ Reading
  /\ Clientele
  /\ Kept({who}, pending)
  /\ Served(pending)
  /\ Alive
  /\ NoRequestOverdue
  /\ EarlyAnswersHaveData

-----------------------------------------------------------------------------
(* What holds when requests among pend have been answered.                    *)
Settled(pend, due, ok, closing, whom) ==
  /\ pending' \in SUBSET pend
  /\ ok => pending' = pend \ due
  /\ left = {} => ok
  /\ sock' \in [Clients -> SockStates]
  /\ reply' \in [Clients -> Replies \cup {NULL}]
  /\ \A c \in Clients :
       c \notin closing /\ (\A r \in pend : r.sock # c) => sock'[c] = sock[c]
  /\ Queued(pending)'
  /\ Clientele'
  /\ \A c \in Clients : sock'[c] = "quiet" =>
       c \in left \/ c \in whom \/ \E r \in pending' : r.sock = c
  /\ Served(pending)'
  /\ EarlyAnswersHaveData'

(* Answering requests that are due keeps what is said of those that are       *)
(* pending, and if no client has left, no answer fails.                       *)
LEMMA CompleteKeeps ==
  ASSUME TypeOK, Clientele, EarlyAnswersHaveData, UNCHANGED clients,
         NEW pend \in SUBSET Pending, NEW dt \in [Channels -> Pair],
         NEW due \in SUBSET pend, NEW early \in BOOLEAN, NEW ok \in BOOLEAN,
         NEW closing \in SUBSET Clients, NEW whom,
         Complete(pend, dt, due, early, ok, closing),
         Queued(pend), Kept(whom, pend), Served(pend),
         closing # {} => ~ok,
         \A c \in closing : peer[c] \in {"sent", "gone"},
         early => \A r \in due : \A i \in DOMAIN r.chans :
                    Present(dt[r.chans[i]]) /\ HasData(dt[r.chans[i]])
  PROVE  Settled(pend, due, ok, closing, whom)
<1>1. /\ sock \in [Clients -> SockStates]
      /\ reply \in [Clients -> Replies \cup {NULL}]
  BY DEF TypeOK, SockStates
<1>2. /\ pending' \in SUBSET pend
      /\ sock' \in [Clients -> SockStates]
      /\ reply' \in [Clients -> Replies \cup {NULL}]
      /\ \A c \in Clients : sock'[c] \in {sock[c], "closed"}
      /\ \A c \in closing : sock'[c] = "closed"
      /\ \A c \in Clients :
           \/ reply'[c] = reply[c]
           \/ \E r \in due : r.sock = c /\ reply'[c] = Answer(r, dt, early)
      /\ \A c \in Clients :
           sock'[c] = "closed" /\ sock[c] # "closed" =>
             \/ c \in closing
             \/ \E r \in due : r.sock = c /\ reply'[c] \in Replies
      /\ \A r \in pend : \/ r \in pending' \/ sock'[r.sock] = "closed"
                         \/ peer[r.sock] = "gone"
      /\ ~ok => \E r \in due : sock[r.sock] = "closed" \/ peer[r.sock] = "gone"
      /\ ok => pending' = pend \ due
  <2>1. PICK done \in SUBSET due :
          /\ \/ ok /\ done = due /\ pending' = Without(pend, due)
             \/ ~ok /\ \E r \in due \ done :
                         /\ sock[r.sock] = "closed" \/ peer[r.sock] = "gone"
                         /\ pending' = Without(pend, done \cup {r})
          /\ sock' = [c \in Clients |->
                        IF c \in closing \cup {r.sock : r \in done}
                        THEN "closed"
                        ELSE sock[c]]
          /\ reply' = [c \in Clients |->
                         IF c \notin {r.sock : r \in done} THEN reply[c]
                         ELSE LET r == CHOOSE r \in done : r.sock = c
                              IN  [early |-> early,
                                   fields |-> [i \in DOMAIN r.chans |->
                                                 Field(dt[r.chans[i]])]]]
    BY DEF Complete
  <2>2. \A r \in pend : r \in Pending /\ r.sock \in Clients
    BY DEF Pending
  <2>3. ASSUME NEW c \in Clients, c \in {r.sock : r \in done}
        PROVE  \E r \in done : r.sock = c /\ reply'[c] = Answer(r, dt, early)
    <3> DEFINE r == CHOOSE r \in done : r.sock = c
    <3>1. r \in done /\ r.sock = c
      BY <2>3
    <3>2. reply'[c] = Answer(r, dt, early)
      BY <2>1, <2>3 DEF Answer
    <3> QED
      BY <3>1, <3>2
  <2>4. \A c \in Clients :
          c \notin {r.sock : r \in done} => reply'[c] = reply[c]
    BY <2>1
  <2>5. \A r \in done : Answer(r, dt, early) \in Replies
    BY <2>2, AnswerIsReply
  <2>6. reply' \in [Clients -> Replies \cup {NULL}]
    <3>1. \A c \in Clients : reply'[c] \in Replies \cup {NULL}
      BY <1>1, <2>3, <2>4, <2>5
    <3>2. reply' = [c \in Clients |-> reply'[c]]
      <4> DEFINE e(c) == IF c \notin {r.sock : r \in done} THEN reply[c]
                         ELSE LET r == CHOOSE r \in done : r.sock = c
                              IN  [early |-> early,
                                   fields |-> [i \in DOMAIN r.chans |->
                                                 Field(dt[r.chans[i]])]]
      <4>1. reply' = [c \in Clients |-> e(c)]
        BY <2>1
      <4> HIDE DEF e
      <4> QED
        BY <4>1
    <3> QED
      BY <3>1, <3>2
  <2>7. \A c \in Clients :
          sock'[c] = IF c \in closing \cup {r.sock : r \in done} THEN "closed"
                     ELSE sock[c]
    BY <2>1
  <2>8. sock' \in [Clients -> SockStates]
    BY <1>1, <2>1 DEF SockStates
  <2>9. pending' \in SUBSET pend
    BY <2>1 DEF Without
  <2>10. \A r \in pend : \/ r \in pending' \/ sock'[r.sock] = "closed"
                         \/ peer[r.sock] = "gone"
    BY <2>1, <2>2, <2>7 DEF Without
  <2>11. \A c \in Clients :
           \/ reply'[c] = reply[c]
           \/ \E r \in due : r.sock = c /\ reply'[c] = Answer(r, dt, early)
    BY <2>3, <2>4
  <2>12. \A c \in Clients :
           sock'[c] = "closed" /\ sock[c] # "closed" =>
             \/ c \in closing
             \/ \E r \in due : r.sock = c /\ reply'[c] \in Replies
    BY <2>3, <2>5, <2>7
  <2>13. /\ ~ok => \E r \in due :
                     sock[r.sock] = "closed" \/ peer[r.sock] = "gone"
         /\ ok => pending' = pend \ due
    BY <2>1 DEF Without
  <2> QED
    BY <2>6, <2>7, <2>8, <2>9, <2>10, <2>11, <2>12, <2>13
<1>3. peer' = peer /\ text' = text /\ left' = left
  BY DEF clients
<1>4. \A r \in pend :
        r.sock \in Clients /\ r.chans \in Requests /\ r \in Pending
  BY DEF Pending
<1>5. \A r \in due : Answer(r, dt, early) \in Replies
  BY <1>4, AnswerIsReply
<1>6. NULL \notin Replies
  BY NullAssumption
<1>7. Queued(pending)'
  BY <1>2, <1>4 DEF Queued
<1>8. Clientele'
  BY <1>2, <1>3, <1>4 DEF Clientele, Queued
<1>9. left = {} => ok
  BY <1>2, <1>4 DEF Clientele, Served
<1>10. \A c \in Clients : sock'[c] = "quiet" =>
         c \in left \/ c \in whom \/ \E r \in pending' : r.sock = c
  BY <1>2, <1>4 DEF Kept, Clientele
<1>11. Served(pending)'
  <2> SUFFICES ASSUME left = {}
               PROVE  /\ \A r \in pending' : sock'[r.sock] = "quiet"
                      /\ \A c \in Clients :
                           sock'[c] = "closed" =>
                             text[c] = <<>> \/ reply'[c] # NULL
    BY <1>3 DEF Served
  <2>1. ok /\ pending' = pend \ due /\ closing = {}
    BY <1>2, <1>9
  <2>2. ASSUME NEW r \in pending'
        PROVE  sock'[r.sock] = "quiet"
    BY <1>2, <1>4, <2>1 DEF Served, Queued
  <2>3. ASSUME NEW c \in Clients, sock'[c] = "closed"
        PROVE  text[c] = <<>> \/ reply'[c] # NULL
    <3>1. CASE sock[c] = "closed"
      BY <1>2, <1>5, <1>6, <3>1 DEF Served
    <3>2. CASE sock[c] # "closed"
      BY <1>2, <1>6, <2>1, <2>3, <3>2
    <3> QED
      BY <3>1, <3>2
  <2> QED
    BY <2>2, <2>3
<1>12. EarlyAnswersHaveData'
  <2> SUFFICES ASSUME NEW c \in Clients, reply'[c] # NULL, reply'[c].early
               PROVE  \A i \in DOMAIN reply'[c].fields :
                        "data" \in {reply'[c].fields[i].values,
                                    reply'[c].fields[i].units}
    BY DEF EarlyAnswersHaveData
  <2>1. CASE reply'[c] = reply[c]
    BY <2>1 DEF EarlyAnswersHaveData
  <2>2. ASSUME NEW r \in due, reply'[c] = Answer(r, dt, early)
        PROVE  \A i \in DOMAIN reply'[c].fields :
                 "data" \in {reply'[c].fields[i].values,
                             reply'[c].fields[i].units}
    <3>1. /\ reply'[c].early = early
          /\ DOMAIN reply'[c].fields = DOMAIN r.chans
          /\ \A i \in DOMAIN r.chans :
               reply'[c].fields[i] = Field(dt[r.chans[i]])
      BY <2>2 DEF Answer
    <3>2. ASSUME NEW i \in DOMAIN r.chans
          PROVE  /\ Field(dt[r.chans[i]]) = dt[r.chans[i]]
                 /\ HasData(dt[r.chans[i]])
      <4>1. r.chans[i] \in Channels
        BY <1>4, RequestIs
      <4>2. Present(dt[r.chans[i]]) /\ HasData(dt[r.chans[i]])
        BY <3>1
      <4> QED
        BY <4>1, <4>2, FieldIsPair
    <3> QED
      BY <3>1, <3>2 DEF HasData
  <2> QED
    BY <1>2, <2>1, <2>2
<1>13. \A c \in Clients :
         c \notin closing /\ (\A r \in pend : r.sock # c) => sock'[c] = sock[c]
  BY <1>2
<1> QED
  BY <1>2, <1>7, <1>8, <1>9, <1>10, <1>11, <1>12, <1>13
     DEF Settled

(* An update of a channel settles the requests it satisfies.                  *)
LEMMA UpdateKeeps ==
  ASSUME IInv, UNCHANGED clients,
         NEW kn \in [Channels -> Counts], NEW ch \in Channels,
         NEW part \in {"values", "units"}, NEW cell \in {"blank", "data"},
         EpicsUpdate(kn, ch, part, cell),
         kn[ch] # "unknown", NEW whom, whom = {who},
         \A d \in Channels \ {ch} : kn[d] = known[d],
         Present(data[ch]) \/ part = "units" => kn[ch] # "unknown",
         kn[ch] \in {"1", "2", "connected"} => cell = "data",
         kn[ch] \in {"2", "connected"} => HasData(data[ch])
  PROVE  /\ data' \in [Channels -> Pair]
         /\ known' \in [Channels -> Counts]
         /\ \A d \in Channels \ {ch} : known'[d] = known[d]
         /\ ~Present(data'[ch]) => known'[ch] = kn[ch]
         /\ part = "values" => data'[ch].units = data[ch].units
         /\ Counted(known', data')
         /\ \E due, ok : Settled(pending, due, ok, {}, whom)
<1>1. /\ data \in [Channels -> Pair] /\ pending \in SUBSET Pending
      /\ TypeOK /\ Clientele /\ EarlyAnswersHaveData
      /\ Queued(pending) /\ Kept({who}, pending) /\ Served(pending)
      /\ Counted(known, data)
  BY DEF IInv, TypeOK
<1>2. data' = [data EXCEPT ![ch][part] = cell]
  BY DEF EpicsUpdate
<1>3. /\ data' \in [Channels -> Pair]
      /\ \A d \in Channels \ {ch} : data'[d] = data[d]
      /\ data'[ch][part] = cell
      /\ \A p \in {"values", "units"} : p # part => data'[ch][p] = data[ch][p]
  BY <1>1, <1>2 DEF Pair, Cells
<1>4. /\ known' \in [Channels -> Counts]
      /\ \A d \in Channels \ {ch} : known'[d] = kn[d]
      /\ known'[ch] = IF Present(data'[ch]) THEN Count(kn[ch]) ELSE kn[ch]
  BY DEF EpicsUpdate, Counts, Count
<1>5. Counted(known', data')
  <2> SUFFICES ASSUME NEW d \in Channels
               PROVE  /\ known'[d] = "unknown" => data'[d] = None
                      /\ known'[d] \in {"2", "connected"} => HasData(data'[d])
    BY DEF Counted
  <2>1. CASE d # ch
    BY <1>1, <1>3, <1>4, <2>1 DEF Counted
  <2>2. CASE d = ch
    <3>1. known'[ch] # "unknown"
      BY <1>4 DEF Count
    <3>2. ASSUME known'[ch] \in {"2", "connected"}
          PROVE  HasData(data'[ch])
      <4>1. kn[ch] \in {"1", "2", "connected"}
        BY <1>4, <3>2 DEF Count, Counts
      <4> QED
        BY <1>3, <4>1 DEF HasData
    <3> QED
      BY <2>2, <3>1, <3>2
  <2> QED
    BY <2>1, <2>2
<1>6. PICK dt, k2, due, pend, early, closing :
        /\ dt = data' /\ k2 = known' /\ pend = pending
        /\ due = Satisfied(pend, k2, dt) /\ early = TRUE /\ closing = {}
  OBVIOUS
<1>7. PICK ok \in BOOLEAN : Complete(pend, dt, due, early, ok, closing)
  BY <1>6 DEF EpicsUpdate
<1>8. /\ pend \in SUBSET Pending /\ dt \in [Channels -> Pair]
      /\ due \in SUBSET pend
      /\ early \in BOOLEAN /\ closing \in SUBSET Clients
      /\ Queued(pend) /\ Served(pend) /\ Kept(whom, pend)
      /\ closing # {} => ~ok
      /\ \A c \in closing : peer[c] \in {"sent", "gone"}
  BY <1>1, <1>3, <1>6 DEF Satisfied
<1>9. early => \A r \in due : \A i \in DOMAIN r.chans :
                 Present(dt[r.chans[i]]) /\ HasData(dt[r.chans[i]])
  <2> SUFFICES ASSUME NEW r \in due, NEW i \in DOMAIN r.chans
               PROVE  Present(dt[r.chans[i]]) /\ HasData(dt[r.chans[i]])
    OBVIOUS
  <2>1. Present(dt[r.chans[i]]) /\ k2[r.chans[i]] = "connected"
    BY <1>6 DEF Satisfied
  <2>2. r.chans[i] \in Channels
    BY <1>8, RequestIs DEF Pending
  <2> QED
    BY <1>5, <1>6, <2>1, <2>2 DEF Counted
<1>10. Settled(pend, due, ok, closing, whom)
  BY <1>1, <1>7, <1>8, <1>9, CompleteKeeps
<1> QED
  BY <1>2, <1>3, <1>4, <1>5, <1>6, <1>10

-----------------------------------------------------------------------------
(* The steps in which no request is answered.                                 *)

LEMMA ConnectKeeps ==
  ASSUME IInv, NEW c \in Clients, Connect(c)
  PROVE  IInv'
<1>1. /\ peer[c] = "idle" /\ peer' = [peer EXCEPT ![c] = "connected"]
      /\ UNCHANGED <<text, left, sock, pc, who, rest, known, data, pending,
                     reply>>
  BY DEF Connect, request
<1>2. TypeOK'
  BY <1>1 DEF IInv, TypeOK
<1>3. Clientele'
  BY <1>1 DEF IInv, TypeOK, Clientele
<1>4. /\ Counted(known, data)' /\ Linking' /\ Queued(pending)' /\ Reading'
      /\ Kept({who}, pending)' /\ Served(pending)' /\ Alive'
      /\ NoRequestOverdue' /\ EarlyAnswersHaveData'
  BY <1>1 DEF IInv, Counted, Linking, Queued, Reading, Kept, Served, Alive,
              NoRequestOverdue, EarlyAnswersHaveData
<1> QED
  BY <1>2, <1>3, <1>4 DEF IInv

LEMMA SendKeeps ==
  ASSUME IInv, NEW c \in Clients, Send(c)
  PROVE  IInv'
<1>1. PICK r \in Requests \cup {<<>>} :
        /\ text' = [text EXCEPT ![c] = r]
        /\ \/ /\ peer[c] = "connected" /\ r # <<>>
              /\ peer' = [peer EXCEPT ![c] = "partial"]
           \/ /\ peer[c] = "connected" \/ (peer[c] = "partial" /\ r # <<>>)
              /\ peer' = [peer EXCEPT ![c] = "sent"]
        /\ UNCHANGED <<left, sock, pc, who, rest, known, data, pending, reply>>
  BY DEF Send, request
<1>2. TypeOK'
  BY <1>1 DEF IInv, TypeOK
<1>3. sock[c] \notin {"quiet", "closed"}
  BY <1>1 DEF IInv, Clientele
<1>4. Clientele'
  BY <1>1, <1>3 DEF IInv, TypeOK, Clientele
<1>5. \A d \in Clients : d # c => text'[d] = text[d]
  BY <1>1 DEF IInv, TypeOK
<1>6. Reading' /\ Served(pending)'
  BY <1>1, <1>3, <1>5 DEF IInv, TypeOK, Reading, Served
<1>7. /\ Counted(known, data)' /\ Linking' /\ Queued(pending)'
      /\ Kept({who}, pending)' /\ Alive'
      /\ NoRequestOverdue' /\ EarlyAnswersHaveData'
  BY <1>1 DEF IInv, Counted, Linking, Queued, Kept, Alive,
              NoRequestOverdue, EarlyAnswersHaveData
<1> QED
  BY <1>2, <1>4, <1>6, <1>7 DEF IInv

LEMMA LeaveKeeps ==
  ASSUME IInv, NEW c \in Clients, Leave(c)
  PROVE  IInv'
<1>1. /\ peer' = [peer EXCEPT ![c] = "gone"]
      /\ left' = IF sock[c] = "closed" THEN left ELSE left \cup {c}
      /\ UNCHANGED <<text, sock, pc, who, rest, known, data, pending, reply>>
  BY DEF Leave, request
<1>2. TypeOK'
  BY <1>1 DEF IInv, TypeOK
<1>3. Clientele'
  BY <1>1 DEF IInv, TypeOK, Clientele
<1>4. Kept({who}, pending)' /\ Served(pending)' /\ Alive'
  BY <1>1 DEF IInv, Kept, Served, Alive
<1>5. /\ Counted(known, data)' /\ Linking' /\ Queued(pending)' /\ Reading'
      /\ NoRequestOverdue' /\ EarlyAnswersHaveData'
  BY <1>1 DEF IInv, Counted, Linking, Queued, Reading,
              NoRequestOverdue, EarlyAnswersHaveData
<1> QED
  BY <1>2, <1>3, <1>4, <1>5 DEF IInv

(* A socket that was not read before starts to be read, or its line has been. *)
LEMMA SocketKeeps ==
  ASSUME IInv, NEW c \in Clients, NEW s \in SockStates,
         sock' = [sock EXCEPT ![c] = s], sock[c] \in {"none", "listening"},
         UNCHANGED <<clients, known, data, pending, reply>>,
         s \in {"quiet", "closed"} => peer[c] \in {"sent", "gone"},
         s = "closed" => text[c] = <<>>
  PROVE  /\ sock' \in [Clients -> SockStates]
         /\ Counted(known, data)' /\ Queued(pending)' /\ Clientele'
         /\ Served(pending)' /\ EarlyAnswersHaveData'
         /\ \A r \in pending : r.sock # c
         /\ sock'[c] = s /\ \A d \in Clients : d # c => sock'[d] = sock[d]
<1>1. /\ sock \in [Clients -> SockStates] /\ pending \subseteq Pending
      /\ UNCHANGED <<peer, text, left>>
  BY DEF IInv, TypeOK, SockStates, clients
<1>2. /\ sock'[c] = s /\ \A d \in Clients : d # c => sock'[d] = sock[d]
      /\ sock' \in [Clients -> SockStates]
  BY <1>1
<1>3. \A r \in pending : r.sock # c /\ r.sock \in Clients
  BY <1>1 DEF IInv, Queued, Pending
<1>4. Queued(pending)' /\ Served(pending)'
  BY <1>1, <1>2, <1>3 DEF IInv, Queued, Served
<1>5. Clientele'
  BY <1>1, <1>2 DEF IInv, Clientele
<1>6. Counted(known, data)' /\ EarlyAnswersHaveData'
  BY DEF IInv, Counted, EarlyAnswersHaveData
<1> QED
  BY <1>2, <1>3, <1>4, <1>5, <1>6

LEMMA ProcessConnectionKeeps ==
  ASSUME IInv, NEW c \in Clients, ProcessConnection(c)
  PROVE  IInv'
<1>1. /\ pc = "loop" /\ sock[c] = "none"
      /\ sock' = [sock EXCEPT ![c] = "listening"]
      /\ UNCHANGED <<clients, known, data, pending, reply>>
      /\ UNCHANGED <<peer, text, left, pc, who, rest>>
  BY DEF ProcessConnection, clients, request
<1>2. /\ sock' \in [Clients -> SockStates]
      /\ Counted(known, data)' /\ Queued(pending)' /\ Clientele'
      /\ Served(pending)' /\ EarlyAnswersHaveData'
      /\ \A r \in pending : r.sock # c
      /\ sock'[c] = "listening"
      /\ \A d \in Clients : d # c => sock'[d] = sock[d]
  BY <1>1, SocketKeeps DEF SockStates
<1>3. TypeOK'
  BY <1>1, <1>2 DEF IInv, TypeOK, SockStates
<1>4. Linking' /\ Reading' /\ Alive' /\ NoRequestOverdue'
  BY <1>1 DEF IInv, Linking, Reading, Alive, NoRequestOverdue
<1>5. Kept({who}, pending)'
  BY <1>1, <1>2 DEF IInv, Kept
<1> QED
  BY <1>2, <1>3, <1>4, <1>5 DEF IInv

LEMMA GotLineKeeps ==
  ASSUME IInv, NEW c \in Clients, GotLine(c), sock[c] = "listening",
         pc # "dead", who \in {NULL, c}, peer[c] \in {"sent", "gone"},
         UNCHANGED <<clients, known, data, pending, reply>>
  PROVE  IInv'
<1>1. UNCHANGED <<peer, text, left, known, data, pending, reply>>
  BY DEF clients
<1>2. NULL \notin Clients
  BY NullAssumption
<1>3. CASE /\ text[c] = <<>>
           /\ sock' = [sock EXCEPT ![c] = "closed"]
           /\ pc' = "loop" /\ who' = NULL /\ rest' = <<>>
  <2>1. /\ sock' \in [Clients -> SockStates]
        /\ Counted(known, data)' /\ Queued(pending)' /\ Clientele'
        /\ Served(pending)' /\ EarlyAnswersHaveData'
        /\ \A r \in pending : r.sock # c
        /\ sock'[c] = "closed" /\ \A d \in Clients : d # c => sock'[d] = sock[d]
    BY <1>3, SocketKeeps DEF SockStates
  <2>2. TypeOK'
    <3>1. <<>> \in Seq(Channels)
      OBVIOUS
    <3> QED
      BY <1>1, <1>3, <2>1, <3>1 DEF IInv, TypeOK, SockStates
  <2>3. Linking' /\ Reading' /\ Alive' /\ NoRequestOverdue'
    BY <1>1, <1>3 DEF IInv, Linking, Reading, Alive, NoRequestOverdue
  <2>4. Kept({who}, pending)'
    BY <1>1, <1>2, <1>3, <2>1 DEF IInv, Kept
  <2> QED
    BY <2>1, <2>2, <2>3, <2>4 DEF IInv
<1>4. CASE /\ text[c] # <<>>
           /\ sock' = [sock EXCEPT ![c] = "quiet"]
           /\ pc' = "monitor" /\ who' = c /\ rest' = text[c]
  <2>1. /\ sock' \in [Clients -> SockStates]
        /\ Counted(known, data)' /\ Queued(pending)' /\ Clientele'
        /\ Served(pending)' /\ EarlyAnswersHaveData'
        /\ \A r \in pending : r.sock # c
        /\ sock'[c] = "quiet" /\ \A d \in Clients : d # c => sock'[d] = sock[d]
    BY <1>4, SocketKeeps DEF SockStates
  <2>2. text[c] \in Seq(Channels)
    BY <1>4, RequestsAssumption DEF IInv, TypeOK
  <2>3. TypeOK'
    BY <1>1, <1>2, <1>4, <2>1, <2>2 DEF IInv, TypeOK, SockStates
  <2>4. Linking' /\ Reading' /\ Alive' /\ NoRequestOverdue'
    BY <1>1, <1>4, <2>1 DEF IInv, Linking, Reading, Alive, NoRequestOverdue
  <2>5. Kept({who}, pending)'
    BY <1>1, <1>2, <1>4, <2>1 DEF IInv, Kept
  <2> QED
    BY <2>1, <2>3, <2>4, <2>5 DEF IInv
<1> QED
  BY <1>3, <1>4 DEF GotLine

LEMMA ReadRequestKeeps ==
  ASSUME IInv, NEW c \in Clients, ReadRequest(c)
  PROVE  IInv'
<1>1. /\ pc = "loop" /\ sock[c] = "listening"
      /\ UNCHANGED <<clients, known, data, pending, reply>>
      /\ UNCHANGED <<peer, text, left>>
  BY DEF ReadRequest, clients
<1>2. NULL \notin Clients /\ who = NULL
  BY <1>1, NullAssumption DEF IInv, TypeOK
<1>3. CASE pc' = "gets" /\ who' = c /\ UNCHANGED <<sock, rest>>
  <2>1. TypeOK'
    BY <1>1, <1>2, <1>3 DEF IInv, TypeOK
  <2>2. Kept({who}, pending)' /\ Served(pending)' /\ Clientele'
    BY <1>1, <1>2, <1>3 DEF IInv, Kept, Served, Clientele
  <2>3. /\ Counted(known, data)' /\ Linking' /\ Queued(pending)' /\ Reading'
        /\ Alive' /\ NoRequestOverdue' /\ EarlyAnswersHaveData'
    BY <1>1, <1>3 DEF IInv, Counted, Linking, Queued, Reading, Alive,
                      NoRequestOverdue, EarlyAnswersHaveData
  <2> QED
    BY <2>1, <2>2, <2>3 DEF IInv
<1>4. CASE peer[c] \in {"sent", "gone"} /\ GotLine(c)
  BY <1>1, <1>2, <1>4, GotLineKeeps
<1>5. CASE /\ peer[c] = "gone" /\ sock' = [sock EXCEPT ![c] = "quiet"]
           /\ UNCHANGED <<pc, who, rest>>
  <2>1. /\ sock' \in [Clients -> SockStates]
        /\ Counted(known, data)' /\ Queued(pending)' /\ Clientele'
        /\ Served(pending)' /\ EarlyAnswersHaveData'
        /\ \A r \in pending : r.sock # c
        /\ sock'[c] = "quiet" /\ \A d \in Clients : d # c => sock'[d] = sock[d]
    BY <1>1, <1>5, SocketKeeps DEF SockStates
  <2>2. TypeOK'
    BY <1>1, <1>5, <2>1 DEF IInv, TypeOK, SockStates
  <2>3. Linking' /\ Reading' /\ Alive' /\ NoRequestOverdue'
    BY <1>1, <1>5 DEF IInv, Linking, Reading, Alive, NoRequestOverdue
  <2>4. c \in left
    BY <1>1, <1>5 DEF IInv, Clientele
  <2>5. Kept({who}, pending)'
    BY <1>1, <1>5, <2>1, <2>4 DEF IInv, Kept
  <2> QED
    BY <2>1, <2>2, <2>3, <2>5 DEF IInv
<1> QED
  BY <1>3, <1>4, <1>5 DEF ReadRequest, request

LEMMA GetRestKeeps ==
  ASSUME IInv, GetRest
  PROVE  IInv'
<1>1. PICK c : c = who
  OBVIOUS
<1>2. /\ pc = "gets" /\ peer[c] \in {"sent", "gone"} /\ GotLine(c)
      /\ UNCHANGED <<clients, known, data, pending, reply>>
  BY <1>1 DEF GetRest, GotLine
<1>3. c \in Clients /\ sock[c] = "listening" /\ who \in {NULL, c} /\ pc # "dead"
  BY <1>1, <1>2 DEF IInv, TypeOK, Reading
<1> QED
  BY <1>2, <1>3, GotLineKeeps

LEMMA PassOverKeeps ==
  ASSUME IInv, PassOver
  PROVE  IInv'
<1>1. /\ pc = "monitor" /\ rest # <<>> /\ rest' = Tail(rest)
      /\ UNCHANGED <<peer, text, left, sock, pc, who, known, data, pending,
                     reply>>
  BY DEF PassOver, clients
<1>2. TypeOK'
  <2>1. rest' \in Seq(Channels)
    <3>1. rest \in Seq(Channels)
      BY DEF IInv, TypeOK
    <3>2. Tail(rest) \in Seq(Channels)
      BY <1>1, <3>1, HeadTail
    <3> QED
      BY <1>1, <3>2
  <2> QED
    BY <1>1, <2>1 DEF IInv, TypeOK
<1>3. /\ Counted(known, data)' /\ Linking' /\ Queued(pending)' /\ Reading'
      /\ Alive' /\ NoRequestOverdue' /\ EarlyAnswersHaveData'
      /\ Kept({who}, pending)' /\ Served(pending)' /\ Clientele'
  BY <1>1 DEF IInv, Counted, Linking, Queued, Reading, Alive,
              NoRequestOverdue, EarlyAnswersHaveData, Kept, Served, Clientele
<1> QED
  BY <1>2, <1>3 DEF IInv

-----------------------------------------------------------------------------
(* The steps in which requests are answered.                                  *)

LEMMA ChannelChangesKeeps ==
  ASSUME IInv, NEW ch \in Channels, ChannelChanges(ch)
  PROVE  IInv'
<1>1. PICK kn, cell, whom, part :
        /\ kn = known /\ cell = "data" /\ whom = {who}
        /\ part \in {"values", "units"} /\ EpicsUpdate(kn, ch, part, cell)
  BY DEF ChannelChanges
<1>2. /\ pc = "loop" /\ Present(data[ch]) /\ UNCHANGED clients
      /\ UNCHANGED <<peer, text, left, pc, who, rest>>
  BY DEF ChannelChanges, clients, request
<1>3. known \in [Channels -> Counts]
  BY DEF IInv, TypeOK, Counts
<1>4. /\ known[ch] # "unknown"
      /\ known[ch] \in {"2", "connected"} => HasData(data[ch])
  BY <1>2 DEF IInv, Counted, Present, None
<1>5. /\ kn \in [Channels -> Counts] /\ cell \in {"blank", "data"}
      /\ kn[ch] # "unknown"
      /\ \A d \in Channels \ {ch} : kn[d] = known[d]
      /\ Present(data[ch]) \/ part = "units" => kn[ch] # "unknown"
      /\ kn[ch] \in {"1", "2", "connected"} => cell = "data"
      /\ kn[ch] \in {"2", "connected"} => HasData(data[ch])
  BY <1>1, <1>3, <1>4
<1>6. /\ data' \in [Channels -> Pair] /\ known' \in [Channels -> Counts]
      /\ Counted(known', data')
      /\ \E due, ok : Settled(pending, due, ok, {}, whom)
  BY <1>1, <1>2, <1>5, UpdateKeeps
<1>7. /\ pending' \in SUBSET pending /\ sock' \in [Clients -> SockStates]
      /\ reply' \in [Clients -> Replies \cup {NULL}]
      /\ Queued(pending)' /\ Clientele' /\ Served(pending)'
      /\ \A c \in Clients : sock'[c] = "quiet" =>
           c \in left \/ c \in whom \/ \E r \in pending' : r.sock = c
      /\ EarlyAnswersHaveData'
  BY <1>6 DEF Settled
<1>8. TypeOK'
  BY <1>2, <1>6, <1>7 DEF IInv, TypeOK, Counts, SockStates
<1>9. Kept({who}, pending)'
  BY <1>1, <1>2, <1>7 DEF Kept
<1>10. Linking' /\ Reading' /\ Alive' /\ NoRequestOverdue'
  BY <1>2, <1>7 DEF IInv, Linking, Reading, Alive, NoRequestOverdue
<1> QED
  BY <1>6, <1>7, <1>8, <1>9, <1>10 DEF IInv, Counted

(* Between linking a channel's value and its units, and after.                *)
LEMMA LinkKeeps ==
  ASSUME IInv, pc \in {"monitor", "units"}, UNCHANGED clients, who' = who,
         NEW ch \in Channels, NEW part \in {"values", "units"},
         NEW cell \in {"blank", "data"}, NEW kn \in [Channels -> Counts],
         kn[ch] = "", \A d \in Channels \ {ch} : kn[d] = known[d],
         EpicsUpdate(kn, ch, part, cell),
         pc' \in {"monitor", "units"}, rest' \in Seq(Channels),
         pc' = "units" => rest' = rest /\ rest # <<>> /\ ch = Head(rest)
                          /\ part = "values" /\ data[ch] = None
  PROVE  IInv'
<1>1. PICK whom : whom = {who}
  OBVIOUS
<1>2. UNCHANGED <<peer, text, left>> /\ who' = who
  BY DEF clients
<1>3. known \in [Channels -> Counts]
  BY DEF IInv, TypeOK, Counts
<1>5. /\ IInv /\ UNCHANGED clients
      /\ kn \in [Channels -> Counts] /\ ch \in Channels
      /\ part \in {"values", "units"} /\ cell \in {"blank", "data"}
      /\ EpicsUpdate(kn, ch, part, cell)
      /\ kn[ch] # "unknown"
      /\ \A d \in Channels \ {ch} : kn[d] = known[d]
      /\ Present(data[ch]) \/ part = "units" => kn[ch] # "unknown"
      /\ kn[ch] \in {"1", "2", "connected"} => cell = "data"
      /\ kn[ch] \in {"2", "connected"} => HasData(data[ch])
  OBVIOUS
<1>6. /\ data' \in [Channels -> Pair]
      /\ known' \in [Channels -> Counts]
      /\ ~Present(data'[ch]) => known'[ch] = kn[ch]
      /\ part = "values" => data'[ch].units = data[ch].units
      /\ Counted(known', data')
      /\ \E due, ok : Settled(pending, due, ok, {}, whom)
  BY ONLY <1>1, <1>5, UpdateKeeps, SMTT(40)
<1>7. /\ pending' \in SUBSET pending /\ sock' \in [Clients -> SockStates]
      /\ reply' \in [Clients -> Replies \cup {NULL}]
      /\ \A c \in Clients :
           (\A r \in pending : r.sock # c) => sock'[c] = sock[c]
      /\ Queued(pending)' /\ Clientele' /\ Served(pending)'
      /\ \A c \in Clients : sock'[c] = "quiet" =>
           c \in left \/ c \in whom \/ \E r \in pending' : r.sock = c
      /\ EarlyAnswersHaveData'
  BY <1>6 DEF Settled
<1>8. TypeOK'
  BY <1>2, <1>6, <1>7 DEF IInv, TypeOK, Counts, SockStates
<1>9. Kept({who}, pending)'
  BY <1>1, <1>2, <1>7 DEF Kept
<1>10. Linking'
  <2> SUFFICES ASSUME pc' = "units"
               PROVE  rest' # <<>> /\ known'[Head(rest')] = ""
    BY DEF Linking
  <2>1. rest' = rest /\ rest # <<>> /\ ch = Head(rest) /\ part = "values"
        /\ data[ch] = None
    OBVIOUS
  <2>2. None.units = "absent"
    BY DEF None
  <2>3. data'[ch].units = "absent"
    BY <1>6, <2>1, <2>2
  <2> QED
    BY <1>6, <2>1, <2>3 DEF Present
<1>11. Reading'
  <2>1. /\ who \in Clients /\ sock[who] = "quiet" /\ text[who] # <<>>
        /\ \A r \in pending : r.sock # who
    BY DEF IInv, TypeOK, Reading
  <2>2. sock'[who] = "quiet"
    BY <1>7, <2>1
  <2> QED
    BY <1>2, <1>7, <2>1, <2>2 DEF Reading
<1>12. Alive' /\ NoRequestOverdue'
  BY <1>2, <1>7 DEF IInv, Alive, NoRequestOverdue
<1> QED
  BY <1>6, <1>7, <1>8, <1>9, <1>10, <1>11, <1>12 DEF IInv, Counted

LEMMA LinkValuesKeeps ==
  ASSUME IInv, LinkValues
  PROVE  IInv'
<1>1. PICK ch, kn, part : /\ ch = Head(rest) /\ part = "values"
                          /\ kn = [known EXCEPT ![ch] = ""]
  OBVIOUS
<1>2. /\ pc = "monitor" /\ rest # <<>> /\ known[ch] = "unknown"
      /\ pc' = "units" /\ UNCHANGED clients /\ who' = who /\ rest' = rest
  BY <1>1 DEF LinkValues
<1>3. PICK cell \in {"blank", "data"} : EpicsUpdate(kn, ch, part, cell)
  BY <1>1 DEF LinkValues
<1>4. rest \in Seq(Channels) /\ known \in [Channels -> Counts]
  BY DEF IInv, TypeOK, Counts
<1>5. ch \in Channels
  BY <1>1, <1>2, <1>4, HeadTail
<1>6. /\ kn \in [Channels -> Counts] /\ kn[ch] = ""
      /\ \A d \in Channels \ {ch} : kn[d] = known[d]
  BY <1>1, <1>4, <1>5 DEF Counts
<1>7. data[ch] = None
  BY <1>2, <1>5 DEF IInv, Counted
<1>8. /\ part \in {"values", "units"}
      /\ pc \in {"monitor", "units"} /\ pc' \in {"monitor", "units"}
      /\ rest' \in Seq(Channels)
      /\ pc' = "units" => rest' = rest /\ rest # <<>> /\ ch = Head(rest)
                          /\ part = "values" /\ data[ch] = None
  BY <1>1, <1>2, <1>4, <1>7
<1> QED
  BY <1>2, <1>3, <1>5, <1>6, <1>8, LinkKeeps

LEMMA LinkUnitsKeeps ==
  ASSUME IInv, LinkUnits
  PROVE  IInv'
<1>1. PICK ch, kn, part : ch = Head(rest) /\ part = "units" /\ kn = known
  OBVIOUS
<1>2. /\ pc = "units" /\ rest # <<>> /\ known[ch] = ""
      /\ pc' = "monitor" /\ who' = who /\ rest' = Tail(rest)
      /\ UNCHANGED clients
  BY <1>1 DEF LinkUnits, IInv, Linking
<1>3. PICK cell \in {"blank", "data"} : EpicsUpdate(kn, ch, part, cell)
  BY <1>1 DEF LinkUnits
<1>4. rest \in Seq(Channels) /\ known \in [Channels -> Counts]
  BY DEF IInv, TypeOK, Counts
<1>5. ch \in Channels /\ Tail(rest) \in Seq(Channels)
  BY <1>1, <1>2, <1>4, HeadTail
<1>6. /\ kn \in [Channels -> Counts] /\ kn[ch] = ""
      /\ \A d \in Channels \ {ch} : kn[d] = known[d]
  BY <1>1, <1>2, <1>4
<1>8. /\ part \in {"values", "units"}
      /\ pc \in {"monitor", "units"} /\ pc' \in {"monitor", "units"}
      /\ rest' \in Seq(Channels)
      /\ pc' = "units" => rest' = rest /\ rest # <<>> /\ ch = Head(rest)
                          /\ part = "values" /\ data[ch] = None
  BY <1>1, <1>2, <1>5
<1> QED
  BY <1>2, <1>3, <1>5, <1>6, <1>8, LinkKeeps

LEMMA QueueRequestKeeps ==
  ASSUME IInv, QueueRequest
  PROVE  IInv'
<1>1. PICK new, pend, dt, due, early, whom :
        /\ new = [sock |-> who, age |-> 0, chans |-> text[who]]
        /\ pend = pending \cup {new} /\ dt = data /\ whom = {}
        /\ due = Satisfied(pend, known, data) /\ early = TRUE
  OBVIOUS
<1>2. PICK ok, closing :
        /\ ok \in BOOLEAN /\ closing = IF ok THEN {} ELSE {who}
        /\ Complete(pend, dt, due, early, ok, closing)
  BY <1>1 DEF QueueRequest
<1>3. /\ pc = "monitor" /\ rest = <<>> /\ UNCHANGED clients
      /\ UNCHANGED <<peer, text, left, rest, known, data>>
      /\ pc' = "loop" /\ who' = NULL
  BY DEF QueueRequest, clients
<1>4. /\ TypeOK /\ Clientele /\ EarlyAnswersHaveData
      /\ who \in Clients /\ sock[who] = "quiet" /\ text[who] \in Requests
      /\ peer[who] \in {"sent", "gone"}
      /\ \A r \in pending : r.sock # who
      /\ pending \subseteq Pending /\ data \in [Channels -> Pair]
  BY <1>3 DEF IInv, TypeOK, Reading, Clientele
<1>5. /\ new \in Pending /\ new.sock = who /\ new.age = 0
      /\ new.chans = text[who]
  BY <1>1, <1>4, TimeoutAssumption DEF Pending
<1>6. /\ pend \in SUBSET Pending /\ due \in SUBSET pend
      /\ dt \in [Channels -> Pair]
  BY <1>1, <1>4, <1>5 DEF Satisfied
<1>7. early \in BOOLEAN /\ closing \in SUBSET Clients
  BY <1>1, <1>2, <1>4
<1>8. Queued(pend)
  <2>1. \A r \in pend : r \in pending \/ r = new
    BY <1>1
  <2> QED
    BY <1>4, <1>5, <2>1 DEF IInv, Queued
<1>9. Kept(whom, pend) /\ Served(pend)
  <2>1. new \in pend /\ \A r \in pending : r \in pend
    BY <1>1
  <2>2. \A r \in pend : r \in pending \/ r = new
    BY <1>1
  <2>3. Kept(whom, pend)
    BY <1>5, <2>1 DEF IInv, Kept
  <2>4. Served(pend)
    BY <1>4, <1>5, <2>2 DEF IInv, Served
  <2> QED
    BY <2>3, <2>4
<1>10. closing # {} => ~ok
  BY <1>2
<1>11. \A c \in closing : peer[c] \in {"sent", "gone"}
  BY <1>2, <1>4
<1>12. early => \A r \in due : \A i \in DOMAIN r.chans :
                  Present(dt[r.chans[i]]) /\ HasData(dt[r.chans[i]])
  <2> SUFFICES ASSUME NEW r \in due, NEW i \in DOMAIN r.chans
               PROVE  Present(dt[r.chans[i]]) /\ HasData(dt[r.chans[i]])
    OBVIOUS
  <2>1. Present(data[r.chans[i]]) /\ known[r.chans[i]] = "connected"
    BY <1>1 DEF Satisfied
  <2>2. r.chans[i] \in Channels
    BY <1>6, RequestIs DEF Pending
  <2> QED
    BY <1>1, <2>1, <2>2 DEF IInv, Counted
<1>13. Settled(pend, due, ok, closing, whom)
  BY ONLY <1>2, <1>3, <1>4, <1>6, <1>7, <1>8, <1>9, <1>10, <1>11, <1>12,
          CompleteKeeps
<1>14. /\ pending' \in SUBSET pend /\ sock' \in [Clients -> SockStates]
       /\ reply' \in [Clients -> Replies \cup {NULL}]
       /\ Queued(pending)' /\ Clientele' /\ Served(pending)'
       /\ \A c \in Clients : sock'[c] = "quiet" =>
            c \in left \/ c \in whom \/ \E r \in pending' : r.sock = c
       /\ EarlyAnswersHaveData'
  BY <1>13 DEF Settled
<1>15. TypeOK'
  BY <1>3, <1>6, <1>14 DEF IInv, TypeOK, SockStates
<1>16. Kept({who}, pending)'
  BY <1>1, <1>3, <1>14 DEF Kept
<1>17. Linking' /\ Reading' /\ Alive' /\ Counted(known, data)'
  BY <1>3 DEF IInv, Linking, Reading, Alive, Counted
<1>18. NoRequestOverdue'
  <2>1. \A r \in pend : r.age <= Timeout
    BY <1>1, <1>3, <1>5, TimeoutAssumption DEF IInv, NoRequestOverdue
  <2> QED
    BY <1>14, <2>1 DEF NoRequestOverdue
<1> QED
  BY <1>14, <1>15, <1>16, <1>17, <1>18 DEF IInv

LEMMA TickKeeps ==
  ASSUME IInv, Tick
  PROVE  IInv'
<1>1. PICK pend, dt, due, early, whom, closing :
        /\ pend = {[r EXCEPT !.age = @ + 1] : r \in pending}
        /\ dt = data /\ whom = {} /\ closing = {}
        /\ due = Expired(pend) /\ early = FALSE
  OBVIOUS
<1>2. PICK ok \in BOOLEAN :
        /\ Complete(pend, dt, due, early, ok, closing)
        /\ pc' = IF ok THEN "loop" ELSE "dead"
  BY <1>1 DEF Tick
<1>3. /\ pc = "loop" /\ UNCHANGED clients
      /\ UNCHANGED <<peer, text, left, who, rest, known, data>>
  BY DEF Tick, clients
<1>4. /\ TypeOK /\ Clientele /\ EarlyAnswersHaveData
      /\ pending \subseteq Pending /\ data \in [Channels -> Pair]
      /\ \A r \in pending : r.age <= Timeout
      /\ who = NULL
  BY <1>3 DEF IInv, TypeOK, NoRequestOverdue
<1>5. ASSUME NEW r \in pending
      PROVE  /\ [r EXCEPT !.age = @ + 1] \in Pending
             /\ [r EXCEPT !.age = @ + 1].sock = r.sock
  BY <1>4, TimeoutAssumption DEF Pending
<1>6. /\ pend \in SUBSET Pending /\ dt \in [Channels -> Pair]
      /\ due \in SUBSET pend /\ early \in BOOLEAN
      /\ closing \in SUBSET Clients
  BY <1>1, <1>4, <1>5 DEF Expired
<1>7. \A r \in pend : \E q \in pending :
        r = [q EXCEPT !.age = @ + 1] /\ r.sock = q.sock
  BY <1>1, <1>5
<1>8. \A q \in pending : \E r \in pend : r.sock = q.sock
  BY <1>1, <1>5
<1>9. Queued(pend) /\ Kept(whom, pend) /\ Served(pend)
  <2>1. Queued(pend)
    <3>1. \A r \in pend : sock[r.sock] \in {"quiet", "closed"}
      BY <1>7 DEF IInv, Queued
    <3>2. ASSUME NEW r \in pend, NEW q \in pend, r.sock = q.sock
          PROVE  r = q
      <4>1. PICK x \in pending : r = [x EXCEPT !.age = @ + 1] /\ r.sock = x.sock
        BY <1>7
      <4>2. PICK y \in pending : q = [y EXCEPT !.age = @ + 1] /\ q.sock = y.sock
        BY <1>7
      <4>3. x = y
        BY <3>2, <4>1, <4>2 DEF IInv, Queued
      <4> QED
        BY <4>1, <4>2, <4>3
    <3> QED
      BY <3>1, <3>2 DEF Queued
  <2>2. Kept(whom, pend)
    <3> SUFFICES ASSUME NEW c \in Clients, sock[c] = "quiet", c \notin left
                 PROVE  \E r \in pend : r.sock = c
      BY DEF Kept
    <3>1. c # who
      BY <1>4, NullAssumption
    <3>2. \E q \in pending : q.sock = c
      BY <3>1 DEF IInv, Kept
    <3> QED
      BY <1>8, <3>2
  <2>3. Served(pend)
    BY <1>7 DEF IInv, Served
  <2> QED
    BY <2>1, <2>2, <2>3
<1>10. /\ closing # {} => ~ok
       /\ \A c \in closing : peer[c] \in {"sent", "gone"}
       /\ early => \A r \in due : \A i \in DOMAIN r.chans :
                     Present(dt[r.chans[i]]) /\ HasData(dt[r.chans[i]])
  BY <1>1
<1>11. Settled(pend, due, ok, closing, whom)
  BY ONLY <1>2, <1>3, <1>4, <1>6, <1>9, <1>10, CompleteKeeps
<1>12. /\ pending' \in SUBSET pend /\ sock' \in [Clients -> SockStates]
       /\ reply' \in [Clients -> Replies \cup {NULL}]
       /\ Queued(pending)' /\ Clientele' /\ Served(pending)'
       /\ \A c \in Clients : sock'[c] = "quiet" =>
            c \in left \/ c \in whom \/ \E r \in pending' : r.sock = c
       /\ EarlyAnswersHaveData'
       /\ ok => pending' = pend \ due
       /\ left = {} => ok
  BY <1>11 DEF Settled
<1>13. TypeOK'
  BY <1>2, <1>3, <1>6, <1>12 DEF IInv, TypeOK, SockStates
<1>14. Kept({who}, pending)'
  BY <1>1, <1>3, <1>12 DEF Kept
<1>15. Linking' /\ Reading' /\ Counted(known, data)' /\ Alive'
  BY <1>2, <1>3, <1>12 DEF IInv, Linking, Reading, Counted, Alive
<1>16. NoRequestOverdue'
  <2> SUFFICES ASSUME pc' # "dead", NEW r \in pending'
               PROVE  r.age <= Timeout
    BY DEF NoRequestOverdue
  <2>1. ok
    BY <1>2
  <2>2. r \in pend /\ r \notin Expired(pend)
    BY <1>1, <1>12, <2>1
  <2>3. r.age \in 0..(Timeout + 1)
    BY <1>6, <2>2 DEF Pending
  <2> QED
    BY <2>2, <2>3, TimeoutAssumption DEF Expired
<1> QED
  BY <1>12, <1>13, <1>14, <1>15, <1>16 DEF IInv

-----------------------------------------------------------------------------
LEMMA StutterKeeps ==
  ASSUME IInv, UNCHANGED vars
  PROVE  IInv'
<1>1. UNCHANGED <<peer, text, left, sock, pc, who, rest, known, data, pending,
                  reply>>
  BY DEF vars, clients, request
<1>2. TypeOK'
  BY <1>1, Zenon DEF IInv, TypeOK
<1>3. Counted(known, data)' /\ Linking' /\ Reading'
  BY <1>1 DEF IInv, Counted, Linking, Reading
<1>4. Queued(pending)' /\ Served(pending)'
  BY <1>1 DEF IInv, Queued, Served
<1>5. Clientele' /\ Kept({who}, pending)'
  BY <1>1 DEF IInv, Clientele, Kept
<1>6. Alive' /\ NoRequestOverdue' /\ EarlyAnswersHaveData'
  BY <1>1 DEF IInv, Alive, NoRequestOverdue, EarlyAnswersHaveData
<1> QED
  BY <1>2, <1>3, <1>4, <1>5, <1>6 DEF IInv

LEMMA InitInvariant == Init => IInv
<1> SUFFICES ASSUME Init PROVE IInv
  OBVIOUS
<1>1. None \in Pair /\ <<>> \in Seq(Channels)
  BY DEF None, Pair, Cells
<1>2. TypeOK
  BY <1>1 DEF Init, TypeOK, None
<1>3. Counted(known, data)
  BY DEF Init, Counted, None
<1>4. /\ Linking /\ Queued(pending) /\ Reading /\ Clientele
      /\ Kept({who}, pending) /\ Served(pending) /\ Alive
      /\ NoRequestOverdue /\ EarlyAnswersHaveData
  BY DEF Init, Linking, Queued, Reading, Clientele, Kept, Served, Alive,
         NoRequestOverdue, EarlyAnswersHaveData
<1> QED
  BY <1>2, <1>3, <1>4 DEF IInv

LEMMA StepInvariant == IInv /\ [Next]_vars => IInv'
<1> SUFFICES ASSUME IInv, [Next]_vars PROVE IInv'
  OBVIOUS
<1>1. CASE \E c \in Clients : ClientStep(c)
  BY <1>1, ConnectKeeps, SendKeeps, LeaveKeeps DEF ClientStep
<1>2. CASE \E c \in Clients : ProcessConnection(c)
  BY <1>2, ProcessConnectionKeeps
<1>3. CASE \E c \in Clients : ReadRequest(c)
  BY <1>3, ReadRequestKeeps
<1>4. CASE \E ch \in Channels : ChannelChanges(ch)
  BY <1>4, ChannelChangesKeeps
<1>5. CASE Request
  BY <1>5, GetRestKeeps, PassOverKeeps, LinkValuesKeeps, LinkUnitsKeeps,
     QueueRequestKeeps DEF Request
<1>6. CASE Tick
  BY <1>6, TickKeeps
<1>7. CASE UNCHANGED vars
  BY <1>7, StutterKeeps
<1> QED
  BY <1>1, <1>2, <1>3, <1>4, <1>5, <1>6, <1>7 DEF Next

LEMMA Invariant == Spec => []IInv
<1> QED
  BY InitInvariant, StepInvariant, PTL DEF Spec

(* The variables have their types: a request is queued with the channels of a *)
(* line that was read, and its age has no more than one tick to be noticed.   *)
THEOREM TypeCorrect == Spec => []TypeOK
<1>1. IInv => TypeOK
  BY DEF IInv
<1> QED
  BY <1>1, Invariant, PTL

(* Until somebody leaves unanswered, the server serves everybody, and closes  *)
(* the socket of nobody who is waiting.                                       *)
THEOREM PatienceIsServed == Spec => []PatientClientsServed
<1>1. IInv => PatientClientsServed
  BY DEF IInv, Served, Alive, PatientClientsServed
<1> QED
  BY <1>1, Invariant, PTL

(* No socket stays open and forgotten, unless its client has left.            *)
THEOREM SocketsAreKept == Spec => []NoSocketLost
<1>1. IInv => NoSocketLost
  <2> SUFFICES ASSUME IInv, NEW c \in Clients, sock[c] = "quiet"
               PROVE  c \in left \cup {who} \cup {r.sock : r \in pending}
    BY DEF NoSocketLost
  <2>1. c \in left \/ c \in {who} \/ \E r \in pending : r.sock = c
    BY DEF IInv, Kept
  <2> QED
    BY <2>1
<1> QED
  BY <1>1, Invariant, PTL

(* An answer before its time has something of each of its channels.           *)
THEOREM EarlyAnswersTellSomething == Spec => []EarlyAnswersHaveData
<1>1. IInv => EarlyAnswersHaveData
  BY DEF IInv
<1> QED
  BY <1>1, Invariant, PTL

(* While the server runs, no request is older than the timeout.               *)
THEOREM RequestsAreInTime == Spec => []NoRequestOverdue
<1>1. IInv => NoRequestOverdue
  BY DEF IInv
<1> QED
  BY <1>1, Invariant, PTL
=============================================================================
