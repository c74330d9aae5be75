------------------------ MODULE ChannelWidgets_proofs ------------------------
(* Proofs about the widgets of module ChannelWidgets, for any finite number   *)
(* of them, whatever kinds and values there are: their references to the      *)
(* channel, what they show, and what an entry shows.                          *)
EXTENDS ChannelWidgets, FiniteSetTheorems, SequenceTheorems, TLAPS

-----------------------------------------------------------------------------
(* The inductive invariant.                                                   *)

Text  == Values \cup {NoValue}
Looks == Text \cup {"on", "off"}

TypeOK ==
  /\ refs \in Nat /\ links \in Nat
  /\ connected \in BOOLEAN /\ fresh \in BOOLEAN /\ queued \in BOOLEAN
  /\ value \in Text /\ var \in Text
  /\ setv \in Settings \cup {NoValue, NotConnected}
  /\ traces \in Seq(Widgets)
  /\ kind \in [Widgets -> Kinds \cup {"none"}]
  /\ display \in [Widgets -> Looks]
  /\ field \in [Widgets -> Text]
  /\ lastValue \in [Widgets -> Text] /\ sent \in [Widgets -> Text]
  /\ alive \subseteq Widgets /\ timer \subseteq Widgets
  /\ editing \subseteq Widgets /\ loaded \subseteq Widgets
  /\ forced \subseteq Widgets /\ unsent \subseteq Widgets
  /\ overdrawn \in BOOLEAN

(* Only what has been constructed lives or traces; a label that lives has the *)
(* trace that its destructor removes.                                         *)
TracesOK ==
  /\ \A w \in alive : kind[w] # "none"
  /\ \A i \in DOMAIN traces : kind[traces[i]] \in Binary \cup Labels
  /\ \A w \in alive : kind[w] \in {"label", "spin"} =>
                        \E i \in DOMAIN traces : traces[i] = w

(* An entry shows what it would restore, and that is what it has sent, unless *)
(* there was no connection.  (One that has not been constructed has sent      *)
(* nothing.)                                                                  *)
EntriesOK ==
  \A w \in Widgets :
    kind[w] \in {"none", "entry"} =>
      /\ w \notin unsent => lastValue[w] = sent[w]
      /\ w \notin editing => field[w] = lastValue[w]

(* DisplaysAgree, kind by kind.                                               *)
LabelAgrees(w) == kind[w] \in Labels => display[w] = var

LedAgrees(w) ==
  kind[w] = "led" /\ var \in Booleans /\ w \notin timer =>
    display[w] = IF var \in On THEN "on" ELSE "off"

ButtonAgrees(w) ==
  kind[w] = "button" /\ connected /\ fresh /\ value \in On \cup Off
      /\ w \notin timer \cup forced
    => display[w] = IF value \in On THEN "on" ELSE "off"

Agrees(w) == LabelAgrees(w) /\ LedAgrees(w) /\ ButtonAgrees(w)

AllAgree ==
  ~queued /\ ~overdrawn =>
    \A w \in alive : Unobstructed(w) => Agrees(w)

FreshIsConnected == fresh => connected

IInv ==
  /\ TypeOK /\ TracesOK /\ ReferencesExact /\ EntriesOK /\ AllAgree
  /\ FreshIsConnected

-----------------------------------------------------------------------------
(* Types. *)

LEMMA KindsAre ==
  /\ "none" \notin Kinds
  /\ \A k \in Kinds \ Labels : k \in Binary \cup {"entry", "radio"}
BY DEF Kinds, Labels, Binary

(* The sequence of traces when that of w is removed: w's trace is somewhere,  *)
(* and what comes before another does so still.                               *)
LEMMA WithoutTraceIs ==
  ASSUME TypeOK, NEW w, NEW k \in DOMAIN traces, traces[k] = w
  PROVE  /\ WithoutTrace(w) \in Seq(Widgets)
         /\ \E i \in DOMAIN traces :
              /\ traces[i] = w
              /\ DOMAIN WithoutTrace(w) = 1 .. Len(traces) - 1
              /\ \A j \in 1 .. Len(traces) - 1 :
                   WithoutTrace(w)[j] = IF j < i THEN traces[j] ELSE traces[j + 1]
<1> DEFINE i == CHOOSE j \in DOMAIN traces : traces[j] = w
           s == SubSeq(traces, 1, i - 1)
           t == SubSeq(traces, i + 1, Len(traces))
<1>1. i \in DOMAIN traces /\ traces[i] = w
  OBVIOUS
<1>2. /\ traces \in Seq(Widgets) /\ Len(traces) \in Nat
      /\ DOMAIN traces = 1 .. Len(traces)
      /\ \A j \in 1 .. Len(traces) : traces[j] \in Widgets
  BY DEF TypeOK
<1>3. WithoutTrace(w) = s \o t
  BY DEF WithoutTrace
<1> HIDE DEF i
<1>4. i \in Int /\ 1 <= i /\ i <= Len(traces)
  BY <1>1, <1>2
<1>5. /\ s \in Seq(Widgets) /\ Len(s) = i - 1
      /\ \A j \in 1 .. i - 1 : s[j] = traces[j]
  BY <1>2, <1>4, SubSeqProperties
<1>6. /\ t \in Seq(Widgets) /\ Len(t) = Len(traces) - i
      /\ \A j \in 1 .. Len(traces) - i : t[j] = traces[i + j]
  <2>1. \A j \in i + 1 .. Len(traces) : traces[j] \in Widgets
    BY <1>2, <1>4
  <2>2. /\ t \in Seq(Widgets)
        /\ Len(t) = IF i + 1 <= Len(traces) THEN Len(traces) - (i + 1) + 1 ELSE 0
        /\ \A j \in 1 .. Len(traces) - (i + 1) + 1 : t[j] = traces[(i + 1) + j - 1]
    BY <1>2, <1>4, <2>1, SubSeqProperties
  <2> HIDE DEF t
  <2>3. Len(t) = Len(traces) - i
    <3>1. Len(t) = IF i + 1 <= Len(traces) THEN Len(traces) - (i + 1) + 1 ELSE 0
      BY <2>2
    <3>2. i \in Int /\ Len(traces) \in Int /\ i <= Len(traces)
      BY <1>2, <1>4
    <3> QED
      BY ONLY <3>1, <3>2
  <2>4. ASSUME NEW j \in 1 .. Len(traces) - i
        PROVE  t[j] = traces[i + j]
    <3>1. j \in 1 .. Len(traces) - (i + 1) + 1 /\ (i + 1) + j - 1 = i + j
      BY <1>2, <1>4
    <3> QED
      BY <2>2, <3>1
  <2> QED
    BY <2>2, <2>3, <2>4
<1> HIDE DEF s, t
<1>7. /\ s \o t \in Seq(Widgets)
      /\ Len(s \o t) = Len(s) + Len(t)
      /\ \A j \in 1 .. Len(s) + Len(t) :
           (s \o t)[j] = IF j <= Len(s) THEN s[j] ELSE t[j - Len(s)]
  BY <1>5, <1>6, ConcatProperties
<1>8. Len(s) + Len(t) = Len(traces) - 1
  BY <1>2, <1>4, <1>5, <1>6
<1>9. DOMAIN (s \o t) = 1 .. Len(traces) - 1
  BY <1>7, <1>8, LenProperties
<1>10. ASSUME NEW j \in 1 .. Len(traces) - 1
       PROVE  (s \o t)[j] = IF j < i THEN traces[j] ELSE traces[j + 1]
  <2>1. (s \o t)[j] = IF j <= Len(s) THEN s[j] ELSE t[j - Len(s)]
    BY <1>7, <1>8
  <2>2. CASE j < i
    BY <1>4, <1>5, <2>1, <2>2
  <2>3. CASE ~(j < i)
    <3>1. j - Len(s) \in 1 .. Len(traces) - i /\ i + (j - Len(s)) = j + 1
      BY <1>2, <1>4, <1>5, <2>3
    <3>2. ~(j <= Len(s))
      BY <1>4, <1>5, <2>3
    <3> QED
      BY <1>6, <2>1, <2>3, <3>1, <3>2
  <2> QED
    BY <2>2, <2>3
<1> QED
  BY <1>1, <1>3, <1>7, <1>9, <1>10

(* A constructor that adds its trace puts it before all others.               *)
LEMMA AddTraceIs ==
  ASSUME TypeOK, NEW w \in Widgets, AddTrace(w)
  PROVE  /\ traces' \in Seq(Widgets) /\ Len(traces') = Len(traces) + 1
         /\ traces'[1] = w
         /\ \A i \in 1 .. Len(traces) : traces'[i + 1] = traces[i]
<1>1. traces \in Seq(Widgets) /\ <<w>> \in Seq(Widgets) /\ Len(<<w>>) = 1
      /\ Len(traces) \in Nat /\ <<w>>[1] = w
  BY DEF TypeOK
<1>2. PICK s \in Seq(Widgets) : s = <<w>>
  BY <1>1
<1>3. Len(s) = 1 /\ s[1] = w /\ traces' = s \o traces
  BY <1>1, <1>2 DEF AddTrace
<1>4. /\ s \o traces \in Seq(Widgets)
      /\ Len(s \o traces) = Len(s) + Len(traces)
      /\ \A i \in 1 .. Len(s) + Len(traces) :
           (s \o traces)[i] = IF i <= Len(s) THEN s[i] ELSE traces[i - Len(s)]
  BY <1>1, ConcatProperties
<1>5. traces'[1] = w /\ Len(traces') = Len(traces) + 1
  BY <1>1, <1>3, <1>4
<1>6. ASSUME NEW i \in 1 .. Len(traces)
      PROVE  traces'[i + 1] = traces[i]
  <2>1. i + 1 \in 1 .. Len(s) + Len(traces) /\ ~(i + 1 <= Len(s))
        /\ (i + 1) - Len(s) = i
    BY <1>1, <1>3
  <2> QED
    BY <1>3, <1>4, <2>1
<1> QED
  BY <1>3, <1>4, <1>5, <1>6

LEMMA ShowsType ==
  ASSUME TypeOK, NEW w \in Widgets, NEW x \in Text
  PROVE  Shows(w, x) \in Looks
<1>1. display[w] \in Looks /\ x \in Looks /\ "on" \in Looks /\ "off" \in Looks
  BY DEF TypeOK, Looks
<1> QED
  BY <1>1 DEF Shows, ButtonShows, LedShows

LEMMA WrittenType ==
  ASSUME TypeOK, NEW x \in Text, Written(x)
  PROVE  /\ var' \in Text /\ display' \in [Widgets -> Looks]
         /\ forced' \subseteq Widgets
<1>1. \A w \in Widgets :
        (IF w \in Reached THEN Shows(w, x) ELSE display[w]) \in Looks
  BY ShowsType DEF TypeOK
<1>2. display' \in [Widgets -> Looks]
  BY <1>1 DEF Written
<1>3. forced' \subseteq Widgets
  BY DEF Written, TypeOK
<1> QED
  BY <1>2, <1>3 DEF Written

(* What the constructors have in common.                                      *)
LEMMA TakesType ==
  ASSUME TypeOK, NEW w \in Widgets, NEW k, Takes(w, k)
  PROVE  /\ k \in Kinds /\ refs' \in Nat /\ links' \in Nat /\ var' \in Text
         /\ kind' \in [Widgets -> Kinds \cup {"none"}]
         /\ kind'[w] = k /\ \A v \in Widgets \ {w} : kind'[v] = kind[v]
         /\ kind[w] = "none"
         /\ UNCHANGED <<connected, value, fresh, queued, setv, entries, loaded,
                        forced>>
<1>1. k \in KindsOf[w] /\ KindsOf[w] \subseteq Kinds
  BY KindsAssumption DEF Takes
<1> QED
  BY <1>1 DEF Takes, TypeOK

LEMMA TracksType ==
  ASSUME TypeOK, NEW w \in Widgets, NEW k, Tracks(w, k)
  PROVE  /\ k \in Kinds /\ refs' \in Nat /\ links' \in Nat /\ var' \in Text
         /\ kind' \in [Widgets -> Kinds \cup {"none"}]
         /\ kind'[w] = k /\ \A v \in Widgets \ {w} : kind'[v] = kind[v]
         /\ kind[w] = "none" /\ alive' = alive \cup {w}
         /\ UNCHANGED <<connected, value, fresh, queued, setv, entries, loaded,
                        forced>>
BY TakesType DEF Tracks

LEMMA ConstructIs ==
  ASSUME NEW w \in Widgets, Construct(w), ~ConstructRadioFails(w)
  PROVE  \E k \in Kinds :
           /\ Tracks(w, k)
           /\ IF k \in Binary \cup Labels THEN AddTrace(w) ELSE UNCHANGED traces
           /\ IF k \in Binary THEN display' = [display EXCEPT ![w] = "off"]
              ELSE IF k \in Labels THEN display' = [display EXCEPT ![w] = var']
              ELSE UNCHANGED display
           /\ timer' = IF k \in {"label", "meter"} THEN timer
                       ELSE timer \cup {w}
           /\ IF k = "radio" THEN field' = [field EXCEPT ![w] = var']
              ELSE UNCHANGED field
<1>1. KindsOf[w] \subseteq Kinds
  BY KindsAssumption
<1> QED
  BY <1>1 DEF Construct, Takes, ConstructButton, ConstructLed, ConstructLabel,
      ConstructMeter, ConstructSpin, ConstructEntry, ConstructRadio, Tracks,
      Later, Binary, Labels

LEMMA TypeStep ==
  ASSUME TypeOK, TracesOK, ReferencesExact, [Next]_vars
  PROVE  TypeOK'
<1> USE DEF channel, entries, Sound
<1>0. \A f \in [Widgets -> Text], w \in Widgets, x \in Text :
        [f EXCEPT ![w] = x] \in [Widgets -> Text]
  OBVIOUS
<1>1. CASE Channel
  <2>0. UNCHANGED overdrawn
    BY <1>1 DEF Channel
  <2>1. CASE ConnectionUp \/ ConnectionDown \/ Update
    BY <2>0, <2>1
    DEF ConnectionUp, ConnectionDown, Update, Environment, TypeOK, Text
  <2>2. CASE ServeChange
    <3>1. value \in Text /\ Written(value) /\ queued' = FALSE
          /\ UNCHANGED <<connected, value, fresh>> /\ Environment
      BY <2>2 DEF ServeChange, TypeOK
    <3>2. var' \in Text /\ display' \in [Widgets -> Looks]
          /\ forced' \subseteq Widgets
      BY <3>1, WrittenType
    <3> QED
      BY <2>0, <3>1, <3>2 DEF Environment, TypeOK
  <2>3. CASE SetvChanges
    BY <2>0, <2>3 DEF SetvChanges, TypeOK
  <2> QED
    BY <1>1, <2>1, <2>2, <2>3 DEF Channel
<1>2. ASSUME NEW w \in Widgets, Construct(w), ~ConstructRadioFails(w)
      PROVE  TypeOK'
  <2>1. PICK k \in Kinds :
          /\ Tracks(w, k)
          /\ IF k \in Binary \cup Labels THEN AddTrace(w) ELSE UNCHANGED traces
          /\ IF k \in Binary THEN display' = [display EXCEPT ![w] = "off"]
             ELSE IF k \in Labels THEN display' = [display EXCEPT ![w] = var']
             ELSE UNCHANGED display
          /\ timer' = IF k \in {"label", "meter"} THEN timer
                      ELSE timer \cup {w}
          /\ IF k = "radio" THEN field' = [field EXCEPT ![w] = var']
             ELSE UNCHANGED field
    BY <1>2, ConstructIs
  <2>2. /\ refs' \in Nat /\ links' \in Nat /\ var' \in Text
        /\ kind' \in [Widgets -> Kinds \cup {"none"}]
        /\ alive' = alive \cup {w}
        /\ UNCHANGED <<connected, value, fresh, queued, setv, entries, loaded,
                       forced>>
    BY <2>1, TracksType
  <2>3. traces' \in Seq(Widgets)
    BY <2>1, AddTraceIs DEF TypeOK
  <2>4. var' \in Looks /\ "off" \in Looks
    BY <2>2 DEF Looks
  <2>5. display' \in [Widgets -> Looks]
    BY <2>1, <2>4 DEF TypeOK
  <2>6. field' \in [Widgets -> Text]
    BY <1>0, <2>1, <2>2 DEF TypeOK
  <2>7. timer' \subseteq Widgets /\ alive' \subseteq Widgets
    BY <2>1, <2>2 DEF TypeOK
  <2> QED
    BY <1>2, <2>2, <2>3, <2>5, <2>6, <2>7 DEF TypeOK, Construct
<1>3. ASSUME NEW w \in Widgets, Destroy(w)
      PROVE  TypeOK'
  <2>1. /\ w \in alive /\ alive' = alive \ {w} /\ timer' \subseteq timer
        /\ UNCHANGED <<var, setv, kind, overdrawn>>
    BY <1>3 DEF Destroy, Sound
  <2>a. NoValue \in Text /\ NoValue \in Looks
    BY DEF Text, Looks
  <2>b. /\ display' \in [Widgets -> Looks] /\ field' \in [Widgets -> Text]
        /\ lastValue' \in [Widgets -> Text] /\ sent' \in [Widgets -> Text]
    BY <1>3, <2>a DEF Destroy, TypeOK
  <2>c. /\ editing' \subseteq Widgets /\ unsent' \subseteq Widgets
        /\ loaded' \subseteq Widgets /\ forced' \subseteq Widgets
    BY <1>3 DEF Destroy, TypeOK
  <2>2. refs # 0 /\ links = refs
    <3>0. ~overdrawn
      BY <1>3 DEF Destroy
    <3>1. w \in {v \in Widgets : v \in alive \/ kind[v] \in Kinds \ Labels}
      BY <2>1
    <3>2. IsFiniteSet({v \in Widgets : v \in alive \/ kind[v] \in Kinds \ Labels})
      BY WidgetsAssumption, FS_Subset
    <3> QED
      BY <3>0, <3>1, <3>2, FS_EmptySet DEF ReferencesExact, Holders
  <2>3. traces' \in Seq(Widgets)
    <3>1. CASE kind[w] \in {"label", "spin"}
      <4>1. PICK k \in DOMAIN traces : traces[k] = w
        BY <2>1, <3>1 DEF TracesOK
      <4> QED
        BY <1>3, <3>1, <4>1, WithoutTraceIs DEF Destroy, DestroyLabel, Labels
    <3>2. CASE kind[w] \notin {"label", "spin"}
      BY <1>3, <3>2 DEF Destroy, DestroyLabel, Labels, TypeOK
    <3> QED
      BY <3>1, <3>2
  <2>4. /\ refs' \in Nat /\ links' \in Nat
        /\ connected' \in BOOLEAN /\ fresh' \in BOOLEAN /\ queued' \in BOOLEAN
        /\ value' \in Text
    <3>1. refs \in Nat \ {0} /\ refs - 1 \in Nat
      BY <2>2 DEF TypeOK
    <3>2. CASE UNCHANGED channel
      BY <3>2 DEF TypeOK
    <3>3. CASE DestroyLabel(w)
      <4>1. refs' \in Nat /\ links' \in Nat
        BY <2>2, <3>1, <3>3 DEF DestroyLabel, GiveBack
      <4>2. CASE refs = 1
        BY <3>3, <4>1, <4>2 DEF DestroyLabel, GiveBack, TypeOK, Text
      <4>3. CASE refs # 1
        BY <3>3, <4>1, <4>3 DEF DestroyLabel, GiveBack, TypeOK
      <4> QED
        BY <4>2, <4>3
    <3> QED
      BY <1>3, <3>2, <3>3 DEF Destroy
  <2> QED
    BY <2>1, <2>b, <2>c, <2>3, <2>4 DEF TypeOK
<1>4. ASSUME NEW w \in Widgets, Timer(w)
      PROVE  TypeOK'
  <2>0. UNCHANGED overdrawn
    BY <1>4 DEF Timer
  <2>1. CASE LateTimer(w)
    BY <2>0, <2>1 DEF LateTimer, TimerUnused, TypeOK
  <2>2. CASE FirstUpdate(w)
    <3>1. Shows(w, var) \in Looks
      BY ShowsType DEF TypeOK
    <3>2. display' \in [Widgets -> Looks]
      BY <2>2, <3>1 DEF FirstUpdate, TypeOK
    <3> QED
      BY <2>0, <2>2, <3>2 DEF FirstUpdate, TimerUnused, TypeOK
  <2>3. CASE LoadEntry(w) \/ UpdateRadio(w) \/ GetValue(w)
    <3>1. /\ TimerUnused /\ UNCHANGED <<display, forced>>
          /\ timer' \subseteq timer /\ loaded' \subseteq loaded \cup {w}
      BY <2>3 DEF LoadEntry, UpdateRadio, GetValue, Loads
    <3>2. \E x \in Text :
            /\ field' = [field EXCEPT ![w] = x]
            /\ lastValue' \in {lastValue, [lastValue EXCEPT ![w] = x]}
            /\ sent' \in {sent, [sent EXCEPT ![w] = x]}
            /\ editing' \subseteq editing /\ unsent' \subseteq unsent
      BY <2>3
      DEF LoadEntry, UpdateRadio, GetValue, Given, SetEntry, TypeOK, Text
    <3>3. field' \in [Widgets -> Text] /\ lastValue' \in [Widgets -> Text]
          /\ sent' \in [Widgets -> Text]
      BY <1>0, <3>2 DEF TypeOK
    <3> QED
      BY <2>0, <3>1, <3>2, <3>3 DEF TimerUnused, TypeOK
  <2> QED
    BY <1>4, <2>1, <2>2, <2>3 DEF Timer
<1>5. ASSUME NEW w \in Widgets, User(w)
      PROVE  TypeOK'
  <2>0. UNCHANGED overdrawn
    BY <1>5 DEF User
  <2>1. ASSUME NEW s \in {"on", "off"}, SetButton(w, s)
        PROVE  TypeOK'
    BY <2>0, <2>1 DEF SetButton, UserUnused, TypeOK, Looks
  <2>2. ASSUME NEW x \in Booleans, SetLed(w, x)
        PROVE  TypeOK'
    <3>1. x \in Text
      BY ValuesAssumption DEF Text
    <3>2. var' \in Text /\ display' \in [Widgets -> Looks]
          /\ forced' \subseteq Widgets
      BY <2>2, <3>1, WrittenType DEF SetLed
    <3> QED
      BY <2>0, <2>2, <3>2 DEF SetLed, TypeOK
  <2>3. ASSUME NEW x \in Typed, Select(w, x) \/ Type(w, x)
        PROVE  TypeOK'
    <3>1. x \in Text
      BY ValuesAssumption DEF Text
    <3>2. field' \in [Widgets -> Text] /\ editing' \subseteq Widgets
      BY <1>0, <2>3, <3>1 DEF Select, Type, TypeOK
    <3> QED
      BY <2>0, <2>3, <3>2 DEF Select, Type, UserUnused, TypeOK
  <2>4. ASSUME \/ \E x \in Typed : Set(w, x)
               \/ RestoreLast(w) \/ Commit(w)
        PROVE  TypeOK'
    <3>1. /\ lastValue[w] \in Text /\ field[w] \in Text
          /\ \A x \in Typed : x \in Text
      BY ValuesAssumption DEF TypeOK, Text
    <3>2. PICK x \in Text :
            /\ field' \in {field, [field EXCEPT ![w] = x]}
            /\ lastValue' = [lastValue EXCEPT ![w] = x]
            /\ sent' \in {sent, [sent EXCEPT ![w] = x]}
            /\ editing' \subseteq editing /\ unsent' \subseteq unsent \cup {w}
            /\ UserUnused /\ UNCHANGED <<display, forced>>
      BY <2>4, <3>1 DEF Set, RestoreLast, Commit, Put, Given, SetEntry
    <3>3. /\ field' \in [Widgets -> Text] /\ lastValue' \in [Widgets -> Text]
          /\ sent' \in [Widgets -> Text]
      BY <1>0, <3>2 DEF TypeOK
    <3> QED
      BY <2>0, <3>2, <3>3 DEF UserUnused, TypeOK
  <2> QED
    BY <1>5, <2>1, <2>2, <2>3, <2>4 DEF User
<1>6. CASE UNCHANGED vars
  BY <1>6 DEF vars, TypeOK
<1>7. ASSUME NEW w \in Widgets, Construct(w), ConstructRadioFails(w)
      PROVE  TypeOK'
  <2>1. Takes(w, "radio") /\ UNCHANGED <<alive, traces, display, field, timer>>
        /\ UNCHANGED overdrawn
    BY <1>7 DEF ConstructRadioFails, Construct
  <2>2. /\ refs' \in Nat /\ links' \in Nat /\ var' \in Text
        /\ kind' \in [Widgets -> Kinds \cup {"none"}]
        /\ UNCHANGED <<connected, value, fresh, queued, setv, entries, loaded,
                       forced>>
    BY <2>1, TakesType
  <2> QED
    BY <2>1, <2>2 DEF TypeOK
<1>8. ASSUME NEW w \in Widgets, ConstructLabelFails(w)
      PROVE  TypeOK'
  <2>1. overdrawn' \in BOOLEAN
    BY <1>8, Zenon DEF ConstructLabelFails
  <2>2. links = refs /\ refs \in Nat /\ refs - 1 \in Nat
    BY <1>8 DEF ConstructLabelFails, ReferencesExact, TypeOK
  <2>3. refs' \in Nat /\ links' \in Nat
    BY <1>8, <2>2 DEF ConstructLabelFails, GiveBack
  <2>4. UNCHANGED <<connected, value, fresh, queued>>
        \/ (connected' = FALSE /\ value' = NoValue /\ fresh' = FALSE
            /\ queued' = FALSE)
    BY <1>8 DEF ConstructLabelFails, GiveBack
  <2>5. /\ connected' \in BOOLEAN /\ fresh' \in BOOLEAN
        /\ queued' \in BOOLEAN
    BY <2>4, Zenon DEF TypeOK
  <2>6. value' \in Text
    BY <2>4 DEF TypeOK, Text
  <2>7. UNCHANGED <<var, setv, traces, kind, alive, display, field, entries,
                    timer, loaded, forced>>
    BY <1>8 DEF ConstructLabelFails
  <2> QED
    BY <2>1, <2>3, <2>5, <2>6, <2>7 DEF TypeOK
<1> QED
  BY <1>1, <1>2, <1>3, <1>4, <1>5, <1>6, <1>7, <1>8 DEF Next

-----------------------------------------------------------------------------
(* References and traces.                                                     *)

LEMMA HoldersAreFinite == IsFiniteSet(Holders)
BY WidgetsAssumption, FS_Subset DEF Holders

LEMMA HoldersAreCounted ==
  ASSUME TypeOK, ReferencesExact, ~overdrawn
  PROVE  /\ refs = Cardinality(Holders) /\ links = refs
         /\ alive \subseteq Holders
         /\ alive # {} => refs # 0
         /\ refs = 0 => ~connected /\ ~queued
<1>1. refs = Cardinality(Holders) /\ links = refs
      /\ (refs = 0 => ~connected /\ ~queued)
  BY DEF ReferencesExact, Holders
<1>2. alive \subseteq Holders
  BY DEF TypeOK, Holders
<1>3. Cardinality(Holders) = 0 <=> Holders = {}
  BY HoldersAreFinite, FS_EmptySet
<1> QED
  BY <1>1, <1>2, <1>3

(* Of a widget with a destructor the reference is given back, and the channel *)
(* goes with the last one.                                                    *)
LEMMA LastReference ==
  ASSUME TypeOK, ReferencesExact, ~overdrawn, NEW w \in alive, refs = 1
  PROVE  Holders = {w}
<1>1. Cardinality(Holders) = 1 /\ w \in Holders
  BY HoldersAreCounted
<1> QED
  BY <1>1, HoldersAreFinite, FS_Singleton

LEMMA ReferencesStep ==
  ASSUME TypeOK, TracesOK, ReferencesExact, [Next]_vars
  PROVE  ReferencesExact'
<1> USE DEF channel
<1> SUFFICES ASSUME ~overdrawn' PROVE ReferencesExact'
  BY DEF ReferencesExact
<1>s. ~overdrawn
  <2>1. CASE Channel
    BY <2>1 DEF Channel, Sound
  <2>2. ASSUME NEW w \in Widgets,
               \/ Construct(w) \/ Destroy(w) \/ Timer(w) \/ User(w)
               \/ ConstructLabelFails(w)
        PROVE  ~overdrawn
    BY <2>2 DEF Construct, Destroy, Timer, User, ConstructLabelFails, Sound
  <2>3. CASE UNCHANGED vars
    BY <2>3 DEF vars
  <2> QED
    BY <2>1, <2>2, <2>3 DEF Next
<1>0. /\ IsFiniteSet(Holders) /\ links = refs /\ refs \in Nat
      /\ refs = Cardinality(Holders) /\ alive \subseteq Widgets
      /\ (refs = 0 => ~connected /\ ~queued)
  BY <1>s, HoldersAreFinite, HoldersAreCounted DEF TypeOK
<1>1. ASSUME UNCHANGED <<refs, links, kind, alive>>,
             refs = 0 => ~connected' /\ ~queued'
      PROVE  ReferencesExact'
  BY <1>0, <1>1 DEF ReferencesExact, Holders
<1>2. ASSUME NEW w \in Widgets, Construct(w)
      PROVE  ReferencesExact'
  <2>1. PICK k \in Kinds :
          Takes(w, k) /\ \/ alive' = alive \cup {w}
                         \/ k = "radio" /\ UNCHANGED alive
    <3>1. CASE ConstructRadioFails(w)
      <4>1. Takes(w, "radio") /\ UNCHANGED alive
        BY <3>1 DEF ConstructRadioFails
      <4>2. "radio" \in Kinds
        BY <4>1, TakesType
      <4> QED
        BY <4>1, <4>2
    <3>2. CASE ~ConstructRadioFails(w)
      BY <1>2, <3>2, ConstructIs DEF Tracks
    <3> QED
      BY <3>1, <3>2
  <2>2. /\ kind[w] = "none" /\ kind'[w] = k
        /\ \A v \in Widgets \ {w} : kind'[v] = kind[v]
        /\ refs' = refs + 1 /\ links' = links + 1
    BY <2>1, TakesType DEF Takes
  <2>3. w \notin Holders
    BY <2>2, KindsAre DEF Holders, TracesOK
  <2>4. Holders' = Holders \cup {w}
    BY <2>1, <2>2 DEF Holders, Labels
  <2>5. Cardinality(Holders') = Cardinality(Holders) + 1
    BY <1>0, <2>3, <2>4, FS_AddElement
  <2> QED
    BY <1>0, <2>2, <2>5 DEF ReferencesExact
<1>3. ASSUME NEW w \in Widgets, Destroy(w)
      PROVE  ReferencesExact'
  <2>1. w \in alive /\ alive' = alive \ {w} /\ UNCHANGED kind
    BY <1>3 DEF Destroy
  <2>2. CASE kind[w] \in Labels
    <3>1. /\ refs' = refs - 1 /\ links' = links - 1
          /\ IF refs = 1 THEN connected' = FALSE /\ queued' = FALSE
             ELSE UNCHANGED <<connected, queued>>
      BY <1>3, <2>2 DEF Destroy, DestroyLabel, GiveBack
    <3>2. w \in Holders
      BY <1>0, <2>1 DEF Holders
    <3>3. Holders' = Holders \ {w}
      BY <1>0, <2>1, <2>2 DEF Holders
    <3>4. Cardinality(Holders') = Cardinality(Holders) - 1
      BY <1>0, <3>2, <3>3, FS_RemoveElement
    <3>5. refs' = Cardinality(Holders') /\ links' = refs'
      BY <1>0, <3>1, <3>4
    <3>6. refs' = 0 => ~connected' /\ ~queued'
      BY <1>0, <3>1
    <3> QED
      BY <3>5, <3>6 DEF ReferencesExact, Holders
  <2>3. CASE kind[w] \notin Labels
    <3>1. UNCHANGED channel
      BY <1>3, <2>3 DEF Destroy
    <3>2. kind[w] \in Kinds \ Labels
      BY <1>0, <2>1, <2>3 DEF TypeOK, TracesOK
    <3>3. Holders' = Holders
      BY <1>0, <2>1, <3>2 DEF Holders
    <3> QED
      BY <1>0, <3>1, <3>3 DEF ReferencesExact, Holders
  <2> QED
    BY <2>2, <2>3
<1>4. ASSUME NEW w \in Widgets, Timer(w) \/ User(w)
      PROVE  UNCHANGED <<channel, kind, alive>>
  BY <1>4
  DEF Timer, User, LateTimer, FirstUpdate, LoadEntry, UpdateRadio, GetValue,
      Loads, TimerUnused, SetButton, SetLed, Select, Type, Set, RestoreLast,
      Commit, UserUnused
<1>5. CASE Channel
  <2>1. /\ UNCHANGED <<refs, links, kind, alive>>
        /\ ~connected' \/ connected' = connected \/ refs > 0
        /\ ~queued' \/ queued' = queued \/ links > 0
    BY <1>5 DEF Channel, ConnectionUp, ConnectionDown, Update, ServeChange,
                SetvChanges, Environment, TypeOK
  <2> QED
    BY <1>0, <1>1, <2>1
<1>6. ASSUME NEW w \in Widgets, ConstructLabelFails(w)
      PROVE  FALSE
  BY <1>6 DEF ConstructLabelFails
<1> QED
  BY <1>0, <1>1, <1>2, <1>3, <1>4, <1>5, <1>6 DEF Next, vars

LEMMA TracesStep ==
  ASSUME TypeOK, TracesOK, [Next]_vars
  PROVE  TracesOK' /\ (FreshIsConnected => FreshIsConnected')
<1> USE DEF channel
<1>0. traces \in Seq(Widgets) /\ DOMAIN traces = 1 .. Len(traces)
      /\ Len(traces) \in Nat /\ alive \subseteq Widgets
  BY DEF TypeOK
<1>1. ASSUME UNCHANGED <<traces, kind, alive>>
      PROVE  TracesOK'
  BY <1>1 DEF TracesOK
<1>2. ASSUME NEW w \in Widgets, Construct(w), ~ConstructRadioFails(w)
      PROVE  TracesOK' /\ UNCHANGED <<fresh, connected>>
  <2>1. PICK k \in Kinds :
          /\ Tracks(w, k)
          /\ IF k \in Binary \cup Labels THEN AddTrace(w) ELSE UNCHANGED traces
    BY <1>2, ConstructIs
  <2>2. /\ kind[w] = "none" /\ kind'[w] = k /\ alive' = alive \cup {w}
        /\ \A v \in Widgets \ {w} : kind'[v] = kind[v]
        /\ UNCHANGED <<fresh, connected>>
    BY <2>1, TracksType
  <2>3. k # "none"
    BY KindsAre
  <2>4. \A v \in alive : v # w /\ kind'[v] = kind[v]
    BY <1>0, <2>2 DEF TracesOK
  <2>5. \A i \in 1 .. Len(traces) :
          kind'[traces[i]] \in Binary \cup Labels /\ traces[i] # w
    <3>1. "none" \notin Binary \cup Labels
      BY DEF Binary, Labels
    <3> QED
      BY <1>0, <2>2, <3>1 DEF TracesOK
  <2>6. CASE k \in Binary \cup Labels
    <3>1. /\ traces' \in Seq(Widgets) /\ Len(traces') = Len(traces) + 1
          /\ traces'[1] = w
          /\ \A i \in 1 .. Len(traces) : traces'[i + 1] = traces[i]
      BY <2>1, <2>6, AddTraceIs
    <3>2. DOMAIN traces' = 1 .. Len(traces) + 1
      BY <3>1, LenProperties
    <3>3. ASSUME NEW i \in DOMAIN traces'
          PROVE  kind'[traces'[i]] \in Binary \cup Labels
      <4>1. CASE i = 1
        BY <2>2, <2>6, <3>1, <4>1
      <4>2. CASE i # 1
        <5>1. i - 1 \in 1 .. Len(traces) /\ (i - 1) + 1 = i
          BY <1>0, <3>2, <4>2
        <5>2. traces'[i] = traces[i - 1]
          BY <3>1, <5>1
        <5> QED
          BY <2>5, <5>1, <5>2
      <4> QED
        BY <4>1, <4>2
    <3>4. ASSUME NEW v \in alive', kind'[v] \in {"label", "spin"}
          PROVE  \E i \in DOMAIN traces' : traces'[i] = v
      <4>1. CASE v = w
        BY <1>0, <3>1, <3>2, <4>1
      <4>2. CASE v # w
        <5>1. PICK i \in 1 .. Len(traces) : traces[i] = v
          BY <1>0, <2>2, <2>4, <3>4, <4>2 DEF TracesOK
        <5>2. i + 1 \in DOMAIN traces' /\ traces'[i + 1] = v
          BY <1>0, <3>1, <3>2, <5>1
        <5> QED
          BY <5>2
      <4> QED
        BY <4>1, <4>2
    <3> QED
      BY <2>2, <2>3, <2>4, <3>3, <3>4 DEF TracesOK
  <2>7. CASE k \notin Binary \cup Labels
    <3>1. UNCHANGED traces /\ k \notin {"label", "spin"}
      BY <2>1, <2>7 DEF Labels
    <3> QED
      BY <1>0, <2>2, <2>3, <2>4, <2>5, <3>1 DEF TracesOK
  <2> QED
    BY <2>2, <2>6, <2>7
<1>3. ASSUME NEW w \in Widgets, Destroy(w)
      PROVE  TracesOK' /\ (FreshIsConnected => FreshIsConnected')
  <2>1. w \in alive /\ alive' = alive \ {w} /\ UNCHANGED kind
    BY <1>3 DEF Destroy
  <2>2. FreshIsConnected => FreshIsConnected'
    BY <1>3 DEF Destroy, DestroyLabel, GiveBack, FreshIsConnected
  <2>3. CASE kind[w] \in {"label", "spin"}
    <3>1. traces' = WithoutTrace(w)
      BY <1>3, <2>3 DEF Destroy, DestroyLabel, Labels
    <3>2. PICK k \in DOMAIN traces : traces[k] = w
      BY <2>1, <2>3 DEF TracesOK
    <3>3. PICK i \in DOMAIN traces :
            /\ traces[i] = w
            /\ DOMAIN traces' = 1 .. Len(traces) - 1
            /\ \A j \in 1 .. Len(traces) - 1 :
                 traces'[j] = IF j < i THEN traces[j] ELSE traces[j + 1]
      BY <3>1, <3>2, WithoutTraceIs
    <3>4. ASSUME NEW j \in DOMAIN traces'
          PROVE  kind'[traces'[j]] \in Binary \cup Labels
      <4>1. j \in DOMAIN traces /\ j + 1 \in DOMAIN traces
        BY <1>0, <3>3
      <4>2. traces'[j] = traces[j] \/ traces'[j] = traces[j + 1]
        BY <3>3
      <4> QED
        BY <2>1, <4>1, <4>2 DEF TracesOK
    <3>5. ASSUME NEW v \in alive', kind[v] \in {"label", "spin"}
          PROVE  \E j \in DOMAIN traces' : traces'[j] = v
      <4>1. PICK j \in DOMAIN traces : traces[j] = v /\ j # i
        BY <2>1, <3>3, <3>5 DEF TracesOK
      <4>2. CASE j < i
        <5>1. j \in 1 .. Len(traces) - 1
          BY <1>0, <3>3, <4>1, <4>2
        <5> QED
          BY <3>3, <4>1, <4>2, <5>1
      <4>3. CASE ~(j < i)
        <5>1. j - 1 \in 1 .. Len(traces) - 1 /\ ~(j - 1 < i) /\ (j - 1) + 1 = j
          BY <1>0, <3>3, <4>1, <4>3
        <5>2. traces'[j - 1] = traces[j]
          BY <3>3, <5>1
        <5> QED
          BY <3>3, <4>1, <5>1, <5>2
      <4> QED
        BY <4>2, <4>3
    <3> QED
      BY <2>1, <2>2, <3>4, <3>5 DEF TracesOK
  <2>4. CASE kind[w] \notin {"label", "spin"}
    <3>1. UNCHANGED traces
      BY <1>3, <2>4 DEF Destroy, DestroyLabel, Labels
    <3> QED
      BY <2>1, <2>2, <3>1 DEF TracesOK
  <2> QED
    BY <2>3, <2>4
<1>4. ASSUME NEW w \in Widgets, Timer(w) \/ User(w)
      PROVE  UNCHANGED <<traces, kind, alive, fresh, connected>>
  BY <1>4
  DEF Timer, User, LateTimer, FirstUpdate, LoadEntry, UpdateRadio, GetValue,
      Loads, TimerUnused, SetButton, SetLed, Select, Type, Set, RestoreLast,
      Commit, UserUnused
<1>5. CASE Channel
  <2>1. UNCHANGED <<traces, kind, alive>>
        /\ (FreshIsConnected => FreshIsConnected')
    BY <1>5 DEF Channel, ConnectionUp, ConnectionDown, Update, ServeChange,
                SetvChanges, Environment, FreshIsConnected
  <2> QED
    BY <1>1, <2>1
<1>6. CASE UNCHANGED vars
  BY <1>1, <1>6 DEF vars, FreshIsConnected
<1>7. ASSUME NEW w \in Widgets, ConstructRadioFails(w)
      PROVE  TracesOK' /\ UNCHANGED <<fresh, connected>>
  <2>1. /\ kind[w] = "none" /\ \A v \in Widgets \ {w} : kind'[v] = kind[v]
        /\ UNCHANGED <<alive, traces, fresh, connected>>
    BY <1>7, TakesType DEF ConstructRadioFails
  <2>2. "none" \notin Binary \cup Labels
    BY DEF Binary, Labels
  <2>3. \A v \in alive : v # w /\ kind'[v] = kind[v]
    BY <1>0, <2>1 DEF TracesOK
  <2>4. \A i \in DOMAIN traces : kind'[traces[i]] = kind[traces[i]]
    <3> SUFFICES ASSUME NEW i \in DOMAIN traces
                 PROVE  kind'[traces[i]] = kind[traces[i]]
      OBVIOUS
    <3>1. traces[i] \in Widgets
      BY <1>0
    <3>2. traces[i] # w
      BY <2>1, <2>2 DEF TracesOK
    <3> QED
      BY <2>1, <3>1, <3>2
  <2> QED
    BY <2>1, <2>3, <2>4 DEF TracesOK
<1>8. ASSUME NEW w \in Widgets, ConstructLabelFails(w)
      PROVE  TracesOK' /\ (FreshIsConnected => FreshIsConnected')
  BY <1>1, <1>8 DEF ConstructLabelFails, GiveBack, FreshIsConnected
<1> QED
  BY <1>1, <1>2, <1>3, <1>4, <1>5, <1>6, <1>7, <1>8 DEF Next, FreshIsConnected

-----------------------------------------------------------------------------
(* Entries.                                                                   *)

LEMMA EntriesStep ==
  ASSUME TypeOK, TracesOK, EntriesOK, [Next]_vars
  PROVE  EntriesOK'
<1> USE DEF channel, entries
<1>0. /\ field \in [Widgets -> Text] /\ lastValue \in [Widgets -> Text]
      /\ sent \in [Widgets -> Text] /\ kind \in [Widgets -> Kinds \cup {"none"}]
  BY DEF TypeOK
<1>1. ASSUME UNCHANGED <<field, lastValue, sent, editing, unsent>>,
             \A v \in Widgets : kind'[v] = kind[v] \/ kind[v] = "none"
      PROVE  EntriesOK'
  BY <1>1 DEF EntriesOK
<1>2. ASSUME NEW w \in Widgets, Construct(w), ~ConstructRadioFails(w)
      PROVE  EntriesOK'
  <2>1. PICK k \in Kinds :
          /\ Tracks(w, k)
          /\ IF k = "radio" THEN field' = [field EXCEPT ![w] = var']
             ELSE UNCHANGED field
    BY <1>2, ConstructIs
  <2>2. /\ kind[w] = "none" /\ kind'[w] = k
        /\ \A v \in Widgets \ {w} : kind'[v] = kind[v]
        /\ UNCHANGED <<lastValue, sent, editing, unsent>>
    BY <2>1, TracksType
  <2>3. \A v \in Widgets \ {w} : field'[v] = field[v]
    BY <1>0, <2>1
  <2>4. k \in {"none", "entry"} => UNCHANGED field
    BY <2>1
  <2> QED
    BY <2>2, <2>3, <2>4 DEF EntriesOK
<1>3. ASSUME NEW w \in Widgets, Destroy(w)
      PROVE  EntriesOK'
  <2>1. /\ kind' = kind /\ editing' = editing \ {w} /\ unsent' = unsent \ {w}
        /\ field'[w] = NoValue /\ lastValue'[w] = NoValue /\ sent'[w] = NoValue
    BY <1>0, <1>3 DEF Destroy
  <2>2. \A v \in Widgets \ {w} : /\ field'[v] = field[v] /\ sent'[v] = sent[v]
                                 /\ lastValue'[v] = lastValue[v]
    BY <1>0, <1>3 DEF Destroy
  <2> QED
    BY <2>1, <2>2 DEF EntriesOK
<1>4. ASSUME NEW w \in Widgets, Timer(w)
      PROVE  EntriesOK'
  <2>1. CASE LateTimer(w) \/ FirstUpdate(w)
    BY <1>1, <2>1 DEF LateTimer, FirstUpdate, TimerUnused
  <2>2. CASE LoadEntry(w)
    BY <1>0, <2>2
    DEF LoadEntry, Given, SetEntry, TimerUnused, Loads, EntriesOK
  <2>3. CASE UpdateRadio(w) \/ GetValue(w)
    BY <1>0, <2>3
    DEF UpdateRadio, GetValue, TimerUnused, Loads, EntriesOK
  <2> QED
    BY <1>4, <2>1, <2>2, <2>3 DEF Timer
<1>5. ASSUME NEW w \in Widgets, User(w)
      PROVE  EntriesOK'
  <2>1. ASSUME NEW s \in {"on", "off"}, SetButton(w, s)
        PROVE  EntriesOK'
    BY <1>1, <2>1 DEF SetButton, UserUnused
  <2>2. ASSUME NEW x \in Booleans, SetLed(w, x)
        PROVE  EntriesOK'
    BY <1>1, <2>2 DEF SetLed
  <2>3. ASSUME NEW x \in Typed, Select(w, x) \/ Type(w, x)
        PROVE  EntriesOK'
    BY <1>0, <2>3 DEF Select, Type, UserUnused, EntriesOK
  <2>4. CASE RestoreLast(w)
    BY <1>0, <2>4 DEF RestoreLast, SetEntry, UserUnused, EntriesOK
  <2>5. CASE Commit(w)
    BY <1>0, <2>5 DEF Commit, Put, UserUnused, EntriesOK
  <2>6. ASSUME NEW x \in Typed, Set(w, x)
        PROVE  EntriesOK'
    BY <1>0, <2>6 DEF Set, Given, SetEntry, UserUnused, EntriesOK
  <2> QED
    BY <1>5, <2>1, <2>2, <2>3, <2>4, <2>5, <2>6 DEF User
<1>6. CASE Channel
  BY <1>1, <1>6 DEF Channel, ConnectionUp, ConnectionDown, Update, ServeChange,
                    SetvChanges, Environment
<1>7. CASE UNCHANGED vars
  BY <1>1, <1>7 DEF vars
<1>8. ASSUME NEW w \in Widgets, ConstructRadioFails(w)
      PROVE  EntriesOK'
  <2>1. /\ kind[w] = "none" /\ \A v \in Widgets \ {w} : kind'[v] = kind[v]
        /\ UNCHANGED <<field, lastValue, sent, editing, unsent>>
    BY <1>8, TakesType DEF ConstructRadioFails
  <2> QED
    BY <1>1, <2>1
<1>9. ASSUME NEW w \in Widgets, ConstructLabelFails(w)
      PROVE  EntriesOK'
  BY <1>1, <1>9 DEF ConstructLabelFails
<1> QED
  BY <1>2, <1>3, <1>4, <1>5, <1>6, <1>7, <1>8, <1>9 DEF Next

-----------------------------------------------------------------------------
(* Displays.                                                                  *)

(* What the traces show when the variable is written: a widget that no        *)
(* younger one obstructs agrees with it.                                      *)
LEMMA WrittenAgrees ==
  ASSUME TypeOK, NEW x \in Text, Written(x), NEW v \in alive, Unobstructed(v),
         UNCHANGED <<connected, value, kind, timer>>
  PROVE  Agrees(v)'
<1>0. /\ traces \in Seq(Widgets) /\ DOMAIN traces = 1 .. Len(traces)
      /\ Len(traces) \in Nat /\ v \in Widgets
  BY DEF TypeOK
<1>1. PICK j \in DOMAIN traces :
        /\ traces[j] = v
        /\ \A i \in 1 .. (j - 1) :
             /\ traces[i] \in alive
             /\ kind[traces[i]] = "button" => value \in On \cup Off
  BY DEF Unobstructed
<1>2. ~Fails(v) => v \in Reached
  <2> SUFFICES ASSUME ~Fails(v) PROVE v \in Reached
    OBVIOUS
  <2>1. \A k \in 1 .. j : ~Fails(traces[k])
    <3> SUFFICES ASSUME NEW k \in 1 .. j PROVE ~Fails(traces[k])
      OBVIOUS
    <3>1. k = j \/ k \in 1 .. (j - 1)
      BY <1>0
    <3> QED
      BY <1>1, <3>1 DEF Fails
  <2> QED
    BY <1>1, <2>1 DEF Reached
<1>3. v \in Reached => display'[v] = Shows(v, x)
  BY <1>0 DEF Written
<1>4. LabelAgrees(v)'
  <2> SUFFICES ASSUME kind[v] \in Labels PROVE display'[v] = var'
    BY DEF LabelAgrees
  <2>1. ~Fails(v) /\ kind[v] \notin {"button", "led"}
    BY DEF Fails, Labels
  <2>2. Shows(v, x) = x
    BY <2>1 DEF Shows
  <2> QED
    BY <1>2, <1>3, <2>1, <2>2 DEF Written
<1>5. LedAgrees(v)'
  <2> SUFFICES ASSUME kind[v] = "led", var' \in Booleans
               PROVE  display'[v] = IF var' \in On THEN "on" ELSE "off"
    BY DEF LedAgrees
  <2>1. ~Fails(v)
    BY DEF Fails
  <2>2. Shows(v, x) = LedShows(v, x)
    BY DEF Shows
  <2> QED
    BY <1>2, <1>3, <2>1, <2>2 DEF Written, LedShows
<1>6. ButtonAgrees(v)'
  <2> SUFFICES ASSUME kind[v] = "button", connected, value \in On \cup Off
               PROVE  display'[v] = IF value \in On THEN "on" ELSE "off"
    BY DEF ButtonAgrees
  <2>1. ~Fails(v)
    BY DEF Fails
  <2>2. Shows(v, x) = ButtonShows(v)
    BY DEF Shows
  <2> QED
    BY <1>2, <1>3, <2>1, <2>2 DEF ButtonShows
<1> QED
  BY <1>4, <1>5, <1>6 DEF Agrees

(* A step that changes nothing of a widget, nor of what it shows.             *)
LEMMA AgreesStays ==
  ASSUME NEW v, Agrees(v), kind'[v] = kind[v], display'[v] = display[v],
         UNCHANGED <<var, value>>, connected' => connected, fresh' => fresh,
         kind[v] \in Binary => (v \in timer => v \in timer'),
         v \in forced => v \in forced'
  PROVE  Agrees(v)'
BY DEF Agrees, LabelAgrees, LedAgrees, ButtonAgrees, Binary

(* The way to a widget's trace is not cleared by widgets that go.             *)
LEMMA StaysObstructed ==
  ASSUME NEW v, Unobstructed(v)', UNCHANGED <<traces, kind, value>>,
         alive' \subseteq alive
  PROVE  Unobstructed(v)
BY DEF Unobstructed

LEMMA ConstructDisplays ==
  ASSUME TypeOK, TracesOK, ReferencesExact, AllAgree,
         NEW w \in Widgets, Construct(w), ~ConstructRadioFails(w)
  PROVE  AllAgree'
<1>s. ~overdrawn
  BY DEF Construct, Sound
<1>1. PICK k \in Kinds :
        /\ Tracks(w, k)
        /\ IF k \in Binary \cup Labels THEN AddTrace(w) ELSE UNCHANGED traces
        /\ IF k \in Binary THEN display' = [display EXCEPT ![w] = "off"]
           ELSE IF k \in Labels THEN display' = [display EXCEPT ![w] = var']
           ELSE UNCHANGED display
        /\ timer' = IF k \in {"label", "meter"} THEN timer
                    ELSE timer \cup {w}
  BY ConstructIs
<1>2. /\ kind[w] = "none" /\ kind'[w] = k /\ alive' = alive \cup {w}
      /\ \A v \in Widgets \ {w} : kind'[v] = kind[v]
      /\ UNCHANGED <<connected, value, fresh, queued, forced>>
  BY <1>1, TracksType
<1>3. /\ traces \in Seq(Widgets) /\ DOMAIN traces = 1 .. Len(traces)
      /\ Len(traces) \in Nat /\ alive \subseteq Widgets
      /\ display \in [Widgets -> Looks]
  BY DEF TypeOK
<1>4. Agrees(w)'
  <2>1. k \in Binary => w \in timer' /\ k \notin Labels
    BY <1>1 DEF Binary, Labels
  <2>2. k \in Labels => display'[w] = var' /\ k \notin Binary
    BY <1>1, <1>3, <2>1
  <2> QED
    BY <1>2, <2>1, <2>2
    DEF Agrees, LabelAgrees, LedAgrees, ButtonAgrees, Binary
<1>5. ASSUME ~queued, NEW v \in alive, Unobstructed(v)'
      PROVE  Agrees(v)'
  <2>1. v # w /\ v \in Widgets
    BY <1>2, <1>3 DEF TracesOK
  <2>2. UNCHANGED var
    <3>1. links # 0
      BY <1>s, HoldersAreCounted
    <3> QED
      BY <1>1, <3>1 DEF Tracks, Takes
  <2>3. display'[v] = display[v]
    BY <1>1, <1>3, <2>1
  <2>4. v \in timer => v \in timer'
    BY <1>1
  <2>5. Unobstructed(v)
    <3>1. \A i \in 1 .. Len(traces) :
            /\ traces[i] \in Widgets \ {w}
            /\ kind'[traces[i]] = kind[traces[i]]
      <4>1. "none" \notin Binary \cup Labels
        BY DEF Binary, Labels
      <4> SUFFICES ASSUME NEW i \in 1 .. Len(traces)
                   PROVE  /\ traces[i] \in Widgets \ {w}
                          /\ kind'[traces[i]] = kind[traces[i]]
        OBVIOUS
      <4>2. traces[i] \in Widgets
        BY <1>3
      <4>3. kind[traces[i]] \in Binary \cup Labels
        BY <1>3 DEF TracesOK
      <4>4. traces[i] # w
        BY <1>2, <4>1, <4>3
      <4> QED
        BY <1>2, <4>2, <4>4
    <3>2. PICK j \in DOMAIN traces' :
            /\ traces'[j] = v
            /\ \A i \in 1 .. (j - 1) :
                 /\ traces'[i] \in alive'
                 /\ kind'[traces'[i]] = "button" => value' \in On \cup Off
      BY <1>5 DEF Unobstructed
    <3>3. CASE UNCHANGED traces
      <4>1. \A i \in 1 .. (j - 1) : i \in 1 .. Len(traces)
        BY <1>3, <3>2, <3>3
      <4>2. \A i \in 1 .. (j - 1) :
              /\ traces[i] \in alive
              /\ kind[traces[i]] = "button" => value \in On \cup Off
        BY <1>2, <3>1, <3>2, <3>3, <4>1
      <4> QED
        BY <3>2, <3>3, <4>2 DEF Unobstructed
    <3>4. CASE AddTrace(w)
      <4>1. /\ traces' \in Seq(Widgets) /\ Len(traces') = Len(traces) + 1
            /\ traces'[1] = w
            /\ \A i \in 1 .. Len(traces) : traces'[i + 1] = traces[i]
        BY <3>4, AddTraceIs
      <4>2. j \in 1 .. Len(traces) + 1
        BY <3>2, <4>1, LenProperties
      <4>3. j # 1
        BY <2>1, <3>2, <4>1
      <4>4. j - 1 \in 1 .. Len(traces) /\ (j - 1) + 1 = j
        BY <1>3, <4>2, <4>3
      <4>5. traces[j - 1] = v
        BY <3>2, <4>1, <4>4
      <4>6. ASSUME NEW i \in 1 .. (j - 1) - 1
            PROVE  /\ traces[i] \in alive
                   /\ kind[traces[i]] = "button" => value \in On \cup Off
        <5>1. i + 1 \in 1 .. (j - 1) /\ i \in 1 .. Len(traces)
          BY <1>3, <4>2
        <5>2. traces'[i + 1] = traces[i]
          BY <4>1, <5>1
        <5> QED
          BY <1>2, <3>1, <3>2, <5>1, <5>2
      <4> QED
        BY <1>3, <4>4, <4>5, <4>6 DEF Unobstructed
    <3> QED
      BY <1>1, <3>3, <3>4
  <2>6. Agrees(v)
    BY <1>s, <1>5, <2>5 DEF AllAgree
  <2> QED
    BY <1>2, <2>1, <2>2, <2>3, <2>4, <2>6, AgreesStays
<1> QED
  BY <1>2, <1>4, <1>5 DEF AllAgree

(* The one constructor that fails and keeps what it has taken.                *)
LEMMA RadioFailsDisplays ==
  ASSUME TypeOK, TracesOK, ReferencesExact, AllAgree, ~overdrawn,
         NEW w \in Widgets, ConstructRadioFails(w)
  PROVE  AllAgree'
<1> SUFFICES ASSUME ~queued', NEW v \in alive', Unobstructed(v)'
             PROVE  Agrees(v)'
  BY DEF AllAgree
<1>1. /\ kind[w] = "none" /\ \A u \in Widgets \ {w} : kind'[u] = kind[u]
      /\ UNCHANGED <<alive, traces, display, timer, forced, connected, value,
                     fresh, queued>>
  BY TakesType DEF ConstructRadioFails
<1>2. /\ DOMAIN traces = 1 .. Len(traces) /\ Len(traces) \in Nat
      /\ \A i \in DOMAIN traces : traces[i] \in Widgets
      /\ alive \subseteq Widgets
  BY DEF TypeOK
<1>3. v # w /\ kind'[v] = kind[v]
  BY <1>1, <1>2 DEF TracesOK
<1>4. ASSUME NEW i \in DOMAIN traces
      PROVE  kind'[traces[i]] = kind[traces[i]]
  <2>1. "none" \notin Binary \cup Labels
    BY DEF Binary, Labels
  <2>2. traces[i] # w
    BY <1>1, <2>1 DEF TracesOK
  <2> QED
    BY <1>1, <1>2, <2>2
<1>5. UNCHANGED var
  <2>1. links # 0
    BY <1>1, HoldersAreCounted
  <2> QED
    BY <2>1 DEF ConstructRadioFails, Takes
<1>6. Unobstructed(v)
  <2>1. PICK j \in DOMAIN traces :
          /\ traces[j] = v
          /\ \A i \in 1 .. (j - 1) :
               /\ traces[i] \in alive
               /\ kind'[traces[i]] = "button" => value \in On \cup Off
    BY <1>1 DEF Unobstructed
  <2>2. \A i \in 1 .. (j - 1) : i \in DOMAIN traces
    BY <1>2
  <2> QED
    BY <1>4, <2>1, <2>2 DEF Unobstructed
<1>7. Agrees(v)
  BY <1>1, <1>6 DEF AllAgree
<1> QED
  BY <1>1, <1>3, <1>5, <1>7, AgreesStays

LEMMA DestroyDisplays ==
  ASSUME TypeOK, TracesOK, ReferencesExact, AllAgree,
         NEW w \in Widgets, Destroy(w)
  PROVE  AllAgree'
<1>s. ~overdrawn
  BY DEF Destroy, Sound
<1>1. /\ w \in alive /\ alive' = alive \ {w}
      /\ UNCHANGED <<var, kind>> /\ forced' = forced \ {w}
      /\ timer' = IF kind[w] = "entry" THEN timer \ {w} ELSE timer
      /\ \A v \in Widgets \ {w} : display'[v] = display[v]
  BY DEF Destroy, TypeOK
<1>2. alive' = {} \/ UNCHANGED <<connected, value, fresh, queued>>
  <2>1. CASE kind[w] \in Labels /\ refs = 1
    BY <1>s, <1>1, <2>1, LastReference, HoldersAreCounted
  <2>2. CASE kind[w] \in Labels /\ refs # 1
    BY <2>2 DEF Destroy, DestroyLabel, GiveBack
  <2>3. CASE kind[w] \notin Labels
    BY <2>3 DEF Destroy, channel
  <2> QED
    BY <2>1, <2>2, <2>3
<1>3. ASSUME UNCHANGED <<connected, value, fresh, queued>>, ~queued,
             NEW v \in alive', Unobstructed(v)'
      PROVE  Agrees(v)'
  <2>1. v \in Widgets /\ v \in alive /\ v # w
    BY <1>1 DEF TypeOK
  <2>2. Unobstructed(v)
    <3>1. CASE UNCHANGED traces
      BY <1>1, <1>3, <3>1, StaysObstructed
    <3>2. CASE kind[w] \in {"label", "spin"} /\ traces' = WithoutTrace(w)
      <4>1. PICK k \in DOMAIN traces : traces[k] = w
        BY <1>1, <3>2 DEF TracesOK
      <4>2. PICK m \in DOMAIN traces :
              /\ traces[m] = w
              /\ DOMAIN traces' = 1 .. Len(traces) - 1
              /\ \A j \in 1 .. Len(traces) - 1 :
                   traces'[j] = IF j < m THEN traces[j] ELSE traces[j + 1]
        BY <3>2, <4>1, WithoutTraceIs
      <4>3. DOMAIN traces = 1 .. Len(traces) /\ Len(traces) \in Nat
        BY DEF TypeOK
      <4>4. PICK j \in 1 .. Len(traces) - 1 :
              /\ traces'[j] = v
              /\ \A i \in 1 .. (j - 1) :
                   /\ traces'[i] \in alive'
                   /\ kind'[traces'[i]] = "button" => value' \in On \cup Off
        BY <1>3, <4>2 DEF Unobstructed
      <4>5. PICK n \in DOMAIN traces : n = IF j < m THEN j ELSE j + 1
        BY <4>3
      <4>6. traces[n] = v
        BY <4>2, <4>4, <4>5
      <4>7. ASSUME NEW i \in 1 .. (n - 1)
            PROVE  /\ traces[i] \in alive
                   /\ kind[traces[i]] = "button" => value \in On \cup Off
        <5>1. CASE i = m
          BY <1>1, <3>2, <4>2, <5>1
        <5>2. CASE i < m
          <6>1. i \in 1 .. (j - 1) /\ i \in 1 .. Len(traces) - 1
            BY <4>3, <4>4, <4>5, <5>2
          <6>2. traces'[i] = traces[i]
            BY <4>2, <5>2, <6>1
          <6> QED
            BY <1>1, <1>3, <4>4, <6>1, <6>2
        <5>3. CASE i > m
          <6>1. i - 1 \in 1 .. (j - 1) /\ i - 1 \in 1 .. Len(traces) - 1
                /\ ~(i - 1 < m) /\ (i - 1) + 1 = i
            BY <4>3, <4>4, <4>5, <5>3
          <6>2. traces'[i - 1] = traces[i]
            BY <4>2, <6>1
          <6> QED
            BY <1>1, <1>3, <4>4, <6>1, <6>2
        <5> QED
          BY <4>3, <5>1, <5>2, <5>3
      <4> QED
        BY <4>5, <4>6, <4>7 DEF Unobstructed
    <3> QED
      BY <3>1, <3>2 DEF Destroy, DestroyLabel, Labels
  <2>3. Agrees(v)
    BY <1>s, <1>3, <2>1, <2>2 DEF AllAgree
  <2>4. v \in timer => v \in timer'
    BY <1>1, <2>1
  <2>5. display'[v] = display[v] /\ (v \in forced => v \in forced')
    BY <1>1, <2>1
  <2> QED
    BY <1>1, <1>3, <2>3, <2>4, <2>5, AgreesStays
<1> QED
  BY <1>2, <1>3 DEF AllAgree

LEMMA DisplaysStep ==
  ASSUME IInv, [Next]_vars
  PROVE  AllAgree'
<1> USE DEF channel, entries
<1>0. TypeOK /\ TracesOK /\ ReferencesExact /\ AllAgree /\ FreshIsConnected
  BY DEF IInv
<1> SUFFICES ASSUME ~overdrawn' PROVE AllAgree'
  BY DEF AllAgree
<1>d. ~overdrawn
  <2>1. CASE Channel
    BY <2>1 DEF Channel, Sound
  <2>2. ASSUME NEW w \in Widgets,
               \/ Construct(w) \/ Destroy(w) \/ Timer(w) \/ User(w)
               \/ ConstructLabelFails(w)
        PROVE  ~overdrawn
    BY <2>2 DEF Construct, Destroy, Timer, User, ConstructLabelFails, Sound
  <2>3. CASE UNCHANGED vars
    BY <2>3 DEF vars
  <2> QED
    BY <2>1, <2>2, <2>3 DEF Next
<1>a. /\ alive \subseteq Widgets /\ display \in [Widgets -> Looks]
      /\ value \in Text
  BY <1>0 DEF TypeOK
<1>s. ASSUME UNCHANGED <<traces, kind, value, alive, var, queued>>,
             connected' => connected, fresh' => fresh,
             \A v \in alive : /\ display'[v] = display[v]
                              /\ kind[v] \in Binary /\ v \in timer => v \in timer'
                              /\ v \in forced => v \in forced'
      PROVE  AllAgree'
  <2> SUFFICES ASSUME ~queued, NEW v \in alive, Unobstructed(v)'
               PROVE  Agrees(v)'
    BY <1>s DEF AllAgree
  <2>1. Unobstructed(v)
    BY <1>s, StaysObstructed
  <2>2. Agrees(v)
    BY <1>0, <1>d, <2>1 DEF AllAgree
  <2> QED
    BY <1>s, <2>2, AgreesStays
<1>1. CASE Channel
  <2>1. CASE ConnectionUp
    <3> SUFFICES ASSUME ~queued, NEW v \in alive, Unobstructed(v)'
                 PROVE  Agrees(v)'
      BY <2>1 DEF ConnectionUp, Environment, AllAgree
    <3>1. /\ UNCHANGED <<traces, kind, value, alive, var, display>> /\ ~fresh'
      BY <1>0, <2>1 DEF ConnectionUp, Environment, FreshIsConnected
    <3>2. Unobstructed(v)
      BY <3>1, StaysObstructed
    <3>3. Agrees(v)
      BY <1>0, <1>d, <3>2 DEF AllAgree
    <3> QED
      BY <2>1, <3>1, <3>3
      DEF ConnectionUp, Environment, Agrees, LabelAgrees, LedAgrees, ButtonAgrees
  <2>2. CASE ConnectionDown \/ SetvChanges
    BY <1>s, <2>2 DEF ConnectionDown, SetvChanges, Environment
  <2>3. CASE Update
    <3>1. alive' = alive /\ (links > 0 => queued')
      BY <2>3 DEF Update, Environment
    <3>2. links \in Nat /\ (alive # {} => links # 0)
      BY <1>0, <1>d, HoldersAreCounted DEF TypeOK
    <3> QED
      BY <3>1, <3>2 DEF AllAgree
  <2>4. CASE ServeChange
    <3>1. /\ Written(value) /\ UNCHANGED <<connected, value, fresh>>
          /\ UNCHANGED <<traces, kind, alive, timer>>
      BY <2>4 DEF ServeChange, Environment
    <3> SUFFICES ASSUME NEW v \in alive, Unobstructed(v)'
                 PROVE  Agrees(v)'
      BY <3>1 DEF AllAgree
    <3>2. Unobstructed(v)
      BY <3>1, StaysObstructed
    <3> QED
      BY <1>0, <1>a, <3>1, <3>2, WrittenAgrees
  <2> QED
    BY <1>1, <2>1, <2>2, <2>3, <2>4 DEF Channel
<1>2. ASSUME NEW w \in Widgets, Construct(w) \/ Destroy(w)
      PROVE  AllAgree'
  <2>1. CASE Construct(w) /\ ConstructRadioFails(w)
    BY <1>0, <1>d, <2>1, RadioFailsDisplays
  <2> QED
    BY <1>0, <1>2, <2>1, ConstructDisplays, DestroyDisplays
<1>3. ASSUME NEW w \in Widgets, Timer(w)
      PROVE  AllAgree'
  <2>1. CASE LateTimer(w)
    BY <1>s, <2>1 DEF LateTimer, TimerUnused
  <2>2. CASE FirstUpdate(w)
    <3>1. /\ w \in alive /\ timer' = timer \ {w} /\ TimerUnused
          /\ kind[w] \in Binary
          /\ display' = IF Fails(w) THEN display
                        ELSE [display EXCEPT ![w] = Shows(w, var)]
          /\ forced' = IF connected /\ ~Fails(w) THEN forced \ {w} ELSE forced
      BY <2>2 DEF FirstUpdate
    <3> SUFFICES ASSUME ~queued, NEW v \in alive, Unobstructed(v)'
                 PROVE  Agrees(v)'
      BY <3>1 DEF TimerUnused, AllAgree
    <3>2. UNCHANGED <<traces, kind, value, alive, var, connected, fresh>>
      BY <3>1 DEF TimerUnused
    <3>3. Agrees(v)
      BY <1>0, <1>d, <3>2, StaysObstructed DEF AllAgree
    <3>4. CASE v # w
      <4>1. display'[v] = display[v]
        BY <1>a, <3>1, <3>4
      <4> QED
        BY <3>1, <3>2, <3>3, <3>4, <4>1, AgreesStays
    <3>5. CASE v = w
      <4>1. CASE kind[w] = "led"
        <5>1. ~Fails(w) /\ Shows(w, var) = LedShows(w, var)
          BY <3>1, <4>1 DEF Fails, Shows
        <5>2. display'[w] = LedShows(w, var)
          BY <1>a, <3>1, <5>1
        <5> QED
          BY <3>2, <3>5, <4>1, <5>2
          DEF Agrees, LabelAgrees, LedAgrees, ButtonAgrees, LedShows, Labels
      <4>2. CASE kind[w] = "button"
        <5>1. connected /\ value \in On \cup Off =>
                display'[w] = IF value \in On THEN "on" ELSE "off"
          BY <1>a, <3>1, <4>2 DEF Fails, Shows, ButtonShows
        <5> QED
          BY <3>2, <3>5, <4>2, <5>1
          DEF Agrees, LabelAgrees, LedAgrees, ButtonAgrees, Labels
      <4> QED
        BY <3>1, <4>1, <4>2 DEF Binary
    <3> QED
      BY <3>4, <3>5
  <2>3. CASE LoadEntry(w) \/ UpdateRadio(w) \/ GetValue(w)
    <3>1. /\ TimerUnused /\ UNCHANGED <<display, forced>>
          /\ timer \ {w} \subseteq timer' /\ kind[w] \notin Binary
      BY <2>3 DEF LoadEntry, UpdateRadio, GetValue, Loads, Binary
    <3> QED
      BY <1>s, <3>1 DEF TimerUnused
  <2> QED
    BY <1>3, <2>1, <2>2, <2>3 DEF Timer
<1>4. ASSUME NEW w \in Widgets, User(w)
      PROVE  AllAgree'
  <2>1. ASSUME NEW s \in {"on", "off"}, SetButton(w, s)
        PROVE  AllAgree'
    <3>1. /\ kind[w] = "button" /\ UserUnused
          /\ display' = [display EXCEPT ![w] = s] /\ forced' = forced \cup {w}
      BY <2>1 DEF SetButton
    <3> SUFFICES ASSUME ~queued, NEW v \in alive, Unobstructed(v)'
                 PROVE  Agrees(v)'
      BY <3>1 DEF UserUnused, AllAgree
    <3>2. UNCHANGED <<traces, kind, value, alive, var, connected, fresh, timer>>
      BY <3>1 DEF UserUnused
    <3>3. Agrees(v)
      BY <1>0, <1>d, <3>2, StaysObstructed DEF AllAgree
    <3>4. CASE v # w
      <4>1. display'[v] = display[v]
        BY <1>a, <3>1, <3>4
      <4> QED
        BY <3>1, <3>2, <3>3, <4>1, AgreesStays
    <3>5. CASE v = w
      BY <3>1, <3>2, <3>5
      DEF Agrees, LabelAgrees, LedAgrees, ButtonAgrees, Labels
    <3> QED
      BY <3>4, <3>5
  <2>2. ASSUME NEW x \in Booleans, SetLed(w, x)
        PROVE  AllAgree'
    <3>1. /\ Written(x) /\ x \in Text
          /\ UNCHANGED <<connected, value, traces, kind, alive, timer>>
      BY <2>2, ValuesAssumption DEF SetLed, Text
    <3> SUFFICES ASSUME NEW v \in alive, Unobstructed(v)'
                 PROVE  Agrees(v)'
      BY <3>1 DEF AllAgree
    <3>2. Unobstructed(v)
      BY <3>1, StaysObstructed
    <3> QED
      BY <1>0, <3>1, <3>2, WrittenAgrees
  <2>3. ASSUME NEW x \in Typed, Select(w, x) \/ Type(w, x)
        PROVE  AllAgree'
    BY <1>s, <2>3 DEF Select, Type, UserUnused
  <2>4. ASSUME \/ \E x \in Typed : Set(w, x)
               \/ RestoreLast(w) \/ Commit(w)
        PROVE  AllAgree'
    BY <1>s, <2>4 DEF Set, RestoreLast, Commit, UserUnused
  <2> QED
    BY <1>4, <2>1, <2>2, <2>3, <2>4 DEF User
<1>5. CASE UNCHANGED vars
  BY <1>s, <1>5 DEF vars
<1>6. ASSUME NEW w \in Widgets, ConstructLabelFails(w)
      PROVE  FALSE
  BY <1>6 DEF ConstructLabelFails
<1> QED
  BY <1>1, <1>2, <1>3, <1>4, <1>5, <1>6 DEF Next

-----------------------------------------------------------------------------
(* The theorems.                                                              *)

LEMMA InitIInv == Init => IInv
<1> SUFFICES ASSUME Init PROVE IInv
  OBVIOUS
<1>1. TypeOK
  <2>1. traces \in Seq(Widgets)
    BY DEF Init
  <2>2. kind \in [Widgets -> Kinds \cup {"none"}]
    BY DEF Init
  <2>3. NoValue \in Text /\ NoValue \in Looks
    BY DEF Text, Looks
  <2>4. /\ display \in [Widgets -> Looks] /\ field \in [Widgets -> Text]
        /\ lastValue \in [Widgets -> Text] /\ sent \in [Widgets -> Text]
    BY <2>3 DEF Init
  <2>5. /\ connected \in BOOLEAN /\ fresh \in BOOLEAN /\ queued \in BOOLEAN
        /\ overdrawn \in BOOLEAN
    BY Zenon DEF Init
  <2>6. /\ refs \in Nat /\ links \in Nat /\ value \in Text /\ var \in Text
        /\ setv \in Settings \cup {NoValue, NotConnected}
        /\ alive \subseteq Widgets /\ timer \subseteq Widgets
        /\ editing \subseteq Widgets /\ loaded \subseteq Widgets
        /\ forced \subseteq Widgets /\ unsent \subseteq Widgets
    BY <2>3 DEF Init
  <2> QED
    BY <2>1, <2>2, <2>4, <2>5, <2>6 DEF TypeOK
<1>2. TracesOK /\ EntriesOK /\ AllAgree /\ FreshIsConnected
  BY DEF Init, TracesOK, EntriesOK, AllAgree, FreshIsConnected
<1>3. ReferencesExact
  <2>1. Holders = {}
    BY KindsAre DEF Init, Holders
  <2> QED
    BY <2>1, FS_EmptySet DEF Init, ReferencesExact, Holders
<1> QED
  BY <1>1, <1>2, <1>3 DEF IInv

LEMMA NextIInv == IInv /\ [Next]_vars => IInv'
<1> SUFFICES ASSUME IInv, [Next]_vars PROVE IInv'
  OBVIOUS
<1>1. /\ TypeOK /\ TracesOK /\ ReferencesExact /\ EntriesOK /\ AllAgree
      /\ FreshIsConnected
  BY DEF IInv
<1>2. TypeOK' /\ TracesOK' /\ FreshIsConnected'
  BY <1>1, TypeStep, TracesStep
<1>3. ReferencesExact' /\ EntriesOK' /\ AllAgree'
  BY <1>1, ReferencesStep, EntriesStep, DisplaysStep
<1> QED
  BY <1>2, <1>3 DEF IInv

LEMMA Invariance == Spec => []IInv
BY InitIInv, NextIInv, PTL DEF Spec

(* Every variable keeps its type.                                             *)
THEOREM TypeCorrect == Spec => []TypeOK
<1>1. IInv => TypeOK
  BY DEF IInv
<1> QED
  BY <1>1, Invariance, PTL

(* The references of the channel and of the linked variable are exact,        *)
(* whatever widgets are made and destroyed: those of the widgets that live,   *)
(* and of those that had no destructor; until a label cannot be made, the     *)
(* destructor of which gives back what it never took.                         *)
THEOREM ReferencesCorrect == Spec => []ReferencesExact
<1>1. IInv => ReferencesExact
  BY DEF IInv
<1> QED
  BY <1>1, Invariance, PTL

(* When no change is queued, every widget whose trace is not obstructed by a  *)
(* younger one shows what the others show: labels and meters the variable,    *)
(* buttons the channel's value, and leds the variable if it is one of those   *)
(* that "string is boolean" accepts.                                          *)
THEOREM DisplaysCorrect == Spec => []DisplaysAgree
<1>1. IInv => DisplaysAgree
  <2> SUFFICES ASSUME IInv, ~queued, ~overdrawn, NEW w \in alive,
                      Unobstructed(w)
               PROVE  CASE kind[w] \in Labels -> display[w] = var
                        [] kind[w] = "led"    ->
                             var \in Booleans /\ w \notin timer =>
                               display[w] = IF var \in On THEN "on" ELSE "off"
                        [] kind[w] = "button" ->
                             connected /\ fresh /\ value \in On \cup Off
                                 /\ w \notin timer \cup forced
                               => display[w] = ButtonShows(w)
    BY DEF DisplaysAgree
  <2>1. Agrees(w)
    BY DEF IInv, AllAgree
  <2>2. PICK j \in DOMAIN traces : traces[j] = w
    BY DEF Unobstructed
  <2>3. kind[w] \in Binary \cup Labels
    BY <2>2 DEF IInv, TracesOK
  <2>4. CASE kind[w] \in Labels
    BY <2>1, <2>4 DEF Agrees, LabelAgrees, Labels
  <2>5. CASE kind[w] = "led"
    BY <2>1, <2>5 DEF Agrees, LedAgrees, Labels
  <2>6. CASE kind[w] = "button"
    BY <2>1, <2>6 DEF Agrees, ButtonAgrees, ButtonShows, Labels
  <2> QED
    BY <2>3, <2>4, <2>5, <2>6 DEF Binary
<1> QED
  BY <1>1, Invariance, PTL

(* An entry that is not being edited shows what it has put, or loaded, or     *)
(* been set to last, unless its last commit found no connection: what could   *)
(* not be put because it is no list is not remembered.                        *)
THEOREM EntriesCorrect == Spec => []EntryShowsLastSent
<1>1. IInv => EntryShowsLastSent
  BY DEF IInv, TypeOK, EntriesOK, EntryShowsLastSent
<1> QED
  BY <1>1, Invariance, PTL
=============================================================================
