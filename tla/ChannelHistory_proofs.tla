------------------------ MODULE ChannelHistory_proofs ------------------------
(* Proofs about what a channel reads (ChannelValues) and about the histories  *)
(* that sample it (ChannelHistory), for any labels, any number of elements    *)
(* and points, and any width of a word.                                       *)
EXTENDS ChannelHistory, SequenceTheorems, WellFoundedInduction, TLAPS

-----------------------------------------------------------------------------
(* The inductive invariant.                                                   *)

Labels   == Texts \cup {Blank}
TclData  == Int \cup Texts
Stamps   == Int \cup {Blank}
Readings == Seq(TclData) \cup {NoReading}

Converters == [type : Types \cup {"none"}, allowed : Seq(Labels)]

ChannelTypes ==
  /\ pv \in PVs
  /\ connected \in BOOLEAN /\ fresh \in BOOLEAN
  /\ converter \in Converters
  /\ vector \in Seq(TclData)
  /\ labelsHad \subseteq Seq(Labels)

(* A history's data are numbers.                                              *)
HistoryTypes ==
  /\ kind \in Kinds /\ maxKept \in Nat
  /\ alive \in BOOLEAN /\ scheduled \in BOOLEAN
  /\ odd \in BOOLEAN /\ kept \in BOOLEAN
  /\ times \in Seq(Stamps \X Stamps) /\ x \in Seq(Int) /\ y \in Seq(Int)
  /\ alive => kind \in {"strip", "pair"}

TypeOK == ChannelTypes /\ HistoryTypes

(* The converter is one for the type that the process variable has now, with  *)
(* labels that it has had in this connection, or none yet, or labels that     *)
(* were read behind an array when it had none.                                *)
LabelsOK ==
  \/ converter.allowed \in labelsHad \cup {<<>>}
  \/ <<>> \in labelsHad /\ Len(pv.elems) > 1

ConverterOK ==
  IF connected
  THEN /\ converter.type = pv.type /\ LabelsOK
       /\ pv.labels \in labelsHad
  ELSE converter = NoConverter /\ ~fresh

(* A vector that no change has overtaken is what a converter has made of the  *)
(* process variable as it is, and of what was behind it; the converter has    *)
(* the labels that were left at the end.                                      *)
Made(conv, behind) ==
  /\ conv.type = pv.type /\ vector = Decode(conv, behind)
  /\ converter.allowed = Allowed(conv, Len(pv.elems), behind)

DecodedOK ==
  fresh => \E conv \in Converters, behind \in Strays(Len(pv.elems)) :
             Made(conv, behind)

IInv ==
  /\ TypeOK /\ ConverterOK /\ DecodedOK
  /\ PointsTrue /\ KeepsNoMore /\ KeepsSampling

-----------------------------------------------------------------------------
(* Arithmetic of words and of digits.                                         *)

LEMMA Remainder ==
  ASSUME NEW b \in Nat \ {0}, NEW q \in Int, NEW r \in 0 .. b - 1,
         NEW a \in Int, a = b * q + r
  PROVE  a % b = r
BY SMTT(30)

(* Of the multiples of g next to p + r, the nearest one is taken.             *)
LEMMA Nearest ==
  ASSUME NEW g \in Nat \ {0}, NEW d \in Nat, NEW up \in BOOLEAN,
         2 * (d % g) > g => up, up => 2 * (d % g) >= g
  PROVE  LET n == g * (IF up THEN (d \div g) + 1 ELSE d \div g)
         IN  n \in Int /\ -g <= 2 * (d - n) /\ 2 * (d - n) <= g
<1> DEFINE q == d \div g
           r == d % g
<1>1. q \in Int /\ r \in 0 .. g - 1 /\ d = g * q + r
  BY SMTT(30)
<1>2. (2 * r > g => up) /\ (up => 2 * r >= g)
  OBVIOUS
<1> HIDE DEF q, r
<1>3. PICK p \in Int : p = g * q
  BY <1>1
<1>4. g * (q + 1) = p + g
  BY <1>1, <1>3, SMTT(30)
<1>5. d = p + r
  BY <1>1, <1>3
<1>6. CASE up
  <2>1. p + g \in Int /\ -g <= 2 * (d - (p + g)) /\ 2 * (d - (p + g)) <= g
    BY <1>1, <1>2, <1>3, <1>5, <1>6
  <2> QED
    BY <1>4, <1>6, <2>1 DEF q
<1>7. CASE ~up
  <2>1. p \in Int /\ -g <= 2 * (d - p) /\ 2 * (d - p) <= g
    BY <1>1, <1>2, <1>3, <1>5, <1>7
  <2> QED
    BY <1>3, <1>7, <2>1 DEF q
<1> QED
  BY <1>6, <1>7

(* The low word of what an integer is read as is its word, whatever comes     *)
(* with it as the high one.                                                   *)
LEMMA LowWord ==
  ASSUME NEW u \in Words, NEW high \in Words
  PROVE  /\ Signed(u, 1) \in Int /\ Signed(u, 1) % Base = u
         /\ Signed(u + Base * high, 2) \in Int
         /\ Signed(u + Base * high, 2) % Base = u
<1>1. /\ Base \in Nat \ {0} /\ u \in 0 .. Base - 1 /\ u \in Int /\ high \in Int
      /\ Base * high \in Int /\ Base * Base \in Int
  BY NumbersAssumption DEF Words
<1>2. Signed(u, 1) \in Int /\ Signed(u, 1) % Base = u
  <2>1. PICK q \in {0, -1} : Signed(u, 1) = Base * q + u
    BY <1>1 DEF Signed
  <2> QED
    BY <1>1, <2>1, Remainder
<1>3. /\ Signed(u + Base * high, 2) \in Int
      /\ Signed(u + Base * high, 2) % Base = u
  <2> DEFINE v == Signed(u + Base * high, 2)
  <2>1. PICK w \in Int : w = u + Base * high
    BY ONLY <1>1, SMT
  <2>2. v = w \/ v = w - Base * Base
    <3>1. 2 # 1
      OBVIOUS
    <3>2. Signed(w, 2) = w \/ Signed(w, 2) = w - Base * Base
      BY <3>1, Zenon DEF Signed
    <3> QED
      BY <2>1, <3>2
  <2>3. Base * high - Base * Base = Base * (high - Base)
    BY ONLY <1>1, SMT
  <2> HIDE DEF v
  <2>4. PICK q \in {high, high - Base} : v = Base * q + u
    BY ONLY <1>1, <2>1, <2>2, <2>3, SMT
  <2>5. q \in Int /\ v \in Int
    BY <1>1, <2>4
  <2>6. v % Base = u
    BY <1>1, <2>4, <2>5, Remainder
  <2> QED
    BY <2>5, <2>6 DEF v
<1> QED
  BY <1>2, <1>3

-----------------------------------------------------------------------------
(* What the converters make.                                                  *)

LEMMA AProcessVariable ==
  ASSUME NEW p \in PVs
  PROVE  /\ p = [type |-> p.type, elems |-> p.elems, labels |-> p.labels]
         /\ p.type \in Types /\ p.type \in {"string", "int", "float", "enum"}
         /\ p.elems \in Seq(Elements(p.type)) /\ Len(p.elems) \in 1 .. MaxCount
         /\ p.elems \in [1 .. Len(p.elems) -> Elements(p.type)]
         /\ DOMAIN p.elems = 1 .. Len(p.elems)
         /\ p.labels \in IF p.type = "enum" THEN Labelings ELSE {<<>>}
         /\ p.labels \in Seq(Labels)
<1>1. PICK t \in Types :
        p \in [type : {t}, elems : Counted(Elements(t)),
               labels : IF t = "enum" THEN Labelings ELSE {<<>>}]
  BY DEF PVs
<1>2. /\ p = [type |-> p.type, elems |-> p.elems, labels |-> p.labels]
      /\ p.type = t /\ p.elems \in Counted(Elements(t))
      /\ p.labels \in IF t = "enum" THEN Labelings ELSE {<<>>}
  BY <1>1
<1>3. PICK n \in 1 .. MaxCount : p.elems \in [1 .. n -> Elements(t)]
  BY <1>2 DEF Counted
<1>4. n \in Nat /\ p.elems \in Seq(Elements(t)) /\ Len(p.elems) = n
  BY <1>3, NumbersAssumption
<1>5. p.labels \in Seq(Labels)
  BY <1>2, LabelsAssumption, EmptySeq DEF Labels
<1> QED
  BY <1>2, <1>3, <1>4, <1>5, TypesAssumption

LEMMA IsPV ==
  ASSUME NEW p \in PVs, NEW e \in [1 .. Len(p.elems) -> Elements(p.type)]
  PROVE  [p EXCEPT !.elems = e] \in PVs
<1>1. /\ p = [type |-> p.type, elems |-> p.elems, labels |-> p.labels]
      /\ p.type \in Types /\ Len(p.elems) \in 1 .. MaxCount
      /\ p.labels \in IF p.type = "enum" THEN Labelings ELSE {<<>>}
  BY AProcessVariable
<1>2. e \in Counted(Elements(p.type))
  BY <1>1 DEF Counted
<1>3. [p EXCEPT !.elems = e]
        = [type |-> p.type, elems |-> e, labels |-> p.labels]
  BY <1>1
<1>4. [type |-> p.type, elems |-> e, labels |-> p.labels]
        \in [type : {p.type}, elems : Counted(Elements(p.type)),
             labels : IF p.type = "enum" THEN Labelings ELSE {<<>>}]
  BY <1>1, <1>2
<1> QED
  BY <1>1, <1>3, <1>4 DEF PVs

(* No label is a number, nor a string empty by accident.                      *)
LEMMA TextsAreNoNumbers ==
  /\ \A t \in Labels : t \notin Int
  /\ Blank \notin TclData
  /\ \A l \in Labelings : Len(l) <= MaxNumber + 1 /\ l \in Seq(Labels)
BY TextsAssumption, LabelsAssumption DEF Labels, TclData

LEMMA NumbersAre ==
  /\ Numbers \subseteq Nat /\ Words \subseteq Nat /\ Indices \subseteq Nat
  /\ Numbers \subseteq TclData /\ Texts \subseteq TclData
  /\ 0 \in Numbers /\ 0 \in Words
  /\ Doubles \subseteq Nat /\ 0 \in Doubles
  /\ Base \in Nat \ {0, 1} /\ MaxNumber \in Nat
BY NumbersAssumption DEF Numbers, Words, Indices, TclData

LEMMA EnumConverts ==
  ASSUME NEW allowed \in Seq(Labels), NEW index \in Indices
  PROVE  EnumConvert(allowed, index) \in TclData
<1>1. index \in Nat /\ index \in TclData
  BY NumbersAre DEF Indices
<1>2. CASE index < Len(allowed) /\ allowed[index + 1] # Blank
  <2>1. allowed[index + 1] \in Labels
    BY <1>1, <1>2, LenProperties, ElementOfSeq
  <2> QED
    BY <1>2, <2>1 DEF EnumConvert, Labels, TclData
<1> QED
  BY <1>1, <1>2 DEF EnumConvert

LEMMA IntegerConverts ==
  ASSUME NEW p \in PVs, p.type = "int", NEW i \in DOMAIN p.elems,
         NEW behind \in Words
  PROVE  /\ IntegerConvert(p.elems, i, behind) \in Int
         /\ IntegerConvert(p.elems, i, behind) % Base = p.elems[i]
<1>1. /\ p.elems \in [1 .. Len(p.elems) -> Words]
      /\ DOMAIN p.elems = 1 .. Len(p.elems) /\ Len(p.elems) \in Nat
  BY AProcessVariable, NumbersAssumption DEF Elements
<1>2. p.elems[i] \in Words
  BY <1>1
<1>3. CASE LongWords = 1
  BY <1>2, <1>3, LowWord, NumbersAre DEF IntegerConvert
<1>4. CASE LongWords # 1
  <2> DEFINE high == IF i < Len(p.elems) THEN p.elems[i + 1] ELSE behind
  <2>1. high \in Words
    BY <1>1
  <2>2. IntegerConvert(p.elems, i, behind) = Signed(p.elems[i] + Base * high, 2)
    BY <1>4 DEF IntegerConvert
  <2> HIDE DEF high
  <2> QED
    BY <1>2, <2>1, <2>2, LowWord, NumbersAre
<1> QED
  BY <1>3, <1>4

(* A set of numbers has a least one, and one that is bounded a greatest.      *)
LEMMA LeastOf ==
  ASSUME NEW S \in SUBSET Nat, S # {}
  PROVE  \E a \in S : \A b \in S : a <= b
<1> DEFINE R == OpToRel(<, Nat)
<1>1. IsWellFoundedOn(R, Nat)
  BY NatLessThanWellFounded
<1>2. \A i, j \in Nat : j < i => <<j, i>> \in R
  BY DEF OpToRel
<1> HIDE DEF R
<1>3. PICK a \in S : \A b \in S : <<b, a>> \notin R
  BY <1>1, WFMin
<1>4. ASSUME NEW b \in S PROVE a <= b
  <2>1. a \in Nat /\ b \in Nat
    OBVIOUS
  <2>2. ~ (b < a)
    BY <1>2, <1>3, <2>1
  <2> QED
    BY <2>1, <2>2
<1> QED
  BY <1>4

LEMMA GreatestOf ==
  ASSUME NEW d \in Nat, NEW S \in SUBSET (0 .. d), S # {}
  PROVE  \E a \in S : \A b \in S : b <= a
<1> DEFINE T == {d - a : a \in S}
<1>1. \A a \in S : a \in Nat /\ d - a \in Nat
  OBVIOUS
<1>2. T \in SUBSET Nat /\ T # {}
  BY <1>1
<1> HIDE DEF T
<1>3. PICK m \in T : \A n \in T : m <= n
  BY <1>2, LeastOf
<1>4. PICK a \in S : m = d - a
  BY <1>3 DEF T
<1>5. ASSUME NEW b \in S PROVE b <= a
  <2>1. d - b \in T
    BY DEF T
  <2>2. d - a <= d - b
    BY <1>3, <1>4, <2>1
  <2> QED
    BY <1>1, <2>2
<1> QED
  BY <1>5

(* The last digit shown has a place.                                          *)
LEMMA LastDigitIs ==
  ASSUME NEW d \in Nat
  PROVE  LastDigit(d) \in Nat \ {0}
<1> DEFINE Places == {g \in 1..d : /\ \E k \in 0..d : g = Radix^k
                                  /\ g * Radix^(Digits - 1) <= d}
           Last(g) == \A h \in Places : h <= g
<1>1. LastDigit(d) = CHOOSE g \in {1} \cup Places : Last(g)
  BY DEF LastDigit
<1>2. Places \subseteq 1 .. d
  OBVIOUS
<1> HIDE DEF Places
<1>3. \E g \in {1} \cup Places : Last(g)
  <2>1. CASE Places = {}
    BY <2>1
  <2>2. CASE Places # {}
    <3>1. Places \in SUBSET (0 .. d)
      BY <1>2
    <3>2. \E g \in Places : Last(g)
      BY <2>2, <3>1, GreatestOf
    <3> QED
      BY <3>2
  <2> QED
    BY <2>1, <2>2
<1> HIDE DEF Last
<1>4. PICK g \in {1} \cup Places : g = LastDigit(d)
  BY <1>1, <1>3
<1>5. g \in Nat \ {0}
  BY <1>2
<1> QED
  BY <1>4, <1>5

LEMMA FloatConverts ==
  ASSUME NEW d \in Doubles
  PROVE  /\ FloatConvert(d) \in Int /\ LastDigit(d) \in Int
         /\ -LastDigit(d) <= 2 * (d - FloatConvert(d))
         /\ 2 * (d - FloatConvert(d)) <= LastDigit(d)
<1> DEFINE g == LastDigit(d)
           q == d \div g
           up == 2 * (d % g) > g \/ (2 * (d % g) = g /\ q % 2 = 1)
<1>1. d \in Nat
  BY NumbersAre
<1>2. g \in Nat \ {0}
  BY <1>1, LastDigitIs
<1>3. FloatConvert(d) = g * (IF up THEN (d \div g) + 1 ELSE d \div g)
  BY DEF FloatConvert
<1>4. up \in BOOLEAN
  OBVIOUS
<1>5. (2 * (d % g) > g => up) /\ (up => 2 * (d % g) >= g)
  <2>1. d % g \in Int
    BY <1>1, <1>2
  <2> HIDE DEF g
  <2> QED
    BY <1>2, <2>1
<1> HIDE DEF g, up
<1>6. LET n == g * (IF up THEN (d \div g) + 1 ELSE d \div g)
      IN  n \in Int /\ -g <= 2 * (d - n) /\ 2 * (d - n) <= g
  BY <1>1, <1>2, <1>4, <1>5, Nearest
<1> QED
  BY <1>2, <1>3, <1>6 DEF g

(* The labels that an element is converted with are labels; the first element *)
(* has those of the converter or of the process variable.                     *)
LEMMA AllowedIs ==
  ASSUME pv \in PVs, NEW conv \in Converters, NEW n \in Nat,
         NEW i \in 1 .. n, NEW behind \in Strays(n)
  PROVE  /\ Allowed(conv, i, behind) \in Seq(Labels)
         /\ \/ conv.type = "enum" /\ conv.allowed = <<>> /\ i > 1 /\ pv.labels = <<>>
            \/ Allowed(conv, i, behind)
                 = IF conv.type # "enum" \/ conv.allowed # <<>>
                   THEN conv.allowed ELSE pv.labels
<1> DEFINE with == {j \in 2..i : behind[j].labels # <<>>}
<1>1. /\ conv.allowed \in Seq(Labels) /\ pv.labels \in Seq(Labels)
  BY AProcessVariable DEF Converters
<1>2. CASE conv.type # "enum" \/ conv.allowed # <<>> \/ pv.labels # <<>> \/ with = {}
  BY <1>1, <1>2 DEF Allowed
<1>3. CASE ~(conv.type # "enum" \/ conv.allowed # <<>> \/ pv.labels # <<>> \/ with = {})
  <2>1. Allowed(conv, i, behind) = behind[Least(with)].labels
    BY <1>3 DEF Allowed
  <2>2. with \in SUBSET Nat /\ with \subseteq 2 .. i
    OBVIOUS
  <2>3. \E a \in with : \A b \in with : a <= b
    BY <1>3, <2>2, LeastOf
  <2>4. Least(with) \in with
    BY <2>3 DEF Least
  <2>5. PICK a \in 2 .. i : a = Least(with)
    BY <2>2, <2>4
  <2>6. a \in 2 .. n + 1 /\ i > 1
    BY <2>5
  <2>7. behind[a].labels \in StrayLabels
    BY <2>6 DEF Strays
  <2> QED
    BY <1>3, <2>1, <2>5, <2>6, <2>7, LabelsAssumption DEF Labels
<1> QED
  BY <1>2, <1>3

(* Every vector is one of Tcl values, as long as the process variable.        *)
LEMMA Decodes ==
  ASSUME pv \in PVs, NEW conv \in Converters, conv.type = pv.type,
         NEW behind \in Strays(Len(pv.elems))
  PROVE  /\ Decode(conv, behind) \in Seq(TclData)
         /\ Len(Decode(conv, behind)) = Len(pv.elems)
         /\ DOMAIN Decode(conv, behind) = DOMAIN pv.elems
<1> DEFINE n == Len(pv.elems)
<1>1. /\ n \in Nat /\ DOMAIN pv.elems = 1 .. n /\ 1 .. n # {}
      /\ pv.elems \in [1 .. n -> Elements(pv.type)]
      /\ pv.type \in {"string", "int", "float", "enum"}
      /\ behind \in Strays(n)
  BY AProcessVariable, NumbersAssumption
<1>2. ASSUME NEW f \in [1 .. n -> TclData], Decode(conv, behind) = f
      PROVE  /\ Decode(conv, behind) \in Seq(TclData)
             /\ Len(Decode(conv, behind)) = Len(pv.elems)
             /\ DOMAIN Decode(conv, behind) = DOMAIN pv.elems
  BY <1>1, <1>2
<1>b. ASSUME NEW i \in 2 .. n + 1
      PROVE  behind[i].index \in Indices
  BY <1>1 DEF Strays
<1> HIDE DEF n
<1>3. CASE pv.type = "string"
  <2>1. ASSUME NEW i \in 1 .. n
        PROVE  StringConvert(pv.elems[i]) \in TclData
    BY <1>1, <1>3, NumbersAre DEF StringConvert, Elements
  <2> DEFINE f == [i \in 1 .. n |-> StringConvert(pv.elems[i])]
  <2>2. Decode(conv, behind) = f
    BY <1>1, <1>3 DEF Decode, StringVector
  <2>3. f \in [1 .. n -> TclData]
    BY <2>1
  <2> QED
    BY ONLY <1>2, <2>2, <2>3
<1>4. CASE pv.type = "int"
  <2> DEFINE stray == behind[n + 1].index
  <2>1. stray % Base \in Words
    <3>1. n + 1 \in 2 .. n + 1
      BY <1>1
    <3>3. stray \in Indices
      BY <1>b, <3>1
    <3> HIDE DEF stray
    <3>2. stray \in Int /\ Base \in Nat \ {0}
      BY <3>3, NumbersAre
    <3> QED
      BY <3>2, SMT DEF Words
  <2>2. ASSUME NEW i \in 1 .. n
        PROVE  IntegerConvert(pv.elems, i, stray % Base) \in TclData
    BY <1>1, <1>4, <2>1, IntegerConverts DEF TclData
  <2> DEFINE f == [i \in 1 .. n |-> IntegerConvert(pv.elems, i, stray % Base)]
  <2>3. Decode(conv, behind) = f
    BY <1>1, <1>4 DEF Decode, IntegerVector, n
  <2>4. f \in [1 .. n -> TclData]
    BY <2>2
  <2> QED
    BY ONLY <1>2, <2>3, <2>4
<1>5. CASE pv.type = "float"
  <2>1. ASSUME NEW i \in 1 .. n
        PROVE  FloatConvert(pv.elems[i]) \in TclData
    BY <1>1, <1>5, FloatConverts DEF Elements, TclData
  <2> DEFINE f == [i \in 1 .. n |-> FloatConvert(pv.elems[i])]
  <2>2. Decode(conv, behind) = f
    BY <1>1, <1>5 DEF Decode, FloatVector
  <2>3. f \in [1 .. n -> TclData]
    BY <2>1
  <2> QED
    BY ONLY <1>2, <2>2, <2>3
<1>6. CASE pv.type = "enum"
  <2> DEFINE index(i) == IF i = 1 THEN pv.elems[1] ELSE behind[i].index
  <2>1. ASSUME NEW i \in 1 .. n
        PROVE  EnumConvert(Allowed(conv, i, behind), index(i)) \in TclData
    <3>1. Allowed(conv, i, behind) \in Seq(Labels)
      BY <1>1, AllowedIs
    <3>2. index(i) \in Indices
      <4>1. CASE i = 1
        BY <1>1, <1>6, <4>1 DEF Elements
      <4>2. CASE i # 1
        <5>1. i \in 2 .. n + 1
          BY <1>1, <4>2
        <5> QED
          BY <1>b, <4>2, <5>1
      <4> QED
        BY <4>1, <4>2
    <3> QED
      BY <3>1, <3>2, EnumConverts
  <2> DEFINE f == [i \in 1 .. n |->
                     EnumConvert(Allowed(conv, i, behind), index(i))]
  <2>2. Decode(conv, behind) = f
    BY <1>1, <1>6 DEF Decode, EnumVector
  <2> HIDE DEF index
  <2>3. f \in [1 .. n -> TclData]
    BY <2>1
  <2> QED
    BY ONLY <1>2, <2>2, <2>3
<1> QED
  BY <1>1, <1>3, <1>4, <1>5, <1>6

-----------------------------------------------------------------------------
(* What is put.                                                               *)

LEMMA EveryLabelIsFirst ==
  ASSUME NEW labels \in Seq(Labels), NEW e,
         \E i \in DOMAIN labels : labels[i] = e
  PROVE  /\ FirstLabel(labels, e) \in DOMAIN labels
         /\ labels[FirstLabel(labels, e)] = e
<1> DEFINE First(i) == labels[i] = e /\ \A j \in 1 .. i - 1 : labels[j] # e
           At == {i \in Nat : i \in DOMAIN labels /\ labels[i] = e}
<1>1. DOMAIN labels = 1 .. Len(labels) /\ Len(labels) \in Nat
  BY LenProperties
<1>2. At \subseteq Nat /\ At # {}
  BY <1>1
<1>3. \E i \in At : \A j \in At : ~ (j < i)
  <2> DEFINE R == OpToRel(<, Nat)
  <2> HIDE DEF At
  <2>1. IsWellFoundedOn(R, Nat)
    BY NatLessThanWellFounded
  <2>2. \A i, j \in Nat : j < i => <<j, i>> \in R
    BY DEF OpToRel
  <2> HIDE DEF R
  <2>3. \E i \in At : \A j \in At : <<j, i>> \notin R
    BY <1>2, <2>1, WFMin
  <2> QED
    BY <1>2, <2>2, <2>3
<1>4. \E i \in DOMAIN labels : First(i)
  <2>1. PICK i \in At : \A j \in At : ~ (j < i)
    BY <1>3
  <2>2. ASSUME NEW j \in 1 .. i - 1 PROVE labels[j] # e
    BY <1>1, <2>1
  <2> QED
    BY <2>1, <2>2
<1>5. FirstLabel(labels, e) = CHOOSE i \in DOMAIN labels : First(i)
  BY DEF FirstLabel
<1> QED
  BY <1>4, <1>5

(* A label is put as its index.                                               *)
LEMMA LabelIsPut ==
  ASSUME NEW p \in PVs, p.type = "enum", NEW e,
         \E i \in DOMAIN p.labels : p.labels[i] = e
  PROVE  /\ PutElement(p, e) \in Indices
         /\ PutElement(p, e) + 1 \in DOMAIN p.labels
         /\ p.labels[PutElement(p, e) + 1] = e
<1>1. /\ p.labels \in Seq(Labels) /\ Len(p.labels) <= MaxNumber + 1
      /\ DOMAIN p.labels = 1 .. Len(p.labels) /\ Len(p.labels) \in Nat
  BY AProcessVariable, LenProperties, TextsAreNoNumbers
<1>2. PutElement(p, e) = FirstLabel(p.labels, e) - 1
  <2>1. PICK i \in 1 .. Len(p.labels) : p.labels[i] = e
    BY <1>1
  <2>2. e \in Labels
    BY <1>1, <2>1, ElementOfSeq
  <2>3. e \notin Indices
    BY <2>2, TextsAreNoNumbers DEF Numbers, Indices
  <2> QED
    BY <2>3 DEF PutElement
<1>3. /\ FirstLabel(p.labels, e) \in DOMAIN p.labels
      /\ p.labels[FirstLabel(p.labels, e)] = e
  BY <1>1, EveryLabelIsFirst
<1>4. PICK i \in DOMAIN p.labels : i = FirstLabel(p.labels, e)
  BY <1>3
<1> QED
  BY <1>1, <1>2, <1>3, <1>4, NumbersAre DEF Indices, Numbers

(* A command or a client puts values of the process variable's type.          *)
LEMMA ElementIsPut ==
  ASSUME NEW p \in PVs, NEW e \in {0} \cup Texts,
         PutElement(p, e) # Refused
  PROVE  PutElement(p, e) \in Elements(p.type)
<1>1. /\ p.type \in {"string", "int", "float", "enum"}
      /\ e \in Numbers \cup Texts
      /\ e \notin Texts => e = 0
  BY AProcessVariable, NumbersAre
<1>2. CASE p.type = "string"
  <2>1. PutElement(p, e) = e
    BY <1>2 DEF PutElement
  <2>2. Elements(p.type) = Numbers \cup Texts
    BY <1>2 DEF Elements
  <2> QED
    BY <1>1, <2>1, <2>2
<1>3. CASE p.type = "int"
  <2>1. e \notin Texts
    BY <1>3 DEF PutElement
  <2>2. PutElement(p, e) = e % Base
    BY <1>3, <2>1 DEF PutElement
  <2>3. e % Base = 0
    BY <1>1, <2>1, NumbersAre
  <2> QED
    BY <1>3, <2>2, <2>3, NumbersAre DEF Elements
<1>4. CASE p.type = "float"
  BY <1>1, <1>4, NumbersAre DEF PutElement, Elements
<1>5. CASE p.type = "enum"
  <2>1. CASE \E i \in DOMAIN p.labels : p.labels[i] = e
    BY <1>5, <2>1, LabelIsPut DEF Elements
  <2>2. CASE ~ \E i \in DOMAIN p.labels : p.labels[i] = e
    BY <1>5, <2>2 DEF PutElement, Elements, Indices
  <2> QED
    BY <2>1, <2>2
<1> QED
  BY <1>1, <1>2, <1>3, <1>4, <1>5

LEMMA PutMakesPV ==
  ASSUME NEW p \in PVs, NEW list \in Counted({0} \cup Texts)
  PROVE  /\ AfterPut(p, list) \in PVs
         /\ AfterPut(p, list).type = p.type
         /\ AfterPut(p, list).labels = p.labels
         /\ Len(AfterPut(p, list).elems) = Len(p.elems)
<1> DEFINE n == Len(p.elems)
           new == [i \in DOMAIN p.elems |->
                     IF i <= Len(list) THEN PutElement(p, list[i])
                     ELSE p.elems[i]]
<1>1. /\ n \in Nat /\ DOMAIN p.elems = 1 .. n
      /\ p.elems \in [1 .. n -> Elements(p.type)]
      /\ p = [type |-> p.type, elems |-> p.elems, labels |-> p.labels]
  BY AProcessVariable
<1>2. PICK m \in 1 .. MaxCount : list \in [1 .. m -> {0} \cup Texts]
  BY DEF Counted
<1>3. m \in Nat /\ Len(list) = m
  BY <1>2, NumbersAssumption
<1>4. CASE \E i \in DOMAIN new : new[i] = Refused
  <2>1. AfterPut(p, list) = p
    BY <1>4 DEF AfterPut
  <2> QED
    BY <2>1
<1>5. CASE ~ \E i \in DOMAIN new : new[i] = Refused
  <2>1. AfterPut(p, list) = [p EXCEPT !.elems = new]
    BY <1>5 DEF AfterPut
  <2>2. ASSUME NEW i \in 1 .. n PROVE new[i] \in Elements(p.type)
    <3>1. CASE i <= m
      <4>1. list[i] \in {0} \cup Texts /\ i \in DOMAIN p.elems
        BY <1>1, <1>2, <1>3, <3>1
      <4>2. new[i] = PutElement(p, list[i])
        BY <1>3, <3>1, <4>1
      <4>3. PutElement(p, list[i]) # Refused
        BY <1>5, <4>1, <4>2
      <4> QED
        BY <4>1, <4>2, <4>3, ElementIsPut
    <3>2. CASE ~ (i <= m)
      BY <1>1, <1>3, <3>2
    <3> QED
      BY <3>1, <3>2
  <2>3. new \in [1 .. Len(p.elems) -> Elements(p.type)]
    BY <1>1, <2>2
  <2>4. AfterPut(p, list) \in PVs
    BY <2>1, <2>3, IsPV
  <2>5. /\ [p EXCEPT !.elems = new].type = p.type
        /\ [p EXCEPT !.elems = new].labels = p.labels
        /\ [p EXCEPT !.elems = new].elems = new
    BY <1>1
  <2>6. Len(new) = n
    BY <1>1, <2>3
  <2> QED
    BY <2>1, <2>4, <2>5, <2>6
<1> QED
  BY <1>4, <1>5

-----------------------------------------------------------------------------
(* The channel. *)

(* Whatever changes the process variable makes what was read old.             *)
LEMMA BecomesStep ==
  ASSUME ChannelTypes, ConverterOK, NEW new \in PVs, Becomes(new),
         connected => new.type = pv.type /\ Len(new.elems) = Len(pv.elems)
  PROVE  ChannelTypes' /\ ConverterOK' /\ DecodedOK'
<1>1. /\ pv' = new /\ UNCHANGED <<connected, converter, vector>>
      /\ fresh' = FALSE
      /\ labelsHad' = IF connected THEN labelsHad \cup {new.labels} ELSE {}
  BY DEF Becomes
<1>2. fresh' \in BOOLEAN /\ ~fresh'
  BY <1>1, Zenon
<1>3. labelsHad' \subseteq Seq(Labels)
  BY <1>1, AProcessVariable DEF ChannelTypes
<1>4. ChannelTypes'
  BY <1>1, <1>2, <1>3 DEF ChannelTypes
<1>5. ConverterOK'
  BY <1>1, <1>2 DEF ConverterOK, LabelsOK
<1>6. DecodedOK'
  BY <1>2 DEF DecodedOK
<1> QED
  BY <1>4, <1>5, <1>6

LEMMA UpdateStep ==
  ASSUME ChannelTypes, ConverterOK, Update
  PROVE  ChannelTypes' /\ ConverterOK' /\ DecodedOK'
<1> DEFINE n == Len(pv.elems)
<1>1. /\ connected /\ UNCHANGED <<pv, connected, labelsHad>>
      /\ fresh' = TRUE
  BY DEF Update
<1>2. PICK behind \in Strays(n) :
        /\ vector' = Decode(converter, behind)
        /\ converter' = [converter EXCEPT !.allowed = Allowed(converter, n, behind)]
  BY DEF Update
<1>3. /\ converter.type = pv.type /\ pv.labels \in labelsHad /\ LabelsOK
      /\ converter \in Converters
      /\ pv \in PVs /\ n \in Nat \ {0} /\ n \in 1 .. n
  BY <1>1, AProcessVariable, NumbersAssumption DEF ConverterOK, ChannelTypes
<1> HIDE DEF n
<1>4. /\ Allowed(converter, n, behind) \in Seq(Labels)
      /\ \/ n > 1 /\ pv.labels = <<>>
         \/ Allowed(converter, n, behind) \in {converter.allowed, pv.labels}
  BY <1>3, AllowedIs
<1>5. /\ converter'.type = converter.type
      /\ converter'.allowed = Allowed(converter, n, behind)
      /\ converter' \in Converters
  BY <1>2, <1>3, <1>4 DEF Converters
<1>6. fresh' \in BOOLEAN
  BY <1>1, Zenon
<1>7. vector' \in Seq(TclData)
  BY <1>2, <1>3, Decodes DEF n
<1>8. ChannelTypes'
  BY <1>1, <1>5, <1>6, <1>7 DEF ChannelTypes
<1>9. ConverterOK'
  <2>1. LabelsOK'
    BY <1>1, <1>3, <1>4, <1>5 DEF LabelsOK, n
  <2> QED
    BY <1>1, <1>3, <1>5, <2>1 DEF ConverterOK
<1>10. DecodedOK'
  <2>1. PICK conv \in Converters : conv = converter
    BY <1>3
  <2>2. /\ vector' = Decode(conv, behind)'
        /\ converter'.allowed = Allowed(conv, n, behind)'
    BY <1>1, <1>2, <1>5, <2>1 DEF Decode, Allowed, EnumVector, IntegerVector,
       StringVector, FloatVector, n
  <2>3. Made(conv, behind)' /\ behind \in Strays(Len(pv.elems))'
    BY <1>1, <1>3, <2>1, <2>2 DEF Made, n
  <2> QED
    BY <2>3 DEF DecodedOK
<1> QED
  BY <1>8, <1>9, <1>10

LEMMA ChannelStepKeeps ==
  ASSUME ChannelTypes, ConverterOK, DecodedOK, ChannelStep
  PROVE  ChannelTypes' /\ ConverterOK' /\ DecodedOK'
<1>1. CASE ConnectionUp
  <2>1. /\ ~connected /\ connected' = TRUE /\ converter = NoConverter
        /\ ~fresh /\ UNCHANGED <<pv, vector, fresh>>
        /\ converter' = Converter(pv.type) /\ labelsHad' = {pv.labels}
    BY <1>1 DEF ConnectionUp, ConverterOK
  <2>2. connected' \in BOOLEAN /\ connected'
    BY <2>1, Zenon
  <2>3. /\ pv \in PVs /\ pv.type \in Types /\ pv.labels \in Seq(Labels)
        /\ <<>> \in Seq(Labels)
    BY AProcessVariable, EmptySeq DEF ChannelTypes
  <2>4. ChannelTypes'
    BY <2>1, <2>2, <2>3 DEF ChannelTypes, Converter, Converters
  <2>5. ConverterOK'
    BY <2>1, <2>2 DEF ConverterOK, Converter, LabelsOK
  <2>6. DecodedOK'
    BY <2>1 DEF DecodedOK
  <2> QED
    BY <2>4, <2>5, <2>6
<1>2. CASE ConnectionDown
  <2>1. /\ connected' = FALSE /\ fresh' = FALSE /\ labelsHad' = {}
        /\ converter' = NoConverter /\ UNCHANGED <<pv, vector>>
    BY <1>2 DEF ConnectionDown
  <2>2. /\ connected' \in BOOLEAN /\ ~connected'
        /\ fresh' \in BOOLEAN /\ ~fresh'
    BY <2>1, Zenon
  <2>3. ChannelTypes'
    BY <2>1, <2>2, EmptySeq DEF ChannelTypes, NoConverter, Converters
  <2>4. ConverterOK' /\ DecodedOK'
    BY <2>1, <2>2 DEF ConverterOK, DecodedOK, NoConverter
  <2> QED
    BY <2>3, <2>4
<1>3. CASE Update
  BY <1>3, UpdateStep
<1>4. CASE PvChange
  <2>1. PICK new \in PVs :
          /\ connected => new.type = pv.type /\ Len(new.elems) = Len(pv.elems)
          /\ Becomes(new)
    BY <1>4 DEF PvChange
  <2> QED
    BY <2>1, BecomesStep
<1>5. ASSUME NEW list \in Counted({0} \cup Texts),
             NEW datatype \in {"string", "int"}, Set(list, datatype)
      PROVE  ChannelTypes' /\ ConverterOK' /\ DecodedOK'
  <2>1. Becomes(AfterPut(pv, list)) /\ pv \in PVs
    BY <1>5 DEF Set, ChannelTypes
  <2>2. /\ AfterPut(pv, list) \in PVs /\ AfterPut(pv, list).type = pv.type
        /\ Len(AfterPut(pv, list).elems) = Len(pv.elems)
    BY <2>1, PutMakesPV
  <2> QED
    BY <2>1, <2>2, BecomesStep
<1> QED
  BY <1>1, <1>2, <1>3, <1>4, <1>5 DEF ChannelStep

(* What it comes to: what is read is right, and so is what is listed.         *)
LEMMA ReadIsTrue ==
  ASSUME ChannelTypes, ConverterOK, DecodedOK
  PROVE  ReadingsTrue
<1> SUFFICES ASSUME connected, fresh
             PROVE  /\ Len(vector) = Len(pv.elems)
                    /\ pv.type = "string" => AfterPut(pv, vector) = pv
                    /\ pv.type = "enum" /\ converter.allowed = pv.labels
                         /\ Distinct(pv.labels)
                         => PutElement(pv, vector[1]) = pv.elems[1]
                    /\ pv.type = "int" =>
                         \A i \in DOMAIN vector : vector[i] % Base = pv.elems[i]
                    /\ pv.type = "float" =>
                         \A i \in DOMAIN vector :
                           /\ -LastDigit(pv.elems[i]) <= 2 * (pv.elems[i] - vector[i])
                           /\ 2 * (pv.elems[i] - vector[i]) <= LastDigit(pv.elems[i])
  BY DEF ReadingsTrue
<1>1. PICK conv \in Converters, behind \in Strays(Len(pv.elems)) : Made(conv, behind)
  BY DEF DecodedOK
<1>2. /\ pv \in PVs /\ conv.type = pv.type /\ vector = Decode(conv, behind)
      /\ converter.allowed = Allowed(conv, Len(pv.elems), behind)
      /\ vector \in Seq(TclData)
  BY <1>1 DEF ChannelTypes, Made
<1>3. /\ Len(vector) = Len(pv.elems) /\ DOMAIN vector = DOMAIN pv.elems
      /\ DOMAIN pv.elems = 1 .. Len(pv.elems) /\ Len(pv.elems) \in Nat \ {0}
      /\ pv.elems \in [1 .. Len(pv.elems) -> Elements(pv.type)]
      /\ pv = [type |-> pv.type, elems |-> pv.elems, labels |-> pv.labels]
  BY <1>1, <1>2, Decodes, AProcessVariable, NumbersAssumption
<1>4. ASSUME pv.type = "string" PROVE AfterPut(pv, vector) = pv
  <2>1. vector = pv.elems
    BY <1>1, <1>2, <1>3, <1>4 DEF Decode, StringVector, StringConvert
  <2>2. \A i \in DOMAIN pv.elems : PutElement(pv, vector[i]) = pv.elems[i]
    BY <1>4, <2>1 DEF PutElement
  <2> DEFINE new == [i \in DOMAIN pv.elems |->
                       IF i <= Len(vector) THEN PutElement(pv, vector[i])
                       ELSE pv.elems[i]]
  <2>3. new = pv.elems
    BY <1>3, <2>2
  <2>4. [pv EXCEPT !.elems = new] = pv
    BY <1>3, <2>3
  <2> QED
    BY <2>4 DEF AfterPut
<1>5. ASSUME pv.type = "enum", converter.allowed = pv.labels,
             Distinct(pv.labels)
      PROVE  PutElement(pv, vector[1]) = pv.elems[1]
  <2> DEFINE k == pv.elems[1]
  <2>1. 1 \in DOMAIN pv.elems /\ k \in Indices /\ k \in Nat
    BY <1>3, <1>5, NumbersAre DEF Elements
  <2>2. vector[1] = EnumConvert(pv.labels, k)
    <3>1. vector[1] = EnumConvert(Allowed(conv, 1, behind), k)
      BY <1>2, <1>5, <2>1 DEF Decode, EnumVector
    <3>2. Allowed(conv, 1, behind)
            = IF conv.type # "enum" \/ conv.allowed # <<>>
              THEN conv.allowed ELSE pv.labels
      <4>1. 1 \in 1 .. Len(pv.elems) /\ Len(pv.elems) \in Nat
        BY <1>3
      <4> QED
        BY <1>1, <1>2, <4>1, AllowedIs
    <3>3. conv.allowed # <<>> => conv.allowed = pv.labels
      BY <1>2, <1>5 DEF Allowed
    <3> QED
      BY <1>2, <1>5, <3>1, <3>2, <3>3
  <2>3. /\ pv.labels \in Seq(Labels) /\ Len(pv.labels) \in Nat
        /\ DOMAIN pv.labels = 1 .. Len(pv.labels)
    BY <1>2, AProcessVariable, LenProperties
  <2> HIDE DEF k
  <2>4. CASE k < Len(pv.labels) /\ pv.labels[k + 1] # Blank
    <3>1. vector[1] = pv.labels[k + 1] /\ k + 1 \in DOMAIN pv.labels
      BY <2>1, <2>2, <2>3, <2>4 DEF EnumConvert
    <3>2. PICK i \in DOMAIN pv.labels :
            /\ i = PutElement(pv, vector[1]) + 1
            /\ pv.labels[i] = vector[1]
            /\ PutElement(pv, vector[1]) \in Indices
      BY <1>2, <1>5, <3>1, LabelIsPut
    <3>3. i = k + 1
      BY <1>5, <3>1, <3>2 DEF Distinct
    <3>4. PutElement(pv, vector[1]) \in Nat
      BY <3>2, NumbersAre
    <3>5. PutElement(pv, vector[1]) = k
      BY ONLY <2>1, <3>2, <3>3, <3>4, SMT
    <3> QED
      BY <3>5 DEF k
  <2>5. CASE ~ (k < Len(pv.labels) /\ pv.labels[k + 1] # Blank)
    <3>1. vector[1] = k
      BY <2>2, <2>5 DEF EnumConvert
    <3>2. \A i \in DOMAIN pv.labels : pv.labels[i] # k
      <4>1. \A i \in DOMAIN pv.labels : pv.labels[i] \in Labels
        BY <2>3, ElementOfSeq
      <4> QED
        BY <2>1, <4>1, TextsAreNoNumbers
    <3>3. PutElement(pv, k) = k
      BY <1>5, <2>1, <3>2 DEF PutElement, Indices
    <3>4. PutElement(pv, vector[1]) = k
      BY ONLY <3>1, <3>3
    <3> QED
      BY <3>4 DEF k
  <2> QED
    BY <2>4, <2>5
<1>6. ASSUME pv.type = "int", NEW i \in DOMAIN vector
      PROVE  vector[i] % Base = pv.elems[i]
  <2> DEFINE stray == behind[Len(pv.elems) + 1].index
  <2>1. vector[i] = IntegerConvert(pv.elems, i, stray % Base)
    BY <1>1, <1>2, <1>3, <1>6 DEF Decode, IntegerVector
  <2>2. stray % Base \in Words
    <3>1. stray \in Int /\ Base \in Nat \ {0}
      <4>1. Len(pv.elems) + 1 \in 2 .. Len(pv.elems) + 1
        BY <1>3
      <4>2. stray \in Indices
        BY <4>1 DEF Strays
      <4> HIDE DEF stray
      <4> QED
        BY <4>2, NumbersAre
    <3> QED
      BY <3>1, SMT DEF Words
  <2> QED
    BY <1>2, <1>3, <1>6, <2>1, <2>2, IntegerConverts
<1>7. ASSUME pv.type = "float", NEW i \in DOMAIN vector
      PROVE  /\ -LastDigit(pv.elems[i]) <= 2 * (pv.elems[i] - vector[i])
             /\ 2 * (pv.elems[i] - vector[i]) <= LastDigit(pv.elems[i])
  <2>1. vector[i] = FloatConvert(pv.elems[i]) /\ pv.elems[i] \in Doubles
    BY <1>1, <1>2, <1>3, <1>7 DEF Decode, FloatVector, Elements
  <2> QED
    BY <2>1, FloatConverts
<1> QED
  BY <1>3, <1>4, <1>5, <1>6, <1>7

LEMMA ListIsOfThisConnection ==
  ASSUME ChannelTypes, ConverterOK
  PROVE  ValuesOfThisConnection
<1> SUFFICES ASSUME connected
             PROVE  IF pv.type = "enum"
                    THEN \/ ValueList \in labelsHad \cup {<<>>}
                         \/ <<>> \in labelsHad /\ Len(pv.elems) > 1
                    ELSE ValueList = <<pv.type>>
  BY DEF ValuesOfThisConnection
<1>1. /\ converter.type = pv.type /\ LabelsOK
      /\ pv.type \in {"string", "int", "float", "enum"}
  BY AProcessVariable DEF ChannelTypes, ConverterOK
<1>2. converter # NoConverter
  BY <1>1 DEF NoConverter
<1>3. CASE pv.type = "enum"
  BY <1>1, <1>2, <1>3 DEF ValueList, LabelsOK
<1>4. CASE pv.type # "enum"
  BY <1>1, <1>2, <1>4 DEF ValueList
<1> QED
  BY <1>1, <1>3, <1>4

-----------------------------------------------------------------------------
(* The vectors of a history.                                                  *)

Typed(t, xs, ys) ==
  t \in Seq(Stamps \X Stamps) /\ xs \in Seq(Int) /\ ys \in Seq(Int)

(* Each time has the data that was read at it.                                *)
Matches(t, s, j) == Len(s) = Len(t) /\ \A i \in 1 .. Len(t) : s[i] = t[i][j]

Aligned(t, xs, ys) ==
  Matches(t, xs, 1) /\ (kind = "pair" => Matches(t, ys, 2))

LEMMA PointsTrueIs ==
  ASSUME HistoryTypes
  PROVE  PointsTrue <=> (~odd => Aligned(times, x, y))
<1>1. DOMAIN times = 1 .. Len(times)
  BY LenProperties DEF HistoryTypes
<1> QED
  BY <1>1 DEF PointsTrue, Aligned, Matches

LEMMA DropIs ==
  ASSUME NEW S, NEW s \in Seq(S), NEW n \in 0 .. Len(s)
  PROVE  /\ Drop(n, s) \in Seq(S) /\ Len(Drop(n, s)) = Len(s) - n
         /\ \A i \in 1 .. Len(s) - n : Drop(n, s)[i] = s[n + i]
<1>1. Len(s) \in Nat /\ n \in Nat
  BY LenProperties
<1>2. \A i \in n + 1 .. Len(s) : s[i] \in S
  BY <1>1, ElementOfSeq
<1>3. /\ Drop(n, s) \in Seq(S)
      /\ Len(Drop(n, s)) = IF n + 1 <= Len(s) THEN Len(s) - (n + 1) + 1 ELSE 0
      /\ \A i \in 1 .. Len(s) - (n + 1) + 1 : Drop(n, s)[i] = s[n + 1 + i - 1]
  BY <1>1, <1>2, SubSeqProperties DEF Drop
<1> QED
  BY <1>1, <1>3

LEMMA DropMatches ==
  ASSUME NEW t \in Seq(Stamps \X Stamps), NEW s \in Seq(Int),
         NEW j \in {1, 2}, Matches(t, s, j), NEW n \in 0 .. Len(t)
  PROVE  Matches(Drop(n, t), Drop(n, s), j)
<1>1. Len(t) \in Nat /\ Len(s) = Len(t) /\ n \in Nat
  BY LenProperties DEF Matches
<1>2. /\ Len(Drop(n, t)) = Len(t) - n
      /\ \A i \in 1 .. Len(t) - n : Drop(n, t)[i] = t[n + i]
  BY DropIs
<1>3. /\ Len(Drop(n, s)) = Len(t) - n
      /\ \A i \in 1 .. Len(t) - n : Drop(n, s)[i] = s[n + i]
  BY <1>1, DropIs
<1>4. \A i \in 1 .. Len(t) - n : s[n + i] = t[n + i][j]
  BY <1>1 DEF Matches
<1> QED
  BY <1>2, <1>3, <1>4 DEF Matches

LEMMA LeastIs ==
  ASSUME NEW a \in Nat, NEW b \in Nat, NEW c \in Nat
  PROVE  /\ Least({a, b, c}) \in {a, b, c}
         /\ Least({a, b, c}) <= a /\ Least({a, b, c}) <= b
         /\ Least({a, b, c}) <= c
<1>1. \E n \in {a, b, c} : \A m \in {a, b, c} : n <= m
  <2>1. CASE a <= b /\ a <= c
    BY <2>1
  <2>2. CASE b <= a /\ b <= c
    BY <2>2
  <2>3. CASE c <= a /\ c <= b
    BY <2>3
  <2> QED
    BY <2>1, <2>2, <2>3
<1> QED
  BY <1>1 DEF Least

(* An update clears so many that no more than maxKept are left, and never     *)
(* more than there are.                                                       *)
LEMMA ExcessIs ==
  ASSUME maxKept \in Nat, NEW n \in Nat, n > maxKept
  PROVE  Excess(n) \in 1 .. n /\ n - Excess(n) <= maxKept
BY DEF Excess

(* The vectors that n points have been cleared from, or some of them.         *)
Clears(n, t, xs, ys, u, v, w, ok) ==
  /\ Cleared(n, t, xs, ys) = <<u, v, w, ok>>
  /\ Typed(u, v, w) /\ Len(u) <= Len(t)
  /\ ok => Len(u) = Len(t) - n
  /\ Aligned(t, xs, ys) => Aligned(u, v, w)
  /\ Aligned(t, xs, ys) /\ n > 0 => ok

LEMMA ClearedIs ==
  ASSUME kind \in {"strip", "pair"}, NEW t, NEW xs, NEW ys, Typed(t, xs, ys),
         NEW n \in 0 .. Len(t)
  PROVE  \E u, v, w : \E ok \in BOOLEAN : Clears(n, t, xs, ys, u, v, w, ok)
<1>1. /\ t \in Seq(Stamps \X Stamps) /\ xs \in Seq(Int) /\ ys \in Seq(Int)
      /\ Len(t) \in Nat /\ Len(xs) \in Nat /\ Len(ys) \in Nat /\ n \in Nat
  BY LenProperties DEF Typed
<1>2. Drop(n, t) \in Seq(Stamps \X Stamps) /\ Len(Drop(n, t)) = Len(t) - n
  BY <1>1, DropIs
<1>3. CASE kind = "strip"
  <2>1. CASE n = 0
    <3>1. Cleared(n, t, xs, ys) = <<t, xs, ys, FALSE>>
      BY <1>3, <2>1 DEF Cleared
    <3>2. ~ (n > 0) /\ Len(t) <= Len(t)
      BY <1>1, <2>1
    <3>3. Clears(n, t, xs, ys, t, xs, ys, FALSE)
      BY <3>1, <3>2, Zenon DEF Clears
    <3> QED
      BY <3>3
  <2>2. CASE n # 0 /\ n <= Len(xs)
    <3>1. Cleared(n, t, xs, ys) = <<Drop(n, t), Drop(n, xs), ys, TRUE>>
      BY <1>3, <2>2 DEF Cleared
    <3>2. n \in 0 .. Len(xs)
      BY <1>1, <2>2
    <3>3. Typed(Drop(n, t), Drop(n, xs), ys)
      BY <1>1, <1>2, <3>2, DropIs DEF Typed
    <3>4. Aligned(t, xs, ys) => Aligned(Drop(n, t), Drop(n, xs), ys)
      BY <1>1, <1>3, DropMatches DEF Aligned
    <3>5. Clears(n, t, xs, ys, Drop(n, t), Drop(n, xs), ys, TRUE)
      BY <1>1, <1>2, <3>1, <3>3, <3>4 DEF Clears
    <3> QED
      BY <3>5
  <2>3. CASE n # 0 /\ ~ (n <= Len(xs))
    <3>1. Cleared(n, t, xs, ys) = <<Drop(n, t), xs, ys, FALSE>>
      BY <1>3, <2>3 DEF Cleared
    <3>2. Typed(Drop(n, t), xs, ys)
      BY <1>1, <1>2 DEF Typed
    <3>3. ~ Aligned(t, xs, ys)
      BY <1>1, <2>3 DEF Aligned, Matches
    <3>4. Clears(n, t, xs, ys, Drop(n, t), xs, ys, FALSE)
      BY <1>1, <1>2, <3>1, <3>2, <3>3 DEF Clears
    <3> QED
      BY <3>4
  <2> QED
    BY <2>1, <2>2, <2>3
<1>4. CASE kind = "pair"
  <2>0. kind # "strip"
    BY <1>4
  <2> DEFINE k == Least({n, Len(xs), Len(ys)})
  <2>1. /\ k \in Nat /\ k <= n /\ k <= Len(xs) /\ k <= Len(ys)
        /\ k \in {n, Len(xs), Len(ys)}
    BY <1>1, LeastIs
  <2>2. Cleared(n, t, xs, ys)
          = IF k = n THEN <<Drop(n, t), Drop(n, xs), Drop(n, ys), TRUE>>
            ELSE <<Drop(k + 1, t), Drop(IF k = Len(xs) THEN k ELSE k + 1, xs),
                   Drop(k, ys), FALSE>>
    BY <2>0 DEF Cleared
  <2> HIDE DEF k
  <2>3. CASE k = n
    <3>1. Typed(Drop(n, t), Drop(n, xs), Drop(n, ys))
      BY <1>1, <1>2, <2>1, <2>3, DropIs DEF Typed
    <3>2. Aligned(t, xs, ys)
            => Aligned(Drop(n, t), Drop(n, xs), Drop(n, ys))
      BY <1>1, <1>4, DropMatches DEF Aligned
    <3>3. Cleared(n, t, xs, ys) = <<Drop(n, t), Drop(n, xs), Drop(n, ys), TRUE>>
      BY <2>2, <2>3
    <3>4. Clears(n, t, xs, ys, Drop(n, t), Drop(n, xs), Drop(n, ys), TRUE)
      BY <1>1, <1>2, <3>1, <3>2, <3>3 DEF Clears
    <3> QED
      BY <3>4
  <2>4. CASE k # n
    <3> DEFINE m == IF k = Len(xs) THEN k ELSE k + 1
    <3>1. k + 1 \in 0 .. Len(t) /\ m \in 0 .. Len(xs) /\ k \in 0 .. Len(ys)
      BY <1>1, <2>1, <2>4
    <3>2. Cleared(n, t, xs, ys)
            = <<Drop(k + 1, t), Drop(m, xs), Drop(k, ys), FALSE>>
      BY <2>2, <2>4
    <3> HIDE DEF m
    <3>3. /\ Drop(k + 1, t) \in Seq(Stamps \X Stamps)
          /\ Len(Drop(k + 1, t)) = Len(t) - (k + 1)
          /\ Drop(m, xs) \in Seq(Int) /\ Drop(k, ys) \in Seq(Int)
      BY <1>1, <3>1, DropIs
    <3>4. ~ Aligned(t, xs, ys)
      BY <1>1, <1>4, <2>1, <2>4 DEF Aligned, Matches
    <3>5. Typed(Drop(k + 1, t), Drop(m, xs), Drop(k, ys))
      BY <3>3 DEF Typed
    <3>6. Len(Drop(k + 1, t)) <= Len(t)
      BY <1>1, <2>1, <3>3
    <3>7. Clears(n, t, xs, ys, Drop(k + 1, t), Drop(m, xs), Drop(k, ys), FALSE)
      BY <3>2, <3>4, <3>5, <3>6 DEF Clears
    <3> QED
      BY <3>7
  <2> QED
    BY <2>3, <2>4
<1> QED
  BY <1>3, <1>4

Trims(t, xs, ys, u, v, w, ok) ==
  /\ Trimmed(t, xs, ys) = <<u, v, w, ok>>
  /\ Typed(u, v, w)
  /\ ok /\ maxKept > 0 => Len(u) <= maxKept
  /\ Aligned(t, xs, ys) => Aligned(u, v, w) /\ ok

(* Trimming takes what is aligned to something aligned, and succeeds.         *)
LEMMA TrimmedIs ==
  ASSUME kind \in {"strip", "pair"}, maxKept \in Nat,
         NEW t, NEW xs, NEW ys, Typed(t, xs, ys)
  PROVE  \E u, v, w : \E ok \in BOOLEAN : Trims(t, xs, ys, u, v, w, ok)
<1>1. Len(t) \in Nat
  BY LenProperties DEF Typed
<1>2. CASE maxKept > 0 /\ Len(t) > maxKept
  <2> DEFINE n == Excess(Len(t))
  <2>1. n \in 1 .. Len(t) /\ Len(t) - n <= maxKept
    BY <1>1, <1>2, ExcessIs
  <2>2. Trimmed(t, xs, ys) = Cleared(n, t, xs, ys)
    BY <1>2 DEF Trimmed
  <2> HIDE DEF n
  <2>3. n \in 0 .. Len(t) /\ n > 0
    BY <1>1, <2>1
  <2>4. PICK u, v, w : \E ok \in BOOLEAN : Clears(n, t, xs, ys, u, v, w, ok)
    BY <2>3, ClearedIs
  <2>5. PICK ok \in BOOLEAN : Clears(n, t, xs, ys, u, v, w, ok)
    BY <2>4
  <2>6. Trims(t, xs, ys, u, v, w, ok)
    BY <2>1, <2>2, <2>3, <2>5 DEF Clears, Trims
  <2> QED
    BY <2>6
<1>3. CASE ~ (maxKept > 0 /\ Len(t) > maxKept)
  <2>1. Trimmed(t, xs, ys) = <<t, xs, ys, TRUE>>
    BY <1>3 DEF Trimmed
  <2>2. maxKept > 0 => Len(t) <= maxKept
    BY <1>1, <1>3
  <2>3. Trims(t, xs, ys, t, xs, ys, TRUE)
    BY <2>1, <2>2 DEF Trims
  <2> QED
    BY <2>3
<1> QED
  BY <1>2, <1>3

LEMMA NumericIs ==
  ASSUME NEW r \in Seq(TclData), Numeric(r)
  PROVE  r \in Seq(Int)
<1>1. /\ r \in [1 .. Len(r) -> TclData] /\ Len(r) \in Nat
      /\ DOMAIN r = 1 .. Len(r)
  BY LenProperties
<1>2. \A i \in 1 .. Len(r) : r[i] \in Int
  BY <1>1 DEF Numeric, TclData
<1>3. r \in [1 .. Len(r) -> Int]
  BY <1>1, <1>2
<1> QED
  BY <1>1, <1>3

LEMMA ConcatMatches ==
  ASSUME NEW t \in Seq(Stamps \X Stamps), NEW s \in Seq(Int), NEW j \in {1, 2},
         Matches(t, s, j), NEW stamp \in Stamps \X Stamps,
         NEW r \in Seq(TclData), OneNumber(r), stamp[j] = r[1]
  PROVE  Matches(Append(t, stamp), s \o r, j)
<1>1. /\ Len(t) \in Nat /\ Len(s) = Len(t) /\ Len(r) = 1
      /\ s \in Seq(Int) /\ r \in Seq(Int)
  BY LenProperties, NumericIs DEF Matches, OneNumber
<1>2. /\ Len(Append(t, stamp)) = Len(t) + 1
      /\ \A i \in 1 .. Len(t) : Append(t, stamp)[i] = t[i]
      /\ Append(t, stamp)[Len(t) + 1] = stamp
  BY AppendProperties
<1>3. /\ Len(s \o r) = Len(s) + Len(r)
      /\ \A i \in 1 .. Len(s) + Len(r) :
           (s \o r)[i] = IF i <= Len(s) THEN s[i] ELSE r[i - Len(s)]
  <2>1. r \in Seq(Int)
    BY <1>1
  <2> QED
    BY <2>1, ConcatProperties
<1>4. Len(s \o r) = Len(Append(t, stamp))
  BY <1>1, <1>2, <1>3
<1>5. ASSUME NEW i \in 1 .. Len(t)
      PROVE  (s \o r)[i] = Append(t, stamp)[i][j]
  <2>1. (s \o r)[i] = s[i]
    BY <1>1, <1>3
  <2> QED
    BY <1>2, <2>1 DEF Matches
<1>6. (s \o r)[Len(t) + 1] = Append(t, stamp)[Len(t) + 1][j]
  <2>1. (s \o r)[Len(t) + 1] = r[1]
    BY <1>1, <1>3
  <2> QED
    BY <1>2, <2>1
<1>7. \A i \in 1 .. Len(t) + 1 : i \in 1 .. Len(t) \/ i = Len(t) + 1
  BY <1>1
<1> QED
  BY <1>2, <1>4, <1>5, <1>6, <1>7 DEF Matches

LEMMA StampIs ==
  ASSUME NEW r \in Seq(TclData)
  PROVE  Stamp(r) \in Stamps /\ (OneNumber(r) => Stamp(r) = r[1])
<1>1. CASE OneNumber(r)
  <2>1. r \in Seq(Int) /\ Len(r) = 1
    BY <1>1, NumericIs DEF OneNumber
  <2>2. r[1] \in Int
    <3>1. 1 \in 1 .. Len(r)
      BY <2>1
    <3> QED
      BY <2>1, <3>1, ElementOfSeq
  <2> QED
    BY <1>1, <2>2 DEF Stamp, Stamps
<1> QED
  BY <1>1 DEF Stamp, Stamps

Appends(xr, yr, u, v, w, ok) ==
  /\ Appended(xr, yr) = <<u, v, w, ok>>
  /\ Typed(u, v, w)
  /\ Aligned(times, x, y) /\ OneNumber(xr) /\ (kind = "pair" => OneNumber(yr))
       => Aligned(u, v, w) /\ ok

(* To append one number to what is aligned succeeds, and keeps it aligned.    *)
LEMMA AppendedIs ==
  ASSUME kind \in {"strip", "pair"}, Typed(times, x, y),
         NEW xr \in Seq(TclData), NEW yr \in Seq(TclData)
  PROVE  \E u, v, w : \E ok \in BOOLEAN : Appends(xr, yr, u, v, w, ok)
<1> DEFINE stamp == <<Stamp(xr), Stamp(yr)>>
           t == Append(times, stamp)
<1>1. /\ times \in Seq(Stamps \X Stamps) /\ x \in Seq(Int) /\ y \in Seq(Int)
      /\ stamp \in Stamps \X Stamps
  BY StampIs DEF Typed
<1>2. /\ stamp[1] = Stamp(xr) /\ stamp[2] = Stamp(yr)
      /\ OneNumber(xr) => Stamp(xr) = xr[1]
      /\ OneNumber(yr) => Stamp(yr) = yr[1]
  BY StampIs
<1>3. Appended(xr, yr)
        = IF ~ Numeric(xr) THEN <<t, x, y, FALSE>>
          ELSE IF kind = "strip" THEN <<t, x \o xr, y, TRUE>>
          ELSE IF ~ Numeric(yr) THEN <<t, x \o xr, y, FALSE>>
          ELSE <<t, x \o xr, y \o yr, TRUE>>
  BY DEF Appended
<1>4. t \in Seq(Stamps \X Stamps)
  BY <1>1, AppendProperties
<1> HIDE DEF stamp
<1>5. ASSUME Matches(times, x, 1), OneNumber(xr)
      PROVE  Matches(t, x \o xr, 1)
  BY <1>1, <1>2, <1>5, ConcatMatches
<1>6. ASSUME Matches(times, y, 2), OneNumber(yr)
      PROVE  Matches(t, y \o yr, 2)
  BY <1>1, <1>2, <1>6, ConcatMatches
<1> HIDE DEF t
<1>7. CASE ~ Numeric(xr)
  <2>1. Appends(xr, yr, t, x, y, FALSE)
    BY <1>1, <1>3, <1>4, <1>7 DEF Appends, Typed, OneNumber
  <2> QED
    BY <2>1
<1>8. CASE Numeric(xr) /\ kind = "strip"
  <2>1. Typed(t, x \o xr, y)
    BY <1>1, <1>4, <1>8, NumericIs, ConcatProperties DEF Typed
  <2>2. Aligned(times, x, y) /\ OneNumber(xr) => Aligned(t, x \o xr, y)
    BY <1>5, <1>8 DEF Aligned
  <2>3. Appends(xr, yr, t, x \o xr, y, TRUE)
    BY <1>3, <1>8, <2>1, <2>2 DEF Appends
  <2> QED
    BY <2>3
<1>9. CASE Numeric(xr) /\ kind = "pair"
  <2>1. x \o xr \in Seq(Int) /\ kind # "strip"
    BY <1>1, <1>9, NumericIs, ConcatProperties
  <2>2. CASE ~ Numeric(yr)
    <3>1. Typed(t, x \o xr, y)
      BY <1>1, <1>4, <2>1 DEF Typed
    <3>2. Appends(xr, yr, t, x \o xr, y, FALSE)
      BY <1>3, <1>9, <2>1, <2>2, <3>1 DEF Appends, OneNumber
    <3> QED
      BY <3>2
  <2>3. CASE Numeric(yr)
    <3>1. Typed(t, x \o xr, y \o yr)
      BY <1>1, <1>4, <2>1, <2>3, NumericIs, ConcatProperties DEF Typed
    <3>2. Aligned(times, x, y) /\ OneNumber(xr) /\ OneNumber(yr)
            => Aligned(t, x \o xr, y \o yr)
      BY <1>5, <1>6, <1>9 DEF Aligned
    <3>3. Appends(xr, yr, t, x \o xr, y \o yr, TRUE)
      BY <1>3, <1>9, <2>1, <2>3, <3>1, <3>2 DEF Appends
    <3> QED
      BY <3>3
  <2> QED
    BY <2>2, <2>3
<1> QED
  BY <1>7, <1>8, <1>9

-----------------------------------------------------------------------------
(* The steps of a history.                                                    *)

HistoryOK == HistoryTypes /\ PointsTrue /\ KeepsNoMore /\ KeepsSampling

(* A reading of the channel is one of Tcl values, or none.                    *)
LEMMA GetReads ==
  ASSUME ChannelTypes
  PROVE  Get \in Readings
BY DEF ChannelTypes, Get, Readings

OneNumberEach(xr, yr) == OneNumber(xr) /\ (kind = "pair" => OneNumber(yr))

(* What an update does with the readings xr and yr.                           *)
LEMMA Updates ==
  ASSUME HistoryTypes, KeepsNoMore, alive,
         NEW xr \in Readings, NEW yr \in Readings, UpdateData(xr, yr)
  PROVE  /\ Typed(times', x', y')
         /\ scheduled' \in BOOLEAN /\ kept' \in BOOLEAN
         /\ kept' /\ maxKept > 0 => Len(times') <= maxKept
         /\ /\ Aligned(times, x, y)
            /\ NoReading \in {xr, yr} \/ OneNumberEach(xr, yr)
            => Aligned(times', x', y') /\ scheduled'
<1> DEFINE skip == NoReading \in {xr, yr}
           r == IF skip THEN <<times, x, y, TRUE>> ELSE Appended(xr, yr)
           s == IF r[4] /\ ~ (skip /\ kind = "strip")
                THEN Trimmed(r[1], r[2], r[3]) ELSE r
<1>0. /\ VectorsBecome(s) /\ scheduled' = s[4]
      /\ kept' = IF skip /\ kind = "strip" THEN kept ELSE s[4]
  BY DEF UpdateData
<1>a. ASSUME NEW u, NEW v, NEW w, NEW ok \in BOOLEAN, s = <<u, v, w, ok>>,
             ~ (skip /\ kind = "strip")
      PROVE  times' = u /\ x' = v /\ y' = w /\ scheduled' = ok /\ kept' = ok
  <2> HIDE DEF s, skip
  <2>1. s[1] = u /\ s[2] = v /\ s[3] = w /\ s[4] = ok
    BY <1>a
  <2> QED
    BY <1>0, <1>a, <2>1 DEF VectorsBecome
<1>1. /\ kind \in {"strip", "pair"} /\ maxKept \in Nat
      /\ Typed(times, x, y) /\ kept \in BOOLEAN
  BY DEF HistoryTypes, Typed
<1>2. CASE skip /\ kind = "strip"
  <2>1. /\ times' = times /\ x' = x /\ y' = y /\ scheduled' = TRUE
        /\ kept' = kept
    BY <1>2 DEF UpdateData, VectorsBecome
  <2>2. scheduled' \in BOOLEAN /\ scheduled'
    BY <2>1, Zenon
  <2> QED
    BY <1>1, <2>1, <2>2 DEF KeepsNoMore
<1>3. CASE skip /\ kind # "strip"
  <2>1. PICK u, v, w : \E ok \in BOOLEAN : Trims(times, x, y, u, v, w, ok)
    BY <1>1, TrimmedIs
  <2>2. PICK ok \in BOOLEAN : Trims(times, x, y, u, v, w, ok)
    BY <2>1
  <2>3. Trimmed(times, x, y) = <<u, v, w, ok>>
    BY <2>2 DEF Trims
  <2>4. /\ times' = u /\ x' = v /\ y' = w /\ scheduled' = ok /\ kept' = ok
    <3>1. r[4] /\ r[1] = times /\ r[2] = x /\ r[3] = y
      BY <1>3
    <3> HIDE DEF r
    <3>2. s = <<u, v, w, ok>>
      BY <1>3, <2>3, <3>1
    <3> QED
      BY <1>3, <1>a, <3>2
  <2> QED
    BY <2>2, <2>4 DEF Trims
<1>4. CASE ~ skip
  <2>1. xr \in Seq(TclData) /\ yr \in Seq(TclData)
    BY <1>4 DEF Readings
  <2>2. PICK u, v, w : \E ok \in BOOLEAN : Appends(xr, yr, u, v, w, ok)
    BY <1>1, <2>1, AppendedIs
  <2>3. PICK ok \in BOOLEAN : Appends(xr, yr, u, v, w, ok)
    BY <2>2
  <2>4. Appended(xr, yr) = <<u, v, w, ok>> /\ Typed(u, v, w)
    BY <2>3 DEF Appends
  <2>5. CASE ~ ok
    <3>1. /\ times' = u /\ x' = v /\ y' = w /\ scheduled' = ok /\ kept' = ok
      BY <1>4, <2>4, <2>5 DEF UpdateData, VectorsBecome
    <3> QED
      BY <1>4, <2>3, <2>4, <2>5, <3>1 DEF Appends, OneNumberEach
  <2>6. CASE ok
    <3>1. PICK a, b, c : \E good \in BOOLEAN : Trims(u, v, w, a, b, c, good)
      BY <1>1, <2>4, TrimmedIs
    <3>2. PICK good \in BOOLEAN : Trims(u, v, w, a, b, c, good)
      BY <3>1
    <3>3. Trimmed(u, v, w) = <<a, b, c, good>>
      BY <3>2 DEF Trims
    <3>4. /\ times' = a /\ x' = b /\ y' = c
          /\ scheduled' = good /\ kept' = good
      <4>1. r[4] /\ r[1] = u /\ r[2] = v /\ r[3] = w
        BY <1>4, <2>4, <2>6
      <4> HIDE DEF r
      <4>2. s = <<a, b, c, good>>
        BY <1>4, <3>3, <4>1
      <4> QED
        BY <1>4, <1>a, <4>2
    <3>5. /\ Typed(a, b, c)
          /\ good /\ maxKept > 0 => Len(a) <= maxKept
          /\ Aligned(u, v, w) => Aligned(a, b, c) /\ good
      BY <3>2 DEF Trims
    <3>6. Aligned(times, x, y) /\ OneNumberEach(xr, yr) => Aligned(u, v, w)
      BY <2>3 DEF Appends, OneNumberEach
    <3> QED
      BY <1>4, <3>4, <3>5, <3>6
  <2> QED
    BY <2>5, <2>6
<1> QED
  BY <1>1, <1>2, <1>3, <1>4

LEMMA SampleStep ==
  ASSUME ChannelTypes, HistoryOK, Sample
  PROVE  HistoryOK'
<1> USE DEF HistoryOK
<1>1. PICK yr \in IF kind = "pair" THEN YReadings ELSE {<<>>} :
        /\ UpdateData(Get, yr)
        /\ odd' = \/ odd
                  \/ NoReading \notin {Get, yr} /\ ~ OneNumberEach(Get, yr)
  BY DEF Sample, OneNumberEach
<1>2. alive /\ UNCHANGED <<kind, alive, maxKept>>
  BY DEF Sample
<1>3. Get \in Readings /\ yr \in Readings
  <2>1. YReadings \subseteq Readings
    BY ReadingsAssumption DEF Readings, TclData
  <2>2. <<>> \in Readings
    BY EmptySeq DEF Readings
  <2> QED
    BY <2>1, <2>2, GetReads
<1>4. /\ Typed(times', x', y')
      /\ scheduled' \in BOOLEAN /\ kept' \in BOOLEAN
      /\ kept' /\ maxKept > 0 => Len(times') <= maxKept
      /\ /\ Aligned(times, x, y)
         /\ NoReading \in {Get, yr} \/ OneNumberEach(Get, yr)
         => Aligned(times', x', y') /\ scheduled'
  BY <1>1, <1>2, <1>3, Updates
<1>5. odd' \in BOOLEAN
  BY <1>1 DEF HistoryTypes
<1>6. HistoryTypes'
  BY <1>2, <1>4, <1>5 DEF HistoryTypes, Typed
<1>7. KeepsNoMore'
  BY <1>2, <1>4 DEF KeepsNoMore
<1>8. ASSUME ~ odd' PROVE Aligned(times', x', y') /\ scheduled'
  <2>1. ~ odd /\ (NoReading \in {Get, yr} \/ OneNumberEach(Get, yr))
    BY <1>1, <1>8
  <2>2. Aligned(times, x, y)
    BY <2>1, PointsTrueIs
  <2> QED
    BY <1>4, <2>1, <2>2
<1>9. PointsTrue'
  <2>1. DOMAIN times' = 1 .. Len(times')
    BY <1>6, LenProperties DEF HistoryTypes
  <2> QED
    BY <1>2, <1>8, <2>1 DEF PointsTrue, Aligned, Matches
<1>10. KeepsSampling'
  BY <1>8 DEF KeepsSampling
<1> QED
  BY <1>6, <1>7, <1>9, <1>10

LEMMA KeepStep ==
  ASSUME HistoryOK, Keep
  PROVE  HistoryOK'
<1> USE DEF HistoryOK
<1>1. /\ maxKept' \in 1 .. MaxPoints /\ kept' = FALSE
      /\ UNCHANGED <<kind, alive, scheduled, times, x, y, odd>>
  BY DEF Keep
<1>2. kept' \in BOOLEAN /\ ~ kept' /\ maxKept' \in Nat
  <2>1. kept' \in BOOLEAN /\ ~ kept'
    BY <1>1, Zenon
  <2>2. maxKept' \in Nat
    BY <1>1, PointsAssumption
  <2> QED
    BY <2>1, <2>2
<1>3. HistoryTypes'
  BY <1>1, <1>2 DEF HistoryTypes
<1> QED
  BY <1>1, <1>2, <1>3 DEF PointsTrue, KeepsNoMore, KeepsSampling

LEMMA ClearFirstStep ==
  ASSUME HistoryOK, ClearFirst
  PROVE  HistoryOK'
<1> USE DEF HistoryOK
<1>1. /\ alive /\ UNCHANGED <<kind, alive, scheduled, maxKept, odd, kept>>
      /\ kind \in {"strip", "pair"} /\ Typed(times, x, y)
      /\ Len(times) \in Nat
  BY LenProperties DEF ClearFirst, HistoryTypes, Typed
<1>2. PICK n \in 0 .. Len(times) : VectorsBecome(Cleared(n, times, x, y))
  BY DEF ClearFirst
<1>3. PICK u, v, w : \E ok \in BOOLEAN : Clears(n, times, x, y, u, v, w, ok)
  BY <1>1, <1>2, ClearedIs
<1>4. PICK ok \in BOOLEAN : Clears(n, times, x, y, u, v, w, ok)
  BY <1>3
<1>5. /\ Cleared(n, times, x, y) = <<u, v, w, ok>>
      /\ Typed(u, v, w) /\ Len(u) <= Len(times)
      /\ Aligned(times, x, y) => Aligned(u, v, w)
  BY <1>4 DEF Clears
<1>6. times' = u /\ x' = v /\ y' = w
  BY <1>2, <1>5 DEF VectorsBecome
<1>7. HistoryTypes'
  BY <1>1, <1>5, <1>6 DEF HistoryTypes, Typed
<1>8. KeepsNoMore'
  <2>1. Len(u) \in Nat /\ maxKept \in Nat
    BY <1>5, LenProperties DEF Typed, HistoryTypes
  <2> QED
    BY <1>1, <1>5, <1>6, <2>1 DEF KeepsNoMore
<1>9. PointsTrue'
  <2>1. ~ odd => Aligned(times', x', y')
    BY <1>5, <1>6, PointsTrueIs
  <2>2. DOMAIN times' = 1 .. Len(times')
    BY <1>7, LenProperties DEF HistoryTypes
  <2> QED
    BY <1>1, <2>1, <2>2 DEF PointsTrue, Aligned, Matches
<1>10. KeepsSampling'
  BY <1>1 DEF KeepsSampling
<1> QED
  BY <1>7, <1>8, <1>9, <1>10

LEMMA DestroyStep ==
  ASSUME HistoryOK, Destroy
  PROVE  HistoryOK'
<1> USE DEF HistoryOK
<1>1. /\ alive' = FALSE /\ scheduled' = FALSE
      /\ times' = <<>> /\ x' = <<>> /\ y' = <<>>
      /\ UNCHANGED <<kind, maxKept, odd, kept>>
  BY DEF Destroy
<1>2. alive' \in BOOLEAN /\ ~ alive' /\ scheduled' \in BOOLEAN
  BY <1>1, Zenon
<1>3. /\ times' \in Seq(Stamps \X Stamps) /\ x' \in Seq(Int) /\ y' \in Seq(Int)
  BY <1>1, EmptySeq
<1>4. Len(times') = 0 /\ Len(x') = 0 /\ Len(y') = 0 /\ DOMAIN times' = {}
  BY <1>1, EmptySeq
<1>5. HistoryTypes'
  BY <1>1, <1>2, <1>3 DEF HistoryTypes
<1>6. PointsTrue'
  BY <1>4 DEF PointsTrue
<1>7. KeepsNoMore'
  <2>1. maxKept' \in Nat
    BY <1>5 DEF HistoryTypes
  <2> QED
    BY <1>4, <2>1 DEF KeepsNoMore
<1>8. KeepsSampling'
  BY <1>2 DEF KeepsSampling
<1> QED
  BY <1>5, <1>6, <1>7, <1>8

-----------------------------------------------------------------------------
(* The theorems.                                                              *)

LEMMA InitIInv == Init => IInv
<1> SUFFICES ASSUME Init PROVE IInv
  OBVIOUS
<1>1. /\ pv \in PVs /\ connected = FALSE /\ converter = NoConverter
      /\ vector = <<>> /\ fresh = FALSE /\ labelsHad = {}
  BY DEF Init, InitChannel
<1>2. connected \in BOOLEAN /\ ~ connected /\ fresh \in BOOLEAN /\ ~ fresh
  BY <1>1, Zenon
<1>3. ChannelTypes
  BY <1>1, <1>2, EmptySeq DEF ChannelTypes, NoConverter, Converters
<1>4. ConverterOK /\ DecodedOK
  BY <1>1, <1>2 DEF ConverterOK, DecodedOK
<1>5. /\ kind \in Kinds /\ (alive <=> kind # "none") /\ alive \in BOOLEAN
      /\ scheduled \in BOOLEAN /\ (alive => scheduled)
      /\ odd \in BOOLEAN /\ kept \in BOOLEAN /\ ~ kept
  BY Zenon DEF Init
<1>6. maxKept = 0 /\ times = <<>> /\ x = <<>> /\ y = <<>>
  BY DEF Init
<1>7. /\ times \in Seq(Stamps \X Stamps) /\ x \in Seq(Int) /\ y \in Seq(Int)
      /\ Len(times) = 0 /\ Len(x) = 0 /\ Len(y) = 0 /\ DOMAIN times = {}
  BY <1>6, EmptySeq
<1>8. alive => kind \in {"strip", "pair"}
  BY <1>5, KindsAssumption
<1>9. HistoryTypes
  BY <1>5, <1>6, <1>7, <1>8 DEF HistoryTypes
<1>10. PointsTrue /\ KeepsNoMore /\ KeepsSampling
  BY <1>5, <1>7 DEF PointsTrue, KeepsNoMore, KeepsSampling
<1> QED
  BY <1>3, <1>4, <1>9, <1>10 DEF IInv, TypeOK

LEMMA NextIInv == IInv /\ [Next]_vars => IInv'
<1> SUFFICES ASSUME IInv, [Next]_vars PROVE IInv'
  OBVIOUS
<1>1. ChannelTypes /\ ConverterOK /\ DecodedOK /\ HistoryOK
  BY DEF IInv, TypeOK, HistoryOK
<1>2. ASSUME UNCHANGED channel
      PROVE  ChannelTypes' /\ ConverterOK' /\ DecodedOK'
  <2>1. UNCHANGED <<pv, connected, converter, vector, fresh, labelsHad>>
    BY <1>2 DEF channel
  <2>2. ChannelTypes' /\ ConverterOK'
    BY <1>1, <2>1 DEF ChannelTypes, ConverterOK, LabelsOK
  <2>3. DecodedOK'
    <3> SUFFICES ASSUME fresh'
                 PROVE  \E conv \in Converters, behind \in Strays(Len(pv.elems))' :
                          Made(conv, behind)'
      BY DEF DecodedOK
    <3>1. PICK conv \in Converters, behind \in Strays(Len(pv.elems)) :
            Made(conv, behind)
      BY <1>1, <2>1 DEF DecodedOK
    <3>2. Decode(conv, behind)' = Decode(conv, behind)
      BY <2>1 DEF Decode, Allowed, EnumVector, IntegerVector, StringVector,
         FloatVector
    <3>3. Allowed(conv, Len(pv.elems), behind)' = Allowed(conv, Len(pv.elems), behind)
      BY <2>1 DEF Allowed
    <3>4. Made(conv, behind)'
      BY <2>1, <3>1, <3>2, <3>3 DEF Made
    <3> QED
      BY <2>1, <3>1, <3>4
  <2> QED
    BY <2>2, <2>3
<1>3. ASSUME UNCHANGED history PROVE HistoryOK'
  BY <1>1, <1>3 DEF history, HistoryOK, HistoryTypes, PointsTrue, KeepsNoMore,
                    KeepsSampling
<1>4. CASE ChannelStep /\ UNCHANGED history
  BY <1>1, <1>3, <1>4, ChannelStepKeeps DEF IInv, TypeOK, HistoryOK
<1>5. CASE Sample
  BY <1>1, <1>2, <1>5, SampleStep DEF Sample, IInv, TypeOK, HistoryOK
<1>6. CASE Keep
  BY <1>1, <1>2, <1>6, KeepStep DEF Keep, IInv, TypeOK, HistoryOK
<1>7. CASE ClearFirst
  BY <1>1, <1>2, <1>7, ClearFirstStep DEF ClearFirst, IInv, TypeOK, HistoryOK
<1>8. CASE Destroy
  BY <1>1, <1>2, <1>8, DestroyStep DEF Destroy, IInv, TypeOK, HistoryOK
<1>9. CASE UNCHANGED vars
  BY <1>2, <1>3, <1>9 DEF vars, IInv, TypeOK, HistoryOK
<1> QED
  BY <1>4, <1>5, <1>6, <1>7, <1>8, <1>9 DEF Next

LEMMA Invariance == Spec => []IInv
BY InitIInv, NextIInv, PTL DEF Spec

(* Every variable of the channel and of the history keeps its type: the data  *)
(* of a history are numbers, whatever the channel reads.                      *)
THEOREM TypeCorrect == Spec => []TypeOK
<1>1. IInv => TypeOK
  BY DEF IInv
<1> QED
  BY <1>1, Invariance, PTL

(* A reading that no change has overtaken shows the value: for all labels,    *)
(* also of which some are empty, or the same, and all widths of a word.       *)
THEOREM ReadingsCorrect == Spec => []ReadingsTrue
<1>1. IInv => ReadingsTrue
  BY ReadIsTrue DEF IInv, TypeOK
<1> QED
  BY <1>1, Invariance, PTL

(* What values lists is of this connection, however the record was before.    *)
THEOREM ValuesCorrect == Spec => []ValuesOfThisConnection
<1>1. IInv => ValuesOfThisConnection
  BY ListIsOfThisConnection DEF IInv, TypeOK
<1> QED
  BY <1>1, Invariance, PTL

(* As long as every sample was one number, each time has the data read at it, *)
(* through any samples left out, trimming and clearing.                       *)
THEOREM PointsCorrect == Spec => []PointsTrue
<1>1. IInv => PointsTrue
  BY DEF IInv
<1> QED
  BY <1>1, Invariance, PTL

(* After an update a history has no more points than it is to keep, however   *)
(* many that is.                                                              *)
THEOREM KeepIsObeyed == Spec => []KeepsNoMore
<1>1. IInv => KeepsNoMore
  BY DEF IInv
<1> QED
  BY <1>1, Invariance, PTL

(* Sampling stops only at a sample that is not one number, or at the object's *)
(* end.                                                                       *)
THEOREM SamplingGoesOn == Spec => []KeepsSampling
<1>1. IInv => KeepsSampling
  BY DEF IInv
<1> QED
  BY <1>1, Invariance, PTL
=============================================================================
