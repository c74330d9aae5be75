--------------------------- MODULE ChannelValues ---------------------------
(* The values of a channel (the converters of src/CChannel.cpp, and set and   *)
(* values of src/CTCLChannelCommand.cpp): what the command "get" of a channel *)
(* returns of the elements that its process variable has, and what "set" puts *)
(* back.  Each callback is one step here; module EpicsChannel has the         *)
(* interleavings inside of them.                                              *)
(*                                                                            *)
(* A Tcl value is a number, for the string that shows it, or a text that is   *)
(* not a number.  A dbr_long_t is a word: one digit in base Base; a C++ long  *)
(* is LongWords of them.  A dbr_double_t is a number, of which Digits digits  *)
(* in base Radix are shown (7 and 10 in the code).  An enumeration has an     *)
(* index for its value and labels, of which Blank is the empty one.           *)
EXTENDS Integers, Sequences

CONSTANTS
  Types,      \* of these: "string", "int", "float", "enum"
  Texts,      \* strings that are not numbers
  Labelings,  \* the sequences of labels an enumeration may have
  StrayLabels,  \* labels that memory where no record was sent may hold
  Blank,      \* the empty label
  MaxCount,   \* bound on the element count of a process variable
  Base, LongWords, Radix, Digits,
  Doubles,    \* the numbers a double may be
  MaxNumber   \* bound on the numbers a string may be, or an index

ASSUME TypesAssumption == Types \subseteq {"string", "int", "float", "enum"}
ASSUME TextsAssumption == \A t \in Texts \cup {Blank} : t \notin Int
ASSUME LabelsAssumption ==
  /\ Labelings \subseteq Seq(Texts \cup {Blank}) /\ Blank \notin Texts
  /\ \A labels \in Labelings : Len(labels) <= MaxNumber + 1
  /\ StrayLabels \subseteq Seq(Texts \cup {Blank})
ASSUME NumbersAssumption ==
  /\ MaxCount \in Nat \ {0} /\ Base \in Nat \ {0, 1} /\ LongWords \in {1, 2}
  /\ Radix \in Nat \ {0, 1} /\ Digits \in Nat \ {0} /\ MaxNumber \in Nat
  /\ Doubles \subseteq Nat /\ 0 \in Doubles

VARIABLES
  pv,         \* the process variable: its type, elements and labels
  connected,  \* m_fConnected
  converter,  \* m_pConverter: its type and m_allowedValues, or NoConverter
  vector,     \* m_VectorValue
  fresh,      \* the last event had the value the process variable has now
  labelsHad   \* the labels it has had since the channel connected

channel == <<pv, connected, converter, vector, fresh, labelsHad>>

NoConverter == [type |-> "none", allowed |-> <<>>]

Numbers  == 0..MaxNumber
Words    == 0..(Base - 1)
Indices  == Numbers
Elements(type) ==
  CASE type = "string" -> Numbers \cup Texts
    [] type = "int"    -> Words
    [] type = "float"  -> Doubles
    [] type = "enum"   -> Indices

Counted(S) == UNION {[1..n -> S] : n \in 1..MaxCount}

PVs == UNION {[type : {t}, elems : Counted(Elements(t)),
               labels : IF t = "enum" THEN Labelings ELSE {<<>>}] : t \in Types}

InitChannel ==
  /\ pv \in PVs /\ connected = FALSE /\ converter = NoConverter
  /\ vector = <<>> /\ fresh = FALSE /\ labelsHad = {}

-----------------------------------------------------------------------------
(* Converters: the Tcl value made of element i of an event's data.            *)

StringConvert(e) == e

(* The place of the last digit shown of d: 1 if it has no more than Digits.   *)
LastDigit(d) ==
  LET Places == {g \in 1..d : /\ \E k \in 0..d : g = Radix^k
                             /\ g * Radix^(Digits - 1) <= d}
  IN  CHOOSE g \in {1} \cup Places : \A h \in Places : h <= g

(* A double is rounded to that place, to the nearest and half way to even.    *)
FloatConvert(d) ==
  LET g == LastDigit(d)
      q == d \div g
      up == 2 * (d % g) > g \/ (2 * (d % g) = g /\ q % 2 = 1)
  IN  g * (IF up THEN q + 1 ELSE q)

(* A two's complement number of n words.                                      *)
Signed(u, n) ==
  LET Range == IF n = 1 THEN Base ELSE Base * Base
  IN  IF 2 * u < Range THEN u ELSE u - Range

(* An integer is read as a long from the place of a dbr_long_t: where a long  *)
(* has two words, the high one is the next element, or what is behind the     *)
(* last.                                                                      *)
IntegerConvert(elems, i, behind) ==
  IF LongWords = 1 THEN Signed(elems[i], 1)
  ELSE LET high == IF i < Len(elems) THEN elems[i + 1] ELSE behind
       IN  Signed(elems[i] + Base * high, 2)

(* Mutant: the index is compared as if it counted from one.                   *)
EnumConvert_OffByOne(allowed, index) ==
  IF index > 0 /\ index <= Len(allowed) THEN allowed[index] ELSE index

(* An index that has a label, not an empty one, is shown as its label.        *)
EnumConvert(allowed, index) ==
  IF index < Len(allowed) /\ allowed[index + 1] # Blank
  THEN allowed[index + 1] ELSE index

Least(S) == CHOOSE n \in S : \A m \in S : n <= m

(* The labels that element i is converted with: those the converter has, or   *)
(* the first that are read.  Only the first element is sent with its labels,  *)
(* but an array is walked in steps of a whole record: what is read of the     *)
(* elements from the second on, and behind the last, is behind[i], where      *)
(* nothing was sent.                                                          *)
Allowed(conv, i, behind) ==
  LET with == {j \in 2..i : behind[j].labels # <<>>}
  IN  IF conv.type # "enum" \/ conv.allowed # <<>> THEN conv.allowed
      ELSE IF pv.labels # <<>> \/ with = {} THEN pv.labels
      ELSE behind[Least(with)].labels

(* getVector of each converter.                                               *)
StringVector(elems) == [i \in DOMAIN elems |-> StringConvert(elems[i])]
FloatVector(elems)  == [i \in DOMAIN elems |-> FloatConvert(elems[i])]
IntegerVector(elems, behind) ==
  [i \in DOMAIN elems |->
     IntegerConvert(elems, i, behind[Len(elems) + 1].index % Base)]
EnumVector(conv, elems, behind) ==
  [i \in DOMAIN elems |->
     EnumConvert(Allowed(conv, i, behind),
                 IF i = 1 THEN elems[1] ELSE behind[i].index)]

Decode(conv, behind) ==
  CASE conv.type = "string" -> StringVector(pv.elems)
    [] conv.type = "int"    -> IntegerVector(pv.elems, behind)
    [] conv.type = "float"  -> FloatVector(pv.elems)
    [] conv.type = "enum"   -> EnumVector(conv, pv.elems, behind)

-----------------------------------------------------------------------------
(* The callbacks. *)

(* The factory: of characters, shorts and longs one type is made, "int".      *)
Converter(type) == [type |-> type, allowed |-> <<>>]

(* StateHandler, connection up: a converter for the channel's type.           *)
ConnectionUp ==
  /\ ~connected /\ connected' = TRUE
  /\ converter' = IF converter = NoConverter THEN Converter(pv.type)
                  ELSE converter
  /\ labelsHad' = {pv.labels}
  /\ UNCHANGED <<pv, vector, fresh>>

(* Mutant: the converter survives the connection.                             *)
ConnectionDown_KeepsConverter ==
  /\ connected /\ connected' = FALSE
  /\ labelsHad' = {} /\ fresh' = FALSE
  /\ UNCHANGED <<pv, converter, vector>>

(* Connection down: the vector is kept, and shown after the next connection   *)
(* until its first event.                                                     *)
ConnectionDown ==
  /\ connected /\ connected' = FALSE
  /\ converter' = NoConverter
  /\ labelsHad' = {} /\ fresh' = FALSE
  /\ UNCHANGED <<pv, vector>>

(* What may be read behind the first of n elements.                           *)
Strays(n) == [2..(n + 1) -> [labels : StrayLabels, index : Indices]]

(* UpdateHandler.                                                             *)
Update ==
  /\ connected
  /\ \E behind \in Strays(Len(pv.elems)) :
       /\ vector' = Decode(converter, behind)
       /\ converter' = [converter EXCEPT
                          !.allowed = Allowed(converter, Len(pv.elems), behind)]
  /\ fresh' = TRUE
  /\ UNCHANGED <<pv, connected, labelsHad>>

-----------------------------------------------------------------------------
(* The process variable.  Its record can have another type, and count, only   *)
(* after a restart of its server, which disconnects the channel.              *)

Becomes(new) ==
  /\ pv' = new /\ new # pv
  /\ fresh' = FALSE
  /\ labelsHad' = IF connected THEN labelsHad \cup {new.labels} ELSE {}
  /\ UNCHANGED <<connected, converter, vector>>

PvChange ==
  \E new \in PVs :
    /\ connected => new.type = pv.type /\ Len(new.elems) = Len(pv.elems)
    /\ Becomes(new)

(* The first of the labels that is e, one of them.                            *)
FirstLabel(labels, e) ==
  CHOOSE i \in DOMAIN labels :
    labels[i] = e /\ \A j \in 1..(i - 1) : labels[j] # e

(* What Channel Access makes of one Tcl value for an element of p, or Refused.*)
Refused == -1
PutElement(p, e) ==
  CASE p.type = "string" -> e
    [] p.type = "enum" /\ (\E i \in DOMAIN p.labels : p.labels[i] = e) ->
         FirstLabel(p.labels, e) - 1
    [] p.type = "int" /\ e \notin Texts -> e % Base
    [] (p.type = "enum" /\ e \in Indices) \/ (p.type = "float" /\ e \in Doubles) -> e
    [] OTHER -> Refused

(* The process variable after a put of list: as many elements as it has room  *)
(* for, all of them or none.                                                  *)
AfterPut(p, list) ==
  LET new == [i \in DOMAIN p.elems |->
                IF i <= Len(list) THEN PutElement(p, list[i]) ELSE p.elems[i]]
  IN  IF \E i \in DOMAIN new : new[i] = Refused THEN p
      ELSE [p EXCEPT !.elems = new]

-----------------------------------------------------------------------------
(* The commands. *)

(* get; a channel without a connection is an error.                           *)
NoReading == <<Blank>>
Get == IF connected THEN vector ELSE NoReading

(* values: what the channel allows, the name of its type or labels; nothing   *)
(* if it has never been connected, or is not any more.                        *)
ValueList == CASE converter = NoConverter -> <<>>
               [] converter.type = "enum" -> converter.allowed
               [] OTHER -> <<converter.type>>

(* set list type.  What does not convert to the type is an error, before      *)
(* anything is put.                                                           *)
Set(list, datatype) ==
  /\ connected
  /\ datatype \in {"int", "real"} => \A i \in DOMAIN list : list[i] \notin Texts
  /\ Becomes(AfterPut(pv, list))

ChannelStep ==
  \/ ConnectionUp \/ ConnectionDown \/ Update \/ PvChange
  \/ \E list \in Counted({0} \cup Texts), datatype \in {"string", "int"} :
       Set(list, datatype)

-----------------------------------------------------------------------------
Distinct(labels) ==
  \A i, j \in DOMAIN labels : labels[i] = labels[j] => i = j

(* A reading that no change has overtaken shows the value: put back, a string *)
(* or an enumeration does not change the process variable, as long as its     *)
(* labels are different and still those of the first event; the low word of   *)
(* an integer is right; a double is right to within half of its last digit.   *)
ReadingsTrue ==
  connected /\ fresh =>
    /\ Len(vector) = Len(pv.elems)
    /\ pv.type = "string" => AfterPut(pv, vector) = pv
    /\ pv.type = "enum" /\ converter.allowed = pv.labels
         /\ Distinct(pv.labels)
         => PutElement(pv, vector[1]) = pv.elems[1]
    /\ pv.type = "int" =>
         \A i \in DOMAIN vector : vector[i] % Base = pv.elems[i]
    /\ pv.type = "float" =>
         \A i \in DOMAIN vector :
           LET error == 2 * (pv.elems[i] - vector[i])
           IN  -LastDigit(pv.elems[i]) <= error /\ error <= LastDigit(pv.elems[i])

(* What values lists is of this connection: the name of the type that the     *)
(* process variable has, or the labels that an enumeration has or had since   *)
(* the channel connected.  The record of the connection before may have had   *)
(* another type, and other labels.  Only an array of an enumeration that has  *)
(* been without labels may list what was read behind it.                      *)
ValuesOfThisConnection ==
  connected =>
    IF pv.type = "enum"
    THEN \/ ValueList \in labelsHad \cup {<<>>}
         \/ <<>> \in labelsHad /\ Len(pv.elems) > 1
    ELSE ValueList = <<pv.type>>
=============================================================================
