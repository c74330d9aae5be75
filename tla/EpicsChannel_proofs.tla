------------------------ MODULE EpicsChannel_proofs ------------------------
(* Proofs about EpicsChannel, for every set of values, of field types and of  *)
(* addresses, and whatever methods the interpreter calls.                     *)
EXTENDS EpicsChannel, TLAPS

-----------------------------------------------------------------------------
(* The inductive invariant. *)

BeforeDestruction == tclPc \notin Destroying

(* The object goes last.                                                      *)
Lifetime == alive \/ tclPc = "dead"

(* What each step of StateHandler leaves for the next, up to the destructor;  *)
(* ConnectionStateCoherent is the part of it seen with the mutex free.        *)
Disconnected == ~connected /\ ~established /\ subscription = NULL

Matched == converter \in Live /\ subscription = heap[converter]

HandlerState ==
  /\ chid # "open" => caPc = "idle"
  /\ caPc = "up_convert" =>
       /\ connected
       /\ IF established THEN Matched ELSE converter = NULL /\ subscription = NULL
  /\ caPc = "up_subscribe" =>
       /\ connected /\ converter \in Live
       /\ IF established THEN Matched ELSE subscription = NULL
  /\ caPc = "down_delete" =>
       Disconnected /\ (converter = NULL \/ converter \in Live)
  /\ caPc = "down_null" => Disconnected /\ Live = {}
  /\ caPc \notin {"up_convert", "up_subscribe", "down_delete", "down_null"} =>
       IF connected THEN established /\ Matched
                    ELSE Disconnected /\ converter = NULL
  /\ caPc \in InUpdate => connected
  /\ caPc \in {"update_value", "update_vector"} => converter \in Live

Coherence == BeforeDestruction => HandlerState /\ Live \subseteq {converter}

(* A subscription asks for the type of the converter, the event under way is  *)
(* of that type, and Update makes both readings from it.  This holds beside   *)
(* the destructor too: a converter that a handler creates then is created by  *)
(* a connection that has no subscription yet.                                 *)
Readings ==
  /\ ReadingNotTorn
  /\ ReadingDecoded
  /\ ~established => subscription = NULL
  /\ established => told \/ caPc = "down_enter"
  /\ caPc \in {"up_enter", "up_convert"} => ~established
  /\ caPc \in {"up_enter", "up_convert", "up_subscribe"} => told
  /\ converter \in Live /\ subscription # NULL => subscription = heap[converter]
  /\ caPc \in InUpdate /\ converter \in Live => event.type = heap[converter]
  /\ caPc \in {"update_value", "update_vector"} => event.normal
  /\ caPc = "update_vector" /\ converter \in Live => value = event.value

IInv ==
  /\ TypeOK /\ Lifetime /\ Coherence /\ Readings /\ OnlyUnlockedAccessCrashes

-----------------------------------------------------------------------------
(* Every step keeps the types.                                                *)
LEMMA TypeStep ==
  TypeOK /\ [Next]_vars => TypeOK'
<1> SUFFICES ASSUME TypeOK, [Next]_vars PROVE TypeOK'
  OBVIOUS
<1> USE DistinctAssumption DEF TypeOK, TclPcs, Destroying, Entering,
      InMonitor, Events, InUpdate, Live, chan, ca, user
<1>1. CASE ConnectionUp
  BY <1>1 DEF ConnectionUp
<1>2. CASE ConnectionDown
  <2>1. told' \in BOOLEAN /\ fresh' \in BOOLEAN
    BY <1>2, Zenon DEF ConnectionDown, TypeOK
  <2> QED
    BY <1>2, <2>1 DEF ConnectionDown
<1>3. CASE DeliverUpdate
  BY <1>3 DEF DeliverUpdate, Events
<1>4. CASE PvChange
  BY <1>4 DEF PvChange
<1>5. CASE PvPut
  BY <1>5 DEF PvPut
<1>6. CASE StateHandlerUp
  BY <1>6 DEF StateHandlerUp
<1>7. CASE UpConvert
  BY <1>7 DEF UpConvert
<1>8. CASE UpSubscribe
  <2>1. established' \in BOOLEAN /\ fresh' \in BOOLEAN
    BY <1>8, Zenon DEF UpSubscribe, TypeOK
  <2> QED
    BY <1>8, <2>1 DEF UpSubscribe, Wild
<1>9. CASE StateHandlerDown
  <2>1. connected' \in BOOLEAN /\ established' \in BOOLEAN
    BY <1>9, Zenon DEF StateHandlerDown, TypeOK
  <2> QED
    BY <1>9, <2>1 DEF StateHandlerDown
<1>10. CASE DownDelete
  BY <1>10 DEF DownDelete, Wild
<1>11. CASE DownNull
  BY <1>11 DEF DownNull
<1>12. CASE UpdateHandler
  BY <1>12 DEF UpdateHandler
<1>13. CASE UpdateValue
  <2>1. event \in Events
    BY <1>13 DEF UpdateValue
  <2>2. Decode(heap[converter], event) \in Values \cup {Garbage}
    BY <2>1 DEF Decode
  <2> QED
    BY <1>13, <2>1, <2>2 DEF UpdateValue
<1>14. CASE UpdateVector
  <2>1. event \in Events
    BY <1>14 DEF UpdateVector
  <2>2. Decode(heap[converter], event) \in Values \cup {Garbage}
    BY <2>1 DEF Decode
  <2> QED
    BY <1>14, <2>1, <2>2 DEF UpdateVector
<1>15. CASE UpdateSlot
  BY <1>15 DEF UpdateSlot
<1>16. CASE Connect
  BY <1>16 DEF Connect, Called, Idle
<1>17. CASE SetSlot
  BY <1>17 DEF SetSlot, Called, Idle
<1>18. CASE TakeNotice
  <2>1. notice' \in BOOLEAN
    BY <1>18, Zenon DEF TakeNotice, TypeOK
  <2> QED
    BY <1>18, <2>1 DEF TakeNotice, Idle
<1>19. CASE Get
  BY <1>19 DEF Get, Called, Idle
<1>20. CASE GetVector
  BY <1>20 DEF GetVector
<1>21. CASE Size
  BY <1>21 DEF Size, Called, Idle
<1>22. CASE SizeCount
  BY <1>22 DEF SizeCount
<1>23. CASE GetAllowedValues
  BY <1>23 DEF GetAllowedValues, Called, Idle
<1>24. CASE AllowedValues
  BY <1>24 DEF AllowedValues
<1>25. CASE PutScalar
  BY <1>25 DEF PutScalar, CaPut, Called, Idle
<1>26. CASE TestPutVector
  BY <1>26 DEF TestPutVector, Called, Idle
<1>27. CASE PutVector
  BY <1>27 DEF PutVector, CaPut
<1>28. CASE DestroySave
  BY <1>28 DEF DestroySave, Called, Idle
<1>29. CASE DestroyNull
  BY <1>29 DEF DestroyNull
<1>30. CASE DestroyClear
  <2>1. fresh' \in BOOLEAN
    BY <1>30, Zenon DEF DestroyClear, TypeOK
  <2> QED
    BY <1>30, <2>1 DEF DestroyClear
<1>31. CASE DestroyConverter
  BY <1>31 DEF DestroyConverter, Wild
<1>32. CASE DestroyMutex
  <2>1. alive' \in BOOLEAN
    BY <1>32, Zenon DEF DestroyMutex, TypeOK
  <2> QED
    BY <1>32, <2>1 DEF DestroyMutex
<1>33. CASE Crash
  BY <1>33 DEF Crash, BadAccess, Wild
<1>34. CASE UNCHANGED vars
  BY <1>34 DEF vars
<1> QED
  BY <1>1, <1>2, <1>3, <1>4, <1>5, <1>6, <1>7, <1>8, <1>9, <1>10, <1>11,
      <1>12, <1>13, <1>14, <1>15, <1>16, <1>17, <1>18, <1>19, <1>20, <1>21,
      <1>22, <1>23, <1>24, <1>25, <1>26, <1>27, <1>28, <1>29, <1>30, <1>31,
      <1>32, <1>33, <1>34
  DEF Next, Environment, StateHandler, Update, StartMethod, FinishMethod,
      Destroy

(* The object is there until the destructor has ended.                        *)
LEMMA LifetimeStep ==
  Lifetime /\ [Next]_vars => Lifetime'
<1> SUFFICES ASSUME Lifetime, [Next]_vars PROVE Lifetime'
  OBVIOUS
<1> USE DEF Lifetime, chan, ca, user
<1>1. CASE ConnectionUp
  BY <1>1 DEF ConnectionUp
<1>2. CASE ConnectionDown
  BY <1>2 DEF ConnectionDown
<1>3. CASE DeliverUpdate
  BY <1>3 DEF DeliverUpdate, Events
<1>4. CASE PvChange
  BY <1>4 DEF PvChange
<1>5. CASE PvPut
  BY <1>5 DEF PvPut
<1>6. CASE StateHandlerUp
  BY <1>6 DEF StateHandlerUp
<1>7. CASE UpConvert
  BY <1>7 DEF UpConvert
<1>8. CASE UpSubscribe
  BY <1>8 DEF UpSubscribe, Wild
<1>9. CASE StateHandlerDown
  BY <1>9 DEF StateHandlerDown
<1>10. CASE DownDelete
  BY <1>10 DEF DownDelete, Wild
<1>11. CASE DownNull
  BY <1>11 DEF DownNull
<1>12. CASE UpdateHandler
  BY <1>12 DEF UpdateHandler
<1>13. CASE UpdateValue
  BY <1>13 DEF UpdateValue, Decode, Wild
<1>14. CASE UpdateVector
  BY <1>14 DEF UpdateVector, Decode, Wild
<1>15. CASE UpdateSlot
  BY <1>15 DEF UpdateSlot
<1>16. CASE Connect
  BY <1>16 DEF Connect, Called, Idle
<1>17. CASE SetSlot
  BY <1>17 DEF SetSlot, Called, Idle
<1>18. CASE TakeNotice
  BY <1>18 DEF TakeNotice, Idle
<1>19. CASE Get
  BY <1>19 DEF Get, Called, Idle
<1>20. CASE GetVector
  BY <1>20 DEF GetVector
<1>21. CASE Size
  BY <1>21 DEF Size, Called, Idle
<1>22. CASE SizeCount
  BY <1>22 DEF SizeCount
<1>23. CASE GetAllowedValues
  BY <1>23 DEF GetAllowedValues, Called, Idle
<1>24. CASE AllowedValues
  BY <1>24 DEF AllowedValues
<1>25. CASE PutScalar
  BY <1>25 DEF PutScalar, CaPut, Called, Idle
<1>26. CASE TestPutVector
  BY <1>26 DEF TestPutVector, Called, Idle
<1>27. CASE PutVector
  BY <1>27 DEF PutVector, CaPut
<1>28. CASE DestroySave
  BY <1>28 DEF DestroySave, Called, Idle
<1>29. CASE DestroyNull
  BY <1>29 DEF DestroyNull
<1>30. CASE DestroyClear
  BY <1>30 DEF DestroyClear
<1>31. CASE DestroyConverter
  BY <1>31 DEF DestroyConverter, Wild
<1>32. CASE DestroyMutex
  BY <1>32 DEF DestroyMutex
<1>33. CASE Crash
  BY <1>33 DEF Crash, BadAccess, Wild
<1>34. CASE UNCHANGED vars
  BY <1>34 DEF vars
<1> QED
  BY <1>1, <1>2, <1>3, <1>4, <1>5, <1>6, <1>7, <1>8, <1>9, <1>10, <1>11,
      <1>12, <1>13, <1>14, <1>15, <1>16, <1>17, <1>18, <1>19, <1>20, <1>21,
      <1>22, <1>23, <1>24, <1>25, <1>26, <1>27, <1>28, <1>29, <1>30, <1>31,
      <1>32, <1>33, <1>34
  DEF Next, Environment, StateHandler, Update, StartMethod, FinishMethod,
      Destroy

(* StateHandler hands a coherent state from step to step.                     *)
LEMMA CoherenceStep ==
  TypeOK /\ Coherence /\ [Next]_vars => Coherence'
<1> SUFFICES ASSUME TypeOK, Coherence, [Next]_vars PROVE Coherence'
  OBVIOUS
<1> USE DistinctAssumption DEF TypeOK, Coherence, HandlerState, Disconnected,
      Matched, BeforeDestruction, Destroying, Live, Entering, InMonitor,
      InUpdate, TclPcs, chan, ca, user
<1>1. CASE ConnectionUp
  BY <1>1 DEF ConnectionUp
<1>2. CASE ConnectionDown
  BY <1>2 DEF ConnectionDown
<1>3. CASE DeliverUpdate
  BY <1>3 DEF DeliverUpdate, Events
<1>4. CASE PvChange
  BY <1>4 DEF PvChange
<1>5. CASE PvPut
  BY <1>5 DEF PvPut
<1>6. CASE StateHandlerUp
  BY <1>6 DEF StateHandlerUp
<1>7. CASE UpConvert
  BY <1>7 DEF UpConvert
<1>8. CASE UpSubscribe
  <2>1. CASE established
    BY <1>8, <2>1 DEF UpSubscribe
  <2>2. ASSUME ~established, chid = "open" PROVE Coherence'
    <3>1. converter \in Live /\ established' /\ subscription' = heap[converter]
      BY <1>8, <2>2 DEF UpSubscribe, Wild
    <3> QED
      BY <1>8, <2>2, <3>1 DEF UpSubscribe
  <2>3. ASSUME ~established, chid # "open" PROVE Coherence'
    <3>1. converter \in Live /\ established' /\ subscription' = NULL
      BY <1>8, <2>3 DEF UpSubscribe, Wild
    <3> QED
      BY <1>8, <2>3, <3>1 DEF UpSubscribe
  <2> QED
    BY <2>1, <2>2, <2>3
<1>9. CASE StateHandlerDown
  BY <1>9 DEF StateHandlerDown
<1>10. CASE DownDelete
  BY <1>10 DEF DownDelete, Wild
<1>11. CASE DownNull
  BY <1>11 DEF DownNull
<1>12. CASE UpdateHandler
  BY <1>12 DEF UpdateHandler
<1>13. CASE UpdateValue
  BY <1>13 DEF UpdateValue, Decode, Wild
<1>14. CASE UpdateVector
  BY <1>14 DEF UpdateVector, Decode, Wild
<1>15. CASE UpdateSlot
  BY <1>15 DEF UpdateSlot
<1>16. CASE Connect
  BY <1>16 DEF Connect, Called, Idle
<1>17. CASE SetSlot
  BY <1>17 DEF SetSlot, Called, Idle
<1>18. CASE TakeNotice
  BY <1>18 DEF TakeNotice, Idle
<1>19. CASE Get
  BY <1>19 DEF Get, Called, Idle
<1>20. CASE GetVector
  BY <1>20 DEF GetVector
<1>21. CASE Size
  BY <1>21 DEF Size, Called, Idle
<1>22. CASE SizeCount
  BY <1>22 DEF SizeCount
<1>23. CASE GetAllowedValues
  BY <1>23 DEF GetAllowedValues, Called, Idle
<1>24. CASE AllowedValues
  BY <1>24 DEF AllowedValues
<1>25. CASE PutScalar
  BY <1>25 DEF PutScalar, CaPut, Called, Idle
<1>26. CASE TestPutVector
  BY <1>26 DEF TestPutVector, Called, Idle
<1>27. CASE PutVector
  BY <1>27 DEF PutVector, CaPut
<1>28. CASE DestroySave
  BY <1>28 DEF DestroySave, Called, Idle
<1>29. CASE DestroyNull
  BY <1>29 DEF DestroyNull
<1>30. CASE DestroyClear
  BY <1>30 DEF DestroyClear
<1>31. CASE DestroyConverter
  BY <1>31 DEF DestroyConverter, Wild
<1>32. CASE DestroyMutex
  BY <1>32 DEF DestroyMutex
<1>33. CASE Crash
  BY <1>33 DEF Crash, BadAccess, Wild
<1>34. CASE UNCHANGED vars
  BY <1>34 DEF vars
<1> QED
  BY <1>1, <1>2, <1>3, <1>4, <1>5, <1>6, <1>7, <1>8, <1>9, <1>10, <1>11,
      <1>12, <1>13, <1>14, <1>15, <1>16, <1>17, <1>18, <1>19, <1>20, <1>21,
      <1>22, <1>23, <1>24, <1>25, <1>26, <1>27, <1>28, <1>29, <1>30, <1>31,
      <1>32, <1>33, <1>34
  DEF Next, Environment, StateHandler, Update, StartMethod, FinishMethod,
      Destroy

(* Readings are made from an event of the converter's type.                   *)
LEMMA ReadingsStep ==
  TypeOK /\ Readings /\ [Next]_vars => Readings'
<1> SUFFICES ASSUME TypeOK, Readings, [Next]_vars PROVE Readings'
  OBVIOUS
<1> USE DistinctAssumption DEF TypeOK, Readings, ReadingNotTorn,
      ReadingDecoded, Events, Live, InUpdate, Entering, InMonitor,
      MonitorFree, chan, ca, user
<1>1. CASE ConnectionUp
  BY <1>1 DEF ConnectionUp
<1>2. CASE ConnectionDown
  BY <1>2 DEF ConnectionDown
<1>3. CASE DeliverUpdate
  BY <1>3 DEF DeliverUpdate, Events
<1>4. CASE PvChange
  BY <1>4 DEF PvChange
<1>5. CASE PvPut
  BY <1>5 DEF PvPut
<1>6. CASE StateHandlerUp
  BY <1>6 DEF StateHandlerUp
<1>7. CASE UpConvert
  BY <1>7 DEF UpConvert
<1>8. CASE UpSubscribe
  <2>1. CASE established
    BY <1>8, <2>1 DEF UpSubscribe
  <2>2. ASSUME ~established, chid = "open" PROVE Readings'
    <3>1. converter \in Live /\ established' /\ subscription' = heap[converter]
      BY <1>8, <2>2 DEF UpSubscribe, Wild
    <3> QED
      BY <1>8, <2>2, <3>1 DEF UpSubscribe
  <2>3. ASSUME ~established, chid # "open" PROVE Readings'
    <3>1. converter \in Live /\ established' /\ subscription' = NULL
      BY <1>8, <2>3 DEF UpSubscribe, Wild
    <3> QED
      BY <1>8, <2>3, <3>1 DEF UpSubscribe
  <2> QED
    BY <2>1, <2>2, <2>3
<1>9. CASE StateHandlerDown
  BY <1>9 DEF StateHandlerDown
<1>10. CASE DownDelete
  BY <1>10 DEF DownDelete, Wild
<1>11. CASE DownNull
  BY <1>11 DEF DownNull
<1>12. CASE UpdateHandler
  BY <1>12 DEF UpdateHandler
<1>13. CASE UpdateValue
  <2>1. event \in Events /\ converter \in Live
    BY <1>13 DEF UpdateValue, Wild
  <2>2. event.type = heap[converter] /\ event.normal
    BY <1>13, <2>1 DEF UpdateValue
  <2>3. Decode(heap[converter], event) = event.value
    BY <2>2, Zenon DEF Decode
  <2> QED
    BY <1>13, <2>1, <2>2, <2>3 DEF UpdateValue
<1>14. CASE UpdateVector
  <2>1. event \in Events /\ converter \in Live
    BY <1>14 DEF UpdateVector, Wild
  <2>2. event.type = heap[converter] /\ event.normal
    BY <1>14, <2>1 DEF UpdateVector
  <2>3. Decode(heap[converter], event) = event.value
    BY <2>2, Zenon DEF Decode
  <2> QED
    BY <1>14, <2>1, <2>2, <2>3 DEF UpdateVector
<1>15. CASE UpdateSlot
  BY <1>15 DEF UpdateSlot
<1>16. CASE Connect
  BY <1>16 DEF Connect, Called, Idle
<1>17. CASE SetSlot
  BY <1>17 DEF SetSlot, Called, Idle
<1>18. CASE TakeNotice
  BY <1>18 DEF TakeNotice, Idle
<1>19. CASE Get
  BY <1>19 DEF Get, Called, Idle
<1>20. CASE GetVector
  BY <1>20 DEF GetVector
<1>21. CASE Size
  BY <1>21 DEF Size, Called, Idle
<1>22. CASE SizeCount
  BY <1>22 DEF SizeCount
<1>23. CASE GetAllowedValues
  BY <1>23 DEF GetAllowedValues, Called, Idle
<1>24. CASE AllowedValues
  BY <1>24 DEF AllowedValues
<1>25. CASE PutScalar
  BY <1>25 DEF PutScalar, CaPut, Called, Idle
<1>26. CASE TestPutVector
  BY <1>26 DEF TestPutVector, Called, Idle
<1>27. CASE PutVector
  BY <1>27 DEF PutVector, CaPut
<1>28. CASE DestroySave
  BY <1>28 DEF DestroySave, Called, Idle
<1>29. CASE DestroyNull
  BY <1>29 DEF DestroyNull
<1>30. CASE DestroyClear
  BY <1>30 DEF DestroyClear
<1>31. CASE DestroyConverter
  BY <1>31 DEF DestroyConverter, Wild
<1>32. CASE DestroyMutex
  BY <1>32 DEF DestroyMutex
<1>33. CASE Crash
  BY <1>33 DEF Crash, BadAccess, Wild
<1>34. CASE UNCHANGED vars
  BY <1>34 DEF vars
<1> QED
  BY <1>1, <1>2, <1>3, <1>4, <1>5, <1>6, <1>7, <1>8, <1>9, <1>10, <1>11,
      <1>12, <1>13, <1>14, <1>15, <1>16, <1>17, <1>18, <1>19, <1>20, <1>21,
      <1>22, <1>23, <1>24, <1>25, <1>26, <1>27, <1>28, <1>29, <1>30, <1>31,
      <1>32, <1>33, <1>34
  DEF Next, Environment, StateHandler, Update, StartMethod, FinishMethod,
      Destroy

(* A pointer that is used before the destructor runs is valid, but for the    *)
(* one that getAllowedValues tests without the mutex.                         *)
LEMMA AccessStep ==
  Lifetime /\ Coherence /\ OnlyUnlockedAccessCrashes /\ [Next]_vars
    => OnlyUnlockedAccessCrashes'
<1> SUFFICES ASSUME Lifetime, Coherence, OnlyUnlockedAccessCrashes, [Next]_vars
             PROVE  OnlyUnlockedAccessCrashes'
  OBVIOUS
<1>1. CASE Crash
  <2>1. BeforeDestruction /\ tclPc # "values_deref" => ~BadAccess
    BY DEF Lifetime, Coherence, HandlerState, BadAccess, Wild, Destroying,
      BeforeDestruction
  <2> QED
    BY <1>1, <2>1 DEF Crash, BeforeDestruction, OnlyUnlockedAccessCrashes
<1>2. CASE Running /\ fault' \in {fault, "escaped"}
  BY <1>2 DEF Running, OnlyUnlockedAccessCrashes
<1>3. CASE UNCHANGED vars
  BY <1>3 DEF vars, OnlyUnlockedAccessCrashes
<1>4. Next => Crash \/ (Running /\ fault' \in {fault, "escaped"})
  BY DEF Next, Environment, StateHandler, Update, StartMethod, FinishMethod,
    Destroy, ConnectionUp, ConnectionDown, DeliverUpdate, PvChange, PvPut,
    StateHandlerUp, UpConvert, UpSubscribe, StateHandlerDown, DownDelete,
    DownNull, UpdateHandler, UpdateValue, UpdateVector, UpdateSlot, Connect,
    SetSlot, TakeNotice, Get, GetVector, Size, SizeCount, GetAllowedValues,
    AllowedValues, PutScalar, TestPutVector, PutVector, DestroySave,
    DestroyNull, DestroyClear, DestroyConverter, DestroyMutex, Called, Idle
<1> QED
  BY <1>1, <1>2, <1>3, <1>4

-----------------------------------------------------------------------------
(* The invariant holds in every state of every behaviour. *)

LEMMA InitIInv == Init => IInv
  BY DistinctAssumption
  DEF Init, IInv, TypeOK, TclPcs, Entering, InMonitor, InUpdate, Lifetime,
    Coherence, HandlerState, Disconnected, Matched, Live, Readings,
    ReadingNotTorn, ReadingDecoded, OnlyUnlockedAccessCrashes

(* Every step keeps the invariant.                                            *)
LEMMA NextIInv == IInv /\ [Next]_vars => IInv'
  BY TypeStep, LifetimeStep, CoherenceStep, ReadingsStep, AccessStep DEF IInv

(* The inductive invariant holds.                                             *)
THEOREM Invariance == Spec => []IInv
  BY InitIInv, NextIInv, PTL DEF Spec

(* The types of CChannel's members and of what surrounds it.                  *)
THEOREM TypeCorrect == Spec => []TypeOK
<1>1. IInv => TypeOK
  BY DEF IInv
<1> QED
  BY <1>1, Invariance, PTL

(* Whoever takes the mutex before the destructor runs finds connection,       *)
(* converter and subscription in agreement, however the connection has come   *)
(* and gone (StateHandler).                                                   *)
THEOREM ConnectionCoherent == Spec => []ConnectionStateCoherent
<1>1. IInv => ConnectionStateCoherent
  BY DEF IInv, Coherence, HandlerState, Disconnected, Matched, MonitorFree,
    InMonitor, BeforeDestruction, ConnectionStateCoherent
<1> QED
  BY <1>1, Invariance, PTL

(* Reconnecting leaks no converter (StateHandler).                            *)
THEOREM NoLeak == Spec => []NoConverterLeak
<1>1. IInv => NoConverterLeak
  BY DEF IInv, Coherence, BeforeDestruction, NoConverterLeak
<1> QED
  BY <1>1, Invariance, PTL

(* Scalar and vector are one reading wherever they can be read (Update).      *)
THEOREM NotTorn == Spec => []ReadingNotTorn
<1>1. IInv => ReadingNotTorn
  BY DEF IInv, Readings
<1> QED
  BY <1>1, Invariance, PTL

(* A reading is never made from data of another type than the converter's,    *)
(* nor from an event without data, beside the destructor included (Update).   *)
THEOREM Decoded == Spec => []ReadingDecoded
<1>1. IInv => ReadingDecoded
  BY DEF IInv, Readings
<1> QED
  BY <1>1, Invariance, PTL

(* No locked method and no handler meets an invalid pointer before the        *)
(* destructor runs.                                                           *)
THEOREM AccessesValid == Spec => []OnlyUnlockedAccessCrashes
<1>1. IInv => OnlyUnlockedAccessCrashes
  BY DEF IInv
<1> QED
  BY <1>1, Invariance, PTL

-----------------------------------------------------------------------------
(* The refinement: a channel is a CachedChannel. *)

(* An event with data that is being handled and has not been read yet.        *)
Posted == IF caPc \in {"update_enter", "update_value"} /\ event.normal
          THEN event.value ELSE NoValue

Noticed == notice \/ (slot /\ caPc \in {"update_vector", "update_slot"})

Deleting == tclPc \in Destroying

Seen == <<pv, Posted, value, slot, Noticed, shown, Deleting>>

Kept == Promise!Next \/ UNCHANGED Seen

(* A step of either thread that no command can tell from none.                *)
LEMMA Unseen ==
  ASSUME UNCHANGED <<pv, value, slot, notice, shown>>,
         Deleting' = Deleting,
         \/ UNCHANGED <<caPc, event>>
         \/ {caPc, caPc'} \cap {"update_enter", "update_value",
                                "update_vector", "update_slot"} = {}
  PROVE  Kept
<1>1. Posted' = Posted /\ Noticed' = Noticed
  BY DEF Posted, Noticed
<1> QED
  BY <1>1 DEF Kept, Seen

LEMMA EnvironmentKept ==
  ASSUME IInv, Environment
  PROVE  Kept
<1> USE DEF Deleting, chan, ca, user
<1>1. CASE ConnectionUp
  BY <1>1, Unseen DEF ConnectionUp
<1>2. CASE ConnectionDown
  BY <1>2, Unseen DEF ConnectionDown
<1>3. CASE DeliverUpdate
  <2>1. PICK normal \in BOOLEAN :
          event' = [type |-> subscription, value |-> pv, normal |-> normal]
    BY <1>3 DEF DeliverUpdate
  <2>2. /\ caPc = "idle" /\ caPc' = "update_enter"
        /\ UNCHANGED <<pv, value, slot, notice, shown, tclPc>>
    BY <1>3 DEF DeliverUpdate
  <2>3. /\ Posted = NoValue /\ Posted' = IF normal THEN pv ELSE NoValue
        /\ Noticed' = Noticed
    BY <2>1, <2>2 DEF Posted, Noticed
  <2>4. CASE normal
    <3>1. Promise!Post
      BY <2>2, <2>3, <2>4 DEF Promise!Post, Posted, Noticed
    <3> QED
      BY <3>1 DEF Kept, Promise!Next
  <2>5. CASE ~normal
    BY <2>2, <2>3, <2>5 DEF Kept, Seen
  <2> QED
    BY <2>4, <2>5
<1>4. CASE PvChange \/ PvPut
  <2>1. pv' \in Values
    BY <1>4 DEF PvChange, PvPut, IInv, TypeOK
  <2>2. UNCHANGED <<value, slot, notice, shown, tclPc, caPc, event>>
    BY <1>4 DEF PvChange, PvPut
  <2>3. Promise!Change
    BY <2>1, <2>2 DEF Promise!Change
  <2> QED
    BY <2>3 DEF Kept, Promise!Next
<1> QED
  BY <1>1, <1>2, <1>3, <1>4 DEF Environment

(* The event is read when UpdateValue has made the scalar of it, or, without  *)
(* a converter, not at all; from then on its notification is promised.        *)
LEMMA UpdateKept ==
  ASSUME IInv, Update
  PROVE  Kept
<1> USE DEF Deleting, chan, ca, user
<1>1. CASE UpdateHandler
  <2>1. /\ caPc = "update_enter"
        /\ caPc' = CASE ~event.normal                    -> "idle"
                     [] event.normal /\ converter # NULL -> "update_value"
                     [] event.normal /\ converter = NULL -> "update_slot"
        /\ UNCHANGED <<pv, value, slot, notice, shown, tclPc, event>>
    BY <1>1 DEF UpdateHandler
  <2>2. event \in Events /\ event.normal \in BOOLEAN /\ event.value \in Values
    BY <2>1 DEF IInv, TypeOK, InUpdate, Events
  <2>3. CASE ~event.normal
    <3>1. caPc' = "idle"
      BY <2>1, <2>3
    <3>2. Posted' = Posted /\ Noticed' = Noticed
      BY <2>1, <2>3, <3>1 DEF Posted, Noticed
    <3> QED
      BY <2>1, <3>2 DEF Kept, Seen
  <2>4. CASE event.normal /\ converter # NULL
    <3>1. caPc' = "update_value"
      BY <2>1, <2>4
    <3>2. Posted' = Posted /\ Noticed' = Noticed
      BY <2>1, <2>4, <3>1 DEF Posted, Noticed
    <3> QED
      BY <2>1, <3>2 DEF Kept, Seen
  <2>5. CASE event.normal /\ converter = NULL
    <3>1. caPc' = "update_slot"
      BY <2>1, <2>5
    <3>2. tclPc \in Destroying
      <4>1. HandlerState => connected /\ converter \in Live
        BY <2>1 DEF HandlerState, Matched, InUpdate
      <4> QED
        BY <2>5, <4>1, DistinctAssumption
        DEF IInv, Coherence, BeforeDestruction, Live
    <3>3. Posted = event.value /\ Posted' = NoValue /\ event.value # NoValue
      BY <2>1, <2>2, <2>5, <3>1, DistinctAssumption DEF Posted
    <3>4. Noticed' = (Noticed \/ slot)
      BY <2>1, <3>1 DEF Noticed
    <3>5. Promise!Arrive
      BY <2>1, <3>2, <3>3, <3>4 DEF Promise!Arrive, Posted, Noticed
    <3> QED
      BY <3>5 DEF Kept, Promise!Next
  <2> QED
    BY <2>2, <2>3, <2>4, <2>5
<1>2. CASE UpdateValue
  <2>1. /\ caPc = "update_value" /\ caPc' = "update_vector"
        /\ converter \in Live /\ value' = Decode(heap[converter], event)
        /\ UNCHANGED <<pv, slot, notice, shown, tclPc, event>>
    BY <1>2 DEF UpdateValue, Wild
  <2>2. event.type = heap[converter] /\ event.normal
    BY <2>1 DEF IInv, Readings, InUpdate
  <2>3. event.value \in Values /\ event.value # NoValue
    BY <2>1, DistinctAssumption DEF IInv, TypeOK, InUpdate, Events
  <2>4. value' = event.value
    BY <2>1, <2>2, Zenon DEF Decode
  <2>5. Posted = event.value /\ Posted' = NoValue
    BY <2>1, <2>2 DEF Posted
  <2>6. Noticed' = (Noticed \/ slot)
    BY <2>1 DEF Noticed
  <2>7. Promise!Arrive
    BY <2>1, <2>3, <2>4, <2>5, <2>6 DEF Promise!Arrive, Posted, Noticed
  <2> QED
    BY <2>7 DEF Kept, Promise!Next
<1>3. CASE UpdateVector
  <2>1. /\ caPc = "update_vector" /\ caPc' = "update_slot"
        /\ UNCHANGED <<pv, value, slot, notice, shown, tclPc, event>>
    BY <1>3 DEF UpdateVector
  <2>2. Posted' = Posted /\ Noticed' = Noticed
    BY <2>1 DEF Posted, Noticed
  <2> QED
    BY <2>1, <2>2 DEF Kept, Seen
<1>4. CASE UpdateSlot
  <2>1. /\ caPc = "update_slot" /\ caPc' = "idle" /\ notice' = (notice \/ slot)
        /\ UNCHANGED <<pv, value, slot, shown, tclPc, event>>
    BY <1>4 DEF UpdateSlot
  <2>2. Posted' = Posted /\ Noticed' = Noticed
    BY <2>1 DEF Posted, Noticed
  <2> QED
    BY <2>1, <2>2 DEF Kept, Seen
<1> QED
  BY <1>1, <1>2, <1>3, <1>4 DEF Update

LEMMA StateHandlerKept ==
  ASSUME StateHandler
  PROVE  Kept
<1>1. /\ UNCHANGED <<pv, value, slot, notice, shown, tclPc>>
      /\ caPc \notin {"update_enter", "update_value", "update_vector",
                      "update_slot"}
      /\ caPc' \notin {"update_enter", "update_value", "update_vector",
                       "update_slot"}
  BY DEF StateHandler, StateHandlerUp, UpConvert, UpSubscribe,
    StateHandlerDown, DownDelete, DownNull, chan, ca, user
<1> QED
  BY <1>1, Unseen DEF Deleting

LEMMA CommandKept ==
  ASSUME IInv, StartMethod \/ FinishMethod \/ TakeNotice \/ Destroy
  PROVE  Kept
<1> USE DEF Deleting, Destroying, chan, ca, user
<1>1. CASE SetSlot
  <2>1. /\ caPc \notin {"update_vector", "update_slot"} /\ tclPc = "idle"
        /\ slot' \in BOOLEAN
        /\ UNCHANGED <<pv, value, notice, shown, tclPc, caPc, event>>
    BY <1>1 DEF SetSlot, Called, Idle, MonitorFree, InMonitor
  <2>2. Promise!SetSlot
    BY <2>1 DEF Promise!SetSlot
  <2> QED
    BY <2>2 DEF Kept, Promise!Next
<1>2. CASE TakeNotice
  <2>1. /\ caPc \notin {"update_vector", "update_slot"} /\ tclPc = "idle"
        /\ notice /\ notice' = FALSE /\ shown' = value
        /\ UNCHANGED <<pv, value, slot, tclPc, caPc, event>>
    BY <1>2 DEF TakeNotice, Idle, MonitorFree, InMonitor
  <2>2. Promise!Serve
    BY <2>1 DEF Promise!Serve
  <2> QED
    BY <2>2 DEF Kept, Promise!Next
<1>3. CASE DestroySave
  <2>1. /\ tclPc = "idle" /\ tclPc' = "destroy_null"
        /\ UNCHANGED <<pv, value, slot, notice, shown, caPc, event>>
    BY <1>3 DEF DestroySave, Called, Idle
  <2>2. Promise!Delete
    BY <2>1 DEF Promise!Delete
  <2> QED
    BY <2>2 DEF Kept, Promise!Next
<1>4. CASE Connect \/ Get \/ Size \/ GetAllowedValues \/ PutScalar
             \/ TestPutVector \/ FinishMethod
  <2>1. /\ UNCHANGED <<pv, value, slot, notice, shown, caPc, event>>
        /\ tclPc \notin Destroying /\ tclPc' \notin Destroying
    BY <1>4 DEF Connect, Get, Size, GetAllowedValues, PutScalar, TestPutVector,
      FinishMethod, GetVector, SizeCount, AllowedValues, PutVector, Called, Idle
  <2> QED
    BY <2>1, Unseen
<1>5. CASE DestroyNull \/ DestroyClear \/ DestroyConverter \/ DestroyMutex
  <2>1. /\ UNCHANGED <<pv, value, slot, notice, shown, caPc, event>>
        /\ tclPc \in Destroying /\ tclPc' \in Destroying
    BY <1>5 DEF DestroyNull, DestroyClear, DestroyConverter, DestroyMutex
  <2> QED
    BY <2>1, Unseen
<1> QED
  BY <1>1, <1>2, <1>3, <1>4, <1>5 DEF StartMethod, Destroy

(* A channel behaves as if an event were read and notified in one step,       *)
(* whatever values and types there are and whatever methods are called.       *)
THEOREM PromiseCorrect == Spec => PromiseKept
<1>1. Init => Promise!Init
  BY DEF Init, Promise!Init, Destroying
<1>2. IInv /\ [Next]_vars => [Promise!Next]_(Promise!vars)
  <2> SUFFICES ASSUME IInv, [Next]_vars PROVE Kept
    BY DEF Kept, Seen, Posted, Noticed, Deleting, Promise!vars
  <2>1. CASE Crash \/ UNCHANGED vars
    <3>1. UNCHANGED <<pv, value, slot, notice, shown, caPc, event, tclPc>>
      BY <2>1 DEF Crash, vars, chan, ca, user
    <3> QED
      BY <3>1, Unseen DEF Deleting
  <2> QED
    BY <2>1, EnvironmentKept, UpdateKept, StateHandlerKept, CommandKept DEF Next
<1> QED
  BY <1>1, <1>2, Invariance, PTL DEF Spec, PromiseKept, Promise!Spec
=============================================================================
